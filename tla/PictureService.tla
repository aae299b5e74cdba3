--------------------------- MODULE PictureService ---------------------------
(***************************************************************************)
(* What a layer promises to who asks it for a part of its picture: a call  *)
(* fails only when there is no picture yet, or when the picture is renewed *)
(* while this call, or another one still running, is under way.            *)
(* ObjectLayer, TerrainLayer and AgentLayer implement it.                  *)
(***************************************************************************)
CONSTANT Requests

VARIABLES
  picture,  \* "none", "ready", or "renewing": there is one, not fit to be served
  call,     \* where each call is
  sure      \* calls under way whose picture has not been renewed since they began

vars == <<picture, call, sure>>

Init ==
  /\ picture = "none"
  /\ call = [r \in Requests |-> "idle"]
  /\ sure = {}

\* A call finds no picture, or begins.
Begin(r) ==
  /\ call[r] = "idle"
  /\ call' = [call EXCEPT ![r] = IF picture = "none" THEN "failed" ELSE "running"]
  /\ sure' = IF picture = "ready" THEN sure \union {r} ELSE sure
  /\ UNCHANGED picture

Answer(r) ==
  /\ call[r] = "running"
  /\ call' = [call EXCEPT ![r] = "answered"]
  /\ sure' = sure \ {r}
  /\ UNCHANGED picture

\* Mutant of Fail: a call fails without a cause.
FailAny(r) ==
  /\ call[r] = "running"
  /\ call' = [call EXCEPT ![r] = "failed"]
  /\ sure' = sure \ {r}
  /\ UNCHANGED picture

\* A call that is not sure of its picture fails, or makes a sure one fail.
Fail(r) ==
  /\ call[r] = "running"
  /\ \E q \in Requests : call[q] = "running" /\ q \notin sure
  /\ call' = [call EXCEPT ![r] = "failed"]
  /\ sure' = sure \ {r}
  /\ UNCHANGED picture

\* The box of the picture changes: the calls under way may mix the two.
Disturb ==
  /\ sure' = {}
  /\ UNCHANGED <<picture, call>>

Renew ==
  /\ picture = "ready"
  /\ picture' = "renewing"
  /\ sure' = {}
  /\ UNCHANGED call

Publish ==
  /\ picture # "ready"
  /\ picture' = "ready"
  /\ UNCHANGED <<call, sure>>

\* The first picture is no better than one being renewed.
PublishBlank ==
  /\ picture = "none"
  /\ picture' = "renewing"
  /\ UNCHANGED <<call, sure>>

\* The generation of a picture failed.
Lose ==
  /\ picture = "renewing"
  /\ picture' = "none"
  /\ UNCHANGED <<call, sure>>

Refresh ==
  \/ Disturb
  \/ Renew
  \/ Publish
  \/ PublishBlank
  \/ Lose

Next ==
  \/ \E r \in Requests : Begin(r) \/ Answer(r) \/ Fail(r)
  \/ Refresh

Spec == Init /\ [][Next]_vars
=============================================================================

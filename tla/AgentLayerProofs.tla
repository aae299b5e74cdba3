-------------------------- MODULE AgentLayerProofs --------------------------
(***************************************************************************)
(* The safety properties of AgentLayer hold for any number of regions,     *)
(* avatars and requests, and AgentLayer implements PictureService.         *)
(*                                                                         *)
(* Unlike the terrain layer's, the box of this one grows while the old     *)
(* picture is served, so what an undisturbed request relies on is only     *)
(* that the box has reached over the picture ever since (CacheInv,         *)
(* QuietInv).  What a scan relies on, that no avatar it has met turns up   *)
(* in a region it has still to visit, holds as long as the grid rests      *)
(* (ScanInv).                                                              *)
(***************************************************************************)
EXTENDS AgentLayer, TLAPS

TypeOK ==
  /\ BaseTypeOK
  /\ mon \in {"sleep", "update", "scan", "dispose", "generate", "nullref", "threw"}
  /\ agentList \in SUBSET Avatars
  /\ left \in SUBSET Scenes
  /\ found \in SUBSET Avatars

CacheInv ==
  /\ mon = "generate" => /\ \A b \in Bitmaps : ~image[b].live
                         /\ \A r \in Requests : InFlight(r) => request[r].disturbed
  /\ mon # "generate" =>
       /\ \A b \in Bitmaps : image[b].live => b = imgCache
       /\ imgCache # NULL => /\ image[imgCache].live
                             /\ \/ image[imgCache].region = NoBox
                                \/ image[imgCache].region \subseteq layerRegion
  /\ mon \in {"sleep", "update"} /\ imgCache # NULL => image[imgCache].shows = agentList

\* The scan that runs, or has ended, met each avatar once.
ScanInv ==
  /\ listChanged => moved
  /\ mon = "threw" => moved
  /\ mon \in {"sleep", "update", "dispose", "generate"} => found = {}
  /\ mon = "scan" /\ ~moved => /\ found \intersect agentList = {}
                               /\ \A a \in found \union agentList : where[a] \notin left

QuietInv ==
  \A r \in Requests : InFlight(r) /\ ~request[r].disturbed =>
    /\ imgCache # NULL /\ request[r].obj = imgCache
    /\ request[r].pc \in {"draw", "drawing"} => request[r].region = layerRegion
    /\ request[r].pc = "drawing" => request[r].got = imgCache

LockInv ==
  \A q, r \in Requests, b \in Ref : Holds(q, b) /\ Holds(r, b) => q = r

\* Only disturbed requests have found the bitmap gone.
GoneInv ==
  \A r \in Requests : request[r].pc = "done" /\ ~request[r].disturbed => request[r].out # "gone"

IInv ==
  /\ TypeOK
  /\ CacheInv
  /\ ScanInv
  /\ QuietInv
  /\ LockInv
  /\ GoneInv

LEMMA BoxFacts ==
  /\ NoBox \in Box
  /\ \A B \in SUBSET Scenes : B \in Box /\ B # NoBox
BY NullAssumption DEF NoBox, Box

LEMMA InitIInv == Init => IInv
<1> SUFFICES ASSUME Init PROVE IInv
  OBVIOUS
<1> USE DEF Init, BaseInit
<1>1. NoImage \in Image /\ NewRequest \in Request
  BY BoxFacts DEF NoImage, Image, NewRequest, Request, Ref
<1>2. TypeOK
  BY <1>1, BoxFacts DEF TypeOK, BaseTypeOK, Ref
<1>3. CacheInv /\ ScanInv
  BY DEF CacheInv, ScanInv, NoImage
<1>4. QuietInv /\ LockInv /\ GoneInv
  BY DEF QuietInv, LockInv, GoneInv, InFlight, Holds, NewRequest
<1> QED
  BY <1>2, <1>3, <1>4 DEF IInv

\* What does not touch the bitmaps, the box and the requests is not seen.
LEMMA Unseen ==
  ASSUME UNCHANGED <<layerRegion, imgCache, image, request>>
  PROVE  UNCHANGED Seen!vars
BY DEF Seen!vars, seenPicture, seenCall, seenSure, InFlight

(***************************************************************************)
(* The simulator and the monitor.                                          *)
(***************************************************************************)

\* A step that changes neither the bitmaps, the box nor the requests leaves
\* what it does not touch true.
LEMMA ElsewhereStep ==
  ASSUME IInv, TypeOK', ScanInv', UNCHANGED <<layerRegion, imgCache, image, request>>,
         mon # "generate", mon' # "generate",
         mon' \in {"sleep", "update"} => mon \in {"sleep", "update"} /\ UNCHANGED agentList
  PROVE  IInv' /\ UNCHANGED Seen!vars
<1>1. CacheInv'
  BY DEF IInv, CacheInv, InFlight
<1>2. QuietInv' /\ LockInv' /\ GoneInv'
  BY DEF IInv, QuietInv, LockInv, GoneInv, InFlight, Holds
<1> QED
  BY <1>1, <1>2, Unseen DEF IInv

\* A step that leaves the whole layer alone.
LEMMA SimulatorStep ==
  ASSUME IInv, Construct \/ ChangeScenes \/ Move \/ UNCHANGED vars
         \/ \E f \in FeatureRequests : Features(f)
  PROVE  IInv' /\ UNCHANGED Seen!vars
<1>1. UNCHANGED <<mon, layerRegion, imgCache, image, request, agentList, left, found>>
  BY DEF Construct, ChangeScenes, Move, vars, agentVars, Features, BeginFeatures, EndFeatures,
         baseVars
<1>2. scenes' \in SUBSET Scenes /\ built' \in Nat
  <2>1. scenes \in SUBSET Scenes /\ built \in Nat
    BY DEF IInv, TypeOK, BaseTypeOK
  <2>2. ChangeScenes => scenes' \in SUBSET Scenes /\ built' \in Nat
    BY <2>1 DEF ChangeScenes
  <2>3. ~ChangeScenes => scenes' = scenes /\ (built' = built \/ built' = built + 1)
    BY DEF Construct, Move, vars, Features, BeginFeatures, EndFeatures, baseVars
  <2> QED
    BY <2>1, <2>2, <2>3
<1>3. TypeOK'
  BY <1>1, <1>2 DEF IInv, TypeOK, BaseTypeOK
<1>4. moved' \/ UNCHANGED <<where, listChanged, moved>>
  BY DEF Construct, ChangeScenes, Move, vars, agentVars, Features, BeginFeatures, EndFeatures
<1>5. ScanInv'
  BY <1>1, <1>4 DEF IInv, ScanInv
<1>6. CacheInv'
  BY <1>1 DEF IInv, CacheInv, InFlight
<1>7. QuietInv' /\ LockInv' /\ GoneInv'
  BY <1>1 DEF IInv, QuietInv, LockInv, GoneInv, InFlight, Holds
<1> QED
  BY <1>1, <1>3, <1>5, <1>6, <1>7, Unseen DEF IInv

LEMMA PollStep ==
  ASSUME IInv, Poll
  PROVE  IInv' /\ UNCHANGED Seen!vars
<1>1. /\ UNCHANGED <<scenes, built, layerRegion, imgCache, image, request>>
      /\ UNCHANGED <<where, agentList, left, found, listChanged, moved>>
      /\ mon = "sleep" /\ mon' \in {"nullref", "update", "sleep"}
  BY DEF Poll, agentVars
<1>2. TypeOK' /\ ScanInv'
  BY <1>1 DEF IInv, TypeOK, BaseTypeOK, ScanInv
<1> QED
  BY <1>1, <1>2, ElsewhereStep

LEMMA BeginScanStep ==
  ASSUME IInv, BeginScan
  PROVE  IInv' /\ UNCHANGED Seen!vars
<1>1. /\ UNCHANGED <<scenes, built, layerRegion, imgCache, image, request, where, found>>
      /\ mon = "update" /\ mon' \in {"nullref", "scan"}
      /\ agentList' = {} /\ left' = scenes /\ listChanged' = FALSE /\ moved' = FALSE
  BY DEF BeginScan
<1>2. TypeOK' /\ ScanInv'
  BY <1>1 DEF IInv, TypeOK, BaseTypeOK, ScanInv
<1> QED
  BY <1>1, <1>2, ElsewhereStep

\* While the grid rests, the avatar that is added was not met before.
LEMMA AddAgentStep ==
  ASSUME IInv, AddAgent
  PROVE  IInv' /\ UNCHANGED Seen!vars
<1>1. /\ UNCHANGED <<scenes, built, layerRegion, imgCache, image, request>>
      /\ UNCHANGED <<where, left, listChanged, moved>> /\ mon = "scan"
  BY DEF AddAgent
<1>2. PICK a \in found :
        \/ /\ a \notin agentList
           /\ agentList' = agentList \union {a}
           /\ found' = found \ {a}
           /\ UNCHANGED mon
        \/ /\ a \in agentList
           /\ mon' = "threw"
           /\ UNCHANGED <<agentList, found>>
  BY DEF AddAgent
<1>3. TypeOK'
  BY <1>1, <1>2 DEF IInv, TypeOK, BaseTypeOK
<1>4. ScanInv'
  BY <1>1, <1>2 DEF IInv, ScanInv
<1> QED
  BY <1>1, <1>2, <1>3, <1>4, ElsewhereStep

LEMMA EndScanStep ==
  ASSUME IInv, ScanThrows \/ EndScan
  PROVE  IInv' /\ UNCHANGED Seen!vars
<1>1. /\ UNCHANGED <<scenes, built, layerRegion, imgCache, image, request>>
      /\ UNCHANGED <<where, agentList, left, found, listChanged, moved>>
      /\ mon = "scan" /\ found = {}
      /\ (mon' = "threw" /\ listChanged) \/ mon' = "dispose"
  BY DEF ScanThrows, EndScan, agentVars
<1>2. TypeOK' /\ ScanInv'
  BY <1>1 DEF IInv, TypeOK, BaseTypeOK, ScanInv
<1> QED
  BY <1>1, <1>2, ElsewhereStep

\* What Disturb does to the requests.
LEMMA Disturbed ==
  ASSUME TypeOK, Disturb
  PROVE  /\ request' \in [Requests -> Request]
         /\ \A r \in Requests :
              /\ request'[r].pc = request[r].pc /\ request'[r].obj = request[r].obj
              /\ request'[r].out = request[r].out
              /\ InFlight(r)' = InFlight(r)
              /\ InFlight(r) => request'[r].disturbed
              /\ ~InFlight(r) => request'[r] = request[r]
<1>1. \A r \in Requests : request[r] \in Request
  BY DEF TypeOK, BaseTypeOK
<1>2. \A r \in Requests : \A d \in BOOLEAN : [request[r] EXCEPT !.disturbed = d] \in Request
  BY <1>1 DEF Request
<1>3. \A r \in Requests : (InFlight(r) \/ request[r].disturbed) \in BOOLEAN
  OBVIOUS
<1>4. request' \in [Requests -> Request]
  BY <1>2, <1>3 DEF Disturb
<1> QED
  BY <1>1, <1>4 DEF Disturb, InFlight, Request

\* The box grows over a region: each running request is disturbed.
LEMMA ScanRegionStep ==
  ASSUME IInv, ScanRegion
  PROVE  IInv' /\ [Seen!Next]_Seen!vars
<1>1. /\ UNCHANGED <<scenes, built, mon, imgCache, image>>
      /\ UNCHANGED <<where, agentList, listChanged, moved>> /\ mon = "scan"
  BY DEF ScanRegion
<1>2. PICK s \in left :
        /\ layerRegion' = (IF layerRegion = NoBox THEN {} ELSE layerRegion) \union {s}
        /\ IF layerRegion' = layerRegion THEN UNCHANGED request ELSE Disturb
        /\ left' = left \ {s}
        /\ found' = {a \in Avatars : where[a] = s}
        /\ found = {}
  BY DEF ScanRegion
<1>3. layerRegion' \in SUBSET Scenes /\ left' \in SUBSET Scenes /\ found' \in SUBSET Avatars
  BY <1>2 DEF IInv, TypeOK, BaseTypeOK, Box
<1>4. layerRegion' # NoBox /\ layerRegion' \in Box
  BY <1>3, BoxFacts
<1>5. ScanInv'
  BY <1>1, <1>2 DEF IInv, ScanInv
<1>6. CASE layerRegion' = layerRegion
  <2>1. TypeOK'
    BY <1>1, <1>2, <1>3, <1>6 DEF IInv, TypeOK, BaseTypeOK
  <2> QED
    BY <1>1, <1>2, <1>5, <1>6, <2>1, ElsewhereStep
<1>7. CASE layerRegion' # layerRegion
  <2>1. /\ request' \in [Requests -> Request]
        /\ \A r \in Requests :
             /\ request'[r].pc = request[r].pc /\ request'[r].obj = request[r].obj
             /\ request'[r].out = request[r].out
             /\ InFlight(r)' = InFlight(r)
             /\ InFlight(r) => request'[r].disturbed
             /\ ~InFlight(r) => request'[r] = request[r]
    BY <1>2, <1>7, Disturbed DEF IInv
  <2>2. TypeOK'
    BY <1>1, <1>3, <1>4, <2>1 DEF IInv, TypeOK, BaseTypeOK
  <2>3. CacheInv'
    <3>6. \A b \in Bitmaps : image[b].live => b = imgCache
      BY <1>1 DEF IInv, CacheInv
    <3>1. imgCache # NULL =>
            /\ image[imgCache].live
            /\ image[imgCache].region = NoBox \/ image[imgCache].region \subseteq layerRegion
      BY <1>1 DEF IInv, CacheInv
    <3>2. layerRegion # NoBox => layerRegion \subseteq layerRegion'
      BY <1>2
    <3>3. layerRegion = NoBox => \A B \in Box : B \subseteq layerRegion => B = NoBox \/ B = {}
      BY DEF NoBox
    <3>4. imgCache # NULL => image[imgCache].region \in Box
      BY DEF IInv, TypeOK, BaseTypeOK, Ref, Image
    <3>5. imgCache # NULL =>
            image[imgCache].region = NoBox \/ image[imgCache].region \subseteq layerRegion'
      BY <3>1, <3>2, <3>3, <3>4
    <3> QED
      BY <1>1, <3>1, <3>5, <3>6 DEF CacheInv
  <2>4. QuietInv' /\ LockInv' /\ GoneInv'
    BY <2>1 DEF IInv, QuietInv, LockInv, GoneInv, InFlight, Holds
  <2>5. seenCall' = seenCall
    BY <2>1 DEF seenCall
  <2>6. seenSure' = {}
    BY <2>1 DEF seenSure
  <2>7. CASE layerRegion # NoBox \/ imgCache = NULL
    <3>1. seenPicture' = seenPicture
      BY <1>1, <1>4, <2>7 DEF seenPicture
    <3> QED
      BY <2>5, <2>6, <3>1, <1>5, <2>2, <2>3, <2>4
         DEF IInv, Seen!Disturb, Seen!Refresh, Seen!Next
  <2>8. CASE layerRegion = NoBox /\ imgCache # NULL
    <3>1. seenPicture = "renewing" /\ seenSure = {}
      BY <2>8 DEF seenPicture, seenSure
    <3>2. seenPicture' = "ready"
      BY <1>1, <1>4, <2>8 DEF seenPicture, IInv, CacheInv
    <3> QED
      BY <2>5, <2>6, <3>1, <3>2, <1>5, <2>2, <2>3, <2>4
         DEF IInv, Seen!Publish, Seen!Refresh, Seen!Next
  <2> QED
    BY <2>7, <2>8
<1> QED
  BY <1>6, <1>7

\* The disposal renews the picture, if there is one that can be served.
LEMMA MonitorDisposeStep ==
  ASSUME IInv, MonitorDispose, UNCHANGED agentVars
  PROVE  IInv' /\ [Seen!Next]_Seen!vars
<1>1. UNCHANGED <<scenes, built, layerRegion, imgCache>>
      /\ UNCHANGED <<where, agentList, left, found, listChanged, moved>>
  BY DEF MonitorDispose, agentVars
<1>2. mon = "dispose" /\ mon' = "generate"
  BY DEF MonitorDispose
<1>3. image' \in [Bitmaps -> Image]
  BY BoxFacts DEF MonitorDispose, IInv, TypeOK, BaseTypeOK, NoImage, Image
<1>4. \A b \in Bitmaps : ~image'[b].live
  BY <1>2 DEF MonitorDispose, IInv, CacheInv, NoImage
<1>5. /\ request' \in [Requests -> Request]
      /\ \A r \in Requests :
           /\ request'[r].pc = request[r].pc /\ request'[r].obj = request[r].obj
           /\ request'[r].out = request[r].out
           /\ InFlight(r)' = InFlight(r)
           /\ InFlight(r) => request'[r].disturbed
           /\ ~InFlight(r) => request'[r] = request[r]
  BY Disturbed DEF MonitorDispose, IInv
<1>6. TypeOK' /\ ScanInv'
  BY <1>1, <1>2, <1>3, <1>5 DEF IInv, TypeOK, BaseTypeOK, ScanInv
<1>7. CacheInv'
  BY <1>2, <1>4, <1>5 DEF CacheInv
<1>8. QuietInv' /\ LockInv' /\ GoneInv'
  BY <1>5 DEF IInv, QuietInv, LockInv, GoneInv, InFlight, Holds
<1>9. seenCall' = seenCall
  BY <1>5 DEF seenCall
<1>10. seenSure' = {}
  BY <1>5 DEF seenSure
<1>11. CASE imgCache = NULL \/ layerRegion = NoBox
  <2>1. seenSure = {}
    BY <1>11 DEF IInv, QuietInv, seenSure
  <2>2. seenPicture' = seenPicture
    BY <1>1, <1>11 DEF seenPicture
  <2> QED
    BY <1>6, <1>7, <1>8, <1>9, <1>10, <2>1, <2>2 DEF IInv, Seen!vars
<1>12. CASE imgCache # NULL /\ layerRegion # NoBox
  <2>1. imgCache \in Bitmaps
    BY <1>12 DEF IInv, TypeOK, BaseTypeOK, Ref
  <2>2. seenPicture = "ready"
    BY <1>2, <1>12 DEF IInv, CacheInv, seenPicture
  <2>3. seenPicture' = "renewing"
    BY <1>1, <1>4, <1>12, <2>1 DEF seenPicture
  <2>4. Seen!Renew
    BY <1>9, <1>10, <2>2, <2>3 DEF Seen!Renew
  <2> QED
    BY <1>6, <1>7, <1>8, <2>4 DEF IInv, Seen!Next, Seen!Refresh
<1> QED
  BY <1>11, <1>12

\* A picture is published, or, when no region was ever met, a blank one.
LEMMA GenerateCacheBitmapStep ==
  ASSUME IInv, GenerateCacheBitmap
  PROVE  IInv' /\ [Seen!Next]_Seen!vars
<1>1. UNCHANGED <<scenes, built, layerRegion, request>>
      /\ UNCHANGED <<where, agentList, left, found, listChanged, moved>>
  BY DEF GenerateCacheBitmap, agentVars
<1>2. mon = "generate" /\ mon' = "sleep"
  BY DEF GenerateCacheBitmap
<1>3. PICK b \in Bitmaps :
        /\ image' = [image EXCEPT ![b] = [live |-> TRUE, shows |-> agentList, region |-> layerRegion]]
        /\ imgCache' = b
  BY DEF GenerateCacheBitmap, PublishImage
<1>4. b # NULL /\ image \in [Bitmaps -> Image]
  BY NullAssumption DEF IInv, TypeOK, BaseTypeOK
<1>5. TypeOK'
  <2>1. [live |-> TRUE, shows |-> agentList, region |-> layerRegion] \in Image
    BY DEF IInv, TypeOK, BaseTypeOK, Image, Avatars
  <2>2. image' \in [Bitmaps -> Image] /\ imgCache' \in Ref
    BY <1>3, <1>4, <2>1 DEF Ref
  <2> QED
    BY <1>1, <1>2, <2>2 DEF IInv, TypeOK, BaseTypeOK
<1>6. /\ \A c \in Bitmaps : ~image[c].live
      /\ \A r \in Requests : InFlight(r) => request[r].disturbed
  BY <1>2 DEF IInv, CacheInv
<1>7. /\ image'[b].live /\ image'[b].region = layerRegion /\ image'[b].shows = agentList
      /\ \A c \in Bitmaps : image'[c].live => c = b
  BY <1>3, <1>4, <1>6
<1>8. CacheInv' /\ ScanInv'
  BY <1>1, <1>2, <1>3, <1>7 DEF IInv, CacheInv, ScanInv
<1>9. QuietInv' /\ LockInv' /\ GoneInv'
  BY <1>1, <1>6 DEF IInv, QuietInv, LockInv, GoneInv, InFlight, Holds
<1>10. seenCall' = seenCall /\ seenSure' = seenSure
  BY <1>1 DEF seenCall, seenSure, InFlight
<1>11. imgCache # NULL => ~image[imgCache].live
  BY <1>6 DEF IInv, TypeOK, BaseTypeOK, Ref
<1>12. CASE layerRegion # NoBox
  <2>1. seenPicture' = "ready" /\ seenPicture # "ready"
    BY <1>1, <1>3, <1>4, <1>7, <1>11, <1>12 DEF seenPicture
  <2> QED
    BY <1>5, <1>8, <1>9, <1>10, <2>1 DEF IInv, Seen!Publish, Seen!Next, Seen!Refresh
<1>13. CASE layerRegion = NoBox
  <2>1. seenPicture' = "renewing" /\ seenPicture \in {"none", "renewing"}
    BY <1>1, <1>3, <1>4, <1>13 DEF seenPicture
  <2> QED
    BY <1>5, <1>8, <1>9, <1>10, <2>1
       DEF IInv, Seen!PublishBlank, Seen!Next, Seen!Refresh, Seen!vars
<1> QED
  BY <1>12, <1>13

(***************************************************************************)
(* Requests.                                                               *)
(***************************************************************************)

\* What a request's steps have in common: they change nothing but that
\* request's record.
LEMMA RequestOnly ==
  ASSUME IInv, NEW r \in Requests, NEW new \in Request,
         UNCHANGED <<scenes, built, mon, layerRegion, imgCache, image, agentVars>>,
         request' = [request EXCEPT ![r] = new],
         new.pc \notin {"idle", "done"} =>
           /\ mon = "generate" => new.disturbed
           /\ ~new.disturbed =>
                /\ imgCache # NULL /\ new.obj = imgCache
                /\ new.pc \in {"draw", "drawing"} => new.region = layerRegion
                /\ new.pc = "drawing" => new.got = imgCache,
         new.pc \in {"size", "region", "draw", "drawing"} =>
           \A q \in Requests \ {r} : ~Holds(q, new.obj),
         new.pc = "done" /\ ~new.disturbed => new.out # "gone"
  PROVE  IInv'
<1>1. request \in [Requests -> Request]
  BY DEF IInv, TypeOK, BaseTypeOK
<1>2. request'[r] = new /\ \A q \in Requests : q # r => request'[q] = request[q]
  BY <1>1
<1>3. TypeOK'
  BY <1>1 DEF IInv, TypeOK, BaseTypeOK, agentVars
<1>4. CacheInv'
  BY <1>2 DEF IInv, CacheInv, InFlight, agentVars
<1>5. QuietInv'
  BY <1>2 DEF IInv, QuietInv, InFlight
<1>6. LockInv'
  BY <1>2 DEF IInv, LockInv, Holds
<1>7. GoneInv'
  BY <1>2 DEF IInv, GoneInv
<1>8. ScanInv'
  BY DEF IInv, ScanInv, agentVars
<1> QED
  BY <1>3, <1>4, <1>5, <1>6, <1>7, <1>8 DEF IInv

\* A finished request is well-formed and holds nothing.
LEMMA FinishStep ==
  ASSUME IInv, NEW r \in Requests, NEW placed \in BOOLEAN,
         NEW outcome \in {"ok", "nocache", "gone", "busy", "noregion"},
         UNCHANGED <<scenes, built, mon, layerRegion, imgCache, image, agentVars>>,
         Finish(r, outcome, placed),
         ~request[r].disturbed => outcome # "gone"
  PROVE  /\ IInv'
         /\ seenPicture' = seenPicture
         /\ seenCall' = [seenCall EXCEPT ![r] = IF outcome = "ok" THEN "answered" ELSE "failed"]
         /\ seenSure' = seenSure \ {r}
<1> DEFINE new == [request[r] EXCEPT !.pc = "done", !.obj = NULL, !.got = NULL,
                                     !.region = NoBox, !.out = outcome, !.placed = placed]
<1>1. request[r] \in Request /\ request \in [Requests -> Request]
  BY DEF IInv, TypeOK, BaseTypeOK
<1>2. new \in Request
  BY <1>1, BoxFacts DEF Request, Ref
<1>3. new.pc = "done" /\ new.disturbed = request[r].disturbed
      /\ new.out = outcome /\ new.placed = placed
  BY <1>1 DEF Request
<1>4. request' = [request EXCEPT ![r] = new]
  BY DEF Finish
<1> HIDE DEF new
<1>5. IInv'
  BY <1>2, <1>3, <1>4, RequestOnly
<1>6. /\ request'[r].pc = "done" /\ request'[r].out = outcome
      /\ \A q \in Requests : q # r => request'[q] = request[q]
  BY <1>1, <1>3, <1>4
<1>7. seenPicture' = seenPicture
  BY DEF seenPicture
<1>8. seenCall' = [seenCall EXCEPT ![r] = IF outcome = "ok" THEN "answered" ELSE "failed"]
  BY <1>6 DEF seenCall, InFlight
<1>9. seenSure' = seenSure \ {r}
  BY <1>6 DEF seenSure, InFlight
<1> QED
  BY <1>5, <1>7, <1>8, <1>9

\* A request fails when it, or another one still running, was disturbed.
LEMMA FailStep ==
  ASSUME IInv, NEW r \in Requests, NEW q \in Requests,
         NEW outcome \in {"gone", "busy"},
         UNCHANGED <<scenes, built, mon, layerRegion, imgCache, image, agentVars>>,
         InFlight(r), InFlight(q), request[q].disturbed, Finish(r, outcome, FALSE),
         outcome = "gone" => q = r
  PROVE  IInv' /\ Seen!Next
<1>1. /\ IInv'
      /\ seenPicture' = seenPicture
      /\ seenCall' = [seenCall EXCEPT ![r] = "failed"]
      /\ seenSure' = seenSure \ {r}
  BY FinishStep
<1>2. seenCall[r] = "running" /\ seenCall[q] = "running" /\ q \notin seenSure
  BY DEF seenCall, seenSure, InFlight
<1>3. Seen!Fail(r)
  BY <1>1, <1>2 DEF Seen!Fail
<1> QED
  BY <1>1, <1>3 DEF Seen!Next

\* A bitmap that is gone is only found by a disturbed request.
LEMMA GoneStep ==
  ASSUME IInv, NEW r \in Requests,
         UNCHANGED <<scenes, built, mon, layerRegion, imgCache, image, agentVars>>,
         InFlight(r), CacheGone, Finish(r, "gone", FALSE)
  PROVE  IInv' /\ Seen!Next
<1>1. request[r].disturbed
  BY DEF IInv, QuietInv, CacheInv, CacheGone
<1> QED
  BY <1>1, FailStep

\* GDI+ is busy only when one of the two requests was disturbed: the lock of
\* the cached bitmap keeps undisturbed ones apart.
LEMMA BusyStep ==
  ASSUME IInv, NEW r \in Requests,
         UNCHANGED <<scenes, built, mon, layerRegion, imgCache, image, agentVars>>,
         request[r].pc \in {"size", "draw"}, Busy(r), Finish(r, "busy", FALSE)
  PROVE  IInv' /\ Seen!Next
<1>1. PICK q \in Requests \ {r} : request[q].pc = "drawing"
  BY DEF Busy
<1>2. InFlight(r) /\ InFlight(q)
  BY <1>1 DEF InFlight
<1>3. request[r].disturbed \/ request[q].disturbed
  <2> SUFFICES ASSUME ~request[r].disturbed, ~request[q].disturbed PROVE FALSE
    OBVIOUS
  <2>1. request[r].obj = imgCache /\ request[q].obj = imgCache /\ imgCache \in Ref
    BY <1>2 DEF IInv, QuietInv, TypeOK, BaseTypeOK
  <2> QED
    BY <1>1, <2>1 DEF IInv, LockInv, Holds
<1> QED
  BY <1>2, <1>3, FailStep

\* A step within a request: its lock and its mark stay as they are.
LEMMA WithinStep ==
  ASSUME IInv, NEW r \in Requests, NEW new \in Request, InFlight(r),
         UNCHANGED <<scenes, built, mon, layerRegion, imgCache, image, agentVars>>,
         request' = [request EXCEPT ![r] = new],
         new.pc \in {"size", "region", "draw", "drawing"},
         new.obj = request[r].obj, new.disturbed = request[r].disturbed, new.out = request[r].out,
         ~new.disturbed =>
           /\ new.pc \in {"draw", "drawing"} => new.region = layerRegion
           /\ new.pc = "drawing" => new.got = imgCache,
         \A q \in Requests \ {r} : ~Holds(q, new.obj)
  PROVE  IInv' /\ UNCHANGED Seen!vars
<1>1. mon = "generate" => new.disturbed
  BY DEF IInv, CacheInv
<1>2. ~new.disturbed => imgCache # NULL /\ new.obj = imgCache
  BY DEF IInv, QuietInv
<1>3. IInv'
  BY <1>1, <1>2, RequestOnly
<1>4. /\ request'[r] = new
      /\ \A q \in Requests : q # r => request'[q] = request[q]
  BY DEF IInv, TypeOK, BaseTypeOK
<1>5. \A q \in Requests : InFlight(q)' = InFlight(q)
  BY <1>4 DEF InFlight
<1>6. seenPicture' = seenPicture
  BY DEF seenPicture
<1>7. seenCall' = seenCall
  BY <1>4, <1>5 DEF seenCall, InFlight
<1>8. seenSure' = seenSure
  BY <1>4, <1>5 DEF seenSure
<1> QED
  BY <1>3, <1>6, <1>7, <1>8 DEF Seen!vars

LEMMA ReadCacheStep ==
  ASSUME IInv, NEW r \in Requests, ReadCache(r, Len(CtorOrder)), UNCHANGED agentVars
  PROVE  IInv' /\ Seen!Next
<1>1. /\ UNCHANGED <<scenes, built, mon, layerRegion, imgCache, image, agentVars>>
      /\ request[r].pc = "idle"
  BY DEF ReadCache
<1>2. seenCall[r] = "idle" /\ r \notin seenSure /\ seenPicture' = seenPicture
  BY <1>1 DEF seenCall, seenSure, InFlight, seenPicture
<1>3. CASE imgCache = NULL
  <2>1. Finish(r, "nocache", FALSE) /\ seenPicture = "none"
    BY <1>3 DEF ReadCache, seenPicture
  <2>2. IInv' /\ seenCall' = [seenCall EXCEPT ![r] = "failed"] /\ seenSure' = seenSure \ {r}
    BY <1>1, <2>1, FinishStep
  <2>3. Seen!Begin(r)
    BY <1>2, <2>1, <2>2 DEF Seen!Begin
  <2> QED
    BY <2>2, <2>3 DEF Seen!Next
<1>4. CASE imgCache # NULL
  <2> DEFINE new == [request[r] EXCEPT !.pc = "wait", !.obj = imgCache,
                                       !.disturbed = ~image[imgCache].live]
  <2>1. /\ request[r] \in Request /\ request \in [Requests -> Request]
        /\ imgCache \in Bitmaps
    BY <1>4 DEF IInv, TypeOK, BaseTypeOK, Ref
  <2>2. new \in Request
    BY <2>1 DEF Request, Ref
  <2>3. new.pc = "wait" /\ new.obj = imgCache /\ new.disturbed = ~image[imgCache].live
       /\ new.out = request[r].out
    BY <2>1 DEF Request
  <2>4. request' = [request EXCEPT ![r] = new]
    BY <1>4 DEF ReadCache
  <2>5. mon = "generate" => ~image[imgCache].live
    BY <2>1 DEF IInv, CacheInv
  <2> HIDE DEF new
  <2>6. IInv'
    BY <1>1, <1>4, <2>1, <2>2, <2>3, <2>4, <2>5, RequestOnly
  <2>7. /\ request'[r] = new
        /\ \A q \in Requests : q # r => request'[q] = request[q]
    BY <2>1, <2>4
  <2>8. seenPicture = IF image[imgCache].live /\ layerRegion # NoBox THEN "ready" ELSE "renewing"
    BY <1>4 DEF seenPicture
  <2>9. seenCall' = [seenCall EXCEPT ![r] = "running"]
    BY <2>3, <2>7 DEF seenCall, InFlight
  <2>10. seenSure' = IF image[imgCache].live /\ layerRegion # NoBox THEN seenSure \union {r} ELSE seenSure
    BY <1>1, <1>2, <2>1, <2>3, <2>7 DEF seenSure, InFlight
  <2>11. Seen!Begin(r)
    BY <1>2, <2>8, <2>9, <2>10 DEF Seen!Begin
  <2> QED
    BY <2>6, <2>11 DEF Seen!Next
<1> QED
  BY <1>3, <1>4

LEMMA AcquireLockStep ==
  ASSUME IInv, NEW r \in Requests, AcquireLock(r), UNCHANGED agentVars
  PROVE  IInv' /\ UNCHANGED Seen!vars
<1> DEFINE new == [request[r] EXCEPT !.pc = "size"]
<1>1. UNCHANGED <<scenes, built, mon, layerRegion, imgCache, image, agentVars>>
  BY DEF AcquireLock
<1>2. request[r] \in Request
  BY DEF IInv, TypeOK, BaseTypeOK
<1>3. new \in Request
  BY <1>2 DEF Request
<1>4. new.pc = "size" /\ new.obj = request[r].obj /\ new.disturbed = request[r].disturbed
      /\ new.out = request[r].out
  BY <1>2 DEF Request
<1>5. request' = [request EXCEPT ![r] = new] /\ InFlight(r)
  BY DEF AcquireLock, InFlight
<1>6. \A q \in Requests : ~Holds(q, new.obj)
  BY <1>4 DEF AcquireLock
<1> HIDE DEF new
<1> QED
  BY <1>1, <1>3, <1>4, <1>5, <1>6, WithinStep

\* A request that holds a lock goes on holding it, and so excludes the others.
LEMMA HeldAlone ==
  ASSUME IInv, NEW r \in Requests, request[r].pc \in {"size", "region", "draw", "drawing"}
  PROVE  \A q \in Requests \ {r} : ~Holds(q, request[r].obj)
<1> SUFFICES ASSUME NEW q \in Requests, q # r, Holds(q, request[r].obj) PROVE FALSE
  OBVIOUS
<1>1. request[r].obj \in Ref
  BY DEF IInv, TypeOK, BaseTypeOK, Request
<1> QED
  BY <1>1 DEF IInv, LockInv, Holds

LEMMA ReadSizeStep ==
  ASSUME IInv, NEW r \in Requests, ReadSize(r), UNCHANGED agentVars
  PROVE  IInv' /\ [Seen!Next]_Seen!vars
<1> DEFINE new == [request[r] EXCEPT !.pc = "region"]
<1>1. UNCHANGED <<scenes, built, mon, layerRegion, imgCache, image, agentVars>>
  BY DEF ReadSize
<1>2. request[r] \in Request
  BY DEF IInv, TypeOK, BaseTypeOK
<1>3. request[r].pc = "size" /\ InFlight(r)
  BY DEF ReadSize, InFlight
<1>4. CASE CacheGone /\ Finish(r, "gone", FALSE)
  BY <1>1, <1>3, <1>4, GoneStep
<1>5. CASE Busy(r) /\ Finish(r, "busy", FALSE)
  BY <1>1, <1>3, <1>5, BusyStep
<1>6. CASE request' = [request EXCEPT ![r].pc = "region"]
  <2>1. new \in Request
    BY <1>2 DEF Request
  <2>2. new.pc = "region" /\ new.obj = request[r].obj /\ new.disturbed = request[r].disturbed
        /\ new.out = request[r].out
    BY <1>2 DEF Request
  <2>3. request' = [request EXCEPT ![r] = new]
    BY <1>6
  <2>4. \A q \in Requests \ {r} : ~Holds(q, new.obj)
    BY <1>3, <2>2, HeldAlone
  <2> HIDE DEF new
  <2> QED
    BY <1>1, <1>3, <2>1, <2>2, <2>3, <2>4, WithinStep
<1> QED
  BY <1>4, <1>5, <1>6 DEF ReadSize

\* A picture that was drawn without a box fails who asks for a part of it.
LEMMA ReadRegionStep ==
  ASSUME IInv, NEW r \in Requests, ReadRegion(r), UNCHANGED agentVars
  PROVE  IInv' /\ [Seen!Next]_Seen!vars
<1> DEFINE new == [request[r] EXCEPT !.pc = "draw", !.region = layerRegion]
<1>1. UNCHANGED <<scenes, built, mon, layerRegion, imgCache, image, agentVars>>
  BY DEF ReadRegion
<1>2. request[r] \in Request /\ layerRegion \in Box
  BY DEF IInv, TypeOK, BaseTypeOK
<1>3. request[r].pc = "region" /\ InFlight(r)
  BY DEF ReadRegion, InFlight
<1>4. CASE layerRegion = NoBox /\ Finish(r, "noregion", FALSE)
  <2>1. /\ IInv' /\ seenPicture' = seenPicture
        /\ seenCall' = [seenCall EXCEPT ![r] = "failed"] /\ seenSure' = seenSure \ {r}
    BY <1>1, <1>4, FinishStep
  <2>2. seenCall[r] = "running" /\ r \notin seenSure
    BY <1>3, <1>4 DEF seenCall, seenSure, InFlight
  <2>3. Seen!Fail(r)
    BY <2>1, <2>2 DEF Seen!Fail
  <2> QED
    BY <2>1, <2>3 DEF Seen!Next
<1>5. CASE request' = [request EXCEPT ![r].pc = "draw", ![r].region = layerRegion]
  <2>1. new \in Request
    BY <1>2 DEF Request
  <2>2. /\ new.pc = "draw" /\ new.region = layerRegion
        /\ new.obj = request[r].obj /\ new.disturbed = request[r].disturbed
        /\ new.out = request[r].out
    BY <1>2 DEF Request
  <2>3. request' = [request EXCEPT ![r] = new]
    BY <1>5
  <2>4. \A q \in Requests \ {r} : ~Holds(q, new.obj)
    BY <1>3, <2>2, HeldAlone
  <2> HIDE DEF new
  <2> QED
    BY <1>1, <1>3, <2>1, <2>2, <2>3, <2>4, WithinStep
<1> QED
  BY <1>4, <1>5 DEF ReadRegion

LEMMA BeginDrawStep ==
  ASSUME IInv, NEW r \in Requests, BeginDraw(r), UNCHANGED agentVars
  PROVE  IInv' /\ [Seen!Next]_Seen!vars
<1> DEFINE new == [request[r] EXCEPT !.pc = "drawing", !.got = imgCache]
<1>1. UNCHANGED <<scenes, built, mon, layerRegion, imgCache, image, agentVars>>
  BY DEF BeginDraw
<1>2. request[r] \in Request /\ imgCache \in Ref
  BY DEF IInv, TypeOK, BaseTypeOK
<1>3. request[r].pc = "draw" /\ InFlight(r)
  BY DEF BeginDraw, InFlight
<1>4. CASE CacheGone /\ Finish(r, "gone", FALSE)
  BY <1>1, <1>3, <1>4, GoneStep
<1>5. CASE Busy(r) /\ Finish(r, "busy", FALSE)
  BY <1>1, <1>3, <1>5, BusyStep
<1>6. CASE request' = [request EXCEPT ![r].pc = "drawing", ![r].got = imgCache]
  <2>1. new \in Request
    BY <1>2 DEF Request
  <2>2. /\ new.pc = "drawing" /\ new.got = imgCache /\ new.region = request[r].region
        /\ new.obj = request[r].obj /\ new.disturbed = request[r].disturbed
        /\ new.out = request[r].out
    BY <1>2 DEF Request
  <2>3. request' = [request EXCEPT ![r] = new]
    BY <1>6
  <2>4. \A q \in Requests \ {r} : ~Holds(q, new.obj)
    BY <1>3, <2>2, HeldAlone
  <2>5. ~request[r].disturbed => request[r].region = layerRegion
    BY <1>3 DEF IInv, QuietInv
  <2> HIDE DEF new
  <2> QED
    BY <1>1, <1>3, <2>1, <2>2, <2>3, <2>4, <2>5, WithinStep
<1> QED
  BY <1>4, <1>5, <1>6 DEF BeginDraw

LEMMA EndDrawStep ==
  ASSUME IInv, NEW r \in Requests, EndDraw(r), UNCHANGED agentVars
  PROVE  IInv' /\ Seen!Next
<1> DEFINE b == request[r].got
           right == request[r].region = image[b].region
<1>1. UNCHANGED <<scenes, built, mon, layerRegion, imgCache, image, agentVars>>
  BY DEF EndDraw
<1>2. request[r].pc = "drawing" /\ InFlight(r)
  BY DEF EndDraw, InFlight
<1>3. ~request[r].disturbed => image[b].live
  BY <1>2 DEF IInv, QuietInv, CacheInv
<1>4. right \in BOOLEAN /\ seenCall[r] = "running"
  BY <1>2 DEF seenCall
<1>5. CASE Finish(r, "ok", right)
  <2> HIDE DEF right, b
  <2>1. /\ IInv' /\ seenPicture' = seenPicture
        /\ seenCall' = [seenCall EXCEPT ![r] = "answered"] /\ seenSure' = seenSure \ {r}
    BY <1>1, <1>3, <1>4, <1>5, FinishStep
  <2>2. Seen!Answer(r)
    BY <1>4, <2>1 DEF Seen!Answer
  <2> QED
    BY <2>1, <2>2 DEF Seen!Next
<1>6. CASE ~image[b].live /\ Finish(r, "gone", FALSE)
  BY <1>1, <1>2, <1>3, <1>6, FailStep
<1> QED
  BY <1>5, <1>6 DEF EndDraw

(***************************************************************************)
(* Theorems.                                                               *)
(***************************************************************************)

\* Each step keeps the invariant and is a step of the service or not seen.
LEMMA NextStep ==
  ASSUME IInv, [Next]_vars
  PROVE  IInv' /\ [Seen!Next]_Seen!vars
<1>1. CASE Construct \/ ChangeScenes \/ Move \/ UNCHANGED vars
           \/ \E f \in FeatureRequests : Features(f)
  BY <1>1, SimulatorStep
<1>2. CASE Monitor
  BY <1>2, PollStep, BeginScanStep, ScanRegionStep, AddAgentStep, EndScanStep,
     MonitorDisposeStep, GenerateCacheBitmapStep DEF Monitor
<1>3. ASSUME NEW r \in Requests, Serve(r) PROVE IInv' /\ [Seen!Next]_Seen!vars
  BY <1>3, ReadCacheStep, AcquireLockStep, ReadSizeStep, ReadRegionStep,
     BeginDrawStep, EndDrawStep DEF Serve, RequestStep
<1> QED
  BY <1>1, <1>2, <1>3 DEF Next

\* The inductive invariant holds.
THEOREM InductiveInvariant == Spec => []IInv
<1>1. IInv /\ [Next]_vars => IInv'
  BY NextStep
<1> QED
  BY InitIInv, <1>1, PTL DEF Spec

\* A request the monitor does not disturb finds its bitmap, and a box that
\* reaches over all the bitmap shows (GetRegionByBitmap of AgentLayer, while
\* updateLayer extends m_layerRegion).
THEOREM QuietRequests == Spec => []QuietRequestIsServed
<1>1. IInv => QuietRequestIsServed
  BY DEF IInv, CacheInv, QuietInv, GoneInv, InFlight, QuietRequestIsServed
<1> QED
  BY InductiveInvariant, <1>1, PTL

\* The monitor thread dies in a scan only when a region or an avatar changed
\* during it (updateLayer).
THEOREM ScansSurvive == Spec => []SurvivesQuietScan
<1>1. IInv => SurvivesQuietScan
  BY DEF IInv, ScanInv, SurvivesQuietScan
<1> QED
  BY InductiveInvariant, <1>1, PTL

\* While the monitor sleeps the feature list and the picture name the same
\* avatars (generateCacheBitmap and GetFeaturesByXML).
THEOREM PicturesMatchTheList == Spec => []PictureIsTheList
<1>1. IInv => PictureIsTheList
  BY DEF IInv, CacheInv, PictureIsTheList
<1> QED
  BY InductiveInvariant, <1>1, PTL

LEMMA InitSeen == Init => Seen!Init
<1> SUFFICES ASSUME Init PROVE Seen!Init
  OBVIOUS
<1>1. \A r \in Requests : request[r].pc = "idle"
  BY DEF Init, BaseInit, NewRequest
<1>2. seenPicture = "none"
  BY DEF Init, BaseInit, seenPicture
<1>3. seenCall = [r \in Requests |-> "idle"]
  BY <1>1 DEF seenCall
<1>4. seenSure = {}
  BY <1>1 DEF seenSure, InFlight
<1> QED
  BY <1>2, <1>3, <1>4 DEF Seen!Init

\* GetRegionByBitmap of the agent layer fails for no other reason than a
\* picture that is missing, or renewed under a call that still runs.
THEOREM Implements == Spec => KeepsPromise
<1>1. IInv /\ [Next]_vars => [Seen!Next]_Seen!vars
  BY NextStep
<1> QED
  BY InitSeen, InductiveInvariant, <1>1, PTL DEF Spec, KeepsPromise, Seen!Spec
=============================================================================

----------------------------- MODULE AgentLayer -----------------------------
(***************************************************************************)
(* AgentLayer.cs: the layer of avatars.  The monitor thread empties and    *)
(* refills agentList from the regions, then draws it; a WFS GetFeature     *)
(* request enumerates the same dictionary on an HTTP thread, without a     *)
(* lock.  The box grows while the old picture is still being served.       *)
(***************************************************************************)
EXTENDS BaseLayer, FiniteSets

CONSTANTS
  FeatureRequests,  \* the calls of GetFeaturesByXML and GetFeaturesByText
  Nowhere           \* where an avatar is that is not in the simulator

ASSUME AgentAssumption == Nowhere \notin Scenes

Avatars == Marks

VARIABLES
  where,        \* the region each avatar is in
  agentList,    \* the avatars in the dictionary
  left,         \* regions the running foreach has still to visit
  found,        \* avatars of the visited region that have yet to be added
  listChanged,  \* the list of regions has changed under the running foreach
  moved,        \* history: a region or an avatar changed since the scan began
  feature       \* the feature requests

agentVars == <<where, agentList, left, found, listChanged, moved, feature>>

vars == <<scenes, built, mon, layerRegion, imgCache, image, request,
          where, agentList, left, found, listChanged, moved, feature>>

CtorOrder == <<"_sceneManager", "agentList">>

IsSet(field) == \E i \in 1..built : CtorOrder[i] = field

Present == {a \in Avatars : where[a] # Nowhere}

Init ==
  /\ BaseInit
  /\ where \in [Avatars -> scenes \union {Nowhere}]
  /\ agentList = {}
  /\ left = {}
  /\ found = {}
  /\ listChanged = FALSE
  /\ moved = FALSE
  /\ feature = [f \in FeatureRequests |->
                  [pc |-> "idle", stale |-> FALSE, out |-> "none", got |-> {}]]

Construct ==
  /\ built < Len(CtorOrder)
  /\ built' = built + 1
  /\ UNCHANGED <<scenes, mon, layerRegion, imgCache, image, request>>
  /\ UNCHANGED agentVars

\* The simulator: a region starts, or stops and its avatars are gone.
ChangeScenes ==
  /\ \E s \in Scenes :
       \/ s \notin scenes /\ scenes' = scenes \union {s} /\ UNCHANGED where
       \/ /\ s \in scenes
          /\ scenes' = scenes \ {s}
          /\ where' = [a \in Avatars |-> IF where[a] = s THEN Nowhere ELSE where[a]]
  /\ listChanged' = TRUE
  /\ moved' = TRUE
  /\ UNCHANGED <<built, mon, layerRegion, imgCache, image, request>>
  /\ UNCHANGED <<agentList, left, found, feature>>

\* An avatar logs in, logs out or crosses to another region.
Move ==
  /\ \E a \in Avatars, w \in scenes \union {Nowhere} :
       w # where[a] /\ where' = [where EXCEPT ![a] = w]
  /\ moved' = TRUE
  /\ UNCHANGED <<scenes, built, mon, layerRegion, imgCache, image, request>>
  /\ UNCHANGED <<agentList, left, found, listChanged, feature>>

(***************************************************************************)
(* The monitor thread.                                                     *)
(***************************************************************************)

\* Mutant of RequireUpdate: a scan only when the number of avatars changed.
CompareAgents == scenes # {} /\ Cardinality(agentList) # Cardinality(Present)

RequireUpdate == scenes # {}

\* requireUpdate, with the field the constructor may not have assigned yet.
Poll ==
  /\ mon = "sleep"
  /\ mon' = IF ~IsSet("_sceneManager") THEN "nullref"
            ELSE IF RequireUpdate THEN "update" ELSE "sleep"
  /\ UNCHANGED <<scenes, built, layerRegion, imgCache, image, request>>
  /\ UNCHANGED agentVars

\* A change of the dictionary invalidates its running enumerators.
Invalidate ==
  feature' = [f \in FeatureRequests |->
                [feature[f] EXCEPT !.stale = (feature[f].pc = "walk")]]

\* Mutant of BeginScan: agentList.Clear() is missing.
BeginUncleared ==
  /\ mon = "update"
  /\ mon' = IF IsSet("agentList") THEN "scan" ELSE "nullref"
  /\ left' = scenes
  /\ listChanged' = FALSE
  /\ moved' = FALSE
  /\ UNCHANGED <<scenes, built, layerRegion, imgCache, image, request>>
  /\ UNCHANGED <<where, agentList, found, feature>>

\* updateLayer: agentList.Clear() and the start of the foreach.
BeginScan ==
  /\ mon = "update"
  /\ mon' = IF IsSet("agentList") THEN "scan" ELSE "nullref"
  /\ agentList' = {}
  /\ Invalidate
  /\ left' = scenes
  /\ listChanged' = FALSE
  /\ moved' = FALSE
  /\ UNCHANGED <<scenes, built, layerRegion, imgCache, image, request>>
  /\ UNCHANGED <<where, found>>

\* Mutant of ScanRegion: the first region of a scan makes the box anew.
ScanAnew ==
  /\ mon = "scan" /\ ~listChanged /\ found = {}
  /\ \E s \in left :
       /\ layerRegion' = (IF left = scenes THEN {} ELSE layerRegion) \union {s}
       /\ IF layerRegion' = layerRegion THEN UNCHANGED request ELSE Disturb
       /\ left' = left \ {s}
       /\ found' = {a \in Avatars : where[a] = s}
  /\ UNCHANGED <<scenes, built, mon, imgCache, image>>
  /\ UNCHANGED <<where, agentList, listChanged, moved, feature>>

\* One region: the box reaches over it, and GetAvatars returns a list of who
\* is there.
ScanRegion ==
  /\ mon = "scan" /\ ~listChanged /\ found = {}
  /\ \E s \in left :
       /\ layerRegion' = (IF layerRegion = NoBox THEN {} ELSE layerRegion) \union {s}
       /\ IF layerRegion' = layerRegion THEN UNCHANGED request ELSE Disturb
       /\ left' = left \ {s}
       /\ found' = {a \in Avatars : where[a] = s}
  /\ UNCHANGED <<scenes, built, mon, imgCache, image>>
  /\ UNCHANGED <<where, agentList, listChanged, moved, feature>>

\* agentList.Add throws when the avatar is there already: it was met in a
\* region visited before.
AddAgent ==
  /\ mon = "scan"
  /\ \E a \in found :
       \/ /\ a \notin agentList
          /\ agentList' = agentList \union {a}
          /\ found' = found \ {a}
          /\ Invalidate
          /\ UNCHANGED mon
       \/ /\ a \in agentList
          /\ mon' = "threw"
          /\ UNCHANGED <<agentList, found, feature>>
  /\ UNCHANGED <<scenes, built, layerRegion, imgCache, image, request>>
  /\ UNCHANGED <<where, left, listChanged, moved>>

\* The enumerator of a changed list of regions throws.
ScanThrows ==
  /\ mon = "scan" /\ listChanged /\ found = {}
  /\ mon' = "threw"
  /\ UNCHANGED <<scenes, built, layerRegion, imgCache, image, request>>
  /\ UNCHANGED agentVars

EndScan ==
  /\ mon = "scan" /\ ~listChanged /\ found = {} /\ left = {}
  /\ mon' = "dispose"
  /\ UNCHANGED <<scenes, built, layerRegion, imgCache, image, request>>
  /\ UNCHANGED agentVars

\* Mutant of GenerateCacheBitmap: the list is emptied when it has been drawn.
DrawAndClear ==
  /\ mon = "generate"
  /\ mon' = "sleep"
  /\ PublishImage(agentList, layerRegion)
  /\ agentList' = {}
  /\ Invalidate
  /\ UNCHANGED <<scenes, built, layerRegion, request>>
  /\ UNCHANGED <<where, left, found, listChanged, moved>>

GenerateCacheBitmap ==
  /\ mon = "generate"
  /\ mon' = "sleep"
  /\ PublishImage(agentList, layerRegion)
  /\ UNCHANGED <<scenes, built, layerRegion, request>>
  /\ UNCHANGED agentVars

Monitor ==
  \/ Poll
  \/ BeginScan
  \/ ScanRegion
  \/ AddAgent
  \/ ScanThrows
  \/ EndScan
  \/ MonitorDispose /\ UNCHANGED agentVars
  \/ GenerateCacheBitmap

(***************************************************************************)
(* Feature requests, on HTTP threads.                                      *)
(***************************************************************************)

BeginFeatures(f) ==
  /\ feature[f].pc = "idle"
  /\ built = Len(CtorOrder)
  /\ feature' = [feature EXCEPT ![f].pc = "walk", ![f].stale = FALSE]
  /\ UNCHANGED baseVars
  /\ UNCHANGED <<where, agentList, left, found, listChanged, moved>>

\* Each MoveNext of the enumerator throws once the dictionary has changed, the
\* last one included: the list that comes back is the whole dictionary.
EndFeatures(f) ==
  /\ feature[f].pc = "walk"
  /\ feature' = [feature EXCEPT ![f] =
       [@ EXCEPT !.pc = "done", !.stale = FALSE,
                 !.out = IF feature[f].stale THEN "changed" ELSE "list",
                 !.got = IF feature[f].stale THEN {} ELSE agentList]]
  /\ UNCHANGED baseVars
  /\ UNCHANGED <<where, agentList, left, found, listChanged, moved>>

Features(f) == BeginFeatures(f) \/ EndFeatures(f)

Serve(r) == RequestStep(r, Len(CtorOrder)) /\ UNCHANGED agentVars

Next ==
  \/ Construct
  \/ ChangeScenes
  \/ Move
  \/ Monitor
  \/ \E r \in Requests : Serve(r)
  \/ \E f \in FeatureRequests : Features(f)

Spec == Init /\ [][Next]_vars

FairSpec ==
  /\ Spec
  /\ WF_vars(Construct)
  /\ WF_vars(Monitor)
  /\ \A r \in Requests : WF_vars(InFlight(r) /\ Serve(r))

(***************************************************************************)
(* Properties.                                                             *)
(***************************************************************************)

\* A request that the monitor did not disturb finds its bitmap, and computes
\* its part for a box that is no smaller than the one the bitmap was drawn
\* over: it may be larger, between the growth of the box and the redraw.
QuietRequestIsServed ==
  \A r \in Requests :
    ~request[r].disturbed =>
      /\ request[r].pc = "done" => request[r].out # "gone"
      /\ request[r].pc = "drawing" =>
           LET drawn == image[request[r].got].region
           IN  drawn = NoBox \/ drawn \subseteq request[r].region

\* The thread dies in a scan only when a region or an avatar changed during
\* it: on a grid that rests, no avatar is met twice and the list holds.
SurvivesQuietScan == mon = "threw" => moved

\* The picture shows the avatars of one whole scan, and while the monitor
\* sleeps the feature list and the picture name the same avatars.
PictureIsTheList ==
  mon \in {"sleep", "update"} /\ imgCache # NULL => image[imgCache].shows = agentList

\* When regions and avatars rest and there is a region, the picture shows every
\* avatar whenever the monitor sleeps, unless the thread has died.
GridRests == <>[][scenes' = scenes /\ where' = where]_vars /\ <>[](scenes # {})

UpToDate == imgCache # NULL /\ image[imgCache].shows = Present

CatchesUp == GridRests => <>[](Dead \/ (mon = "sleep" => UpToDate))
=============================================================================

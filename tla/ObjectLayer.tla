----------------------------- MODULE ObjectLayer -----------------------------
(***************************************************************************)
(* ObjectLayer.cs: the layer of prims.  It is redrawn when the number of   *)
(* regions differs from the number at the last redraw; its box is fixed.   *)
(***************************************************************************)
EXTENDS BaseLayer, FiniteSets

CONSTANTS
  HomeBox,     \* the regions inside the fixed box (256000,256000,256512,256512)
  Fragile      \* regions whose prims may make GeneratePolygonList throw

ASSUME ObjectAssumption ==
  /\ HomeBox \subseteq Scenes
  /\ Fragile \subseteq Scenes
  /\ Marks = Scenes
  /\ IsFiniteSet(Scenes)

VARIABLES
  regionNumber,  \* the number of regions at the last redraw
  polygonList    \* the regions whose prims have a polygon in _polygonList

vars == <<scenes, built, mon, layerRegion, imgCache, image, request,
          regionNumber, polygonList>>

objectVars == <<regionNumber, polygonList>>

\* Mutant of CtorOrder: the box is assigned first.
BoxFirst == <<"m_layerRegion", "_sceneManager", "_polygonList">>

\* The assignments of the constructor, in its order.  The base constructor has
\* started the monitor thread before the first of them.
CtorOrder == <<"_sceneManager", "_polygonList", "m_layerRegion">>

IsSet(field) == \E i \in 1..built : CtorOrder[i] = field

Init ==
  /\ BaseInit
  /\ regionNumber = 0
  /\ polygonList = {}

Construct ==
  /\ built < Len(CtorOrder)
  /\ built' = built + 1
  /\ layerRegion' = IF CtorOrder[built + 1] = "m_layerRegion" THEN HomeBox ELSE layerRegion
  /\ UNCHANGED <<scenes, mon, imgCache, image, request>>
  /\ UNCHANGED objectVars

\* The simulator starts or stops a region.  The layer enumerates the list of
\* regions under the list's lock.
ChangeScenes ==
  /\ \E s \in Scenes : \/ s \notin scenes /\ scenes' = scenes \union {s}
                       \/ s \in scenes /\ scenes' = scenes \ {s}
  /\ UNCHANGED <<built, mon, layerRegion, imgCache, image, request>>
  /\ UNCHANGED objectVars

\* Thread.Sleep, then requireUpdate: m_layerRegion is looked at first, and is
\* what keeps the monitor away from the fields assigned before it.
RequireUpdate == layerRegion # NoBox /\ regionNumber # Cardinality(scenes)

Poll ==
  /\ mon = "sleep"
  /\ mon' = IF layerRegion # NoBox /\ ~IsSet("_sceneManager") THEN "nullref"
            ELSE IF RequireUpdate THEN "count" ELSE "sleep"
  /\ UNCHANGED <<scenes, built, layerRegion, imgCache, image, request>>
  /\ UNCHANGED objectVars

\* Mutants of CountRegions: the count is added up; the box follows the regions.
CountAdds ==
  /\ mon = "count"
  /\ mon' = "collect"
  /\ regionNumber' = regionNumber + Cardinality(scenes)
  /\ UNCHANGED <<scenes, built, layerRegion, imgCache, image, request, polygonList>>

CountMovesBox ==
  /\ mon = "count"
  /\ mon' = "collect"
  /\ regionNumber' = Cardinality(scenes)
  /\ layerRegion' = scenes
  /\ UNCHANGED <<scenes, built, imgCache, image, request, polygonList>>

\* updateLayer: the number of regions is taken before their prims are.
CountRegions ==
  /\ mon = "count"
  /\ mon' = "collect"
  /\ regionNumber' = Cardinality(scenes)
  /\ UNCHANGED <<scenes, built, layerRegion, imgCache, image, request, polygonList>>

\* GeneratePolygonList: clears the list and fills it, in the lock of the list
\* of regions.  A prim without a hull, or a linkset edited while its parts are
\* enumerated, throws out of the thread's loop.
GeneratePolygonList ==
  /\ mon = "collect"
  /\ IF IsSet("_polygonList")
     THEN mon' = "dispose" \/ (scenes \intersect Fragile # {} /\ mon' = "threw")
     ELSE mon' = "nullref"
  /\ \E done \in SUBSET scenes :
       /\ mon' = "dispose" => done = scenes
       /\ polygonList' = IF mon' = "nullref" THEN polygonList ELSE done
  /\ UNCHANGED <<scenes, built, layerRegion, imgCache, image, request, regionNumber>>

\* Mutant of GenerateCacheBitmap: the regions are counted after the redraw.
CountLate ==
  /\ mon = "generate"
  /\ mon' = "sleep"
  /\ PublishImage(polygonList, layerRegion)
  /\ regionNumber' = Cardinality(scenes)
  /\ UNCHANGED <<scenes, built, layerRegion, request, polygonList>>

\* generateCacheBitmap draws the polygons over the box it was passed.
GenerateCacheBitmap ==
  /\ mon = "generate"
  /\ mon' = "sleep"
  /\ PublishImage(polygonList, layerRegion)
  /\ UNCHANGED <<scenes, built, layerRegion, request>>
  /\ UNCHANGED objectVars

Monitor ==
  \/ Poll
  \/ CountRegions
  \/ GeneratePolygonList
  \/ MonitorDispose /\ UNCHANGED objectVars
  \/ GenerateCacheBitmap

Serve(r) == RequestStep(r, Len(CtorOrder)) /\ UNCHANGED objectVars

Next ==
  \/ Construct
  \/ ChangeScenes
  \/ Monitor
  \/ \E r \in Requests : Serve(r)

Spec == Init /\ [][Next]_vars

\* The constructor, the monitor's loop and a request that has been made each
\* run on a thread of their own that the host schedules; regions need not
\* change and requests need not come.
Fairness ==
  /\ WF_vars(Construct)
  /\ WF_vars(Monitor)
  /\ \A r \in Requests : WF_vars(InFlight(r) /\ Serve(r))

(***************************************************************************)
(* Properties.                                                             *)
(***************************************************************************)

TypeOK ==
  /\ BaseTypeOK
  /\ built \in 0..Len(CtorOrder)
  /\ mon \in {"sleep", "count", "collect", "dispose", "generate", "nullref", "threw"}
  /\ regionNumber \in 0..Cardinality(Scenes)
  /\ polygonList \in SUBSET Scenes

\* The monitor thread, started in the base constructor, never dereferences a
\* field the constructor has not assigned yet, however slow the constructor.
NeverHalfBuilt == mon # "nullref"

\* The same threads when the simulator only adds regions.
GrowSpec == Init /\ [][Next /\ scenes \subseteq scenes']_vars /\ Fairness

\* The picture ends up showing every region when regions are only added, also
\* when one is added between the count and the collection (updateLayer counts
\* first).  It does not when one region is replaced by another: the number of
\* regions is all that requireUpdate compares.
CatchesUp == <>[](scenes = IF imgCache = NULL THEN {} ELSE image[imgCache].shows)

(***************************************************************************)
(* The inductive invariant behind the safety properties.                   *)
(***************************************************************************)

\* The box is assigned last: whoever sees it sees every other field too.
BuiltInv ==
  /\ layerRegion = IF built = Len(CtorOrder) THEN HomeBox ELSE NoBox
  /\ mon # "sleep" \/ imgCache # NULL => built = Len(CtorOrder)
  /\ mon # "nullref"

\* The field holds the one bitmap that is not disposed, except between the
\* disposal and the next assignment; by then each running request is marked.
CacheInv ==
  /\ \A b \in Bitmaps : image[b].live => b = imgCache /\ image[b].region = HomeBox
  /\ mon # "generate" /\ imgCache # NULL => image[imgCache].live
  /\ mon = "generate" => \A b \in Bitmaps : ~image[b].live
  /\ mon = "generate" => \A r \in Requests : InFlight(r) => request[r].disturbed

\* A running request that is not marked has locked the cached bitmap, and what
\* it has read so far is what is still there.
QuietInv ==
  \A r \in Requests :
    InFlight(r) =>
      /\ built = Len(CtorOrder)
      /\ ~request[r].disturbed =>
           /\ imgCache # NULL /\ request[r].obj = imgCache
           /\ image[imgCache].live
           /\ request[r].pc \in {"draw", "drawing"} => request[r].region = HomeBox
           /\ request[r].pc = "drawing" => request[r].got = imgCache

\* The lock of a bitmap has one holder.
LockInv ==
  \A q, r \in Requests : \A b \in Ref : Holds(q, b) /\ Holds(r, b) => q = r

IInv ==
  /\ TypeOK
  /\ BuiltInv
  /\ CacheInv
  /\ QuietInv
  /\ LockInv
  /\ QuietRequestIsRight
  /\ NeverBoxless
=============================================================================

---------------------------- MODULE TerrainLayer ----------------------------
(***************************************************************************)
(* TerrainLayer.cs: the layer of height maps.  Its box grows over every    *)
(* region ever seen; its picture has the size of the box and is drawn      *)
(* after the previous one has been disposed.  The list of regions is       *)
(* enumerated twice, without a lock: the first time an exception leaves    *)
(* the thread's loop, the second time it is caught and the picture is null.*)
(* So it is with what the picture needs of the machine: memory for a bitmap*)
(* of the size of the box, and a file of colours for each region's map.    *)
(***************************************************************************)
EXTENDS BaseLayer, FiniteSets

CONSTANTS
  Builds,   \* of each build, the boxes over which a region's part is not 256
            \* pixels square: see FailureHasCause of TerrainPicture
  Machines  \* of each machine, the boxes there may be no memory to make a
            \* bitmap of

ASSUME TerrainAssumption ==
  /\ Builds \subseteq SUBSET SUBSET Scenes
  /\ Machines \subseteq SUBSET SUBSET Scenes
  /\ Marks = Scenes
  /\ IsFiniteSet(Scenes)

VARIABLES
  left,         \* regions the running foreach has still to visit
  listChanged,  \* the list has changed under the running foreach
  painted,      \* regions whose height map is in the picture being drawn
  misfits,      \* what the build does to the boxes of more than one region
  huge,         \* the boxes for which new Bitmap may throw
  stripe        \* CreateBitmapFromMap finds its file, and memory

given == <<misfits, huge>>

terrainVars == <<left, listChanged, painted, misfits, huge, stripe>>

vars == <<scenes, built, mon, layerRegion, imgCache, image, request,
          left, listChanged, painted, misfits, huge, stripe>>

CtorOrder == <<"_sceneManager", "m_regionNumber">>

IsSet(field) == \E i \in 1..built : CtorOrder[i] = field

Init ==
  /\ BaseInit
  /\ left = {}
  /\ listChanged = FALSE
  /\ painted = {}
  /\ misfits \in Builds
  /\ huge \in Machines
  /\ stripe \in BOOLEAN

Construct ==
  /\ built < Len(CtorOrder)
  /\ built' = built + 1
  /\ UNCHANGED <<scenes, mon, layerRegion, imgCache, image, request>>
  /\ UNCHANGED terrainVars

ChangeScenes ==
  /\ \E s \in Scenes : \/ s \notin scenes /\ scenes' = scenes \union {s}
                       \/ s \in scenes /\ scenes' = scenes \ {s}
  /\ listChanged' = TRUE
  /\ UNCHANGED <<built, mon, layerRegion, imgCache, image, request, left, painted, stripe, given>>

\* defaultstripe.png is opened anew for every region: it may come and go.
ChangeStripe ==
  /\ stripe' = ~stripe
  /\ UNCHANGED baseVars
  /\ UNCHANGED <<left, listChanged, painted, given>>

\* Mutant of RequireUpdate: the number of regions drawn is compared.
CompareCount ==
  Cardinality(scenes) # IF imgCache = NULL THEN 0 ELSE Cardinality(image[imgCache].shows)

\* requireUpdate: m_regionNumber stays 0, so each poll with a region redraws.
RequireUpdate == 0 # Cardinality(scenes)

\* Mutant of Poll: the box grows before the old picture is disposed.
PollGrows ==
  /\ mon = "sleep"
  /\ mon' = IF ~IsSet("_sceneManager") THEN "nullref"
            ELSE IF RequireUpdate THEN "dispose" ELSE "sleep"
  /\ layerRegion' = IF mon' = "dispose" THEN (layerRegion \ NoBox) \union scenes
                    ELSE layerRegion
  /\ UNCHANGED <<scenes, built, imgCache, image, request>>
  /\ UNCHANGED terrainVars

\* The field is null until the constructor, which runs beside the thread's
\* first sleep, has assigned it.  updateLayer does nothing.
Poll ==
  /\ mon = "sleep"
  /\ mon' = IF ~IsSet("_sceneManager") THEN "nullref"
            ELSE IF RequireUpdate THEN "dispose" ELSE "sleep"
  /\ UNCHANGED <<scenes, built, layerRegion, imgCache, image, request>>
  /\ UNCHANGED terrainVars

\* Mutant of BeginExtend: the box is made anew, to shrink with the grid.
BeginAnew ==
  /\ mon = "generate"
  /\ mon' = "extend"
  /\ left' = scenes
  /\ listChanged' = FALSE
  /\ layerRegion' = NoBox
  /\ UNCHANGED <<scenes, built, imgCache, image, request, painted, stripe, given>>

\* The first foreach of generateCacheBitmap, over the live list.
BeginExtend ==
  /\ mon = "generate"
  /\ mon' = "extend"
  /\ left' = scenes
  /\ listChanged' = FALSE
  /\ UNCHANGED <<scenes, built, layerRegion, imgCache, image, request, painted, stripe, given>>

\* m_layerRegion is made, or extended in place, over one more region.
ExtendOver ==
  /\ mon = "extend" /\ ~listChanged
  /\ \E s \in left :
       /\ layerRegion' = (IF layerRegion = NoBox THEN {} ELSE layerRegion) \union {s}
       /\ left' = left \ {s}
  /\ UNCHANGED <<scenes, built, mon, imgCache, image, request, listChanged, painted, stripe, given>>

\* The enumerator of a changed list throws, outside the try.
ExtendThrows ==
  /\ mon = "extend" /\ listChanged
  /\ mon' = "threw"
  /\ UNCHANGED <<scenes, built, layerRegion, imgCache, image, request>>
  /\ UNCHANGED terrainVars

\* The first enumeration has come to its end.
EndExtend ==
  /\ mon = "extend" /\ ~listChanged /\ left = {}
  /\ mon' = "blank"
  /\ UNCHANGED <<scenes, built, layerRegion, imgCache, image, request>>
  /\ UNCHANGED terrainVars

\* The picture is made in the size of the box, if there is one, and the second
\* enumeration begins.
BeginPaint ==
  /\ mon = "blank"
  /\ layerRegion # NoBox
  /\ mon' = "paint"
  /\ left' = scenes
  /\ listChanged' = FALSE
  /\ painted' = {}
  /\ UNCHANGED <<scenes, built, layerRegion, imgCache, image, request, stripe, given>>

\* Replace copies a region's map into its part of the picture.  A region that
\* is not in the box has a part of the picture only if the box happens to
\* reach over it.
PaintRegion ==
  /\ mon = "paint" /\ ~listChanged
  /\ stripe /\ layerRegion \notin misfits
  /\ \E s \in left : painted' = painted \union {s} /\ left' = left \ {s}
  /\ UNCHANGED <<scenes, built, mon, layerRegion, imgCache, image, request, listChanged, stripe, given>>

\* No box, or a bitmap too large for the machine; then a changed list, a map that
\* cannot be made, a part of another size or outside the picture: the exception is
\* caught, null is returned and assigned.
CaughtFailure ==
  \/ mon = "blank" /\ (layerRegion = NoBox \/ layerRegion \in huge)
  \/ mon = "paint" /\ listChanged
  \/ /\ mon = "paint" /\ left # {}
     /\ ~stripe \/ layerRegion \in misfits \/ ~(left \subseteq layerRegion)

\* Mutant of GenerationFails: the disposed bitmap stays in the field.
KeepDisposed ==
  /\ CaughtFailure
  /\ mon' = "sleep"
  /\ UNCHANGED <<scenes, built, layerRegion, imgCache, image, request>>
  /\ UNCHANGED terrainVars

GenerationFails ==
  /\ CaughtFailure
  /\ mon' = "sleep"
  /\ imgCache' = NULL
  /\ UNCHANGED <<scenes, built, layerRegion, image, request>>
  /\ UNCHANGED terrainVars

GenerateCacheBitmap ==
  /\ mon = "paint" /\ ~listChanged /\ left = {}
  /\ mon' = "sleep"
  /\ PublishImage(painted, layerRegion)
  /\ UNCHANGED <<scenes, built, layerRegion, request>>
  /\ UNCHANGED terrainVars

Monitor ==
  \/ Poll
  \/ MonitorDispose /\ UNCHANGED terrainVars
  \/ BeginExtend
  \/ ExtendOver
  \/ ExtendThrows
  \/ EndExtend
  \/ BeginPaint
  \/ PaintRegion
  \/ GenerationFails
  \/ GenerateCacheBitmap

Serve(r) == RequestStep(r, Len(CtorOrder)) /\ UNCHANGED terrainVars

Next ==
  \/ Construct
  \/ ChangeScenes
  \/ ChangeStripe
  \/ Monitor
  \/ \E r \in Requests : Serve(r)

Spec == Init /\ [][Next]_vars

\* As for ObjectLayer: the threads that exist are scheduled.
FairSpec ==
  /\ Spec
  /\ WF_vars(Construct)
  /\ WF_vars(Monitor)
  /\ \A r \in Requests : WF_vars(InFlight(r) /\ Serve(r))

(***************************************************************************)
(* Properties.                                                             *)
(***************************************************************************)

\* The bitmap in the field has been disposed only while the next is drawn: a
\* generation that fails leaves null, never a disposed bitmap, and the thread
\* dies only in the first enumeration.
NoDisposedAtRest ==
  mon \in {"sleep", "dispose", "nullref"} /\ imgCache # NULL => image[imgCache].live

\* Once regions stop changing and there is one, and the file of colours stays
\* where it is, the picture shows them all whenever the monitor sleeps: a
\* generation that failed on a changed list, or without the file, is tried again at
\* the next poll.  Three things end that: the thread has died in the first
\* enumeration, or the box, which never shrinks, has become one over which no
\* picture can be drawn, or one for whose picture the memory may not suffice.
RegionsRest == <>[][scenes' = scenes]_scenes /\ <>[](scenes # {} /\ stripe)

UpToDate == imgCache # NULL /\ image[imgCache].shows = scenes

CatchesUp ==
  RegionsRest =>
    <>[](Dead \/ layerRegion \in misfits \union huge \/ (mon = "sleep" => UpToDate))
=============================================================================

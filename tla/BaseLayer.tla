------------------------------ MODULE BaseLayer ------------------------------
(***************************************************************************)
(* BaseLayer.cs: what every map layer shares.  A layer keeps one rendered   *)
(* bitmap (m_imgCache) of the part of the grid it covers (m_layerRegion).  *)
(* Its monitor thread disposes and replaces that bitmap without a lock;    *)
(* HTTP threads copy a part of it in GetRegionByBitmap, under the lock of  *)
(* the bitmap object they found in the field, and read the field again     *)
(* after they have that lock.                                              *)
(*                                                                         *)
(* This module has the shared state, the monitor's disposal step and the   *)
(* steps of a request.  ObjectLayer, TerrainLayer and AgentLayer extend    *)
(* it, as the classes do, with their constructor and the three methods     *)
(* BaseLayer leaves abstract.                                              *)
(*                                                                         *)
(* A bounding box is the set of regions it was extended over: what the     *)
(* properties tell apart is whether two boxes are the same, not where they *)
(* are.  A bitmap is a cell of the heap; a cell that nothing refers to is  *)
(* collected and may be allocated again.                                   *)
(***************************************************************************)
EXTENDS Naturals, Sequences

CONSTANTS
  Scenes,    \* the regions the simulator may host
  Marks,     \* what a layer draws: regions, or avatars
  Bitmaps,   \* the heap cells for the layer's bitmaps
  Requests,  \* the calls of GetRegionByBitmap, each on a thread of its own
  NULL       \* the null reference

ASSUME NullAssumption == NULL \notin Bitmaps /\ NULL \notin Scenes

VARIABLES
  scenes,       \* SceneManager.Scenes, changed by the simulator's own threads
  built,        \* how many assignments the subclass constructor has made
  mon,          \* where the monitor thread is, or how it died
  layerRegion,  \* m_layerRegion
  imgCache,     \* m_imgCache
  image,        \* the bitmaps: not disposed yet? what is drawn, over which box?
  request       \* the requests

baseVars == <<scenes, built, mon, layerRegion, imgCache, image, request>>

NoBox == {NULL}  \* no box yet: the reference is null
Box == (SUBSET Scenes) \union {NoBox}
Ref == Bitmaps \union {NULL}

Image == [live: BOOLEAN, shows: SUBSET Marks, region: Box]

\* disturbed and placed are history: did the monitor touch the bitmap or the
\* box while the request ran, and was the copied rectangle computed for the
\* very box the drawn bitmap shows?
Request ==
  [pc: {"idle", "wait", "size", "region", "draw", "drawing", "done"},
   obj: Ref, got: Ref, region: Box,
   disturbed: BOOLEAN, placed: BOOLEAN,
   out: {"none", "ok", "nocache", "gone", "busy", "noregion"}]

NoImage == [live |-> FALSE, shows |-> {}, region |-> NoBox]

NewRequest == [pc |-> "idle", obj |-> NULL, got |-> NULL, region |-> NoBox,
               disturbed |-> FALSE, placed |-> FALSE, out |-> "none"]

BaseInit ==
  /\ scenes \in SUBSET Scenes
  /\ built = 0
  /\ mon = "sleep"
  /\ layerRegion = NoBox
  /\ imgCache = NULL
  /\ image = [b \in Bitmaps |-> NoImage]
  /\ request = [r \in Requests |-> NewRequest]

InFlight(r) == request[r].pc \notin {"idle", "done"}

Holds(r, b) ==
  /\ request[r].pc \in {"size", "region", "draw", "drawing"}
  /\ request[r].obj = b

\* The monitor thread has thrown: nothing catches it, so it takes no step again.
Dead == mon \in {"nullref", "threw"}

(***************************************************************************)
(* The monitor thread.                                                     *)
(***************************************************************************)

\* Every running request is marked by a step that changes what it reads.
Disturb ==
  request' = [r \in Requests |->
                [request[r] EXCEPT !.disturbed = InFlight(r) \/ @]]

\* Mutant of MonitorDispose: the old bitmap is left to the collector.
NoDispose ==
  /\ mon = "dispose"
  /\ mon' = "generate"
  /\ Disturb
  /\ UNCHANGED <<scenes, built, layerRegion, imgCache, image>>

\* if (m_imgCache != null) m_imgCache.Dispose();  The field keeps the bitmap.
MonitorDispose ==
  /\ mon = "dispose"
  /\ mon' = "generate"
  /\ image' = [b \in Bitmaps |-> IF b = imgCache THEN NoImage ELSE image[b]]
  /\ Disturb
  /\ UNCHANGED <<scenes, built, layerRegion, imgCache>>

\* A cell that neither the layer nor a request refers to.
Unreferenced(b) ==
  /\ b # imgCache
  /\ \A r \in Requests : request[r].obj # b /\ request[r].got # b

\* m_imgCache = generateCacheBitmap(...) when it returns a bitmap drawn over
\* box that shows what is in shows.
PublishImage(shows, box) ==
  \E b \in Bitmaps :
    /\ Unreferenced(b)
    /\ image' = [image EXCEPT ![b] = [live |-> TRUE, shows |-> shows, region |-> box]]
    /\ imgCache' = b

(***************************************************************************)
(* GetRegionByBitmap, on an HTTP thread.                                   *)
(***************************************************************************)

Finish(r, outcome, placed) ==
  request' = [request EXCEPT ![r] =
    [@ EXCEPT !.pc = "done", !.obj = NULL, !.got = NULL, !.region = NoBox,
              !.out = outcome, !.placed = placed]]

\* The field is null or the bitmap it holds has been disposed.
CacheGone == IF imgCache = NULL THEN TRUE ELSE ~image[imgCache].live

\* GDI+ refuses a bitmap another thread is drawing from.
Busy(r) == \E q \in Requests \ {r} : /\ request[q].pc = "drawing"
                                     /\ request[q].got = imgCache

\* lock (m_imgCache): reads the field; a null reference throws.  A layer is
\* registered for requests after its constructor has returned.
ReadCache(r, assignments) ==
  /\ request[r].pc = "idle"
  /\ built = assignments
  /\ \/ /\ imgCache = NULL
        /\ Finish(r, "nocache", FALSE)
     \/ /\ imgCache # NULL
        /\ request' = [request EXCEPT ![r] =
             [@ EXCEPT !.pc = "wait", !.obj = imgCache,
                       !.disturbed = ~image[imgCache].live]]
  /\ UNCHANGED <<scenes, built, mon, layerRegion, imgCache, image>>

\* Mutant of AcquireLock: GetRegionByBitmap without the lock.
EnterUnlocked(r) ==
  /\ request[r].pc = "wait"
  /\ request' = [request EXCEPT ![r].pc = "size"]
  /\ UNCHANGED <<scenes, built, mon, layerRegion, imgCache, image>>

\* ... and enters the monitor of the object it found.
AcquireLock(r) ==
  /\ request[r].pc = "wait"
  /\ \A q \in Requests : ~Holds(q, request[r].obj)
  /\ request' = [request EXCEPT ![r].pc = "size"]
  /\ UNCHANGED <<scenes, built, mon, layerRegion, imgCache, image>>

\* m_imgCache.Size: the field is read again.
ReadSize(r) ==
  /\ request[r].pc = "size"
  /\ \/ CacheGone /\ Finish(r, "gone", FALSE)
     \/ ~CacheGone /\ Busy(r) /\ Finish(r, "busy", FALSE)
     \/ ~CacheGone /\ request' = [request EXCEPT ![r].pc = "region"]
  /\ UNCHANGED <<scenes, built, mon, layerRegion, imgCache, image>>

\* CRS.Cartes2Image dereferences m_layerRegion.
ReadRegion(r) ==
  /\ request[r].pc = "region"
  /\ \/ layerRegion = NoBox /\ Finish(r, "noregion", FALSE)
     \/ /\ layerRegion # NoBox
        /\ request' = [request EXCEPT ![r].pc = "draw", ![r].region = layerRegion]
  /\ UNCHANGED <<scenes, built, mon, layerRegion, imgCache, image>>

\* Mutant of BeginDraw: it waits for the bitmap it has locked to be the cached one.
DrawLockedOnly(r) ==
  /\ request[r].pc = "draw"
  /\ imgCache = request[r].obj
  /\ request' = [request EXCEPT ![r].pc = "drawing", ![r].got = imgCache]
  /\ UNCHANGED <<scenes, built, mon, layerRegion, imgCache, image>>

\* gfx.DrawImage(m_imgCache, ...): the field is read a third time.
BeginDraw(r) ==
  /\ request[r].pc = "draw"
  /\ \/ CacheGone /\ Finish(r, "gone", FALSE)
     \/ ~CacheGone /\ Busy(r) /\ Finish(r, "busy", FALSE)
     \/ /\ ~CacheGone
        /\ request' = [request EXCEPT ![r].pc = "drawing", ![r].got = imgCache]
  /\ UNCHANGED <<scenes, built, mon, layerRegion, imgCache, image>>

\* Mutant of EndDraw: the picture that was drawn from is disposed with the part.
EndDrawDisposes(r) ==
  LET b == request[r].got IN
  /\ request[r].pc = "drawing"
  /\ Finish(r, "ok", request[r].region = image[b].region)
  /\ image' = [image EXCEPT ![b] = NoImage]
  /\ UNCHANGED <<scenes, built, mon, layerRegion, imgCache>>

\* The drawing ends and the lock is left.  Of a bitmap disposed under the
\* drawing either a picture or an error comes out.
EndDraw(r) ==
  LET b == request[r].got IN
  /\ request[r].pc = "drawing"
  /\ \/ Finish(r, "ok", request[r].region = image[b].region)
     \/ ~image[b].live /\ Finish(r, "gone", FALSE)
  /\ UNCHANGED <<scenes, built, mon, layerRegion, imgCache, image>>

RequestStep(r, assignments) ==
  \/ ReadCache(r, assignments)
  \/ AcquireLock(r)
  \/ ReadSize(r)
  \/ ReadRegion(r)
  \/ BeginDraw(r)
  \/ EndDraw(r)

(***************************************************************************)
(* What every layer promises.                                              *)
(***************************************************************************)

BaseTypeOK ==
  /\ scenes \in SUBSET Scenes
  /\ built \in Nat
  /\ layerRegion \in Box
  /\ imgCache \in Ref
  /\ image \in [Bitmaps -> Image]
  /\ request \in [Requests -> Request]

\* A request that the monitor did not disturb does not find the bitmap gone,
\* and the part it copies is computed for the box of the bitmap it is copied
\* from (GetRegionByBitmap reads m_imgCache three times and m_layerRegion once,
\* and none of the four reads is in a lock the monitor takes).
QuietRequestIsRight ==
  \A r \in Requests :
    request[r].pc = "done" /\ ~request[r].disturbed =>
      /\ request[r].out # "gone"
      /\ request[r].out = "ok" => request[r].placed

\* A request that found a picture finds its box too, disturbed or not.
NeverBoxless == \A r \in Requests : request[r].out # "noregion"

\* The lock keeps two requests from drawing from one bitmap, unless one of
\* them was disturbed: it then holds the lock of a bitmap that has been
\* replaced, and draws from the new one.
UndisturbedDrawAlone ==
  \A q, r \in Requests :
    /\ q # r
    /\ request[q].pc = "drawing" /\ request[r].pc = "drawing"
    /\ request[q].got = request[r].got
    => request[q].disturbed \/ request[r].disturbed

\* Only the cached bitmap is not disposed: the monitor disposes each one it
\* replaces (GDI+ bitmaps hold memory the collector does not count).
NoBitmapLeak ==
  \A b \in Bitmaps : image[b].live => b = imgCache

\* Every request gets an answer or an exception: the bitmap's lock is always
\* left.
RequestsEnd == \A r \in Requests : InFlight(r) ~> request[r].pc = "done"

(***************************************************************************)
(* The layer seen from outside, as PictureService sees it.                 *)
(***************************************************************************)

seenPicture ==
  IF imgCache = NULL THEN "none"
  ELSE IF image[imgCache].live /\ layerRegion # NoBox THEN "ready" ELSE "renewing"

seenCall ==
  [r \in Requests |->
     IF request[r].pc = "idle" THEN "idle"
     ELSE IF InFlight(r) THEN "running"
     ELSE IF request[r].out = "ok" THEN "answered" ELSE "failed"]

seenSure == {r \in Requests : InFlight(r) /\ ~request[r].disturbed /\ layerRegion # NoBox}

Seen == INSTANCE PictureService WITH
          picture <- seenPicture, call <- seenCall, sure <- seenSure

\* The layer keeps the promise of PictureService: GetRegionByBitmap fails for
\* no other reason than a picture that is missing or being renewed, for this
\* call or for another one still running.
KeepsPromise == Seen!Spec
=============================================================================

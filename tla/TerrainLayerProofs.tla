------------------------- MODULE TerrainLayerProofs -------------------------
(***************************************************************************)
(* The safety properties of TerrainLayer hold for any number of regions,   *)
(* requests and bitmaps, and TerrainLayer implements PictureService.       *)
(*                                                                         *)
(* The box of this layer changes, so the argument of ObjectLayerProofs     *)
(* does not carry over: it changes only between the disposal of the old    *)
(* bitmap and the end of the generation (Changing), when no bitmap is      *)
(* alive and every running request has been disturbed.                     *)
(***************************************************************************)
EXTENDS TerrainLayer, TLAPS

TypeOK ==
  /\ BaseTypeOK
  /\ mon \in {"sleep", "dispose", "generate", "extend", "blank", "paint", "nullref", "threw"}
  /\ left \in SUBSET Scenes
  /\ painted \in SUBSET Scenes

\* From the disposal of a picture to the end of the next generation.
Changing == mon \in {"generate", "extend", "blank", "paint", "threw"}

CacheInv ==
  /\ imgCache # NULL \/ mon = "paint" => layerRegion # NoBox
  /\ Changing => /\ \A b \in Bitmaps : ~image[b].live
                 /\ \A r \in Requests : InFlight(r) => request[r].disturbed
  /\ ~Changing => /\ imgCache # NULL => /\ image[imgCache].live
                                        /\ image[imgCache].region = layerRegion
                  /\ \A b \in Bitmaps : image[b].live => b = imgCache

QuietInv ==
  \A r \in Requests : InFlight(r) =>
    /\ layerRegion # NoBox
    /\ ~request[r].disturbed =>
         /\ imgCache # NULL /\ request[r].obj = imgCache
         /\ request[r].pc \in {"draw", "drawing"} => request[r].region = layerRegion
         /\ request[r].pc = "drawing" => request[r].got = imgCache

LockInv ==
  \A q, r \in Requests, b \in Ref : Holds(q, b) /\ Holds(r, b) => q = r

IInv ==
  /\ TypeOK
  /\ CacheInv
  /\ QuietInv
  /\ LockInv
  /\ QuietRequestIsRight
  /\ NeverBoxless

LEMMA BoxFacts ==
  /\ NoBox \in Box
  /\ \A B \in SUBSET Scenes : B \in Box /\ B # NoBox
BY NullAssumption DEF NoBox, Box

LEMMA InitIInv == Init => IInv
<1> SUFFICES ASSUME Init PROVE IInv
  OBVIOUS
<1> USE DEF Init, BaseInit
<1>1. NoImage \in Image /\ NewRequest \in Request
  BY BoxFacts DEF NoImage, Image, NewRequest, Request, Ref
<1>2. TypeOK
  BY <1>1, BoxFacts DEF TypeOK, BaseTypeOK, Ref
<1>3. CacheInv
  BY DEF CacheInv, Changing, NoImage
<1>4. QuietInv /\ LockInv /\ QuietRequestIsRight /\ NeverBoxless
  BY DEF QuietInv, LockInv, QuietRequestIsRight, NeverBoxless, InFlight, Holds, NewRequest
<1> QED
  BY <1>2, <1>3, <1>4 DEF IInv

\* What does not touch the bitmaps, the box and the requests is not seen.
LEMMA Unseen ==
  ASSUME UNCHANGED <<layerRegion, imgCache, image, request>>
  PROVE  UNCHANGED Seen!vars
BY DEF Seen!vars, seenPicture, seenCall, seenSure, InFlight

\* While the layer has a bitmap, or a request runs, the box is there.
LEMMA SureSeen ==
  ASSUME IInv
  PROVE  seenSure = {r \in Requests : InFlight(r) /\ ~request[r].disturbed}
BY DEF IInv, QuietInv, seenSure

\* A step that changes neither the bitmaps, the box nor the requests leaves
\* what it does not touch true.
LEMMA MonitorOnly ==
  ASSUME IInv, TypeOK', UNCHANGED <<layerRegion, imgCache, image, request>>,
         Changing' <=> Changing, mon' = "paint" => layerRegion # NoBox
  PROVE  IInv' /\ UNCHANGED Seen!vars
<1>1. CacheInv'
  BY DEF IInv, CacheInv, InFlight
<1>2. QuietInv' /\ LockInv' /\ QuietRequestIsRight' /\ NeverBoxless'
  BY DEF IInv, QuietInv, LockInv, QuietRequestIsRight, NeverBoxless, InFlight, Holds
<1> QED
  BY <1>1, <1>2, Unseen DEF IInv

LEMMA ConstructStep ==
  ASSUME IInv, Construct
  PROVE  IInv' /\ UNCHANGED Seen!vars
<1>1. UNCHANGED <<scenes, mon, layerRegion, imgCache, image, request, left, painted>>
      /\ built' = built + 1
  BY DEF Construct, terrainVars
<1>2. TypeOK'
  BY <1>1 DEF IInv, TypeOK, BaseTypeOK
<1> QED
  BY <1>1, <1>2, MonitorOnly DEF Changing, IInv, CacheInv

LEMMA ChangeScenesStep ==
  ASSUME IInv, ChangeScenes
  PROVE  IInv' /\ UNCHANGED Seen!vars
<1>1. UNCHANGED <<built, mon, layerRegion, imgCache, image, request, left, painted>>
  BY DEF ChangeScenes
<1>2. scenes' \in SUBSET Scenes
  BY DEF ChangeScenes, IInv, TypeOK, BaseTypeOK
<1>3. TypeOK'
  BY <1>1, <1>2 DEF IInv, TypeOK, BaseTypeOK
<1> QED
  BY <1>1, <1>3, MonitorOnly DEF Changing, IInv, CacheInv

\* Whether the file is there is seen only when a map is made.
LEMMA ChangeStripeStep ==
  ASSUME IInv, ChangeStripe
  PROVE  IInv' /\ UNCHANGED Seen!vars
<1>1. UNCHANGED <<scenes, built, mon, layerRegion, imgCache, image, request, left, painted>>
  BY DEF ChangeStripe, baseVars
<1>2. TypeOK'
  BY <1>1 DEF IInv, TypeOK, BaseTypeOK
<1> QED
  BY <1>1, <1>2, MonitorOnly DEF Changing, IInv, CacheInv

\* The steps of the monitor that only look, or draw what is not yet published.
LEMMA LookStep ==
  ASSUME IInv,
         Poll \/ BeginExtend \/ ExtendThrows \/ EndExtend \/ BeginPaint \/ PaintRegion
  PROVE  IInv' /\ UNCHANGED Seen!vars
<1>1. UNCHANGED <<scenes, built, layerRegion, imgCache, image, request>>
  BY DEF Poll, BeginExtend, ExtendThrows, EndExtend, BeginPaint, PaintRegion
<1>2. /\ Changing' <=> Changing
      /\ mon' \in {"sleep", "dispose", "generate", "extend", "blank", "paint", "nullref", "threw"}
  BY DEF Poll, BeginExtend, ExtendThrows, EndExtend, BeginPaint, PaintRegion, Changing
<1>3. mon' = "paint" => layerRegion # NoBox
  BY DEF Poll, BeginExtend, ExtendThrows, EndExtend, BeginPaint, PaintRegion, IInv, CacheInv
<1>4. left' \in SUBSET Scenes /\ painted' \in SUBSET Scenes
  BY DEF Poll, BeginExtend, ExtendThrows, EndExtend, BeginPaint, PaintRegion, terrainVars,
         IInv, TypeOK, BaseTypeOK
<1>5. TypeOK'
  BY <1>1, <1>2, <1>4 DEF IInv, TypeOK, BaseTypeOK
<1> QED
  BY <1>1, <1>2, <1>3, <1>5, MonitorOnly

\* The box changes only while every running request is disturbed.
LEMMA ExtendOverStep ==
  ASSUME IInv, ExtendOver
  PROVE  IInv' /\ UNCHANGED Seen!vars
<1>1. UNCHANGED <<scenes, built, mon, imgCache, image, request, painted>> /\ mon = "extend"
  BY DEF ExtendOver
<1>2. layerRegion' \in SUBSET Scenes /\ left' \in SUBSET Scenes
  BY DEF ExtendOver, IInv, TypeOK, BaseTypeOK, Box
<1>3. layerRegion' # NoBox /\ layerRegion' \in Box
  BY <1>2, BoxFacts
<1>4. TypeOK'
  BY <1>1, <1>2, <1>3 DEF IInv, TypeOK, BaseTypeOK
<1>5. /\ \A b \in Bitmaps : ~image[b].live
      /\ \A r \in Requests : InFlight(r) => request[r].disturbed
  BY <1>1 DEF IInv, CacheInv, Changing
<1>6. CacheInv'
  BY <1>1, <1>3, <1>5 DEF CacheInv, Changing, InFlight
<1>7. QuietInv' /\ LockInv' /\ QuietRequestIsRight' /\ NeverBoxless'
  BY <1>1, <1>3, <1>5 DEF IInv, QuietInv, LockInv, QuietRequestIsRight, NeverBoxless, InFlight, Holds
<1>8. seenPicture' = seenPicture
  <2>1. imgCache # NULL => imgCache \in Bitmaps
    BY DEF IInv, TypeOK, BaseTypeOK, Ref
  <2> QED
    BY <1>1, <1>5, <2>1 DEF seenPicture
<1>9. seenCall' = seenCall
  BY <1>1 DEF seenCall, InFlight
<1>10. seenSure = {} /\ seenSure' = {}
  BY <1>1, <1>5 DEF seenSure, InFlight
<1> QED
  BY <1>4, <1>6, <1>7, <1>8, <1>9, <1>10 DEF IInv, Seen!vars

\* The disposal renews the picture, if there is one.
LEMMA MonitorDisposeStep ==
  ASSUME IInv, MonitorDispose, UNCHANGED terrainVars
  PROVE  IInv' /\ [Seen!Next]_Seen!vars
<1>1. UNCHANGED <<scenes, built, layerRegion, imgCache, left, painted>>
  BY DEF MonitorDispose, terrainVars
<1>2. mon = "dispose" /\ mon' = "generate"
  BY DEF MonitorDispose
<1>3. image' \in [Bitmaps -> Image]
  BY BoxFacts DEF MonitorDispose, IInv, TypeOK, BaseTypeOK, NoImage, Image
<1>4. \A b \in Bitmaps : ~image'[b].live
  BY <1>2 DEF MonitorDispose, IInv, CacheInv, NoImage, Changing
<1>5. request' \in [Requests -> Request]
  <2>1. \A r \in Requests : request[r] \in Request
    BY DEF IInv, TypeOK, BaseTypeOK
  <2>2. \A r \in Requests : \A d \in BOOLEAN : [request[r] EXCEPT !.disturbed = d] \in Request
    BY <2>1 DEF Request
  <2>3. \A r \in Requests : (InFlight(r) \/ request[r].disturbed) \in BOOLEAN
    OBVIOUS
  <2> QED
    BY <2>2, <2>3 DEF MonitorDispose, Disturb
<1>6. \A r \in Requests :
        /\ request'[r].pc = request[r].pc /\ request'[r].obj = request[r].obj
        /\ request'[r].out = request[r].out /\ request'[r].placed = request[r].placed
        /\ InFlight(r)' = InFlight(r)
        /\ InFlight(r) => request'[r].disturbed
        /\ ~InFlight(r) => request'[r] = request[r]
  BY DEF MonitorDispose, Disturb, InFlight, IInv, TypeOK, BaseTypeOK, Request
<1>7. TypeOK'
  BY <1>1, <1>2, <1>3, <1>5 DEF IInv, TypeOK, BaseTypeOK
<1>8. CacheInv'
  BY <1>1, <1>2, <1>4, <1>6 DEF IInv, CacheInv, Changing
<1>9. QuietInv'
  BY <1>1, <1>6 DEF IInv, QuietInv
<1>10. LockInv'
  BY <1>6 DEF IInv, LockInv, Holds
<1>11. QuietRequestIsRight' /\ NeverBoxless'
  BY <1>6 DEF IInv, QuietRequestIsRight, NeverBoxless, InFlight
<1>12. IInv'
  BY <1>7, <1>8, <1>9, <1>10, <1>11 DEF IInv
<1>13. seenCall' = seenCall
  BY <1>6 DEF seenCall
<1>14. seenSure' = {}
  BY <1>6 DEF seenSure
<1>15. CASE imgCache = NULL
  <2>1. seenSure = {}
    BY <1>15, SureSeen DEF IInv, QuietInv
  <2>2. seenPicture' = seenPicture
    BY <1>1, <1>15 DEF seenPicture
  <2> QED
    BY <1>12, <1>13, <1>14, <2>1, <2>2 DEF Seen!vars
<1>16. CASE imgCache # NULL
  <2>1. imgCache \in Bitmaps
    BY <1>16 DEF IInv, TypeOK, BaseTypeOK, Ref
  <2>2. seenPicture = "ready"
    BY <1>2, <1>16 DEF IInv, CacheInv, Changing, seenPicture
  <2>3. seenPicture' = "renewing"
    BY <1>1, <1>4, <1>16, <2>1 DEF seenPicture
  <2>4. Seen!Renew
    BY <1>13, <1>14, <2>2, <2>3 DEF Seen!Renew
  <2> QED
    BY <1>12, <2>4 DEF Seen!Next, Seen!Refresh
<1> QED
  BY <1>15, <1>16

\* A generation that fails loses the picture, if there was one.
LEMMA GenerationFailsStep ==
  ASSUME IInv, GenerationFails
  PROVE  IInv' /\ [Seen!Next]_Seen!vars
<1>1. UNCHANGED <<scenes, built, layerRegion, image, request, left, painted>>
  BY DEF GenerationFails, terrainVars
<1>2. mon \in {"blank", "paint"} /\ mon' = "sleep" /\ imgCache' = NULL
  BY DEF GenerationFails, CaughtFailure
<1>3. TypeOK'
  BY <1>1, <1>2 DEF IInv, TypeOK, BaseTypeOK, Ref
<1>4. /\ \A b \in Bitmaps : ~image[b].live
      /\ \A r \in Requests : InFlight(r) => request[r].disturbed
  BY <1>2 DEF IInv, CacheInv, Changing
<1>5. CacheInv'
  BY <1>1, <1>2, <1>4 DEF CacheInv, Changing
<1>6. QuietInv' /\ LockInv' /\ QuietRequestIsRight' /\ NeverBoxless'
  BY <1>1, <1>4 DEF IInv, QuietInv, LockInv, QuietRequestIsRight, NeverBoxless, InFlight, Holds
<1>7. seenCall' = seenCall /\ seenSure' = seenSure
  BY <1>1 DEF seenCall, seenSure, InFlight
<1>8. seenPicture' = "none" /\ seenPicture \in {"none", "renewing"}
  <2>1. imgCache # NULL => imgCache \in Bitmaps
    BY DEF IInv, TypeOK, BaseTypeOK, Ref
  <2> QED
    BY <1>2, <1>4, <2>1 DEF seenPicture
<1>9. Seen!Lose \/ UNCHANGED Seen!vars
  BY <1>7, <1>8 DEF Seen!Lose, Seen!vars
<1> QED
  BY <1>3, <1>5, <1>6, <1>9 DEF IInv, Seen!Next, Seen!Refresh

LEMMA GenerateCacheBitmapStep ==
  ASSUME IInv, GenerateCacheBitmap
  PROVE  IInv' /\ Seen!Next
<1>1. UNCHANGED <<scenes, built, layerRegion, request, left, painted>>
  BY DEF GenerateCacheBitmap, terrainVars
<1>2. mon = "paint" /\ mon' = "sleep" /\ layerRegion # NoBox /\ layerRegion \in Box
  BY DEF GenerateCacheBitmap, IInv, CacheInv, TypeOK, BaseTypeOK
<1>3. PICK b \in Bitmaps :
        /\ image' = [image EXCEPT ![b] = [live |-> TRUE, shows |-> painted, region |-> layerRegion]]
        /\ imgCache' = b
  BY DEF GenerateCacheBitmap, PublishImage
<1>4. b # NULL /\ image \in [Bitmaps -> Image]
  BY NullAssumption DEF IInv, TypeOK, BaseTypeOK
<1>5. TypeOK'
  <2>1. [live |-> TRUE, shows |-> painted, region |-> layerRegion] \in Image
    BY <1>2, TerrainAssumption DEF IInv, TypeOK, Image
  <2>2. image' \in [Bitmaps -> Image] /\ imgCache' \in Ref
    BY <1>3, <1>4, <2>1 DEF Ref
  <2> QED
    BY <1>1, <1>2, <2>2 DEF IInv, TypeOK, BaseTypeOK
<1>6. /\ \A c \in Bitmaps : ~image[c].live
      /\ \A r \in Requests : InFlight(r) => request[r].disturbed
  BY <1>2 DEF IInv, CacheInv, Changing
<1>7. /\ \A c \in Bitmaps : image'[c].live => c = b
      /\ image'[b].live /\ image'[b].region = layerRegion
  BY <1>3, <1>4, <1>6
<1>8. CacheInv'
  BY <1>1, <1>2, <1>3, <1>7 DEF CacheInv, Changing
<1>9. QuietInv' /\ LockInv' /\ QuietRequestIsRight' /\ NeverBoxless'
  BY <1>1, <1>6 DEF IInv, QuietInv, LockInv, QuietRequestIsRight, NeverBoxless, InFlight, Holds
<1>10. seenCall' = seenCall /\ seenSure' = seenSure
  BY <1>1 DEF seenCall, seenSure, InFlight
<1>11. seenPicture' = "ready" /\ seenPicture # "ready"
  <2>1. imgCache # NULL => imgCache \in Bitmaps
    BY DEF IInv, TypeOK, BaseTypeOK, Ref
  <2> QED
    BY <1>1, <1>2, <1>3, <1>4, <1>6, <1>7, <2>1 DEF seenPicture
<1>12. Seen!Publish
  BY <1>10, <1>11 DEF Seen!Publish
<1> QED
  BY <1>5, <1>8, <1>9, <1>12 DEF IInv, Seen!Next, Seen!Refresh

(***************************************************************************)
(* Requests.                                                               *)
(***************************************************************************)

\* What a request's steps have in common: they change nothing but that
\* request's record.
LEMMA RequestOnly ==
  ASSUME IInv, NEW r \in Requests, NEW new \in Request,
         UNCHANGED <<scenes, built, mon, layerRegion, imgCache, image, left, painted>>,
         request' = [request EXCEPT ![r] = new],
         new.pc \notin {"idle", "done"} =>
           /\ layerRegion # NoBox
           /\ Changing => new.disturbed
           /\ ~new.disturbed =>
                /\ imgCache # NULL /\ new.obj = imgCache
                /\ new.pc \in {"draw", "drawing"} => new.region = layerRegion
                /\ new.pc = "drawing" => new.got = imgCache,
         new.pc \in {"size", "region", "draw", "drawing"} =>
           \A q \in Requests \ {r} : ~Holds(q, new.obj),
         new.pc = "done" /\ ~new.disturbed =>
           /\ new.out # "gone"
           /\ new.out = "ok" => new.placed,
         new.out # "noregion"
  PROVE  IInv'
<1>1. request \in [Requests -> Request]
  BY DEF IInv, TypeOK, BaseTypeOK
<1>2. request'[r] = new /\ \A q \in Requests : q # r => request'[q] = request[q]
  BY <1>1
<1>3. TypeOK'
  BY <1>1 DEF IInv, TypeOK, BaseTypeOK
<1>4. CacheInv'
  BY <1>2 DEF IInv, CacheInv, InFlight, Changing
<1>5. QuietInv'
  BY <1>2 DEF IInv, QuietInv, InFlight
<1>6. LockInv'
  BY <1>2 DEF IInv, LockInv, Holds
<1>7. QuietRequestIsRight' /\ NeverBoxless'
  BY <1>2 DEF IInv, QuietRequestIsRight, NeverBoxless
<1> QED
  BY <1>3, <1>4, <1>5, <1>6, <1>7 DEF IInv

\* A finished request is well-formed and holds nothing.
LEMMA FinishStep ==
  ASSUME IInv, NEW r \in Requests, NEW placed \in BOOLEAN,
         NEW outcome \in {"ok", "nocache", "gone", "busy"},
         UNCHANGED <<scenes, built, mon, layerRegion, imgCache, image, left, painted>>,
         Finish(r, outcome, placed),
         ~request[r].disturbed =>
           /\ outcome # "gone"
           /\ outcome = "ok" => placed
  PROVE  /\ IInv'
         /\ seenPicture' = seenPicture
         /\ seenCall' = [seenCall EXCEPT ![r] = IF outcome = "ok" THEN "answered" ELSE "failed"]
         /\ seenSure' = seenSure \ {r}
<1> DEFINE new == [request[r] EXCEPT !.pc = "done", !.obj = NULL, !.got = NULL,
                                     !.region = NoBox, !.out = outcome, !.placed = placed]
<1>1. request[r] \in Request /\ request \in [Requests -> Request]
  BY DEF IInv, TypeOK, BaseTypeOK
<1>2. new \in Request
  BY <1>1, BoxFacts DEF Request, Ref
<1>3. new.pc = "done" /\ new.disturbed = request[r].disturbed
      /\ new.out = outcome /\ new.placed = placed
  BY <1>1 DEF Request
<1>4. request' = [request EXCEPT ![r] = new]
  BY DEF Finish
<1> HIDE DEF new
<1>5. IInv'
  BY <1>2, <1>3, <1>4, RequestOnly
<1>6. /\ request'[r].pc = "done" /\ request'[r].out = outcome
      /\ \A q \in Requests : q # r => request'[q] = request[q]
  BY <1>1, <1>3, <1>4
<1>7. seenPicture' = seenPicture
  BY DEF seenPicture
<1>8. seenCall' = [seenCall EXCEPT ![r] = IF outcome = "ok" THEN "answered" ELSE "failed"]
  BY <1>6 DEF seenCall, InFlight
<1>9. seenSure' = seenSure \ {r}
  BY <1>6 DEF seenSure, InFlight
<1> QED
  BY <1>5, <1>7, <1>8, <1>9

\* A request fails when it, or another one still running, was disturbed.
LEMMA FailStep ==
  ASSUME IInv, NEW r \in Requests, NEW q \in Requests,
         NEW outcome \in {"gone", "busy"},
         UNCHANGED <<scenes, built, mon, layerRegion, imgCache, image, left, painted>>,
         InFlight(r), InFlight(q), request[q].disturbed, Finish(r, outcome, FALSE),
         outcome = "gone" => q = r
  PROVE  IInv' /\ Seen!Next
<1>1. /\ IInv'
      /\ seenPicture' = seenPicture
      /\ seenCall' = [seenCall EXCEPT ![r] = "failed"]
      /\ seenSure' = seenSure \ {r}
  BY FinishStep
<1>2. seenCall[r] = "running" /\ seenCall[q] = "running" /\ q \notin seenSure
  BY DEF seenCall, seenSure, InFlight
<1>3. Seen!Fail(r)
  BY <1>1, <1>2 DEF Seen!Fail
<1> QED
  BY <1>1, <1>3 DEF Seen!Next

\* A bitmap that is gone is only found by a disturbed request.
LEMMA GoneStep ==
  ASSUME IInv, NEW r \in Requests,
         UNCHANGED <<scenes, built, mon, layerRegion, imgCache, image, left, painted>>,
         InFlight(r), CacheGone, Finish(r, "gone", FALSE)
  PROVE  IInv' /\ Seen!Next
<1>1. request[r].disturbed
  BY DEF IInv, QuietInv, CacheInv, CacheGone
<1> QED
  BY <1>1, FailStep

\* GDI+ is busy only when one of the two requests was disturbed: the lock of
\* the cached bitmap keeps undisturbed ones apart.
LEMMA BusyStep ==
  ASSUME IInv, NEW r \in Requests,
         UNCHANGED <<scenes, built, mon, layerRegion, imgCache, image, left, painted>>,
         request[r].pc \in {"size", "draw"}, Busy(r), Finish(r, "busy", FALSE)
  PROVE  IInv' /\ Seen!Next
<1>1. PICK q \in Requests \ {r} : request[q].pc = "drawing"
  BY DEF Busy
<1>2. InFlight(r) /\ InFlight(q)
  BY <1>1 DEF InFlight
<1>3. request[r].disturbed \/ request[q].disturbed
  <2> SUFFICES ASSUME ~request[r].disturbed, ~request[q].disturbed PROVE FALSE
    OBVIOUS
  <2>1. request[r].obj = imgCache /\ request[q].obj = imgCache /\ imgCache \in Ref
    BY <1>2 DEF IInv, QuietInv, TypeOK, BaseTypeOK
  <2> QED
    BY <1>1, <2>1 DEF IInv, LockInv, Holds
<1> QED
  BY <1>2, <1>3, FailStep

\* A step within a request: its lock and its mark stay as they are.
LEMMA WithinStep ==
  ASSUME IInv, NEW r \in Requests, NEW new \in Request, InFlight(r),
         UNCHANGED <<scenes, built, mon, layerRegion, imgCache, image, left, painted>>,
         request' = [request EXCEPT ![r] = new],
         new.pc \in {"size", "region", "draw", "drawing"},
         new.obj = request[r].obj, new.disturbed = request[r].disturbed, new.out = request[r].out,
         ~new.disturbed =>
           /\ new.pc \in {"draw", "drawing"} => new.region = layerRegion
           /\ new.pc = "drawing" => new.got = imgCache,
         \A q \in Requests \ {r} : ~Holds(q, new.obj)
  PROVE  IInv' /\ UNCHANGED Seen!vars
<1>1. new.out # "noregion"
  BY DEF IInv, NeverBoxless
<1>2. /\ layerRegion # NoBox /\ Changing => new.disturbed
      /\ ~new.disturbed => imgCache # NULL /\ new.obj = imgCache
  BY DEF IInv, QuietInv, CacheInv
<1>3. IInv'
  BY <1>1, <1>2, RequestOnly DEF IInv, QuietInv
<1>4. /\ request'[r] = new
      /\ \A q \in Requests : q # r => request'[q] = request[q]
  BY DEF IInv, TypeOK, BaseTypeOK
<1>5. \A q \in Requests : InFlight(q)' = InFlight(q)
  BY <1>4 DEF InFlight
<1>6. seenPicture' = seenPicture
  BY DEF seenPicture
<1>7. seenCall' = seenCall
  BY <1>4, <1>5 DEF seenCall, InFlight
<1>8. seenSure' = seenSure
  BY <1>4, <1>5 DEF seenSure
<1> QED
  BY <1>3, <1>6, <1>7, <1>8 DEF Seen!vars

LEMMA ReadCacheStep ==
  ASSUME IInv, NEW r \in Requests, ReadCache(r, Len(CtorOrder)), UNCHANGED terrainVars
  PROVE  IInv' /\ Seen!Next
<1>1. /\ UNCHANGED <<scenes, built, mon, layerRegion, imgCache, image, left, painted>>
      /\ request[r].pc = "idle"
  BY DEF ReadCache, terrainVars
<1>2. seenCall[r] = "idle" /\ r \notin seenSure /\ seenPicture' = seenPicture
  BY <1>1 DEF seenCall, seenSure, InFlight, seenPicture
<1>3. CASE imgCache = NULL
  <2>1. Finish(r, "nocache", FALSE) /\ seenPicture = "none"
    BY <1>3 DEF ReadCache, seenPicture
  <2>2. IInv' /\ seenCall' = [seenCall EXCEPT ![r] = "failed"] /\ seenSure' = seenSure \ {r}
    BY <1>1, <2>1, FinishStep
  <2>3. Seen!Begin(r)
    BY <1>2, <2>1, <2>2 DEF Seen!Begin
  <2> QED
    BY <2>2, <2>3 DEF Seen!Next
<1>4. CASE imgCache # NULL
  <2> DEFINE new == [request[r] EXCEPT !.pc = "wait", !.obj = imgCache,
                                       !.disturbed = ~image[imgCache].live]
  <2>1. /\ request[r] \in Request /\ request \in [Requests -> Request]
        /\ imgCache \in Bitmaps /\ layerRegion # NoBox
    BY <1>4 DEF IInv, TypeOK, BaseTypeOK, Ref, CacheInv
  <2>2. new \in Request
    BY <2>1 DEF Request, Ref
  <2>3. new.pc = "wait" /\ new.obj = imgCache /\ new.disturbed = ~image[imgCache].live
       /\ new.out = request[r].out
    BY <2>1 DEF Request
  <2>4. request' = [request EXCEPT ![r] = new]
    BY <1>4 DEF ReadCache
  <2>5. Changing => ~image[imgCache].live
    BY <2>1 DEF IInv, CacheInv
  <2> HIDE DEF new
  <2>6. IInv'
    BY <1>1, <1>4, <2>1, <2>2, <2>3, <2>4, <2>5, RequestOnly DEF IInv, NeverBoxless
  <2>7. /\ request'[r] = new
        /\ \A q \in Requests : q # r => request'[q] = request[q]
    BY <2>1, <2>4
  <2>8. seenPicture = IF image[imgCache].live THEN "ready" ELSE "renewing"
    BY <1>4, <2>1 DEF seenPicture
  <2>9. seenCall' = [seenCall EXCEPT ![r] = "running"]
    BY <2>3, <2>7 DEF seenCall, InFlight
  <2>10. seenSure' = IF image[imgCache].live THEN seenSure \union {r} ELSE seenSure
    BY <1>1, <1>2, <2>1, <2>3, <2>7 DEF seenSure, InFlight
  <2>11. Seen!Begin(r)
    BY <1>2, <2>8, <2>9, <2>10 DEF Seen!Begin
  <2> QED
    BY <2>6, <2>11 DEF Seen!Next
<1> QED
  BY <1>3, <1>4

LEMMA AcquireLockStep ==
  ASSUME IInv, NEW r \in Requests, AcquireLock(r), UNCHANGED terrainVars
  PROVE  IInv' /\ UNCHANGED Seen!vars
<1> DEFINE new == [request[r] EXCEPT !.pc = "size"]
<1>1. UNCHANGED <<scenes, built, mon, layerRegion, imgCache, image, left, painted>>
  BY DEF AcquireLock, terrainVars
<1>2. request[r] \in Request
  BY DEF IInv, TypeOK, BaseTypeOK
<1>3. new \in Request
  BY <1>2 DEF Request
<1>4. new.pc = "size" /\ new.obj = request[r].obj /\ new.disturbed = request[r].disturbed
      /\ new.out = request[r].out
  BY <1>2 DEF Request
<1>5. request' = [request EXCEPT ![r] = new] /\ InFlight(r)
  BY DEF AcquireLock, InFlight
<1>6. \A q \in Requests : ~Holds(q, new.obj)
  BY <1>4 DEF AcquireLock
<1> HIDE DEF new
<1> QED
  BY <1>1, <1>3, <1>4, <1>5, <1>6, WithinStep

\* A request that holds a lock goes on holding it, and so excludes the others.
LEMMA HeldAlone ==
  ASSUME IInv, NEW r \in Requests, request[r].pc \in {"size", "region", "draw", "drawing"}
  PROVE  \A q \in Requests \ {r} : ~Holds(q, request[r].obj)
<1> SUFFICES ASSUME NEW q \in Requests, q # r, Holds(q, request[r].obj) PROVE FALSE
  OBVIOUS
<1>1. request[r].obj \in Ref
  BY DEF IInv, TypeOK, BaseTypeOK, Request
<1> QED
  BY <1>1 DEF IInv, LockInv, Holds

LEMMA ReadSizeStep ==
  ASSUME IInv, NEW r \in Requests, ReadSize(r), UNCHANGED terrainVars
  PROVE  IInv' /\ [Seen!Next]_Seen!vars
<1> DEFINE new == [request[r] EXCEPT !.pc = "region"]
<1>1. UNCHANGED <<scenes, built, mon, layerRegion, imgCache, image, left, painted>>
  BY DEF ReadSize, terrainVars
<1>2. request[r] \in Request
  BY DEF IInv, TypeOK, BaseTypeOK
<1>3. request[r].pc = "size" /\ InFlight(r)
  BY DEF ReadSize, InFlight
<1>4. CASE CacheGone /\ Finish(r, "gone", FALSE)
  BY <1>1, <1>3, <1>4, GoneStep
<1>5. CASE Busy(r) /\ Finish(r, "busy", FALSE)
  BY <1>1, <1>3, <1>5, BusyStep
<1>6. CASE request' = [request EXCEPT ![r].pc = "region"]
  <2>1. new \in Request
    BY <1>2 DEF Request
  <2>2. new.pc = "region" /\ new.obj = request[r].obj /\ new.disturbed = request[r].disturbed
        /\ new.out = request[r].out
    BY <1>2 DEF Request
  <2>3. request' = [request EXCEPT ![r] = new]
    BY <1>6
  <2>4. \A q \in Requests \ {r} : ~Holds(q, new.obj)
    BY <1>3, <2>2, HeldAlone
  <2> HIDE DEF new
  <2> QED
    BY <1>1, <1>3, <2>1, <2>2, <2>3, <2>4, WithinStep
<1> QED
  BY <1>4, <1>5, <1>6 DEF ReadSize

LEMMA ReadRegionStep ==
  ASSUME IInv, NEW r \in Requests, ReadRegion(r), UNCHANGED terrainVars
  PROVE  IInv' /\ UNCHANGED Seen!vars
<1> DEFINE new == [request[r] EXCEPT !.pc = "draw", !.region = layerRegion]
<1>1. UNCHANGED <<scenes, built, mon, layerRegion, imgCache, image, left, painted>>
  BY DEF ReadRegion, terrainVars
<1>2. request[r] \in Request /\ layerRegion \in Box
  BY DEF IInv, TypeOK, BaseTypeOK
<1>3. request[r].pc = "region" /\ InFlight(r)
  BY DEF ReadRegion, InFlight
<1>4. layerRegion # NoBox
  BY <1>3 DEF IInv, QuietInv
<1>5. new \in Request
  BY <1>2 DEF Request
<1>6. /\ new.pc = "draw" /\ new.region = layerRegion
      /\ new.obj = request[r].obj /\ new.disturbed = request[r].disturbed
      /\ new.out = request[r].out
  BY <1>2 DEF Request
<1>7. request' = [request EXCEPT ![r] = new]
  BY <1>4 DEF ReadRegion
<1>8. \A q \in Requests \ {r} : ~Holds(q, new.obj)
  BY <1>3, <1>6, HeldAlone
<1> HIDE DEF new
<1> QED
  BY <1>1, <1>3, <1>5, <1>6, <1>7, <1>8, WithinStep

LEMMA BeginDrawStep ==
  ASSUME IInv, NEW r \in Requests, BeginDraw(r), UNCHANGED terrainVars
  PROVE  IInv' /\ [Seen!Next]_Seen!vars
<1> DEFINE new == [request[r] EXCEPT !.pc = "drawing", !.got = imgCache]
<1>1. UNCHANGED <<scenes, built, mon, layerRegion, imgCache, image, left, painted>>
  BY DEF BeginDraw, terrainVars
<1>2. request[r] \in Request /\ imgCache \in Ref
  BY DEF IInv, TypeOK, BaseTypeOK
<1>3. request[r].pc = "draw" /\ InFlight(r)
  BY DEF BeginDraw, InFlight
<1>4. CASE CacheGone /\ Finish(r, "gone", FALSE)
  BY <1>1, <1>3, <1>4, GoneStep
<1>5. CASE Busy(r) /\ Finish(r, "busy", FALSE)
  BY <1>1, <1>3, <1>5, BusyStep
<1>6. CASE request' = [request EXCEPT ![r].pc = "drawing", ![r].got = imgCache]
  <2>1. new \in Request
    BY <1>2 DEF Request
  <2>2. /\ new.pc = "drawing" /\ new.got = imgCache /\ new.region = request[r].region
        /\ new.obj = request[r].obj /\ new.disturbed = request[r].disturbed
        /\ new.out = request[r].out
    BY <1>2 DEF Request
  <2>3. request' = [request EXCEPT ![r] = new]
    BY <1>6
  <2>4. \A q \in Requests \ {r} : ~Holds(q, new.obj)
    BY <1>3, <2>2, HeldAlone
  <2>5. ~request[r].disturbed => request[r].region = layerRegion
    BY <1>3 DEF IInv, QuietInv
  <2> HIDE DEF new
  <2> QED
    BY <1>1, <1>3, <2>1, <2>2, <2>3, <2>4, <2>5, WithinStep
<1> QED
  BY <1>4, <1>5, <1>6 DEF BeginDraw

LEMMA EndDrawStep ==
  ASSUME IInv, NEW r \in Requests, EndDraw(r), UNCHANGED terrainVars
  PROVE  IInv' /\ Seen!Next
<1> DEFINE b == request[r].got
           right == request[r].region = image[b].region
<1>1. UNCHANGED <<scenes, built, mon, layerRegion, imgCache, image, left, painted>>
  BY DEF EndDraw, terrainVars
<1>2. request[r].pc = "drawing" /\ InFlight(r)
  BY DEF EndDraw, InFlight
<1>3. ~request[r].disturbed => image[b].live /\ right
  BY <1>2 DEF IInv, QuietInv, CacheInv
<1>4. right \in BOOLEAN /\ seenCall[r] = "running"
  BY <1>2 DEF seenCall
<1>5. CASE Finish(r, "ok", right)
  <2> HIDE DEF right, b
  <2>1. /\ IInv' /\ seenPicture' = seenPicture
        /\ seenCall' = [seenCall EXCEPT ![r] = "answered"] /\ seenSure' = seenSure \ {r}
    BY <1>1, <1>3, <1>4, <1>5, FinishStep
  <2>2. Seen!Answer(r)
    BY <1>4, <2>1 DEF Seen!Answer
  <2> QED
    BY <2>1, <2>2 DEF Seen!Next
<1>6. CASE ~image[b].live /\ Finish(r, "gone", FALSE)
  BY <1>1, <1>2, <1>3, <1>6, FailStep
<1> QED
  BY <1>5, <1>6 DEF EndDraw

(***************************************************************************)
(* Theorems.                                                               *)
(***************************************************************************)

\* Each step keeps the invariant and is a step of the service or not seen.
LEMMA NextStep ==
  ASSUME IInv, [Next]_vars
  PROVE  IInv' /\ [Seen!Next]_Seen!vars
<1>1. CASE Construct
  BY <1>1, ConstructStep
<1>2. CASE ChangeScenes
  BY <1>2, ChangeScenesStep
<1>3. CASE Monitor
  BY <1>3, LookStep, ExtendOverStep, MonitorDisposeStep, GenerationFailsStep,
     GenerateCacheBitmapStep DEF Monitor
<1>4. ASSUME NEW r \in Requests, Serve(r) PROVE IInv' /\ [Seen!Next]_Seen!vars
  BY <1>4, ReadCacheStep, AcquireLockStep, ReadSizeStep, ReadRegionStep,
     BeginDrawStep, EndDrawStep DEF Serve, RequestStep
<1>5. CASE ChangeStripe
  BY <1>5, ChangeStripeStep
<1>6. CASE UNCHANGED vars
  <2>1. TypeOK'
    BY <1>6 DEF vars, IInv, TypeOK, BaseTypeOK
  <2> QED
    BY <1>6, <2>1, MonitorOnly DEF vars, Changing, IInv, CacheInv
<1> QED
  BY <1>1, <1>2, <1>3, <1>4, <1>5, <1>6 DEF Next

\* The inductive invariant holds.
THEOREM InductiveInvariant == Spec => []IInv
<1>1. IInv /\ [Next]_vars => IInv'
  BY NextStep
<1> QED
  BY InitIInv, <1>1, PTL DEF Spec

\* A request the monitor does not disturb gets the right part of the picture
\* (GetRegionByBitmap of TerrainLayer).
THEOREM QuietRequests == Spec => []QuietRequestIsRight
<1>1. IInv => QuietRequestIsRight
  BY DEF IInv
<1> QED
  BY InductiveInvariant, <1>1, PTL

\* A request that found a picture never misses its box, though the box is made
\* only by the first generation (generateCacheBitmap of TerrainLayer).
THEOREM RequestsFindTheBox == Spec => []NeverBoxless
<1>1. IInv => NeverBoxless
  BY DEF IInv
<1> QED
  BY InductiveInvariant, <1>1, PTL

\* A disposed bitmap is in the field only while the next one is drawn: no end
\* of a generation leaves it there.
THEOREM NeverDisposedAtRest == Spec => []NoDisposedAtRest
<1>1. IInv => NoDisposedAtRest
  BY DEF IInv, CacheInv, Changing, NoDisposedAtRest
<1> QED
  BY InductiveInvariant, <1>1, PTL

LEMMA InitSeen == Init => Seen!Init
<1> SUFFICES ASSUME Init PROVE Seen!Init
  OBVIOUS
<1>1. \A r \in Requests : request[r].pc = "idle"
  BY DEF Init, BaseInit, NewRequest
<1>2. seenPicture = "none"
  BY DEF Init, BaseInit, seenPicture
<1>3. seenCall = [r \in Requests |-> "idle"]
  BY <1>1 DEF seenCall
<1>4. seenSure = {}
  BY <1>1 DEF seenSure, InFlight
<1> QED
  BY <1>2, <1>3, <1>4 DEF Seen!Init

\* GetRegionByBitmap of the terrain layer fails for no other reason than a
\* picture that is missing, or renewed under a call that still runs.
THEOREM Implements == Spec => KeepsPromise
<1>1. IInv /\ [Next]_vars => [Seen!Next]_Seen!vars
  BY NextStep
<1> QED
  BY InitSeen, InductiveInvariant, <1>1, PTL DEF Spec, KeepsPromise, Seen!Spec
=============================================================================

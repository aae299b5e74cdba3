-------------------------- MODULE ObjectLayerProofs --------------------------
(***************************************************************************)
(* The safety properties of ObjectLayer hold for any number of regions,    *)
(* requests and bitmaps: IInv is inductive and implies each of them.       *)
(***************************************************************************)
EXTENDS ObjectLayer, FiniteSetTheorems, TLAPS

LEMMA RegionCount ==
  ASSUME scenes \in SUBSET Scenes
  PROVE  Cardinality(Scenes) \in Nat /\ Cardinality(scenes) \in 0..Cardinality(Scenes)
<1>1. IsFiniteSet(Scenes)
  BY ObjectAssumption
<1>2. IsFiniteSet(scenes) /\ Cardinality(scenes) <= Cardinality(Scenes)
  BY <1>1, FS_Subset
<1>3. Cardinality(scenes) \in Nat /\ Cardinality(Scenes) \in Nat
  BY <1>1, <1>2, FS_CardinalityType
<1> QED
  BY <1>2, <1>3

\* The fields behind the box are assigned by the time it is.
LEMMA CtorOrderFacts ==
  /\ Len(CtorOrder) = 3
  /\ \A i \in 1..3 : CtorOrder[i] = "m_layerRegion" <=> i = 3
  /\ built = 3 => IsSet("_sceneManager") /\ IsSet("_polygonList")
<1>1. Len(CtorOrder) = 3
  BY DEF CtorOrder
<1>2. \A i \in 1..3 : CtorOrder[i] = "m_layerRegion" <=> i = 3
  BY DEF CtorOrder
<1>3. CtorOrder[1] = "_sceneManager" /\ CtorOrder[2] = "_polygonList"
  BY DEF CtorOrder
<1>4. built = 3 => IsSet("_sceneManager") /\ IsSet("_polygonList")
  BY <1>3 DEF IsSet
<1> QED
  BY <1>1, <1>2, <1>4

LEMMA BoxFacts == HomeBox # NoBox /\ HomeBox \in Box /\ NoBox \in Box
  BY NullAssumption, ObjectAssumption DEF NoBox, Box

LEMMA InitIInv == Init => IInv
<1> SUFFICES ASSUME Init PROVE IInv
  OBVIOUS
<1> USE DEF Init, BaseInit
<1>1. NoImage \in Image /\ NewRequest \in Request
  BY BoxFacts DEF NoImage, Image, NewRequest, Request, Ref
<1>2. TypeOK
  <2>1. BaseTypeOK
    BY <1>1, BoxFacts DEF BaseTypeOK, Ref
  <2>2. 0 \in 0..Cardinality(Scenes)
    BY RegionCount
  <2> QED
    BY <2>1, <2>2, CtorOrderFacts DEF TypeOK
<1>3. BuiltInv
  BY CtorOrderFacts DEF BuiltInv
<1>4. CacheInv
  BY DEF CacheInv, NoImage
<1>5. QuietInv /\ LockInv /\ QuietRequestIsRight /\ NeverBoxless
  BY DEF QuietInv, LockInv, QuietRequestIsRight, NeverBoxless, InFlight, Holds, NewRequest
<1> QED
  BY <1>2, <1>3, <1>4, <1>5 DEF IInv

\* A step that changes neither the bitmaps, the box, the requests nor the
\* constructor's progress leaves what it does not touch true.
LEMMA MonitorOnly ==
  ASSUME IInv, TypeOK',
         UNCHANGED <<built, layerRegion, imgCache, image, request>>,
         mon # "generate", mon' # "generate", mon' # "nullref",
         mon' # "sleep" => built = Len(CtorOrder)
  PROVE  IInv'
<1>1. BuiltInv'
  BY DEF IInv, BuiltInv
<1>2. CacheInv'
  BY DEF IInv, CacheInv, InFlight
<1>3. QuietInv' /\ LockInv' /\ QuietRequestIsRight' /\ NeverBoxless'
  BY DEF IInv, QuietInv, LockInv, QuietRequestIsRight, NeverBoxless, InFlight, Holds
<1> QED
  BY <1>1, <1>2, <1>3 DEF IInv

LEMMA ConstructStep == IInv /\ Construct => IInv'
<1> SUFFICES ASSUME IInv, Construct PROVE IInv'
  OBVIOUS
<1>1. built \in 0..2 /\ built' = built + 1 /\ built' \in 0..3
  BY CtorOrderFacts DEF IInv, TypeOK, Construct
<1>2. layerRegion = NoBox /\ mon = "sleep" /\ imgCache = NULL
  BY <1>1, CtorOrderFacts DEF IInv, BuiltInv
<1>3. layerRegion' = IF built' = 3 THEN HomeBox ELSE NoBox
  BY <1>1, <1>2, CtorOrderFacts DEF Construct
<1>4. UNCHANGED <<scenes, mon, imgCache, image, request, regionNumber, polygonList>>
  BY DEF Construct, objectVars
<1>5. TypeOK'
  BY <1>1, <1>3, <1>4, BoxFacts, CtorOrderFacts DEF IInv, TypeOK, BaseTypeOK
<1>6. BuiltInv'
  BY <1>2, <1>3, <1>4, CtorOrderFacts DEF BuiltInv
<1>7. CacheInv'
  BY <1>2, <1>4 DEF IInv, CacheInv, InFlight
<1>8. \A r \in Requests : ~InFlight(r)
  BY <1>1, CtorOrderFacts DEF IInv, QuietInv
<1>9. QuietInv' /\ LockInv' /\ QuietRequestIsRight' /\ NeverBoxless'
  BY <1>4, <1>8 DEF IInv, QuietInv, LockInv, QuietRequestIsRight, NeverBoxless, InFlight, Holds
<1> QED
  BY <1>5, <1>6, <1>7, <1>9 DEF IInv

LEMMA ChangeScenesStep == IInv /\ ChangeScenes => IInv'
<1> SUFFICES ASSUME IInv, ChangeScenes PROVE IInv'
  OBVIOUS
<1>1. UNCHANGED <<built, mon, layerRegion, imgCache, image, request, regionNumber, polygonList>>
  BY DEF ChangeScenes, objectVars
<1>2. scenes' \in SUBSET Scenes
  BY DEF ChangeScenes, IInv, TypeOK, BaseTypeOK
<1>3. TypeOK'
  BY <1>1, <1>2 DEF IInv, TypeOK, BaseTypeOK
<1>4. BuiltInv' /\ CacheInv'
  BY <1>1 DEF IInv, BuiltInv, CacheInv, InFlight
<1>5. QuietInv' /\ LockInv' /\ QuietRequestIsRight' /\ NeverBoxless'
  BY <1>1 DEF IInv, QuietInv, LockInv, QuietRequestIsRight, NeverBoxless, InFlight, Holds
<1> QED
  BY <1>3, <1>4, <1>5 DEF IInv

LEMMA PollStep == IInv /\ Poll => IInv'
<1> SUFFICES ASSUME IInv, Poll PROVE IInv'
  OBVIOUS
<1>1. UNCHANGED <<scenes, built, layerRegion, imgCache, image, request, regionNumber, polygonList>>
  BY DEF Poll, objectVars
<1>2. layerRegion # NoBox => built = Len(CtorOrder)
  BY DEF IInv, BuiltInv
<1>3. mon' \in {"sleep", "count"} /\ (mon' # "sleep" => built = Len(CtorOrder))
  BY <1>2, CtorOrderFacts DEF Poll, RequireUpdate
<1>4. TypeOK'
  BY <1>1, <1>3 DEF IInv, TypeOK, BaseTypeOK
<1> QED
  BY <1>1, <1>3, <1>4, MonitorOnly DEF Poll

LEMMA CountRegionsStep == IInv /\ CountRegions => IInv'
<1> SUFFICES ASSUME IInv, CountRegions PROVE IInv'
  OBVIOUS
<1>1. UNCHANGED <<scenes, built, layerRegion, imgCache, image, request, polygonList>>
  BY DEF CountRegions
<1>2. mon = "count" /\ mon' = "collect" /\ built = Len(CtorOrder)
  BY DEF CountRegions, IInv, BuiltInv
<1>3. regionNumber' \in 0..Cardinality(Scenes)
  BY RegionCount DEF CountRegions, IInv, TypeOK, BaseTypeOK
<1>4. TypeOK'
  BY <1>1, <1>2, <1>3 DEF IInv, TypeOK, BaseTypeOK
<1> QED
  BY <1>1, <1>2, <1>4, MonitorOnly

LEMMA GeneratePolygonListStep == IInv /\ GeneratePolygonList => IInv'
<1> SUFFICES ASSUME IInv, GeneratePolygonList PROVE IInv'
  OBVIOUS
<1>1. UNCHANGED <<scenes, built, layerRegion, imgCache, image, request, regionNumber>>
  BY DEF GeneratePolygonList
<1>2. mon = "collect" /\ built = Len(CtorOrder)
  BY DEF GeneratePolygonList, IInv, BuiltInv
<1>3. mon' \in {"threw", "dispose"}
  BY <1>2, CtorOrderFacts DEF GeneratePolygonList
<1>4. polygonList' \in SUBSET Scenes
  BY DEF GeneratePolygonList, IInv, TypeOK, BaseTypeOK
<1>5. TypeOK'
  BY <1>1, <1>3, <1>4 DEF IInv, TypeOK, BaseTypeOK
<1> QED
  BY <1>1, <1>2, <1>3, <1>5, MonitorOnly

LEMMA MonitorDisposeStep == IInv /\ MonitorDispose /\ UNCHANGED objectVars => IInv'
<1> SUFFICES ASSUME IInv, MonitorDispose, UNCHANGED objectVars PROVE IInv'
  OBVIOUS
<1>1. UNCHANGED <<scenes, built, layerRegion, imgCache, regionNumber, polygonList>>
  BY DEF MonitorDispose, objectVars
<1>2. mon = "dispose" /\ mon' = "generate" /\ built = Len(CtorOrder)
  BY DEF MonitorDispose, IInv, BuiltInv
<1>3. image' \in [Bitmaps -> Image]
  BY BoxFacts DEF MonitorDispose, IInv, TypeOK, BaseTypeOK, NoImage, Image
<1>4. \A b \in Bitmaps : ~image'[b].live
  BY DEF MonitorDispose, IInv, CacheInv, NoImage
<1>5. request' \in [Requests -> Request]
  <2>1. \A r \in Requests : request[r] \in Request
    BY DEF IInv, TypeOK, BaseTypeOK
  <2>2. \A r \in Requests : \A d \in BOOLEAN : [request[r] EXCEPT !.disturbed = d] \in Request
    BY <2>1 DEF Request
  <2>3. \A r \in Requests : (InFlight(r) \/ request[r].disturbed) \in BOOLEAN
    OBVIOUS
  <2> QED
    BY <2>2, <2>3 DEF MonitorDispose, Disturb
<1>6. \A r \in Requests :
        /\ request'[r].pc = request[r].pc /\ request'[r].obj = request[r].obj
        /\ request'[r].out = request[r].out /\ request'[r].placed = request[r].placed
        /\ InFlight(r)' = InFlight(r)
        /\ InFlight(r) => request'[r].disturbed
        /\ ~InFlight(r) => request'[r] = request[r]
  BY DEF MonitorDispose, Disturb, InFlight, IInv, TypeOK, BaseTypeOK, Request
<1>7. TypeOK'
  BY <1>1, <1>2, <1>3, <1>5 DEF IInv, TypeOK, BaseTypeOK
<1>8. BuiltInv'
  BY <1>1, <1>2 DEF IInv, BuiltInv
<1>9. CacheInv'
  BY <1>2, <1>4, <1>6 DEF CacheInv
<1>10. QuietInv'
  BY <1>1, <1>6 DEF IInv, QuietInv
<1>11. LockInv'
  BY <1>6 DEF IInv, LockInv, Holds
<1>12. QuietRequestIsRight' /\ NeverBoxless'
  BY <1>6 DEF IInv, QuietRequestIsRight, NeverBoxless, InFlight
<1> QED
  BY <1>7, <1>8, <1>9, <1>10, <1>11, <1>12 DEF IInv

LEMMA GenerateCacheBitmapStep == IInv /\ GenerateCacheBitmap => IInv'
<1> SUFFICES ASSUME IInv, GenerateCacheBitmap PROVE IInv'
  OBVIOUS
<1>1. UNCHANGED <<scenes, built, layerRegion, request, regionNumber, polygonList>>
  BY DEF GenerateCacheBitmap, objectVars
<1>2. mon = "generate" /\ mon' = "sleep" /\ built = Len(CtorOrder) /\ layerRegion = HomeBox
  BY DEF GenerateCacheBitmap, IInv, BuiltInv
<1>3. PICK b \in Bitmaps :
        /\ image' = [image EXCEPT ![b] = [live |-> TRUE, shows |-> polygonList, region |-> HomeBox]]
        /\ imgCache' = b
  BY <1>2 DEF GenerateCacheBitmap, PublishImage
<1>4. b # NULL
  BY NullAssumption
<1>5. TypeOK'
  <2>1. [live |-> TRUE, shows |-> polygonList, region |-> HomeBox] \in Image
    BY BoxFacts, ObjectAssumption DEF IInv, TypeOK, Image
  <2>2. image' \in [Bitmaps -> Image] /\ imgCache' \in Ref
    BY <1>3, <2>1 DEF IInv, TypeOK, BaseTypeOK, Ref
  <2> QED
    BY <1>1, <1>2, <2>2 DEF IInv, TypeOK, BaseTypeOK
<1>6. BuiltInv'
  BY <1>1, <1>2 DEF IInv, BuiltInv
<1>7. CacheInv'
  <2>1. image \in [Bitmaps -> Image]
    BY DEF IInv, TypeOK, BaseTypeOK
  <2>2. \A c \in Bitmaps : image'[c].live => c = b
    BY <1>2, <1>3, <2>1 DEF IInv, CacheInv
  <2>3. image'[b].live /\ image'[b].region = HomeBox
    BY <1>3, <2>1
  <2> QED
    BY <1>2, <1>3, <2>2, <2>3 DEF CacheInv
<1>8. \A r \in Requests : InFlight(r) => request[r].disturbed
  BY <1>2 DEF IInv, CacheInv
<1>9. QuietInv'
  BY <1>1, <1>8 DEF IInv, QuietInv, InFlight
<1>10. LockInv' /\ QuietRequestIsRight' /\ NeverBoxless'
  BY <1>1 DEF IInv, LockInv, Holds, QuietRequestIsRight, NeverBoxless
<1> QED
  BY <1>5, <1>6, <1>7, <1>9, <1>10 DEF IInv

\* What a request's steps have in common: they change nothing but that
\* request's record.
LEMMA RequestOnly ==
  ASSUME IInv, NEW r \in Requests, NEW new \in Request,
         UNCHANGED <<scenes, built, mon, layerRegion, imgCache, image, regionNumber, polygonList>>,
         request' = [request EXCEPT ![r] = new],
         built = Len(CtorOrder),
         new.pc \notin {"idle", "done"} =>
           /\ mon = "generate" => new.disturbed
           /\ ~new.disturbed =>
                /\ imgCache # NULL /\ new.obj = imgCache
                /\ image[imgCache].live
                /\ new.pc \in {"draw", "drawing"} => new.region = HomeBox
                /\ new.pc = "drawing" => new.got = imgCache,
         new.pc \in {"size", "region", "draw", "drawing"} =>
           \A q \in Requests \ {r} : ~Holds(q, new.obj),
         new.pc = "done" /\ ~new.disturbed =>
           /\ new.out # "gone"
           /\ new.out = "ok" => new.placed,
         new.out # "noregion"
  PROVE  IInv'
<1> DEFINE Others == \A q \in Requests : q # r => request'[q] = request[q]
<1>1. request \in [Requests -> Request]
  BY DEF IInv, TypeOK, BaseTypeOK
<1>2. request'[r] = new /\ Others
  BY <1>1
<1>3. TypeOK'
  BY <1>1 DEF IInv, TypeOK, BaseTypeOK
<1>4. BuiltInv'
  BY DEF IInv, BuiltInv
<1>5. CacheInv'
  BY <1>2 DEF IInv, CacheInv, InFlight
<1>6. QuietInv'
  BY <1>2 DEF IInv, QuietInv, InFlight
<1>7. LockInv'
  BY <1>2 DEF IInv, LockInv, Holds
<1>8. QuietRequestIsRight' /\ NeverBoxless'
  BY <1>2 DEF IInv, QuietRequestIsRight, NeverBoxless
<1> QED
  BY <1>3, <1>4, <1>5, <1>6, <1>7, <1>8 DEF IInv

\* A finished request is well-formed and holds nothing.
LEMMA FinishStep ==
  ASSUME IInv, NEW r \in Requests, NEW placed \in BOOLEAN,
         NEW outcome \in {"ok", "nocache", "gone", "busy"},
         UNCHANGED <<scenes, built, mon, layerRegion, imgCache, image, regionNumber, polygonList>>,
         Finish(r, outcome, placed),
         built = Len(CtorOrder),
         ~request[r].disturbed =>
           /\ outcome # "gone"
           /\ outcome = "ok" => placed
  PROVE  IInv'
<1> DEFINE new == [request[r] EXCEPT !.pc = "done", !.obj = NULL, !.got = NULL,
                                     !.region = NoBox, !.out = outcome, !.placed = placed]
<1>1. request[r] \in Request
  BY DEF IInv, TypeOK, BaseTypeOK
<1>2. new \in Request
  BY <1>1, BoxFacts DEF Request, Ref
<1>3. new.pc = "done" /\ new.disturbed = request[r].disturbed
      /\ new.out = outcome /\ new.placed = placed
  BY <1>1 DEF Request
<1>4. request' = [request EXCEPT ![r] = new]
  BY DEF Finish
<1> HIDE DEF new
<1> QED
  BY <1>2, <1>3, <1>4, RequestOnly

LEMMA ReadCacheStep ==
  ASSUME IInv, NEW r \in Requests, ReadCache(r, Len(CtorOrder)), UNCHANGED objectVars
  PROVE  IInv'
<1>1. UNCHANGED <<scenes, built, mon, layerRegion, imgCache, image, regionNumber, polygonList>>
  BY DEF ReadCache, objectVars
<1>2. built = Len(CtorOrder)
  BY DEF ReadCache
<1>3. CASE imgCache = NULL
  BY <1>1, <1>2, <1>3, FinishStep DEF ReadCache
<1>4. CASE imgCache # NULL
  <2> DEFINE new == [request[r] EXCEPT !.pc = "wait", !.obj = imgCache,
                                       !.disturbed = ~image[imgCache].live]
  <2>1. request[r] \in Request /\ imgCache \in Bitmaps
    BY <1>4 DEF IInv, TypeOK, BaseTypeOK, Ref
  <2>2. new \in Request
    BY <2>1 DEF Request, Ref
  <2>3. new.pc = "wait" /\ new.obj = imgCache /\ new.disturbed = ~image[imgCache].live
       /\ new.out = request[r].out
    BY <2>1 DEF Request
  <2>4. request' = [request EXCEPT ![r] = new]
    BY <1>4 DEF ReadCache
  <2>5. mon = "generate" => ~image[imgCache].live
    BY <2>1 DEF IInv, CacheInv
  <2> HIDE DEF new
  <2> QED
    BY <1>1, <1>2, <1>4, <2>2, <2>3, <2>4, <2>5, RequestOnly DEF IInv, NeverBoxless
<1> QED
  BY <1>3, <1>4

\* A step of a running request that keeps its lock and its mark.
LEMMA AcquireLockStep ==
  ASSUME IInv, NEW r \in Requests, AcquireLock(r), UNCHANGED objectVars
  PROVE  IInv'
<1> DEFINE new == [request[r] EXCEPT !.pc = "size"]
<1>1. UNCHANGED <<scenes, built, mon, layerRegion, imgCache, image, regionNumber, polygonList>>
  BY DEF AcquireLock, objectVars
<1>2. request[r] \in Request
  BY DEF IInv, TypeOK, BaseTypeOK
<1>3. new \in Request
  BY <1>2 DEF Request
<1>4. new.pc = "size" /\ new.obj = request[r].obj /\ new.disturbed = request[r].disturbed
      /\ new.out = request[r].out
  BY <1>2 DEF Request
<1>5. request' = [request EXCEPT ![r] = new]
  BY DEF AcquireLock
<1>6. InFlight(r)
  BY DEF AcquireLock, InFlight
<1>7. \A q \in Requests : ~Holds(q, new.obj)
  BY <1>4 DEF AcquireLock
<1> HIDE DEF new
<1> QED
  BY <1>1, <1>3, <1>4, <1>5, <1>6, <1>7, RequestOnly DEF IInv, QuietInv, CacheInv, NeverBoxless

\* A request that holds a lock goes on holding it, and so excludes the others.
LEMMA HeldAlone ==
  ASSUME IInv, NEW r \in Requests, request[r].pc \in {"size", "region", "draw", "drawing"}
  PROVE  \A q \in Requests \ {r} : ~Holds(q, request[r].obj)
<1> SUFFICES ASSUME NEW q \in Requests, q # r, Holds(q, request[r].obj) PROVE FALSE
  OBVIOUS
<1>1. request[r].obj \in Ref
  BY DEF IInv, TypeOK, BaseTypeOK, Request
<1> QED
  BY <1>1 DEF IInv, LockInv, Holds

LEMMA ReadSizeStep ==
  ASSUME IInv, NEW r \in Requests, ReadSize(r), UNCHANGED objectVars
  PROVE  IInv'
<1> DEFINE new == [request[r] EXCEPT !.pc = "region"]
<1>1. UNCHANGED <<scenes, built, mon, layerRegion, imgCache, image, regionNumber, polygonList>>
  BY DEF ReadSize, objectVars
<1>2. request[r] \in Request
  BY DEF IInv, TypeOK, BaseTypeOK
<1>3. request[r].pc = "size" /\ InFlight(r) /\ built = Len(CtorOrder)
  BY DEF ReadSize, InFlight, IInv, QuietInv
<1>4. ~request[r].disturbed => ~CacheGone
  BY <1>3 DEF IInv, QuietInv, CacheGone
<1>5. CASE Finish(r, "gone", FALSE) /\ CacheGone
  BY <1>1, <1>3, <1>4, <1>5, FinishStep
<1>6. CASE Finish(r, "busy", FALSE)
  BY <1>1, <1>3, <1>6, FinishStep
<1>7. CASE request' = [request EXCEPT ![r].pc = "region"]
  <2>1. new \in Request
    BY <1>2 DEF Request
  <2>2. new.pc = "region" /\ new.obj = request[r].obj /\ new.disturbed = request[r].disturbed
        /\ new.out = request[r].out
    BY <1>2 DEF Request
  <2>3. request' = [request EXCEPT ![r] = new]
    BY <1>7
  <2>4. \A q \in Requests \ {r} : ~Holds(q, new.obj)
    BY <1>3, <2>2, HeldAlone
  <2> HIDE DEF new
  <2> QED
    BY <1>1, <1>3, <2>1, <2>2, <2>3, <2>4, RequestOnly DEF IInv, QuietInv, CacheInv, NeverBoxless
<1> QED
  BY <1>5, <1>6, <1>7 DEF ReadSize

LEMMA ReadRegionStep ==
  ASSUME IInv, NEW r \in Requests, ReadRegion(r), UNCHANGED objectVars
  PROVE  IInv'
<1> DEFINE new == [request[r] EXCEPT !.pc = "draw", !.region = layerRegion]
<1>1. UNCHANGED <<scenes, built, mon, layerRegion, imgCache, image, regionNumber, polygonList>>
  BY DEF ReadRegion, objectVars
<1>2. request[r] \in Request /\ layerRegion \in Box
  BY DEF IInv, TypeOK, BaseTypeOK
<1>3. request[r].pc = "region" /\ InFlight(r) /\ built = Len(CtorOrder)
  BY DEF ReadRegion, InFlight, IInv, QuietInv
<1>4. layerRegion = HomeBox /\ layerRegion # NoBox
  BY <1>3, BoxFacts DEF IInv, BuiltInv
<1>5. new \in Request
  BY <1>2 DEF Request
<1>6. /\ new.pc = "draw" /\ new.region = HomeBox
      /\ new.obj = request[r].obj /\ new.disturbed = request[r].disturbed
      /\ new.out = request[r].out
  BY <1>2, <1>4 DEF Request
<1>7. request' = [request EXCEPT ![r] = new]
  BY <1>4 DEF ReadRegion
<1>8. \A q \in Requests \ {r} : ~Holds(q, new.obj)
  BY <1>3, <1>6, HeldAlone
<1> HIDE DEF new
<1> QED
  BY <1>1, <1>3, <1>5, <1>6, <1>7, <1>8, RequestOnly DEF IInv, QuietInv, CacheInv, NeverBoxless

LEMMA BeginDrawStep ==
  ASSUME IInv, NEW r \in Requests, BeginDraw(r), UNCHANGED objectVars
  PROVE  IInv'
<1> DEFINE new == [request[r] EXCEPT !.pc = "drawing", !.got = imgCache]
<1>1. UNCHANGED <<scenes, built, mon, layerRegion, imgCache, image, regionNumber, polygonList>>
  BY DEF BeginDraw, objectVars
<1>2. request[r] \in Request /\ imgCache \in Ref
  BY DEF IInv, TypeOK, BaseTypeOK
<1>3. request[r].pc = "draw" /\ InFlight(r) /\ built = Len(CtorOrder)
  BY DEF BeginDraw, InFlight, IInv, QuietInv
<1>4. ~request[r].disturbed => ~CacheGone
  BY <1>3 DEF IInv, QuietInv, CacheGone
<1>5. CASE Finish(r, "gone", FALSE) /\ CacheGone
  BY <1>1, <1>3, <1>4, <1>5, FinishStep
<1>6. CASE Finish(r, "busy", FALSE)
  BY <1>1, <1>3, <1>6, FinishStep
<1>7. CASE request' = [request EXCEPT ![r].pc = "drawing", ![r].got = imgCache]
  <2>1. new \in Request
    BY <1>2 DEF Request
  <2>2. /\ new.pc = "drawing" /\ new.got = imgCache /\ new.region = request[r].region
        /\ new.obj = request[r].obj /\ new.disturbed = request[r].disturbed
        /\ new.out = request[r].out
    BY <1>2 DEF Request
  <2>3. request' = [request EXCEPT ![r] = new]
    BY <1>7
  <2>4. \A q \in Requests \ {r} : ~Holds(q, new.obj)
    BY <1>3, <2>2, HeldAlone
  <2> HIDE DEF new
  <2> QED
    BY <1>1, <1>3, <2>1, <2>2, <2>3, <2>4, RequestOnly DEF IInv, QuietInv, CacheInv, NeverBoxless
<1> QED
  BY <1>5, <1>6, <1>7 DEF BeginDraw

LEMMA EndDrawStep ==
  ASSUME IInv, NEW r \in Requests, EndDraw(r), UNCHANGED objectVars
  PROVE  IInv'
<1> DEFINE b == request[r].got
           right == request[r].region = image[b].region
<1>1. UNCHANGED <<scenes, built, mon, layerRegion, imgCache, image, regionNumber, polygonList>>
  BY DEF EndDraw, objectVars
<1>2. request[r].pc = "drawing" /\ InFlight(r) /\ built = Len(CtorOrder)
  BY DEF EndDraw, InFlight, IInv, QuietInv
<1>3. ~request[r].disturbed => image[b].live /\ right
  <2> SUFFICES ASSUME ~request[r].disturbed PROVE image[b].live /\ right
    OBVIOUS
  <2>1. b = imgCache /\ imgCache # NULL /\ image[b].live /\ request[r].region = HomeBox
    BY <1>2 DEF IInv, QuietInv
  <2>2. b \in Bitmaps
    BY <2>1 DEF IInv, TypeOK, BaseTypeOK, Ref
  <2> QED
    BY <2>1, <2>2 DEF IInv, CacheInv
<1>4. right \in BOOLEAN
  OBVIOUS
<1>5. CASE Finish(r, "ok", right)
  <2> HIDE DEF right, b
  <2> QED
    BY <1>1, <1>2, <1>3, <1>4, <1>5, FinishStep
<1>6. CASE ~image[b].live /\ Finish(r, "gone", FALSE)
  BY <1>1, <1>2, <1>3, <1>6, FinishStep
<1> QED
  BY <1>5, <1>6 DEF EndDraw

THEOREM InductiveInvariant == Spec => []IInv
<1>1. IInv /\ [Next]_vars => IInv'
  <2> SUFFICES ASSUME IInv, [Next]_vars PROVE IInv'
    OBVIOUS
  <2>1. CASE Construct
    BY <2>1, ConstructStep
  <2>2. CASE ChangeScenes
    BY <2>2, ChangeScenesStep
  <2>3. CASE Monitor
    BY <2>3, PollStep, CountRegionsStep, GeneratePolygonListStep,
       MonitorDisposeStep, GenerateCacheBitmapStep DEF Monitor
  <2>4. ASSUME NEW r \in Requests, Serve(r) PROVE IInv'
    BY <2>4, ReadCacheStep, AcquireLockStep, ReadSizeStep, ReadRegionStep,
       BeginDrawStep, EndDrawStep DEF Serve, RequestStep
  <2>5. CASE UNCHANGED vars
    BY <2>5 DEF vars, IInv, TypeOK, BaseTypeOK, BuiltInv, CacheInv, QuietInv,
       LockInv, QuietRequestIsRight, NeverBoxless, InFlight, Holds
  <2> QED
    BY <2>1, <2>2, <2>3, <2>4, <2>5 DEF Next
<1> QED
  BY InitIInv, <1>1, PTL DEF Spec

\* Every variable keeps its type.
THEOREM TypeCorrect == Spec => []TypeOK
<1>1. IInv => TypeOK
  BY DEF IInv
<1> QED
  BY InductiveInvariant, <1>1, PTL

\* The monitor thread never meets a field the constructor has yet to assign.
THEOREM MonitorSeesBuiltLayer == Spec => []NeverHalfBuilt
<1>1. IInv => NeverHalfBuilt
  BY DEF IInv, BuiltInv, NeverHalfBuilt
<1> QED
  BY InductiveInvariant, <1>1, PTL

\* A request the monitor does not disturb gets the right part of the picture.
THEOREM QuietRequests == Spec => []QuietRequestIsRight
<1>1. IInv => QuietRequestIsRight
  BY DEF IInv
<1> QED
  BY InductiveInvariant, <1>1, PTL

\* A request that found a picture never misses its box.
THEOREM RequestsFindTheBox == Spec => []NeverBoxless
<1>1. IInv => NeverBoxless
  BY DEF IInv
<1> QED
  BY InductiveInvariant, <1>1, PTL

\* Two undisturbed requests never draw from one bitmap at a time.
THEOREM DrawingIsExclusive == Spec => []UndisturbedDrawAlone
<1>1. IInv => UndisturbedDrawAlone
  <2> SUFFICES ASSUME IInv, NEW q \in Requests, NEW r \in Requests, q # r,
                      request[q].pc = "drawing", request[r].pc = "drawing",
                      ~request[q].disturbed, ~request[r].disturbed
               PROVE  FALSE
    BY DEF UndisturbedDrawAlone
  <2>1. request[q].obj = imgCache /\ request[r].obj = imgCache
    BY DEF IInv, QuietInv, InFlight
  <2>2. imgCache \in Ref
    BY DEF IInv, TypeOK, BaseTypeOK
  <2> QED
    BY <2>1, <2>2 DEF IInv, LockInv, Holds
<1> QED
  BY InductiveInvariant, <1>1, PTL

\* Only the cached bitmap is not disposed.
THEOREM NoLeak == Spec => []NoBitmapLeak
<1>1. IInv => NoBitmapLeak
  BY DEF IInv, CacheInv, NoBitmapLeak
<1> QED
  BY InductiveInvariant, <1>1, PTL

-----------------------------------------------------------------------------
(***************************************************************************)
(* ObjectLayer implements PictureService under the refinement mapping      *)
(* seenPicture, seenCall, seenSure of BaseLayer: each step of the layer is *)
(* a step of the service or leaves what is seen of it unchanged.           *)
(***************************************************************************)

\* While the layer has a bitmap, or a request runs, the box is there.
LEMMA BoxSeen ==
  ASSUME IInv
  PROVE  /\ imgCache # NULL => layerRegion # NoBox
         /\ \A r \in Requests : InFlight(r) => layerRegion # NoBox
         /\ seenSure = {r \in Requests : InFlight(r) /\ ~request[r].disturbed}
<1>1. imgCache # NULL => layerRegion # NoBox
  BY BoxFacts DEF IInv, BuiltInv
<1>2. \A r \in Requests : InFlight(r) => layerRegion # NoBox
  BY BoxFacts DEF IInv, BuiltInv, QuietInv
<1> QED
  BY <1>1, <1>2 DEF seenSure

LEMMA InitSeen == Init => Seen!Init
<1> SUFFICES ASSUME Init PROVE Seen!Init
  OBVIOUS
<1>1. \A r \in Requests : request[r] = NewRequest
  BY DEF Init, BaseInit
<1>2. \A r \in Requests : request[r].pc = "idle"
  BY <1>1 DEF NewRequest
<1>3. seenPicture = "none"
  BY DEF Init, BaseInit, seenPicture
<1>4. seenCall = [r \in Requests |-> "idle"]
  BY <1>2 DEF seenCall
<1>5. seenSure = {}
  BY <1>2 DEF seenSure, InFlight
<1> QED
  BY <1>3, <1>4, <1>5 DEF Seen!Init

\* What does not touch the bitmaps, the box and the requests is not seen.
LEMMA Unseen ==
  ASSUME UNCHANGED <<layerRegion, imgCache, image, request>>
  PROVE  UNCHANGED Seen!vars
BY DEF Seen!vars, seenPicture, seenCall, seenSure, InFlight

LEMMA ConstructUnseen ==
  ASSUME IInv, IInv', Construct
  PROVE  UNCHANGED Seen!vars
<1>1. built \in 0..2 /\ UNCHANGED <<imgCache, image, request>>
  BY CtorOrderFacts DEF IInv, TypeOK, Construct
<1>2. imgCache = NULL
  BY <1>1, CtorOrderFacts DEF IInv, BuiltInv
<1>3. \A r \in Requests : ~InFlight(r)
  BY <1>1, CtorOrderFacts DEF IInv, QuietInv
<1>4. seenPicture' = seenPicture
  BY <1>1, <1>2 DEF seenPicture
<1>5. seenCall' = seenCall
  BY <1>1 DEF seenCall, InFlight
<1>6. seenSure = {} /\ seenSure' = {}
  BY <1>1, <1>3 DEF seenSure, InFlight
<1> QED
  BY <1>4, <1>5, <1>6 DEF Seen!vars

\* The disposal renews the picture, if there is one.
LEMMA DisposeSeen ==
  ASSUME IInv, IInv', MonitorDispose
  PROVE  [Seen!Next]_Seen!vars
<1>1. UNCHANGED <<layerRegion, imgCache>> /\ mon = "dispose" /\ mon' = "generate"
  BY DEF MonitorDispose
<1>2. seenCall' = seenCall
  <2>1. \A r \in Requests : request'[r].pc = request[r].pc /\ request'[r].out = request[r].out
    BY DEF MonitorDispose, Disturb, IInv, TypeOK, BaseTypeOK, Request
  <2> QED
    BY <2>1 DEF seenCall, InFlight
<1>3. seenSure' = {}
  BY <1>1, BoxSeen DEF IInv, CacheInv, seenSure
<1>4. CASE imgCache = NULL
  <2>1. seenSure = {}
    BY <1>4, BoxSeen DEF IInv, QuietInv
  <2>2. seenPicture' = seenPicture
    BY <1>1, <1>4 DEF seenPicture
  <2> QED
    BY <1>2, <1>3, <2>1, <2>2 DEF Seen!vars
<1>5. CASE imgCache # NULL
  <2>1. imgCache \in Bitmaps
    BY <1>5 DEF IInv, TypeOK, BaseTypeOK, Ref
  <2>2. seenPicture = "ready"
    BY <1>1, <1>5, BoxSeen DEF IInv, CacheInv, seenPicture
  <2>3. ~image'[imgCache].live
    BY <2>1 DEF MonitorDispose, NoImage
  <2>4. seenPicture' = "renewing"
    BY <1>1, <1>5, <2>3 DEF seenPicture
  <2>5. Seen!Renew
    BY <1>2, <1>3, <2>2, <2>4 DEF Seen!Renew
  <2> QED
    BY <2>5 DEF Seen!Next, Seen!Refresh
<1> QED
  BY <1>4, <1>5

LEMMA GenerateSeen ==
  ASSUME IInv, IInv', GenerateCacheBitmap
  PROVE  Seen!Next
<1>1. UNCHANGED <<layerRegion, request>> /\ mon = "generate" /\ mon' = "sleep"
  BY DEF GenerateCacheBitmap
<1>2. seenCall' = seenCall /\ seenSure' = seenSure
  BY <1>1 DEF seenCall, seenSure, InFlight
<1>3. seenPicture # "ready"
  <2>1. imgCache # NULL => imgCache \in Bitmaps
    BY DEF IInv, TypeOK, BaseTypeOK, Ref
  <2> QED
    BY <1>1, <2>1 DEF IInv, CacheInv, seenPicture
<1>4. imgCache' # NULL
  BY NullAssumption DEF GenerateCacheBitmap, PublishImage
<1>5. (image[imgCache].live)' /\ layerRegion' # NoBox
  BY <1>1, <1>4, BoxFacts DEF IInv, CacheInv, BuiltInv
<1>6. seenPicture' = "ready"
  BY <1>4, <1>5 DEF seenPicture
<1>7. Seen!Publish
  BY <1>2, <1>3, <1>6 DEF Seen!Publish
<1> QED
  BY <1>7 DEF Seen!Next, Seen!Refresh

\* A step within a request is not seen.
LEMMA WithinUnseen ==
  ASSUME IInv, NEW r \in Requests, NEW new, InFlight(r),
         UNCHANGED <<layerRegion, imgCache, image>>,
         request' = [request EXCEPT ![r] = new],
         new.pc \notin {"idle", "done"}, new.disturbed = request[r].disturbed
  PROVE  UNCHANGED Seen!vars
<1>1. /\ request'[r] = new
      /\ \A q \in Requests : q # r => request'[q] = request[q]
  BY DEF IInv, TypeOK, BaseTypeOK
<1>2. seenPicture' = seenPicture
  BY DEF seenPicture
<1>3. \A q \in Requests : InFlight(q)' = InFlight(q)
  BY <1>1 DEF InFlight
<1>4. seenCall' = seenCall
  BY <1>1, <1>3 DEF seenCall, InFlight
<1>5. seenSure' = seenSure
  BY <1>1, <1>3 DEF seenSure
<1> QED
  BY <1>2, <1>4, <1>5 DEF Seen!vars

\* How the end of a request is seen.
LEMMA FinishSeen ==
  ASSUME IInv, NEW r \in Requests, NEW outcome, NEW placed,
         UNCHANGED <<layerRegion, imgCache, image>>,
         Finish(r, outcome, placed)
  PROVE  /\ seenPicture' = seenPicture
         /\ seenCall' = [seenCall EXCEPT ![r] = IF outcome = "ok" THEN "answered" ELSE "failed"]
         /\ seenSure' = seenSure \ {r}
<1>1. request[r] \in Request /\ request \in [Requests -> Request]
  BY DEF IInv, TypeOK, BaseTypeOK
<1>2. /\ request'[r].pc = "done" /\ request'[r].out = outcome
      /\ \A q \in Requests : q # r => request'[q] = request[q]
  BY <1>1 DEF Finish, Request
<1>3. seenPicture' = seenPicture
  BY DEF seenPicture
<1>4. seenCall' = [seenCall EXCEPT ![r] = IF outcome = "ok" THEN "answered" ELSE "failed"]
  BY <1>2 DEF seenCall, InFlight
<1>5. seenSure' = seenSure \ {r}
  BY <1>2 DEF seenSure, InFlight
<1> QED
  BY <1>3, <1>4, <1>5

LEMMA FailSeen ==
  ASSUME IInv, NEW r \in Requests, NEW q \in Requests, NEW outcome, NEW placed,
         UNCHANGED <<layerRegion, imgCache, image>>,
         InFlight(r), InFlight(q), request[q].disturbed,
         Finish(r, outcome, placed), outcome # "ok"
  PROVE  Seen!Next
<1>1. seenCall[r] = "running" /\ seenCall[q] = "running" /\ q \notin seenSure
  BY DEF seenCall, seenSure, InFlight
<1>2. Seen!Fail(r)
  BY <1>1, FinishSeen DEF Seen!Fail
<1> QED
  BY <1>2 DEF Seen!Next

\* A bitmap that is gone is only found by a disturbed request.
LEMMA GoneSeen ==
  ASSUME IInv, NEW r \in Requests, UNCHANGED <<layerRegion, imgCache, image>>,
         InFlight(r), CacheGone, Finish(r, "gone", FALSE)
  PROVE  Seen!Next
<1>1. request[r].disturbed
  BY DEF IInv, QuietInv, CacheGone
<1> QED
  BY <1>1, FailSeen

\* GDI+ is busy only when one of the two requests was disturbed: the lock of
\* the cached bitmap keeps undisturbed ones apart.
LEMMA BusySeen ==
  ASSUME IInv, NEW r \in Requests, UNCHANGED <<layerRegion, imgCache, image>>,
         request[r].pc \in {"size", "draw"}, Busy(r), Finish(r, "busy", FALSE)
  PROVE  Seen!Next
<1>1. PICK q \in Requests \ {r} : request[q].pc = "drawing"
  BY DEF Busy
<1>2. InFlight(r) /\ InFlight(q)
  BY <1>1 DEF InFlight
<1>3. request[r].disturbed \/ request[q].disturbed
  <2> SUFFICES ASSUME ~request[r].disturbed, ~request[q].disturbed PROVE FALSE
    OBVIOUS
  <2>1. request[r].obj = imgCache /\ request[q].obj = imgCache /\ imgCache \in Ref
    BY <1>2 DEF IInv, QuietInv, TypeOK, BaseTypeOK
  <2> QED
    BY <1>1, <2>1 DEF IInv, LockInv, Holds
<1> QED
  BY <1>2, <1>3, FailSeen

LEMMA ReadCacheSeen ==
  ASSUME IInv, NEW r \in Requests, ReadCache(r, Len(CtorOrder))
  PROVE  Seen!Next
<1>1. UNCHANGED <<layerRegion, imgCache, image>> /\ request[r].pc = "idle"
  BY DEF ReadCache
<1>2. seenCall[r] = "idle" /\ r \notin seenSure /\ seenPicture' = seenPicture
  BY <1>1 DEF seenCall, seenSure, InFlight, seenPicture
<1>3. CASE imgCache = NULL
  <2>1. Finish(r, "nocache", FALSE)
    BY <1>3 DEF ReadCache
  <2>2. seenPicture = "none"
    BY <1>3 DEF seenPicture
  <2>3. seenCall' = [seenCall EXCEPT ![r] = "failed"] /\ seenSure' = seenSure
    BY <1>1, <1>2, <2>1, FinishSeen
  <2>4. Seen!Begin(r)
    BY <1>2, <2>2, <2>3 DEF Seen!Begin
  <2> QED
    BY <2>4 DEF Seen!Next
<1>4. CASE imgCache # NULL
  <2>1. request[r] \in Request /\ request \in [Requests -> Request]
    BY DEF IInv, TypeOK, BaseTypeOK
  <2>2. /\ request'[r].pc = "wait" /\ request'[r].disturbed = ~image[imgCache].live
        /\ \A q \in Requests : q # r => request'[q] = request[q]
    <3> DEFINE new == [request[r] EXCEPT !.pc = "wait", !.obj = imgCache,
                                         !.disturbed = ~image[imgCache].live]
    <3>1. new.pc = "wait" /\ new.disturbed = ~image[imgCache].live
      BY <2>1 DEF Request
    <3>2. request' = [request EXCEPT ![r] = new]
      BY <1>4 DEF ReadCache
    <3> HIDE DEF new
    <3> QED
      BY <2>1, <3>1, <3>2
  <2>3. layerRegion # NoBox
    BY <1>4, BoxSeen
  <2>4. seenPicture = IF image[imgCache].live THEN "ready" ELSE "renewing"
    BY <1>4, <2>3 DEF seenPicture
  <2>5. seenCall' = [seenCall EXCEPT ![r] = "running"]
    BY <2>2 DEF seenCall, InFlight
  <2>6. seenSure' = IF image[imgCache].live THEN seenSure \union {r} ELSE seenSure
    BY <1>1, <1>2, <2>2, <2>3 DEF seenSure, InFlight
  <2>7. Seen!Begin(r)
    BY <1>2, <2>4, <2>5, <2>6 DEF Seen!Begin
  <2> QED
    BY <2>7 DEF Seen!Next
<1> QED
  BY <1>3, <1>4

LEMMA RequestSeen ==
  ASSUME IInv, NEW r \in Requests, RequestStep(r, Len(CtorOrder))
  PROVE  [Seen!Next]_Seen!vars
<1> USE DEF InFlight
<1>1. request[r] \in Request
  BY DEF IInv, TypeOK, BaseTypeOK
<1>2. UNCHANGED <<layerRegion, imgCache, image>>
  BY DEF RequestStep, ReadCache, AcquireLock, ReadSize, ReadRegion, BeginDraw, EndDraw
<1>3. CASE ReadCache(r, Len(CtorOrder))
  BY <1>3, ReadCacheSeen
<1>4. CASE AcquireLock(r)
  <2> DEFINE new == [request[r] EXCEPT !.pc = "size"]
  <2>1. new.pc = "size" /\ new.disturbed = request[r].disturbed
    BY <1>1 DEF Request
  <2>2. request' = [request EXCEPT ![r] = new] /\ InFlight(r)
    BY <1>4 DEF AcquireLock
  <2> HIDE DEF new
  <2> QED
    BY <1>2, <2>1, <2>2, WithinUnseen
<1>5. CASE ReadSize(r)
  <2>1. CASE CacheGone /\ Finish(r, "gone", FALSE)
    BY <1>2, <1>5, <2>1, GoneSeen DEF ReadSize
  <2>2. CASE Busy(r) /\ Finish(r, "busy", FALSE)
    BY <1>2, <1>5, <2>2, BusySeen DEF ReadSize
  <2>3. CASE request' = [request EXCEPT ![r].pc = "region"]
    <3> DEFINE new == [request[r] EXCEPT !.pc = "region"]
    <3>1. new.pc = "region" /\ new.disturbed = request[r].disturbed
      BY <1>1 DEF Request
    <3>2. request' = [request EXCEPT ![r] = new] /\ InFlight(r)
      BY <1>5, <2>3 DEF ReadSize
    <3> HIDE DEF new
    <3> QED
      BY <1>2, <3>1, <3>2, WithinUnseen
  <2> QED
    BY <1>5, <2>1, <2>2, <2>3 DEF ReadSize
<1>6. CASE ReadRegion(r)
  <2> DEFINE new == [request[r] EXCEPT !.pc = "draw", !.region = layerRegion]
  <2>1. new.pc = "draw" /\ new.disturbed = request[r].disturbed
    BY <1>1 DEF Request
  <2>2. InFlight(r)
    BY <1>6 DEF ReadRegion
  <2>3. request' = [request EXCEPT ![r] = new]
    BY <1>6, <2>2, BoxSeen DEF ReadRegion
  <2> HIDE DEF new
  <2> QED
    BY <1>2, <2>1, <2>2, <2>3, WithinUnseen
<1>7. CASE BeginDraw(r)
  <2>1. CASE CacheGone /\ Finish(r, "gone", FALSE)
    BY <1>2, <1>7, <2>1, GoneSeen DEF BeginDraw
  <2>2. CASE Busy(r) /\ Finish(r, "busy", FALSE)
    BY <1>2, <1>7, <2>2, BusySeen DEF BeginDraw
  <2>3. CASE request' = [request EXCEPT ![r].pc = "drawing", ![r].got = imgCache]
    <3> DEFINE new == [request[r] EXCEPT !.pc = "drawing", !.got = imgCache]
    <3>1. new.pc = "drawing" /\ new.disturbed = request[r].disturbed
      BY <1>1 DEF Request
    <3>2. request' = [request EXCEPT ![r] = new] /\ InFlight(r)
      BY <1>7, <2>3 DEF BeginDraw
    <3> HIDE DEF new
    <3> QED
      BY <1>2, <3>1, <3>2, WithinUnseen
  <2> QED
    BY <1>7, <2>1, <2>2, <2>3 DEF BeginDraw
<1>8. CASE EndDraw(r)
  <2> DEFINE b == request[r].got
             right == request[r].region = image[b].region
  <2>1. request[r].pc = "drawing"
    BY <1>8 DEF EndDraw
  <2>2. CASE Finish(r, "ok", right)
    <3> HIDE DEF right
    <3>1. seenCall[r] = "running"
      BY <2>1 DEF seenCall
    <3>2. Seen!Answer(r)
      BY <1>2, <2>2, <3>1, FinishSeen DEF Seen!Answer
    <3> QED
      BY <3>2 DEF Seen!Next
  <2>3. CASE ~image[b].live /\ Finish(r, "gone", FALSE)
    <3>1. request[r].disturbed
      BY <2>1, <2>3 DEF IInv, QuietInv
    <3> QED
      BY <1>2, <2>1, <2>3, <3>1, FailSeen
  <2> QED
    BY <1>8, <2>2, <2>3 DEF EndDraw
<1> QED
  BY <1>3, <1>4, <1>5, <1>6, <1>7, <1>8 DEF RequestStep

\* GetRegionByBitmap of the object layer fails for no other reason than a
\* picture that is missing, or renewed under a call that still runs.
THEOREM Implements == Spec => KeepsPromise
<1>1. IInv /\ IInv' /\ [Next]_vars => [Seen!Next]_Seen!vars
  <2> SUFFICES ASSUME IInv, IInv', [Next]_vars PROVE [Seen!Next]_Seen!vars
    OBVIOUS
  <2>1. CASE Construct
    BY <2>1, ConstructUnseen
  <2>2. CASE ChangeScenes \/ Poll \/ CountRegions \/ GeneratePolygonList
    BY <2>2, Unseen DEF ChangeScenes, Poll, CountRegions, GeneratePolygonList
  <2>3. CASE MonitorDispose
    BY <2>3, DisposeSeen
  <2>4. CASE GenerateCacheBitmap
    BY <2>4, GenerateSeen
  <2>5. ASSUME NEW r \in Requests, Serve(r) PROVE [Seen!Next]_Seen!vars
    BY <2>5, RequestSeen DEF Serve
  <2>6. CASE UNCHANGED vars
    BY <2>6, Unseen DEF vars
  <2> QED
    BY <2>1, <2>2, <2>3, <2>4, <2>5, <2>6 DEF Next, Monitor
<1> QED
  BY InitSeen, InductiveInvariant, <1>1, PTL DEF Spec, KeepsPromise, Seen!Spec
=============================================================================

# A verification project for opensim-map

opensim-map serves maps of an OpenSim grid over HTTP (OGC WMS and WFS).  The
service is a plugin written in C# (`src/MapService`); beside it the repository
has a native mesh renderer in C++ (`src/mapRenerer`, an older copy of its mesh
part in `src/MeshWithoutDll`, and a DLL stub in `src/unmanageddll`) which the
plugin does not call yet.  This directory has TLA+ models of the code, TLC
configurations that check them on small instances, and TLAPS proofs for every
size: each safety property that a passing run checks is also a theorem, and each of
the three layers is proved to implement the promise on which the model of the
plugin rests.

## 1. The system

### 1.1 Components

| component | state it keeps | operations | correct when |
|---|---|---|---|
| Layer base (`layers/BaseLayer.cs`) | `m_imgCache` (one GDI+ bitmap), `m_layerRegion` (its box in grid coordinates), polling interval, a monitor thread | constructor (starts the thread), `LayerMonitor` (poll, update, dispose, generate), `GetRegionByBitmap` | a request is served from a bitmap that is not disposed and whose box the part was computed for; the lock is always left; replaced bitmaps are disposed |
| Object layer (`layers/ObjectLayer.cs`) | `_polygonList`, `regionNumber` | redraw when the number of regions changed; prims to convex polygons | the picture ends up with every region's prims; the thread never sees an unassigned field |
| Terrain layer (`layers/TerrainLayer.cs`) | none of its own; its box grows | redraw at every poll; copy each region's height map into its part | a failed redraw leaves no disposed bitmap behind and is tried again |
| Agent layer (`layers/AgentLayer.cs`, `AgentInfo.cs`) | `agentList` by avatar id; its box grows | scan regions, draw avatars; `GetFeaturesByXML/Text` | picture and list name the same avatars; a scan of a resting grid succeeds |
| Plugin (`MapService.cs`, `LayerParams.cs`) | `layerDict` (name to layer), the three layers | `Initialise`, `owsHandler` (GetMap, GetCapabilities, GetFeature) | the handler is reachable only with three layers filed; a map has every layer asked for, in order |
| Coordinates (`CRS.cs`, `BBOX.cs`, `BBOXF.cs`, `Matrix.cs`, `Point.cs`) | none | boxes from strings, `Extends`, grid to pixel conversion | a layer's regions tile its picture; a request's part has the size asked for |
| Image toolbox (`ImageToolBox.cs`) | none | `Replace`, `CreateBitmapFromMap` | a part is copied to a region of its size |
| Polygon geometry (`ObjectLayer.cs` 86-241, `Polygon.cs`) | none | prim corners, rotation, Graham scan | the polygon is the hull of the projected corners |
| Volume manager (`mapRenerer/llvolume/llvolumemgr.*`, `llcommon/llmemory.h`, `LLPrimitive::setVolume`) | groups of volumes by parameters, reference counts | `refVolume`, `unrefVolume`, `cleanup`, `setVolume`, destructor | counts match the holders; equal shapes are shared; nothing held is freed |
| Transform tree (`mapRenerer/llprimitive/xform.*`) | parent pointers, positions, matrices | `setParent`, `getRoot`, `update`, `updateMatrix` | no loop, every walk to the root ends |
| Primitive (`llprimitive/llprimitive.*`, `lltextureentry.*`) | its volume, texture entries, material | `setVolume`, `setNumTEs`, setters, packing | the list has an entry for each face |
| Meshing (`llvolume/llvolume.*`, also in `MeshWithoutDll`) | outline, path and faces of a volume | `generate`, `createVolumeFaces`, masks, indices, sculpt | the faces tile the outline; each buffer is filled as it was allocated |
| Native renderer (`mapRenerer/MapRenderer`) | a Direct3D device, a mesh for each face | constructor, `render`, `ScreenShot` | a frame is presented whole; what is lost was told |
| `testMain`, `meshOut`, `unmanageddll` | (programs that try parts out) | | |
| Common library (`llcommon`) | none | vectors, matrices, quaternions, strings, UUIDs | (values) |

### 1.2 How they interact

The simulator's threads start and stop regions and move avatars.  Each layer's
monitor thread, started in the *base* constructor while the subclass
constructor is still to run, polls the simulator and replaces the layer's
bitmap.  The HTTP server calls `owsHandler` on threads of its own; a GetMap
asks the named layers one after the other through `GetRegionByBitmap`, a
GetFeature walks the agent layer's dictionary.  Monitor and requests share
`m_imgCache`, `m_layerRegion` and `agentList`.  A request takes the lock of the
*bitmap object* it finds in `m_imgCache`; the monitor takes no lock at all.
Nothing catches what a monitor throws: its thread ends, the layer keeps the
picture it has.

### 1.3 What is hard here

* One request reads `m_imgCache` three times and `m_layerRegion` once, while the
  monitor disposes the bitmap, grows the box in place and assigns a new bitmap.
* The lock belongs to the bitmap, so two requests hold two locks and draw from
  the same new bitmap.
* The list of regions and the list of avatars are enumerated while other threads
  change them; .NET enumerators then throw, in or out of a `try`.
* The monitor thread may run before the fields it reads have been assigned.
* An exception after the old bitmap was disposed: a changed list, a file that is
  missing, a bitmap that is too large.
* Floats: angles compared with `==`, turns by the sign of a rounded determinant.
* Part of several layers fails; a configuration that is half there.
* In the native renderer: two counts of who holds a volume; several passes over one
  outline that round a cut each in its own way and must agree on sizes; calls of
  Direct3D that fail in the middle of a frame.

`PROJECT.json` ("hazards") lists each of these at its line with the properties
that watch it, or a note that says what is left unwatched and why.

## 2. The modules

    PictureService            what a layer promises (abstract)
        ^ implemented by (KeepsPromise)
    BaseLayer                 shared state, MonitorDispose, the steps of a request
        ^ extended by
    ObjectLayer   TerrainLayer   AgentLayer
    ObjectLayerProofs         of each layer: the inductive invariant, its safety,
    TerrainLayerProofs        and that it implements PictureService, proved
    AgentLayerProofs
    MapService                three instances of PictureService, Initialise, owsHandler
    MapServiceProofs          layers filed, whole maps, errors with a cause, proved
    TerrainPicture            coordinates of the terrain picture
    TerrainPictureProofs      where its parts lie and when it fails, proved
    ConvexHull                the shadow of a prim, the Graham scan
    ConvexHullProofs          what it returns and when it throws, proved
    VolumeMgr                 shared volumes of the native renderer, both counts
    VolumeMgrProofs           counts, sharing, entries, faults, proved; and Xform's
    VolumeFaces               outline, faces, masks and buffers of a volume
        ^ extended by
    MapRenderer               the native renderer: constructor, render, screenshot
    MapRendererProofs         faces, masks and buffers; whole frames, proved
    Xform                     parent pointers of the native renderer
    MC*                       instances for TLC

### 2.1 BaseLayer and PictureService

State: `imgCache`, `layerRegion` and `image` are `m_imgCache`, `m_layerRegion` and
the heap of bitmaps; `mon` is the monitor thread's place in `LayerMonitor`;
`request[r]` is a thread in `GetRegionByBitmap` with its local view (`obj` the
object whose lock it took, `region` the box it read, `got` the bitmap it draws
from).  `scenes` is `SceneManager.Scenes`, external.

Each read or write of a shared field is a step of its own: `ReadCache` (line 74,
reads the field, throws on null), `AcquireLock` (74), `ReadSize` (77, second
read), `ReadRegion` (77), `BeginDraw` (82, third read), `EndDraw` (82 to 87).
`MonitorDispose` is line 58 and leaves the disposed bitmap in the field;
`PublishImage` is the assignment of line 59.  A GDI+ object in use by another
thread throws (`Busy`).

Abstractions: pixels are left out, a bitmap `shows` a set of regions or avatars
and was drawn over a box; a box is the set of regions it was extended over
(whether two boxes are equal is what matters here; that two sets of regions may
span the same rectangle only makes the model's `placed` stricter).  `Extends`
writes four coordinates in one step.  A bitmap cell is reused once nothing
refers to it.  `disturbed` and `placed` are history variables: no step's guard
reads them.

`PictureService` is what one can promise to who asks a layer: a call fails only
when there is no picture, or when the picture has been renewed under this call
or under another one still running.  `KeepsPromise` is the refinement, with
`seenPicture`, `seenCall` and `seenSure` as the mapping, checked and proved for
all three layers.

### 2.2 ObjectLayer, TerrainLayer, AgentLayer

Each adds its constructor (one step per assignment, `CtorOrder` is the order in
the source), the part of `requireUpdate`, `updateLayer` and
`generateCacheBitmap` that reads or writes shared state, and the simulator.

* `ObjectLayer`: `CountRegions` then `GeneratePolygonList` (lines 254 to 256).  A
  prim without a convex hull, or a linkset edited under line 38, throws out of
  the loop: any region in `Fragile` may cause it.  The list of
  regions is enumerated under its lock (line 26).
* `TerrainLayer`: the two `foreach` of `generateCacheBitmap` over the live list,
  the first outside and the second inside the `try`, each begun and ended in steps
  of its own (`EndExtend`, then `BeginPaint`), since a region may start between them.
  `CaughtFailure` has what the `try` catches.  `misfits` are the boxes over
  which a region's part is not 256 pixels square, so that `Replace` throws: with
  single-precision arithmetic that is every box wider or higher than one region
  (`TerrainPicture`, theorem `FailuresAlwaysCaused`), with wider registers it is none;
  `Builds` has both.  `huge` are the boxes for which `new Bitmap` may throw (line 62;
  regions far apart make a box of any size), one set for each of the `Machines`.
  `stripe` says whether `CreateBitmapFromMap` can do its work: it opens
  `defaultstripe.png` anew for each region, and `ChangeStripe` takes the file away and
  puts it back at any time.
* `AgentLayer`: `BeginScan` clears the dictionary, `ScanRegion` grows the box and
  takes a region's avatars, `AddAgent` adds one, or throws when it is there.
  `BeginFeatures` and `EndFeatures` are a GetFeature request: a dictionary that
  changed under the walk throws at the next `MoveNext`, so a walk that ends has
  seen the dictionary as it is at its end.

### 2.3 MapService

`ReadSection`, `CreateLayer`, `AddLayer` and `Register` are `Initialise` in its
order; `start` is where it is.  A section that is missing or broken ends the
reading of the ones after it, and all of them keep the name `default`;
`layerDict.Add` throws for a name that is taken or null.  `Receive`, `Compose`,
`AskLayer`, `TakeLayer`, `Encode` and `Reply` are `owsHandler` and `WMSGetMap`.
A query that does not parse is `malformed`; WIDTH and HEIGHT that parse are the
`size` of no bitmap (`"none"`: one is not positive), of a huge one or of a fair one.
`Compose` is `new Bitmap` (line 65): it throws for no size, and may for any once a
huge map has been asked for (`Strained`), as may every later step that needs memory
for a bitmap, in this request or in another one.  Each layer
is an instance of `PictureService`, so that the composition rests on what the
layers were shown to keep; its calls are named by request and position in LAYERS,
of which a query has at most `MostLayers`.

### 2.4 TerrainPicture

What `TerrainLayer` leaves out: the coordinates.  One thread, no interleaving.
`BeginPicture`, `ExtendRegion`, `BeginParts`, `CopyRegion` and `EndPicture` are
`generateCacheBitmap` in its order, one region at a time; `Cartes2Image` is the
conversion of `CRS.cs`, `Replace` the comparison of sizes that throws, `Source`
what `GetRegionByBitmap` makes of a request.  A coordinate in the picture is a
fraction of two integers.  The doubles of `Cartes2Image` are taken as exact: the
scale is one, or one pixel in the width, and a part then fails by a whole pixel.
Making a picture may fail at four places (`Fail`): there has never been a region;
`new Bitmap` is asked for more pixels than the machine has memory for (`TooLarge`,
against `limit`, which `Limits` has for each machine); the file of colours is
missing when a region is copied (`stripe`, with `ChangeStripe` at any time, and
`lost` to remember it); a part does not fit.  `FloorBelow` is
`Math.Floor(x - 1e-5f)`: a fraction of a picture less than 100000
pixels wide is never that close under a whole number; a whole number stays as it
is in single precision where half the step of a float is larger, that is above
256.  C# leaves to the runtime whether a difference of floats is computed wider,
so `single` is chosen once, at the start, from the `Builds`.

### 2.5 ConvexHull

`GeneratePolygon` for one prim.  Its first action computes the eight corners on the
ground (`projected`), which as a list are a bag; `TakeLowest` is the first sort and
what follows it, `PlaceNext` the second sort (one point at a time; equal angles in any order, since `List.Sort` is not stable), `Dedupe` one
turn of the loop that drops the nearer of two neighbours of one angle, `TakeTwo`
the two points that are taken unseen, `PopPoint` and `AddPoint` the scan.  Angles
are compared by a cross product: no point is below the origin, so all angles are
less than two right ones, but for the origin itself, which `Radius` gives three.
A quaternion of integers over a square root covers the quaternions of length one and
some that are not; `PrimsAssumption` says just that a prim's numbers are whole.

The code computes in floats, and what rounding does is in two places of the model:

* The corners.  `projected` is the exact `Corner` of each choice of signs plus an
  error of its own, one of `Errors`: corners that would coincide, or lie on one line,
  come apart.
* The comparisons.  Angles go through `Math.Atan` of a quotient and are compared with
  `==` (line 166), turns are the sign of a determinant of rounded differences (140).
  Three corners are `Close` when they differ, their exact determinant is within the
  bound `slack`, and they have no coordinate in common; then each comparison of
  them may come out either way, each time it is made, whatever another one said
  (`Verdict`; `ComesBefore`, `SameRadius`, `Nearer` and `TurnLeft` are sets of
  verdicts).  So nearly equal angles may or may not be merged, and the scan may take a
  left turn for none.  Where two points are the same, or all three have the same x or y, a
  difference is zero, and the comparison is exact.  With `slack` 0 every comparison
  is exact.

Neither is tied to the numbers of a float: the errors and the slack are parameters, and
the theorems hold for all of them.

### 2.6 VolumeMgr

`groups` is the manager's map, `volume` the heap of `LLVolume` with the count of
`LLPointer`s, `held` the `mVolumep` of each primitive.  The manager's operations
map a store (groups and heap) to the next, so that `setVolume`, which calls
`refVolume`, then `unrefVolume`, then assigns, is one action made of its calls in
their order; the program has one thread here.  `Hold` is where the returned
volume is in a plain pointer.  `numTEs` is `mNumTEs`; `TextureEntries`
is what the end of `setVolume` makes of it, which looks at the masks of the old
and the new volume only.  A step that would use a null manager or a freed
volume ends in `fault`.  `lost` remembers that a cleanup has returned FALSE.

### 2.7 Xform

`parent` is `mParent`.  A walk over the parents is one step: it meets the
transforms in `Met(x)`, the least set that has x and is closed under `parent`,
and `Ends` if one of them has no parent.  `SetParent` refuses when the walk meets
the transform itself, and does not return when the walk does not end.

### 2.8 VolumeFaces and MapRenderer

`VolumeFaces` is `LLVolume` as a function of its parameters.  Points are counted
and never placed: `Profile` and `Path` give the number of points and the faces
(`id` is the number of the bit in `LLFaceID`, `index` and `count` the points it
sweeps), `Create` what a face allocates, writes and reads.  Units are chosen so
that every number is whole: cuts in the hundred-thousandths that `setBegin` and
`setEnd` round to, levels of detail doubled.  `Shape` has the limits that the
setters of `LLVolumeParams` keep, and the proofs are about all of it.  `genNGon` steps through the sides with
floats; the model has the exact steps, which random cuts run in single precision
agree with, but for the path's, where rounding adds up to two points: `rounded`
has 0 to 2.  Curve types that are none of the named ones are left out.

Two kinds of cut are kept out of the properties, by `FirstSliver` and
`EndSliver`, because the code goes wrong there:

* a cut that begins less than a ten-thousandth of a side before a corner
  (a square from 0.24998 or 0.24999, a triangle from 0.33333): `genNGon` leaves out the
  first point and the points that divide its side, while `generate` makes the
  side's face all the same.  The faces are then shifted by one side and the last
  one reads past the outline;
* a cut that ends less than a thousandth of a side behind a corner: `generate`
  makes no face for that side (`end * 4 + .999`), `genNGon` may make its point, and
  `generateFaceMask` counts it, so that the two masks differ.

`MapRenderer` extends it with the program: the constructor makes a volume, counts
its faces, destroys it and then reads the faces (`MakeVolume`, `ReadFace`), and
`render` draws the prims (`DrawPrim`), one at a time since each call may fail,
then ends the scene, saves a screenshot and presents.  What was freed may still
be there or not, so `ReadFace` goes on or ends in `Crash`.  Direct3D is external: a
call whose result the code tests may fail at any time; `BeginScene`, whose result
nobody tests, fails inside a scene and outside nothing is drawn; `Clear` is taken
not to fail, since a frame would otherwise show what the one before left.
`saved`, `shown` and `failures` are history variables.

## 3. The runs

| run | question |
|---|---|
| `object_requests` | two requests, two regions coming and going, one of them fragile, the constructor still running: `NeverHalfBuilt`, `QuietRequestIsRight`, `UndisturbedDrawAlone`, `NoBitmapLeak`, and the refinement |
| `object_catchup` | regions are only added: the picture ends up showing all (`CatchesUp`), two requests that may wait for one lock always end (`RequestsEnd`) |
| `terrain_picture` | one request beside a monitor whose box grows and whose generation fails on a changed list, without its file, over a box too large for a bitmap or, in one of the two builds, over a wide one: `QuietRequestIsRight`, `NeverBoxless`, `NoDisposedAtRest`, the refinement; when regions rest and the file is there the picture shows them, unless the thread has died or the box has become one that cannot be drawn, or that memory may not suffice for (`CatchesUp`) |
| `agent_layer` | an avatar that comes, goes and crosses between two regions under a scan, one picture request and one feature request: a quiet request computes its part for a box no smaller than the bitmap's (`QuietRequestIsServed`), a scan of a resting grid never kills the thread (`SurvivesQuietScan`), list and picture agree (`PictureIsTheList`), the refinement, progress |
| `service_maps` | `Initialise` with one good configuration and those that have one section missing, broken, unnamed or misnamed (`RegisteredWhole`); then two requests, for maps of one or two layers and of any size or of another kind, while three pictures are renewed: a map has every layer asked for in order and leaves no bitmap undisposed (`MapIsWhole`); a request that parses, for a size of some bitmap, fails only for a picture missing or renewed, or when a huge map has been asked for (`ErrorHasCause`); `RequestsEnd` |
| `terrain_parts` | six places on the grid, builds of either precision, little memory or enough, a file of colours that comes and goes: each region lies where it belongs (`PartsLikeGrid`); making the picture fails only before there is a region, without the file, over a box too large for a bitmap, or over a wide box in single precision, and over the last two always (`FailureHasCause`, which `Builds` and `Machines` of the terrain layer rest on); requests that meet leave one line of pixels out (`RequestsMeet`) |
| `hull_prims` | 254 prims, the one of `BasicMapTest` among them, with exact corners and with one that is moved, and with comparisons exact, wrong for points in line, or wrong for points nearly so: `PolygonIsHull`, `ThrowsOnlyFlat`, `CallEnds` |
| `volume_counts` | three primitives, two shapes, three levels of detail, cleanups in between: both counts agree with the holders, equal shapes are shared, nothing leaks, a primitive has a texture entry for each face of its volume (`EveryFaceHasEntry`), a fault needs a cleanup that returned FALSE |
| `volume_pointer` | **violated**: `llvolumemgr.cpp:95` says to store what `refVolume` returns in an `LLPointer` only; `setVolume` keeps it in a plain pointer and the volume is freed under it |
| `render_map` | shapes cut on and beside every corner, at four levels of detail: the faces tile the outline (`FacesTile`), the mask computed from the parameters is the one of the faces (`MasksAgree`), every buffer is filled as allocated and read within bounds (`BuffersFilled`); renders that may fail at each call: `PresentedIsWhole`, `SurfacesTold` |
| `render_deleted` | **violated**: `llvolume.h:930` forbids deleting a volume whose faces are in use; the renderer's constructor destroys it (`mapRenderer.cpp:39`) and then copies its faces (42) |
| `xform_parents` | four transforms: the only loops are transforms that are their own parents, which `setParent` accepts although `xform.h:162` says it makes sure that no loop is created; `getRoot` then does not return |

### Bounds, and why they are enough

Two requests are enough for everything stated of a pair (who holds which lock,
who draws from which bitmap): no property relates three.  One monitor thread per
layer is what the code has.  Two regions give a box that grows once and a list
that changes under an enumeration that has begun; `object_catchup` has three, so
that one comes between the count and the collection and another after it.  The
heap needs a cell for each reference that can be held at once: `obj` and `got` of
two requests and the field make five, those of one request and the field three;
with fewer cells `PublishImage` would have to wait.  One avatar is enough to be met
twice in one scan, which is what can go wrong with avatars (`agent_layer`).  LAYERS has
two entries (`MostLayers` is 2), of three layers: two different ones, one twice, and
one unknown.
The configurations differ from the good one in one section: the reading stops at the
first that is wrong, and two layers of one name are the way to lose a layer.
`terrain_picture` and `agent_layer` have one request, since what two of them do to
each other is in the steps of `BaseLayer`, which `object_requests` checks.

`terrain_picture` has two machines: on one any bitmap can be made, on the other none
larger than one region's; `terrain_parts` has memory for the picture of two regions,
or for that of ten, and its places span six.  `service_maps` has one query of a size that
no bitmap has and one of a huge size, which two requests meet in every order.
`hull_prims` has the rotations by quaternions of small numbers, of prims with three
edges, two, or none, so that corners coincide and lie in line in every way; in two of
its three errors one corner is moved by one; its slacks are 0, 1 (points in line are taken for any turn) and 9 (so are
points near a line).  Runs that throw for a prim that is not flat are among these, and
so are polygons that are no hull: the properties say of which corners that is.

`volume_counts` has two shapes with different faces, so that a change of shape
changes the length of the texture list, and a third primitive beside two that
share.  `render_map` has twenty cuts, on, just before and just behind the corners
of a square, of a triangle and of the circles at each level of detail, with every
hole and seven paths (open and closed, twisted, rounded): each shape is one state
of its own, met as the first or the second volume (`MaxVolumes` is 2, so that a
volume is also made after another).  `MaxFailures` is 2: one render that fails, and
one that fails in the scene the first left open; a third meets nothing new.

Deadlock is checked in every run of the service and the layers: when a monitor
has died the simulator goes on, so no state is without a successor.  It is not
checked where the program really stops: when `GeneratePolygon` has returned
(`hull_prims`), when the process has crashed (`volume_*`, `render_*`) or the
renderer is destroyed (`render_*`), and when a walk does not end (`xform_parents`).

### Fairness

Each thread of the program is scheduled by the host without starvation, which is
weak fairness of its next step: the constructor, the monitor's loop (`Sleep`
ends), a request that has begun, `Initialise`, `owsHandler`.  Nothing is assumed
of regions, avatars and new requests: they may come or not.  A request waits for
a lock, and weak fairness of that request alone does not give it the lock; in
`RequestsEnd` it gets it because each request runs once and every holder leaves
it.  The object layer's `CatchesUp` is stated for `GrowSpec`, where regions are
only added, because `requireUpdate` compares nothing but their number; the
terrain and agent layers' for a grid that comes to rest, the terrain layer's also for
a file of colours that is there from some time on and a grid that is not empty.

## 4. What is proved

Eight modules hold the theorems.  Each proof has the same layout: an inductive
invariant (`IInv`, or `TreeInv` of the transforms), a lemma for each action
that a step of it keeps the invariant, and the properties as consequences.
Hardly any property is inductive alone; what is said below of each module is
what the inductive invariant adds to them and why.

### 4.1 The three layers

For any finite set of regions and any requests, avatars and bitmaps
(`NullAssumption`: `NULL` is neither a bitmap nor a region; `ObjectAssumption`,
`TerrainAssumption`, `AgentAssumption`: the home box and the fragile regions are
among the regions, a build's and a machine's boxes are sets of regions, `Nowhere` is
none):

| theorem | of | what it says |
|---|---|---|
| `QuietRequests` | object, terrain | `Spec => []QuietRequestIsRight` |
| `QuietRequests` | agent | `Spec => []QuietRequestIsServed` |
| `RequestsFindTheBox` | object, terrain | `Spec => []NeverBoxless` |
| `Implements` | all three | `Spec => KeepsPromise`, the refinement |
| `TypeCorrect` | object | `Spec => []TypeOK` |
| `MonitorSeesBuiltLayer` | object | `Spec => []NeverHalfBuilt` |
| `DrawingIsExclusive` | object | `Spec => []UndisturbedDrawAlone` |
| `NoLeak` | object | `Spec => []NoBitmapLeak` |
| `NeverDisposedAtRest` | terrain | `Spec => []NoDisposedAtRest` |
| `ScansSurvive` | agent | `Spec => []SurvivesQuietScan` |
| `PicturesMatchTheList` | agent | `Spec => []PictureIsTheList` |

The invariants of the layers have the same parts, with another content for each
way in which a layer treats its box:

* `CacheInv`: what the field, the bitmaps and the box have to do with each other.
  The field has the only bitmap that is not disposed, except between the disposal
  and the next assignment, when every running request is marked.  In the object
  layer the box is fixed.  In the terrain layer it changes, but only while no
  bitmap is alive (`Changing`), so a bitmap that is alive was drawn over the box
  of now.  In the agent layer the box grows while the old picture is served, and
  what remains is that the bitmap's box is within it: the reason why that layer
  promises `QuietRequestIsServed` and not `QuietRequestIsRight`.
* `QuietInv`: a running request that is not marked holds the cached bitmap, and
  what it has read is still there.
* `LockInv`: one holder per lock.
* `BuiltInv` (object): the box is assigned last, so whoever sees it sees the other
  fields.  The order of the constructor's assignments carries `NeverHalfBuilt`:
  assigning the box first breaks it (the mutant `BoxFirst`).
* `ScanInv` (agent): while no avatar has moved, those the scan has met are in no
  region it has still to visit, so it meets none twice.

The refinement maps each step to a step of `PictureService` or a stutter under
`IInv`; the case that needs the invariant is a failing request: one that finds
the bitmap gone or busy is itself disturbed or runs beside one that is.

### 4.2 The plugin

`MapServiceProofs`, for any set of requests, queries and configurations
(`MapServiceAssumption`: what a section and a query consist of):

| theorem | what it says |
|---|---|
| `AlwaysRegisteredWhole` | `Spec => []RegisteredWhole` |
| `MapsAlwaysWhole` | `Spec => []MapIsWhole` |
| `ErrorsAlwaysCaused` | `Spec => []ErrorHasCause` |

`StartInv` says what the steps of `Initialise` have done so far: how many threads
run and how many layers are filed.  `HttpInv` says how far a request has come,
which layers it has drawn and how many bitmaps it has to dispose of; `layerDict`
does not change any more once a request can exist.  `CallInv` relates the requests
to their calls of the layers: a call that runs belongs to the request that waits
for it at that position (`Owned`), and as long as no request has run with a picture
missing or renewed, every running call is sure of its picture, so that the
promise of the layers lets none fail (`Sound`).  A request fails for want of memory
only once a huge map has been asked for, and that stays so (`Strained`); sizes of no
bitmap are left out of `ErrorHasCause`, since they always fail.

### 4.3 The volume manager

`VolumeMgrProofs`, for any finite numbers of primitives and levels of detail, any
parameters and volumes (`VolumeAssumption`, which also has the faces of a shape
among the nine numbers of a face):

| theorem | what it says |
|---|---|
| `CountsAlwaysMatch` | `Spec => []CountsMatchHolders` |
| `PointersAlwaysMatch` | `Spec => []PointersMatchHolders` |
| `ShapesAlwaysShare` | `Spec => []EqualShapesShare` |
| `NothingEverLeaks` | `Spec => []NothingLeaks` |
| `EntriesAlwaysFit` | `Spec => []EveryFaceHasEntry` |
| `FaultsAlwaysTold` | `Spec => []FaultsWereTold` |

`setVolume` calls `refVolume`, then `unrefVolume`, then assigns `mVolumep`; between
the calls the manager counts the new volume for the primitive while the pointers
still count the old one.  The invariant `Books` is therefore stated of a store
and of two sets of pairs of a primitive and a volume: those the manager's counts
stand for and those the pointers' counts stand for.  Each of the store's operators
has a lemma: it keeps `Books` when one pair is put into, or taken out of, the set
it counts for.  In a state of the program both sets are what the primitives hold.
`Filed` is what keeps sharing right: a level of a group points to a volume of its
own parameters and level, so no volume is in two places.  After a cleanup that
returned FALSE the groups are gone while primitives hold volumes; what remains
true then is in the weaker halves of `GroupCount` and `Managed`, up to the fault.

### 4.4 The terrain picture

`TerrainPictureProofs`, for any set of grid positions, either precision, and any
numbers of pixels that a bitmap may have (`PlacesAssumption`):

| theorem | what it says |
|---|---|
| `FailuresAlwaysCaused` | `Spec => []FailureHasCause` |
| `PictureIsGrid` | `Spec => []PartsLikeGrid` |
| `RequestsAlwaysMeet` | `Spec => []RequestsMeet` |

The invariant says that the box contains every region it has been extended over
(`InsideInv`), that the picture has the box's size, or one pixel more where the
rounding error is lost (`Sized`), and that every part copied so far is at its
`Place` and the box is none that fails (`PartsInv`), that a file missing during a
generation is remembered (`LostInv`), and why a generation failed (`FailInv`).  The
picture is larger than the box by a pixel where the rounding error is lost, so that
a box that just fits the memory may fail all the same: it is then wide, in single
precision, and would have failed at its first part.  `PartIsPlace` and
`PartTooWide` compute `Cartes2Image` from two facts of arithmetic: `Quotient` (a
multiple of the width divides) and `QuotientAbove` (one pixel more in the width
moves a coordinate by less than one).  `ExactPart` does the same for a request of
any part of the box, and `MeetFollows` puts two of them side by side.

### 4.5 The volumes of the renderer

`MapRendererProofs`, first part: `VolumeFaces` for every shape that
`LLVolumeParams` accepts (`Shape`, which `RendererAssumption` has all shapes in)
and every doubled level of detail from 2 to 8 (`DetailsAssumption`; the code uses
1 to 4):

| theorem | what it says |
|---|---|
| `FacesAlwaysTile` | `Spec => []FacesTile` |
| `MasksAlwaysAgree` | `Spec => []MasksAgree` |
| `BuffersAlwaysFilled` | `Spec => []BuffersFilled` |

The run has twenty cuts; the code accepts any pair of hundred-thousandths.  The
proofs go from numbers to faces to buffers:

* `Roundings` compares, for one cut, the three ways in which the code rounds it
  (floor, ceiling, and the sum with .999), and `StretchBounds` and `NGonPoints`
  draw from it how many points an outline has: the corners of its faces lie in it
  as long as the first point is there, and there are as many faces as stretches
  unless the end is a sliver.  The hypotheses on slivers come in here and nowhere
  else.
* `ProfileIs`, `PartFacts` and `ListFacts` take the list of faces apart into the
  parts it is joined from and show that no two faces have one number; `MasksAgreeFor`
  follows by counting (`IdCount`).
* `OuterSweeps` and `OtherSweeps` say which stretches each part sweeps; that
  together they are the outline, each stretch once, is `AllSweeps`.
* `MeasuresOf` bounds every number a buffer is sized by (at most 153 points in an
  outline and 195 in a path), `CapFilled` and `SideFilled` fill each kind of face
  under these bounds, and `IndicesFor` counts the triangles of the whole.

### 4.6 The frames of the renderer

`MapRendererProofs`, second part, for any shapes and bounds:

| theorem | what it says |
|---|---|
| `OnlyWholeFrames` | `Spec => []PresentedIsWhole` |
| `LostSurfacesWereTold` | `Spec => []SurfacesTold` |

The invariant `IInv` says what the frame has in the middle of `render`: the prims
before `next` while it draws (`FrameInv`), all of them and a closed scene once it
has ended it, although the scene an earlier render left open may still be open
when drawing begins; that nothing was presented while the constructor still
makes prims (`NothingShown`), which would change what a whole frame is; and that
the volume whose faces are read has one of the shapes (`ReadingInv`), which carries
the results of 4.5 into the specification.

### 4.7 The transform tree

`VolumeMgrProofs`, second part: the primitives are also transforms, and the module
extends `Xform` too (whose `XformInit`, `XformNext` and `XformSpec` are named so
that it can).  For any set of transforms without `NoXform` (`XformAssumption`), also
an infinite one:

| theorem | what it says |
|---|---|
| `LoopsAreSelfLoops` | `XformSpec => []OnlySelfLoops` |
| `WalksEnd` | `XformSpec => []EndlessOnlyBySelf` |

A loop that a new parent closes runs through the transform and the new parent;
its part above the new parent is what the walk meets.  If the walk did not meet
the transform, that part is a loop that was there before.

### 4.8 The shadow of a prim

`ConvexHullProofs`, for any prims with whole coordinates (`PrimsAssumption`), any
errors of their corners (`ErrorsAssumption`) and any slack of the comparisons
(`SlacksAssumption`):

| theorem | what it says |
|---|---|
| `PolygonIsAlwaysHull` | `Spec => []PolygonIsHull` |
| `ScanThrowsOnlyFlat` | `Spec => []ThrowsOnlyFlat` |

The first is about corners of which no three are `Close` (`Clear`), where no
comparison can go wrong; the errors may have moved them, and the hull is that of the
corners as computed.  The second needs less: no two corners are in nearly one direction
from the lowest (`DirectionsClear`).  Turns between other corners may then be taken
for anything, the polygon may be no hull, but the scan does not throw.  Without
`DirectionsClear` it does: of two corners nearly in one direction from the lowest the
loop at line 166 may keep both, the scan then takes the turn at the first for none, and
with the polygon down to one point the next index is -1.  The run has such behaviours,
which is why neither property can be had without its condition.

Neither property says anything before the call returns or throws, so the
invariant is all the work.  By where the call is, the first three parts and `Loose`
under `DirectionsClear`, `Scanning` under `Clear`:

* `Rooted`, once the lowest corner is chosen: every other corner is above it, or
  right of it at its height.  In that half plane the angle is a linear order
  (`HalfOrder`, `BeforeOrder`); without it, counterclockwise is not transitive.
* `Sorting`: what is placed is in order, nothing in the rest comes before it, and
  no corner is lost.  The lowest corner is in the list one time less than among the
  corners, which decides whether it comes last, once more, and with it whether
  the scan closes the polygon.
* `Deduping`: up to `index` angles differ; for each corner some point left is as
  far or farther in its direction (`Covered`).
* `Scanning`: the polygon so far is a `Chain` with the points to come.  A chain
  turns left at every point, its angles grow, and each corner either is covered
  by a point to come or is `Done`: it comes before all of them, is to the left of
  every edge, and is within the angle of the last point or to the left of the
  edge that the next point may make.  The last alternative is for the corner that
  was just taken off: the polygon no longer contains it, and the invariant has to say
  that the next edge will.  A polygon of one edge still has a point to come
  other than the lowest, so `PopPoint` keeps two points in the polygon, and the
  inner `while` never gets to an index of -1 (`ScanLength`).
* `Loose`: what is left of `Scanning` when turns may be rounded.  The polygon goes
  counterclockwise about the lowest corner and the points to come follow it.  A turn
  from its first edge, or back to the lowest corner, is a left turn (`LooseTurn`) that
  involves the lowest corner and therefore is not `Close`: it is seen, and the first
  edge is never taken off.

The geometry is in signs of areas.  With `xy` for the area of `x` and `y` about
the lowest corner, a turn is a sum of three, and `ab*cd - ac*bd + ad*bc = 0`
(`Plucker`) is the one relation between four points.  What its signs force is in five
lemmas of arithmetic: `ShortCut`, `LeftOfOld` and `AddBetween` for the step that adds
a point (`ChainAdd`), `PopBetween` and `PopBeyond` for the one that takes one off
(`ChainPop`).  `ChainIsHull` reads the hull from a chain with nothing to come, and
`ChainIsThin` the line, there and back, from one with a single edge.  TLC has
checked the whole invariant on the run's instance.

### 4.9 The assumptions

Nothing is assumed of the program beyond what the named assumptions in the modules
say, and TLC evaluates each of them on the constants of the runs.  `Shape` is the
only long one; its limits are those of the setters (`llvolume.cpp:2335` on), and
weaker than they are: a setter keeps two hundredths between begin and end.

### 4.10 Only model-checked

* Liveness: `CatchesUp` of the three layers, `RequestsEnd` of the object layer and
  of the service, `CallEnds`.  They need fairness, and with it ENABLED, which is
  out of the prover's reach.
* That the theorems are not about nothing: none says that a shape, a box or a query
  of the kind it speaks of exists.  The runs meet them, and the mutants show that
  each property can fail.

## 5. What is not modelled

* What is done with rounded numbers that are not finite (a quaternion or a scale of
  NaN), and how large the errors of single precision are: the model has parameters
  in their place.
* Pixels, text, XML: GDI+'s interpolation, the layout of answers.
* `BaseLayer.Dispose`, which nothing calls.
* The HTTP server and OpenSim, but for what the code uses of them.
* What a map is saved as: `Resources/Capability.xml:29` offers `image/jpeg` and
  other formats for GetMap, while `owsHandler` reads FORMAT into a variable it never
  uses and always saves PNG (`MapService.cs:86`, `93`, `99`).  There is one behaviour
  and nothing to explore.
* Where the points of a mesh lie, sculpted volumes (each vertex is a pixel of an
  image), flexible paths that are resized, silhouettes, intersections with a line,
  and the reading and writing of volume parameters.
* What a texture entry contains and the packing of entries into messages.
* The textures of a frame (one is created for each prim in each frame and none is
  released, `prim.cpp:78`) and the texture name (the address of a local array,
  `mapRenderer.cpp:68`): both happen on every path, so no property separates a good
  run from a bad one.
* The common library, `testMain`, `unmanageddll` and the vendored headers: values
  without state, programs without logic of their own, and code of other projects.
  `MeshWithoutDll` is an older copy of `llvolume` and `llcommon`.

## 6. Plan

The order is by what matters most to a user of the service.  Done: the three
layers, their common promise and the plugin, the coordinates of
the terrain picture, prim shadows, and the native renderer with its volumes, their
faces and buffers, and its transforms, modelled and proved.  Left:

1. **Refinements.** `TerrainLayer`'s `misfits` and `huge` as an instance of
   `TerrainPicture`; `ObjectLayer`'s `Fragile` as prims for which `ConvexHull`
   throws.
2. **`PictureScale`.** Pictures whose scale is not one: the object and the agent
   layer's with a size from the configuration, requests of any box, maps that are
   not square (`MapService.cs:72`), `BBOX` and `BBOXF` from a query.  Composes
   with `TerrainPicture`'s conversion.
3. **Volumes beyond parameters.** Sculpted volumes and flexible paths, whose sizes
   come from an image and from calls; the contents and the packing of texture
   entries.

The project keeps about a dozen runs, so that all of them, with a mutant for each
property, finish while one waits: a run of a new module takes the place of the one
it comes to cover (`xform_parents`, now that its property is proved, is the first
to go), and a property the place of one that is proved or follows from another.

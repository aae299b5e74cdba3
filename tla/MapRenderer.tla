---------------------------- MODULE MapRenderer ----------------------------
(***************************************************************************)
(* The native renderer (mapRenderer.cpp, prim.cpp): the constructor makes a *)
(* volume for each parameter set and a textured mesh for each of its faces; *)
(* render draws them, saves a screenshot and presents the frame.            *)
(*                                                                         *)
(* The Direct3D device is external: each of its calls may fail, and the     *)
(* code looks at the result of some.  Where it does not, an object that was *)
(* not made is used all the same, and that is the end of the process.       *)
(***************************************************************************)
EXTENDS VolumeFaces

CONSTANTS
  Shapes,       \* the parameters a volume may be made from
  MaxVolumes,   \* bound: volumes the constructor is given
  MaxFailures,  \* bound: renders that fail
  NULL

ASSUME RendererAssumption ==
  /\ \A s \in Shapes : s \in Shape
  /\ NULL \notin Shapes
  /\ MaxVolumes \in Nat /\ MaxFailures \in Nat

VARIABLES
  pc,        \* where the renderer is
  made,      \* volumes the constructor is done with
  volume,    \* the parameters of the volume whose faces are read, or NULL
  live,      \* that volume is still allocated
  numFaces,  \* the faces it was found to have
  next,      \* the face to read, or the prim to draw, next
  prims,     \* the size of prims
  frame,     \* prims drawn since the last Clear, in order
  scene,     \* between BeginScene and EndScene
  surfaces,  \* surfaces that screenshots made and did not release
  saved,     \* history: the prims on the screenshot of this frame, or NULL
  shown,     \* history: the frame presented last, or NULL
  failures   \* history: how often render has returned false

made_vars == <<made, volume, live, numFaces, prims>>
frame_vars == <<frame, scene, surfaces, saved, shown, failures>>
vars == <<pc, made_vars, next, frame_vars>>

Init ==
  /\ pc = "new"
  /\ made = 0 /\ volume = NULL /\ live = FALSE /\ numFaces = 0 /\ prims = 0
  /\ next = 1
  /\ frame = <<>> /\ scene = FALSE /\ surfaces = 0
  /\ saved = NULL /\ shown = NULL /\ failures = 0

(***************************************************************************)
(* The constructor.                                                        *)
(***************************************************************************)

\* The process ends in the middle of what it does.
Crash ==
  /\ pc' = "crashed"
  /\ UNCHANGED <<made_vars, next, frame_vars>>

\* InitD3D, whose result is not looked at, and the axis made on its device.
InitDevice ==
  /\ pc = "new"
  /\ \/ /\ pc' = "make"
        /\ UNCHANGED <<made_vars, next, frame_vars>>
     \/ Crash

\* The renderer's level of detail is 1.
RendererDetail == 2

\* The volume is destroyed as soon as its faces are counted.
MakeVolume(s) ==
  /\ pc = "make" /\ made < MaxVolumes
  /\ pc' = "read"
  /\ volume' = s
  /\ numFaces' = Len(Volume(s, RendererDetail).profile.faces)
  /\ live' = FALSE
  /\ next' = 1
  /\ UNCHANGED <<made, prims, frame_vars>>

\* getVolumeFace and the mesh made from it: what was freed may still be there,
\* or not; the mesh may not be made.
ReadFace ==
  /\ pc = "read" /\ next <= numFaces
  /\ \/ /\ prims' = prims + 1
        /\ next' = next + 1
        /\ UNCHANGED <<pc, made, volume, live, numFaces, frame_vars>>
     \/ Crash

NextVolume ==
  /\ pc = "read" /\ next > numFaces
  /\ pc' = "make"
  /\ made' = made + 1
  /\ volume' = NULL /\ numFaces' = 0 /\ next' = 1
  /\ UNCHANGED <<live, prims, frame_vars>>

Constructed ==
  /\ pc = "make"
  /\ pc' = "idle"
  /\ made' = 0
  /\ UNCHANGED <<volume, live, numFaces, prims, next, frame_vars>>

(***************************************************************************)
(* render.                                                                 *)
(***************************************************************************)

\* Clear and BeginScene.  A scene that an earlier render left open makes
\* BeginScene fail, and it may fail anyway; nobody looks.
Render ==
  /\ pc = "idle" /\ failures < MaxFailures
  /\ pc' = "draw"
  /\ frame' = <<>> /\ saved' = NULL
  /\ scene' \in {TRUE, scene}
  /\ next' = 1
  /\ UNCHANGED <<made_vars, surfaces, shown, failures>>

\* render returns false.
Fail ==
  /\ pc' = "idle"
  /\ failures' = failures + 1

\* Mutant of DrawPrim: a prim that cannot be drawn is passed over.
DrawOrSkip ==
  /\ pc = "draw" /\ next <= prims
  /\ \/ scene /\ frame' = Append(frame, next)
     \/ UNCHANGED frame
  /\ next' = next + 1
  /\ UNCHANGED <<pc, made_vars, scene, surfaces, saved, shown, failures>>

\* One turn of the loop over the prims; outside a scene nothing is drawn.  On
\* failure the scene stays open.
DrawPrim ==
  /\ pc = "draw" /\ next <= prims
  /\ \/ /\ scene
        /\ frame' = Append(frame, next)
        /\ next' = next + 1
        /\ UNCHANGED <<pc, failures>>
     \/ /\ Fail
        /\ UNCHANGED <<frame, next>>
  /\ UNCHANGED <<made_vars, scene, surfaces, saved, shown>>

EndScene ==
  /\ pc = "draw" /\ next > prims
  /\ pc' = "shot"
  /\ scene' = FALSE
  /\ UNCHANGED <<made_vars, next, frame, surfaces, saved, shown, failures>>

\* Mutant of ScreenShot: the copy of the back buffer is not released.
ScreenShotKeeps ==
  /\ pc = "shot"
  /\ \/ /\ pc' = "present"
        /\ saved' = frame
        /\ surfaces' = surfaces + 1
        /\ UNCHANGED failures
     \/ /\ Fail
        /\ surfaces' \in {surfaces, surfaces + 1, surfaces + 2}
        /\ UNCHANGED saved
  /\ UNCHANGED <<made_vars, next, frame, scene, shown>>

\* ScreenShot.  It fails before it has made a surface, after the first, or after
\* both, and then releases none.
ScreenShot ==
  /\ pc = "shot"
  /\ \/ /\ pc' = "present"
        /\ saved' = frame
        /\ UNCHANGED <<surfaces, failures>>
     \/ /\ Fail
        /\ surfaces' \in {surfaces, surfaces + 1, surfaces + 2}
        /\ UNCHANGED saved
  /\ UNCHANGED <<made_vars, next, frame, scene, shown>>

Present ==
  /\ pc = "present"
  /\ pc' = "idle"
  /\ shown' = [drawn |-> frame, open |-> scene, saved |-> saved]
  /\ UNCHANGED <<made_vars, next, frame, scene, surfaces, saved, failures>>

\* ~MapRenderer
Destroy ==
  /\ pc = "idle"
  /\ pc' = "gone"
  /\ UNCHANGED <<made_vars, next, frame_vars>>

Next ==
  \/ InitDevice
  \/ \E s \in Shapes : MakeVolume(s)
  \/ ReadFace \/ NextVolume \/ Constructed
  \/ Render \/ DrawPrim \/ EndScene \/ ScreenShot \/ Present
  \/ Destroy

Spec == Init /\ [][Next]_vars

(***************************************************************************)
(* Properties.                                                             *)
(***************************************************************************)

\* The volume just made, at every level of detail the native code uses.
Made == IF pc = "read" /\ next = 1 THEN {Volume(volume, d) : d \in Details} ELSE {}

\* LLProfile::generate: the side faces sweep every stretch of the outline that
\* bounds the solid, each exactly once, whatever the cut, the hole and the level
\* of detail, unless the cut begins or ends within a sliver of a corner.
FacesTile ==
  \A v \in Made :
    ~FirstSliver(v.shape) /\ ~EndSliver(v.shape) /\ Generated(v.shape) => SidesTileOutline(v)

\* The mask computed from the parameters, generateFaceMask, is the one of the
\* faces that were made, which setVolume compares to decide whether the texture
\* entries still fit, and no two faces have one bit; slivers at the end apart.
MasksAgree ==
  \A v \in Made :
    ~EndSliver(v.shape) /\ Generated(v.shape) =>
      /\ GenerateFaceMask(v) = FaceMask(v)
      /\ Cardinality(FaceMask(v)) = Len(v.profile.faces)

\* Each face writes every vertex and index it allocates, its indices name its
\* own vertices in 16 bits, and it reads nothing behind the outline or the mesh;
\* and getTriangleIndices emits what getNumTriangleIndices allocates, which the
\* note at llvolume.cpp:2701 asks to be kept so.
BuffersFilled ==
  \A v \in Made :
    ~FirstSliver(v.shape) /\ Generated(v.shape) =>
      /\ \A f \in Faces(v) : BufferFilled(v, f)
      /\ EmittedIndices(v) = PredictedIndices(v)

\* render: a frame is presented only when its scene is closed, every prim was
\* drawn in it, once and in order, and the screenshot of it was saved; whatever
\* failed and was left open in the frames before.
PresentedIsWhole ==
  LET all == [i \in 1 .. prims |-> i]
  IN  shown # NULL => shown = [drawn |-> all, open |-> FALSE, saved |-> all]

\* ScreenShot: only a render that returned false leaves surfaces behind, at most
\* two, so that a caller who counts the failures knows what is lost.
SurfacesTold == surfaces <= 2 * failures

\* llvolume.h:930, getVolumeFace: "DO NOT DELETE VOLUME WHILE USING THIS
\* REFERENCE, OR HOLD A POINTER TO THIS VOLUMEFACE".
FaceOfLiveVolume == pc = "read" /\ next <= numFaces => live
=============================================================================

--------------------------- MODULE TerrainPicture ---------------------------
(***************************************************************************)
(* TerrainLayer.cs, BBOX.cs, BBOXF.cs, CRS.cs and ImageToolBox.cs: where   *)
(* the picture of a region lies in the picture of the grid, and which part *)
(* of that picture a request is given.  TerrainLayer has the same          *)
(* operations as steps of threads; here they are one after the other, and  *)
(* what counts is the coordinates.                                         *)
(*                                                                         *)
(* A coordinate in the world is a whole number, as grid positions are; one *)
(* in the picture is a fraction, kept as <<numerator, denominator>>.       *)
(***************************************************************************)
EXTENDS Integers

CONSTANTS
  Places,  \* grid positions of regions, <<RegionLocX, RegionLocY>>
  Builds,  \* of the builds there may be, by the variable single
  Limits,  \* of the machines there may be, how many pixels a bitmap can have
  NULL

Side == 256

ASSUME PlacesAssumption ==
  /\ Places \subseteq Nat \X Nat
  /\ Builds \subseteq BOOLEAN
  /\ Limits \subseteq Nat
  /\ NULL \notin [MinX : Int, MinY : Int, MaxX : Int, MaxY : Int]

VARIABLES
  single,   \* the build computes the difference of floats in single precision
  limit,    \* the most pixels new Bitmap makes a bitmap of
  stripe,   \* CreateBitmapFromMap can be done: its file is there
  lost,     \* history: it could not, at some time since the generation began
  scenes,   \* where there are regions
  region,   \* m_layerRegion
  todo,     \* the regions that generateCacheBitmap has not yet copied
  picture,  \* the picture being made, or made: its size and the parts in it
  pc        \* what generateCacheBitmap is at

given == <<single, limit>>

vars == <<given, stripe, lost, scenes, region, todo, picture, pc>>

Box(a, b, c, d) == [MinX |-> a, MinY |-> b, MaxX |-> c, MaxY |-> d]

RegionBox(p) == Box(p[1] * Side, p[2] * Side, p[1] * Side + Side, p[2] * Side + Side)

Lesser(a, b) == IF a < b THEN a ELSE b
Greater(a, b) == IF a < b THEN b ELSE a

\* Of a BBOXF.
Width(b) == b.MaxX - b.MinX
Height(b) == b.MaxY - b.MinY

\* Of a BBOX, whose far edges belong to it.
PixelWidth(b) == b.MaxX - b.MinX + 1
PixelHeight(b) == b.MaxY - b.MinY + 1

\* BBOXF.Extends.
Extends(b, c) == Box(Lesser(b.MinX, c.MinX), Lesser(b.MinY, c.MinY),
                     Greater(b.MaxX, c.MaxX), Greater(b.MaxY, c.MaxY))

Floor(x) == x[1] \div x[2]

\* Mutant of FloorBelow: the rounding error is not taken off.
FloorAt(x) == x[1] \div x[2]

\* Math.Floor(x - ROUNDERROR).  The rounding error, 1e-5, is less than the step
\* of single precision above 256, so that there it may be lost.
FloorBelow(x) ==
  IF x[1] % x[2] = 0 /\ (~single \/ x[1] <= 256 * x[2]) THEN x[1] \div x[2] - 1
  ELSE x[1] \div x[2]

\* Mutant of Cartes2Image: north is down.
Cartes2ImageDown(b, size, world) ==
  LET X(x) == <<size.Width * (x - world.MinX), Width(world)>>
      Y(y) == <<size.Height * (y - world.MinY), Height(world)>>
  IN  Box(Floor(X(b.MinX)), Floor(Y(b.MinY)), FloorBelow(X(b.MaxX)), FloorBelow(Y(b.MaxY)))

Cartes2Image(b, size, world) ==
  LET X(x) == <<size.Width * (x - world.MinX), Width(world)>>
      Y(y) == <<size.Height * (world.MaxY - y), Height(world)>>
  IN  Box(Floor(X(b.MinX)), Floor(Y(b.MaxY)), FloorBelow(X(b.MaxX)), FloorBelow(Y(b.MinY)))

\* Mutant of ToRectangle: the whole width.
WholeRectangle(b) == [x |-> b.MinX, y |-> b.MinY, w |-> PixelWidth(b), h |-> PixelHeight(b)]

ToRectangle(b) == [x |-> b.MinX, y |-> b.MinY, w |-> PixelWidth(b) - 1, h |-> PixelHeight(b) - 1]

Init ==
  /\ single \in Builds
  /\ limit \in Limits
  /\ stripe \in BOOLEAN
  /\ lost = FALSE
  /\ scenes = {}
  /\ region = NULL
  /\ todo = {}
  /\ picture = NULL
  /\ pc = "idle"

\* The simulator starts and stops regions.
Host(S) ==
  /\ pc \notin {"extending", "drawing"}
  /\ scenes' = S
  /\ pc' = "idle"
  /\ UNCHANGED <<given, stripe, lost, region, todo, picture>>

AddScene(p) == p \notin scenes /\ Host(scenes \union {p})
RemoveScene(p) == p \in scenes /\ Host(scenes \ {p})

\* defaultstripe.png is taken away, or put back.
ChangeStripe ==
  /\ stripe' = ~stripe
  /\ lost' = TRUE
  /\ UNCHANGED <<given, scenes, region, todo, picture, pc>>

\* generateCacheBitmap: the regions of the first loop.
BeginPicture ==
  /\ pc \notin {"extending", "drawing"}
  /\ pc' = "extending"
  /\ picture' = NULL
  /\ todo' = scenes
  /\ lost' = ~stripe
  /\ UNCHANGED <<given, stripe, scenes, region>>

ExtendRegion ==
  /\ pc = "extending"
  /\ \E p \in todo :
       /\ region' = IF region = NULL THEN RegionBox(p) ELSE Extends(region, RegionBox(p))
       /\ todo' = todo \ {p}
  /\ UNCHANGED <<given, stripe, lost, scenes, picture, pc>>

\* A bitmap of more pixels than the machine has memory for.
TooLarge(width, height) == width * height > limit

\* The blank picture, and the regions of the second loop.  With no region ever
\* hosted there is no box, and it fails; so it does where new Bitmap throws.
BeginParts ==
  /\ pc = "extending" /\ todo = {}
  /\ LET width  == FloorBelow(<<Width(region), 1>>) + 1
         height == FloorBelow(<<Height(region), 1>>) + 1
     IN  IF region = NULL \/ TooLarge(width, height)
         THEN pc' = "failed" /\ UNCHANGED <<todo, picture>>
         ELSE /\ pc' = "drawing"
              /\ picture' = [Width |-> width, Height |-> height, parts |-> [p \in {} |-> NULL]]
              /\ todo' = scenes
  /\ UNCHANGED <<given, stripe, lost, scenes, region>>

Fits(part) ==
  /\ PixelWidth(part) = Side /\ PixelHeight(part) = Side
  /\ part.MinX >= 0 /\ part.MaxX < picture.Width
  /\ part.MinY >= 0 /\ part.MaxY < picture.Height

\* The exception is caught, and generateCacheBitmap gives null.
Fail ==
  /\ picture' = NULL
  /\ todo' = {}
  /\ pc' = "failed"

\* ImageToolBox.Replace: another size, or a pixel outside the picture, throws.
Replace(p, part) ==
  IF Fits(part)
  THEN /\ picture' = [picture EXCEPT !.parts =
                        [q \in DOMAIN @ \union {p} |-> IF q = p THEN part ELSE @[q]]]
       /\ todo' = todo \ {p}
       /\ UNCHANGED pc
  ELSE Fail

\* CreateBitmapFromMap throws if its file cannot be opened; else the map is copied.
CopyRegion ==
  /\ pc = "drawing" /\ todo # {}
  /\ IF ~stripe THEN Fail
     ELSE \E p \in todo : Replace(p, Cartes2Image(RegionBox(p), picture, region))
  /\ UNCHANGED <<given, stripe, lost, scenes, region>>

EndPicture ==
  /\ pc = "drawing" /\ todo = {}
  /\ pc' = "drawn"
  /\ UNCHANGED <<given, stripe, lost, scenes, region, todo, picture>>

Next ==
  \/ \E p \in Places : AddScene(p) \/ RemoveScene(p)
  \/ ChangeStripe
  \/ BeginPicture
  \/ ExtendRegion
  \/ BeginParts
  \/ CopyRegion
  \/ EndPicture

Spec == Init /\ [][Next]_vars

\* GetRegionByBitmap: the rectangle of the picture that is drawn for a box.
Source(box) == ToRectangle(Cartes2Image(box, picture, region))

(***************************************************************************)
(* Properties.                                                             *)
(***************************************************************************)

Drawn == pc = "drawn"

\* A picture that is made has every region in it, to the east what is east, above
\* what is north, and none over another.
PartsLikeGrid ==
  Drawn =>
    /\ DOMAIN picture.parts = scenes
    /\ \A p, q \in scenes :
         /\ p[1] < q[1] => picture.parts[p].MaxX < picture.parts[q].MinX
         /\ p[2] < q[2] => picture.parts[q].MaxY < picture.parts[p].MinY

Wide == region # NULL /\ (Width(region) > Side \/ Height(region) > Side)

\* The box has more pixels than the machine makes a bitmap of.
Oversize == region # NULL /\ TooLarge(Width(region), Height(region))

\* A picture fails for these reasons only: there has been no region yet; the file
\* of colours was missing for a time; the box is too large for a bitmap; or single
\* precision loses the rounding error over a box of more than one region.  The last
\* two are for good, since the box never shrinks: no picture is drawn over such a
\* box.  (The variables misfits and huge of TerrainLayer.)
FailureHasCause ==
  /\ pc = "failed" => region = NULL \/ lost \/ Oversize \/ (single /\ Wide)
  /\ Drawn /\ scenes # {} => ~Oversize /\ ~(single /\ Wide)

\* Edges and middles of regions.
Lines(from, to) == {from + i * (Side \div 2) : i \in 0..((to - from) \div (Side \div 2))}

\* Of two requests whose boxes meet none is given a pixel of the other; but one
\* column, or row, between them neither is given: the box of Cartes2Image has its
\* far edge in it, and ToRectangle takes one off (BBOX.Width adds it again).
RequestsMeet ==
  Drawn /\ scenes # {} =>
    /\ \A x1, x2, x3 \in Lines(region.MinX, region.MaxX) :
         x1 < x2 /\ x2 < x3 =>
           LET west == Source(Box(x1, region.MinY, x2, region.MaxY))
               east == Source(Box(x2, region.MinY, x3, region.MaxY))
           IN  east.x = west.x + west.w + 1
    /\ \A y1, y2, y3 \in Lines(region.MinY, region.MaxY) :
         y1 < y2 /\ y2 < y3 =>
           LET south == Source(Box(region.MinX, y1, region.MaxX, y2))
               north == Source(Box(region.MinX, y2, region.MaxX, y3))
           IN  south.y = north.y + north.h + 1
=============================================================================

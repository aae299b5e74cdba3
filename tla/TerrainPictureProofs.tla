------------------------ MODULE TerrainPictureProofs ------------------------
(***************************************************************************)
(* For any regions anywhere on the grid: in what builds and for what boxes *)
(* the terrain layer's picture is made, and that where it is made each     *)
(* region has its own part of it.                                          *)
(***************************************************************************)
EXTENDS TerrainPicture, TLAPS

Boxes == [MinX : Int, MinY : Int, MaxX : Int, MaxY : Int]

\* A box of whole regions.
Aligned(b) ==
  /\ b \in Boxes
  /\ \E m, n \in Nat \ {0} : Width(b) = m * Side /\ Height(b) = n * Side

Inside(c, b) ==
  /\ b.MinX <= c.MinX /\ c.MaxX <= b.MaxX
  /\ b.MinY <= c.MinY /\ c.MaxY <= b.MaxY

(***************************************************************************)
(* Arithmetic.                                                             *)
(***************************************************************************)

LEMMA Quotient ==
  ASSUME NEW a \in Int, NEW w \in Int, w > 0
  PROVE  (w * a) \div w = a /\ (w * a) % w = 0
BY SMTT(30)

LEMMA QuotientAbove ==
  ASSUME NEW a \in Nat, NEW w \in Int, a < w
  PROVE  ((w + 1) * a) \div w = a /\ (a > 0 => ((w + 1) * a) % w # 0)
<1>1. (w + 1) * a = w * a + a
  BY SMT
<1> DEFINE k == w * a
<1>2. k \in Int /\ k \div w = a /\ k % w = 0
  BY Quotient
<1>3. (w * a + a) \div w = a /\ (w * a + a) % w = a
  BY SMTT(60)
<1> QED
  BY <1>1, <1>3

\* The size of the picture of a box.
LEMMA SizeOf ==
  ASSUME single \in BOOLEAN, NEW w \in Int
  PROVE  FloorBelow(<<w, 1>>) + 1 = IF single /\ w > 256 THEN w + 1 ELSE w
<1>1. w % 1 = 0 /\ w \div 1 = w
  OBVIOUS
<1> QED
  BY <1>1 DEF FloorBelow

(***************************************************************************)
(* Where a part lies.                                                      *)
(***************************************************************************)

\* One axis: the part of a region a pixels from the edge of a picture that is w
\* pixels wide.
LEMMA ExactEdges ==
  ASSUME single \in BOOLEAN, NEW w \in Int, w > 0, ~(single /\ w > 256),
         NEW a \in Int, NEW c \in Int, c <= w
  PROVE  /\ Floor(<<w * a, w>>) = a
         /\ FloorBelow(<<w * c, w>>) = c - 1
<1>1. (w * a) \div w = a /\ (w * c) \div w = c /\ (w * c) % w = 0
  BY Quotient
<1>2. single => w * c <= 256 * w
  <2>1. c <= 256 /\ w > 0 => c * w <= 256 * w
    BY SMTT(30)
  <2> QED
    BY <2>1
<1> QED
  BY <1>1, <1>2 DEF Floor, FloorBelow

\* The same where the picture is one pixel wider than the box: the part is too wide.
LEMMA WideEdges ==
  ASSUME single = TRUE, NEW w \in Int, w > 256, NEW a \in Nat, a + 256 <= w
  PROVE  /\ Floor(<<(w + 1) * a, w>>) = a
         /\ FloorBelow(<<(w + 1) * (a + 256), w>>) > a + 255
<1>1. Floor(<<(w + 1) * a, w>>) = a
  BY QuotientAbove DEF Floor
<1>2. CASE a + 256 < w
  <2> DEFINE c == a + 256
  <2>1. c \in Nat /\ c < w /\ c > 0
    BY <1>2
  <2>2. ((w + 1) * c) \div w = c /\ ((w + 1) * c) % w # 0
    BY <2>1, QuotientAbove
  <2> QED
    BY <1>1, <2>2 DEF FloorBelow
<1>3. CASE a + 256 = w
  <2>1. (w + 1) * (a + 256) = w * (w + 1)
    BY <1>3, SMT
  <2>2. (w * (w + 1)) \div w = w + 1
    BY Quotient
  <2>3. w * (w + 1) > 256 * w
    BY SMTT(30)
  <2> HIDE DEF Floor
  <2> QED
    BY <1>1, <1>3, <2>1, <2>2, <2>3 DEF FloorBelow
<1> QED
  BY <1>1, <1>2, <1>3

(***************************************************************************)
(* The inductive invariant.                                                *)
(***************************************************************************)

Sized ==
  /\ picture.Width = (IF single /\ Width(region) > 256 THEN Width(region) + 1 ELSE Width(region))
  /\ picture.Height = (IF single /\ Height(region) > 256 THEN Height(region) + 1 ELSE Height(region))

\* Where the part of region p is.
Place(p) == Box(p[1] * Side - region.MinX, region.MaxY - p[2] * Side - Side,
                p[1] * Side - region.MinX + 255, region.MaxY - p[2] * Side - 1)

ShapeInv ==
  /\ single \in BOOLEAN /\ limit \in Nat /\ stripe \in BOOLEAN /\ lost \in BOOLEAN
  /\ scenes \subseteq Places /\ todo \subseteq scenes
  /\ pc \notin {"extending", "drawing"} => todo = {}
  /\ region = NULL \/ region \in Boxes
  /\ region # NULL => Width(region) > 0 /\ Height(region) > 0

\* The regions the box has been extended over are inside it.
InsideInv ==
  /\ pc = "extending" => \A p \in scenes \ todo : region # NULL /\ Inside(RegionBox(p), region)
  /\ pc \in {"drawing", "drawn"} => region # NULL /\ \A p \in scenes : Inside(RegionBox(p), region)

\* The parts that are copied are where they belong, and the box is none that fails.
PartsInv ==
  pc \in {"drawing", "drawn"} =>
    /\ picture = [Width |-> picture.Width, Height |-> picture.Height, parts |-> picture.parts]
    /\ Sized
    /\ DOMAIN picture.parts = scenes \ todo
    /\ \A p \in scenes \ todo : picture.parts[p] = Place(p) /\ ~(single /\ Wide)
    /\ Oversize => single /\ Wide

\* A file that is missing during a generation is remembered.
LostInv == pc \in {"extending", "drawing"} /\ ~stripe => lost

FailInv == pc = "failed" => region = NULL \/ lost \/ Oversize \/ (single /\ Wide)

PcInv == pc \in {"idle", "extending", "drawing", "drawn", "failed"}

IInv == ShapeInv /\ InsideInv /\ PartsInv /\ LostInv /\ FailInv /\ PcInv

LEMMA RegionBoxType ==
  ASSUME NEW p \in Places
  PROVE  /\ p[1] \in Nat /\ p[2] \in Nat
         /\ RegionBox(p) \in Boxes
         /\ Width(RegionBox(p)) = 256 /\ Height(RegionBox(p)) = 256
<1>1. p[1] \in Nat /\ p[2] \in Nat
  BY PlacesAssumption
<1> QED
  BY <1>1 DEF RegionBox, Box, Boxes, Width, Height, Side

LEMMA InitIInv == Init => IInv
BY PlacesAssumption DEF Init, IInv, ShapeInv, InsideInv, PartsInv, LostInv, FailInv, PcInv

LEMMA ExtendsFacts ==
  ASSUME NEW b \in Boxes, NEW c \in Boxes
  PROVE  /\ Extends(b, c) \in Boxes
         /\ Inside(b, Extends(b, c)) /\ Inside(c, Extends(b, c))
BY DEF Extends, Boxes, Box, Lesser, Greater, Inside

LEMMA InsideTrans ==
  ASSUME NEW b \in Boxes, NEW c \in Boxes, NEW d \in Boxes, Inside(b, c), Inside(c, d)
  PROVE  Inside(b, d)
BY DEF Inside, Boxes

(***************************************************************************)
(* Cartes2Image of a region inside the box.                                *)
(***************************************************************************)

\* In a box that does not fail one unit is one pixel, whatever the box asked for.
LEMMA ExactPart ==
  ASSUME ShapeInv, Sized, region # NULL, ~(single /\ Wide),
         NEW c \in Boxes, Inside(c, region)
  PROVE  Cartes2Image(c, picture, region)
           = Box(c.MinX - region.MinX, region.MaxY - c.MaxY,
                 c.MaxX - region.MinX - 1, region.MaxY - c.MinY - 1)
<1> DEFINE w == Width(region)
           h == Height(region)
<1>1. region \in Boxes /\ w \in Int /\ h \in Int /\ w > 0 /\ h > 0
  BY DEF ShapeInv, Boxes, Width, Height
<1>2. single \in BOOLEAN /\ ~(single /\ w > 256) /\ ~(single /\ h > 256)
  BY DEF ShapeInv, Wide, Side
<1>3. picture.Width = w /\ picture.Height = h
  BY <1>2 DEF Sized
<1>4. c.MaxX - region.MinX <= w /\ region.MaxY - c.MinY <= h
  BY <1>1 DEF Inside, Boxes, Width, Height
<1>5. /\ c.MinX - region.MinX \in Int /\ c.MaxX - region.MinX \in Int
      /\ region.MaxY - c.MinY \in Int /\ region.MaxY - c.MaxY \in Int
  BY <1>1 DEF Boxes
<1>6. /\ Floor(<<w * (c.MinX - region.MinX), w>>) = c.MinX - region.MinX
      /\ FloorBelow(<<w * (c.MaxX - region.MinX), w>>) = c.MaxX - region.MinX - 1
      /\ Floor(<<h * (region.MaxY - c.MaxY), h>>) = region.MaxY - c.MaxY
      /\ FloorBelow(<<h * (region.MaxY - c.MinY), h>>) = region.MaxY - c.MinY - 1
  <2> HIDE DEF w, h
  <2> QED
    BY <1>1, <1>2, <1>4, <1>5, ExactEdges
<1> QED
  BY <1>3, <1>6 DEF Cartes2Image, w, h

\* So the part of a region is where the region is.
LEMMA PartIsPlace ==
  ASSUME ShapeInv, Sized, region # NULL, NEW p \in Places,
         Inside(RegionBox(p), region), ~(single /\ Wide)
  PROVE  Cartes2Image(RegionBox(p), picture, region) = Place(p)
<1> DEFINE b == RegionBox(p)
<1>1. b \in Boxes /\ region \in Boxes /\ p[1] * Side \in Int /\ p[2] * Side \in Int
  BY RegionBoxType DEF ShapeInv, Side
<1>2. Cartes2Image(b, picture, region)
        = Box(b.MinX - region.MinX, region.MaxY - b.MaxY,
              b.MaxX - region.MinX - 1, region.MaxY - b.MinY - 1)
  BY <1>1, ExactPart
<1>3. /\ b.MinX = p[1] * Side /\ b.MaxX = p[1] * Side + 256
      /\ b.MinY = p[2] * Side /\ b.MaxY = p[2] * Side + 256
  BY DEF RegionBox, Box, Side
<1>4. /\ b.MaxX - region.MinX - 1 = p[1] * Side - region.MinX + 255
      /\ region.MaxY - b.MaxY = region.MaxY - p[2] * Side - 256
  <2> HIDE DEF b
  <2> QED
    BY <1>1, <1>3 DEF Boxes
<1> QED
  BY <1>2, <1>3, <1>4 DEF Place, Side

\* Of a box that fails, no part has the size of a region's picture.
LEMMA PartTooWide ==
  ASSUME ShapeInv, Sized, NEW p \in Places,
         Inside(RegionBox(p), region), single /\ Wide
  PROVE  ~Fits(Cartes2Image(RegionBox(p), picture, region))
<1> DEFINE w == Width(region)
           h == Height(region)
           b == RegionBox(p)
           part == Cartes2Image(b, picture, region)
<1>1. region \in Boxes /\ w \in Int /\ h \in Int /\ w > 0 /\ h > 0 /\ single = TRUE
  BY DEF ShapeInv, Boxes, Width, Height, Wide
<1>2. /\ b.MaxX = b.MinX + 256 /\ b.MaxY = b.MinY + 256
      /\ b.MinX \in Int /\ b.MinY \in Int
  BY RegionBoxType DEF RegionBox, Box, Side
<1>3. CASE w > 256
  <2> DEFINE a == b.MinX - region.MinX
  <2>1. a \in Nat /\ a + 256 <= w /\ b.MaxX - region.MinX = a + 256
    BY <1>1, <1>2 DEF Inside, Boxes, Width
  <2>2. Floor(<<(w + 1) * a, w>>) = a /\ FloorBelow(<<(w + 1) * (a + 256), w>>) > a + 255
    <3> HIDE DEF w, a
    <3> QED
      BY <1>1, <1>3, <2>1, WideEdges
  <2>3. picture.Width = w + 1
    BY <1>1, <1>3 DEF Sized
  <2>4. part.MinX = Floor(<<(w + 1) * a, w>>) /\ part.MaxX = FloorBelow(<<(w + 1) * (a + 256), w>>)
    BY <2>1, <2>3 DEF Cartes2Image, Box
  <2>5. FloorBelow(<<(w + 1) * (a + 256), w>>) \in Int
    BY <1>1, <2>1 DEF FloorBelow
  <2> HIDE DEF part, w, a
  <2>6. PixelWidth(part) # Side
    BY <2>1, <2>2, <2>4, <2>5 DEF PixelWidth, Side
  <2> QED
    BY <2>6 DEF Fits, part
<1>4. CASE h > 256
  <2> DEFINE a == region.MaxY - b.MaxY
  <2>1. a \in Nat /\ a + 256 <= h /\ region.MaxY - b.MinY = a + 256
    BY <1>1, <1>2 DEF Inside, Boxes, Height
  <2>2. Floor(<<(h + 1) * a, h>>) = a /\ FloorBelow(<<(h + 1) * (a + 256), h>>) > a + 255
    <3> HIDE DEF h, a
    <3> QED
      BY <1>1, <1>4, <2>1, WideEdges
  <2>3. picture.Height = h + 1
    BY <1>1, <1>4 DEF Sized
  <2>4. part.MinY = Floor(<<(h + 1) * a, h>>) /\ part.MaxY = FloorBelow(<<(h + 1) * (a + 256), h>>)
    BY <2>1, <2>3 DEF Cartes2Image, Box
  <2>5. FloorBelow(<<(h + 1) * (a + 256), h>>) \in Int
    BY <1>1, <2>1 DEF FloorBelow
  <2> HIDE DEF part, h, a
  <2>6. PixelHeight(part) # Side
    BY <2>1, <2>2, <2>4, <2>5 DEF PixelHeight, Side
  <2> QED
    BY <2>6 DEF Fits, part
<1> QED
  BY <1>3, <1>4 DEF Wide, Side

LEMMA PlaceFits ==
  ASSUME ShapeInv, Sized, region # NULL, NEW p \in Places,
         Inside(RegionBox(p), region), ~(single /\ Wide)
  PROVE  Fits(Place(p))
<1>1. region \in Boxes /\ single \in BOOLEAN /\ p[1] * Side \in Int /\ p[2] * Side \in Int
  BY RegionBoxType DEF ShapeInv, Side
<1>2. picture.Width = Width(region) /\ picture.Height = Height(region)
  BY <1>1 DEF Sized, Wide, Side
<1>3. /\ region.MinX <= p[1] * Side /\ p[1] * Side + 256 <= region.MaxX
      /\ region.MinY <= p[2] * Side /\ p[2] * Side + 256 <= region.MaxY
  BY DEF Inside, RegionBox, Box, Side
<1> DEFINE x == p[1] * Side
           y == p[2] * Side
<1> HIDE DEF x, y
<1>4. Place(p) = Box(x - region.MinX, region.MaxY - y - 256, x - region.MinX + 255, region.MaxY - y - 1)
  BY DEF Place, x, y, Side
<1>5. x \in Int /\ y \in Int /\ region.MinX <= x /\ x + 256 <= region.MaxX
      /\ region.MinY <= y /\ y + 256 <= region.MaxY
  BY <1>1, <1>3 DEF x, y
<1> QED
  BY <1>1, <1>2, <1>4, <1>5 DEF Fits, Box, PixelWidth, PixelHeight, Side, Boxes, Width, Height

(***************************************************************************)
(* The steps.                                                              *)
(***************************************************************************)

LEMMA HostStep ==
  ASSUME IInv, NEW S \in SUBSET Places, Host(S)
  PROVE  IInv'
BY DEF Host, given, IInv, ShapeInv, InsideInv, PartsInv, LostInv, FailInv, PcInv, Width, Height

LEMMA StripeStep == ASSUME IInv, ChangeStripe PROVE IInv'
<1>1. /\ UNCHANGED <<single, limit, scenes, region, todo, picture, pc>>
      /\ lost' = TRUE /\ stripe' \in BOOLEAN
  BY DEF ChangeStripe, given
<1>2. ShapeInv' /\ InsideInv'
  BY <1>1 DEF IInv, ShapeInv, InsideInv, Width, Height
<1>3. PartsInv'
  BY <1>1 DEF IInv, PartsInv, Sized, Place, Wide, Oversize, TooLarge, Width, Height
<1> QED
  BY <1>1, <1>2, <1>3 DEF IInv, LostInv, FailInv, PcInv

LEMMA BeginStep == ASSUME IInv, BeginPicture PROVE IInv'
BY DEF BeginPicture, given, IInv, ShapeInv, InsideInv, PartsInv, LostInv, FailInv, PcInv, Width, Height

LEMMA ExtendStep == ASSUME IInv, ExtendRegion PROVE IInv'
<1>1. PICK p \in todo : /\ region' = IF region = NULL THEN RegionBox(p) ELSE Extends(region, RegionBox(p))
                        /\ todo' = todo \ {p}
  BY DEF ExtendRegion
<1>2. pc = "extending" /\ UNCHANGED <<single, limit, stripe, lost, scenes, picture, pc>>
  BY DEF ExtendRegion, given
<1>3. p \in Places /\ RegionBox(p) \in Boxes
  BY RegionBoxType DEF IInv, ShapeInv
<1>4. region' \in Boxes /\ Inside(RegionBox(p), region')
      /\ (region # NULL => region \in Boxes /\ Inside(region, region'))
  <2>1. CASE region = NULL
    BY <1>1, <1>3, <2>1 DEF Inside, Boxes
  <2>2. CASE region # NULL
    BY <1>1, <1>3, <2>2, ExtendsFacts DEF IInv, ShapeInv
  <2> QED
    BY <2>1, <2>2
<1>5. region' # NULL
  BY <1>4, PlacesAssumption DEF Boxes
<1>6. Width(region') > 0 /\ Height(region') > 0
  <2>1. Width(RegionBox(p)) = 256 /\ Height(RegionBox(p)) = 256
    BY <1>3, RegionBoxType
  <2> QED
    BY <1>3, <1>4, <2>1 DEF Inside, Boxes, Width, Height
<1>7. ShapeInv'
  BY <1>1, <1>2, <1>4, <1>5, <1>6 DEF IInv, ShapeInv, Width, Height
<1>8. InsideInv'
  <2> SUFFICES ASSUME NEW q \in scenes' \ todo' PROVE region' # NULL /\ Inside(RegionBox(q), region')
    BY <1>2 DEF InsideInv
  <2>1. CASE q = p
    BY <1>4, <1>5, <2>1
  <2>2. CASE q # p
    <3>1. q \in scenes \ todo /\ q \in Places
      BY <1>1, <1>2, <2>2 DEF IInv, ShapeInv
    <3>2. region # NULL /\ Inside(RegionBox(q), region)
      BY <1>2, <3>1 DEF IInv, InsideInv
    <3> QED
      BY <1>4, <1>5, <3>1, <3>2, RegionBoxType, InsideTrans
  <2> QED
    BY <2>1, <2>2
<1> QED
  BY <1>2, <1>7, <1>8 DEF IInv, PartsInv, LostInv, FailInv, PcInv

LEMMA PartsStep == ASSUME IInv, BeginParts PROVE IInv'
<1> DEFINE width  == FloorBelow(<<Width(region), 1>>) + 1
           height == FloorBelow(<<Height(region), 1>>) + 1
<1>1. pc = "extending" /\ todo = {} /\ UNCHANGED <<single, limit, stripe, lost, scenes, region>>
  BY DEF BeginParts, given
<1>2. CASE region = NULL
  BY <1>1, <1>2 DEF BeginParts, IInv, ShapeInv, InsideInv, PartsInv, LostInv, FailInv, PcInv, Width, Height
<1>3. CASE region # NULL
  <2>1. single \in BOOLEAN /\ Width(region) \in Int /\ Height(region) \in Int
    BY <1>3 DEF IInv, ShapeInv, Boxes, Width, Height
  <2>2. /\ width = IF single /\ Width(region) > 256 THEN Width(region) + 1 ELSE Width(region)
        /\ height = IF single /\ Height(region) > 256 THEN Height(region) + 1 ELSE Height(region)
    BY <2>1, SizeOf
  <2>3. ~(single /\ Wide) => (TooLarge(width, height) <=> Oversize)
    <3> HIDE DEF width, height
    <3>1. ~(single /\ Wide) => width = Width(region) /\ height = Height(region)
      BY <1>3, <2>1, <2>2 DEF Wide, Side
    <3> QED
      BY <1>3, <3>1 DEF Oversize
  <2>4. (Wide <=> Wide') /\ (Oversize <=> Oversize')
    BY <1>1 DEF Wide, Oversize, TooLarge, Width, Height
  <2>5. CASE TooLarge(width, height)
    <3>1. pc' = "failed" /\ UNCHANGED <<todo, picture>>
      BY <1>3, <2>5 DEF BeginParts
    <3>2. ShapeInv'
      BY <1>1, <3>1 DEF IInv, ShapeInv, Width, Height
    <3> HIDE DEF width, height
    <3> QED
      BY <1>1, <2>3, <2>4, <2>5, <3>1, <3>2 DEF IInv, InsideInv, PartsInv, LostInv, FailInv, PcInv
  <2>6. CASE ~TooLarge(width, height)
    <3>1. /\ pc' = "drawing" /\ todo' = scenes
          /\ picture' = [Width |-> width, Height |-> height, parts |-> [p \in {} |-> NULL]]
      BY <1>3, <2>6 DEF BeginParts
    <3> HIDE DEF width, height
    <3>2. Sized'
      BY <1>1, <2>2, <3>1 DEF Sized, Width, Height
    <3>3. ShapeInv' /\ InsideInv'
      BY <1>1, <1>3, <3>1 DEF IInv, ShapeInv, InsideInv, Width, Height
    <3>4. Oversize' => single' /\ Wide'
      BY <1>1, <2>3, <2>4, <2>6
    <3>5. PartsInv'
      BY <1>1, <3>1, <3>2, <3>4 DEF PartsInv
    <3> QED
      BY <1>1, <3>1, <3>3, <3>5 DEF IInv, LostInv, FailInv, PcInv
  <2> QED
    BY <2>5, <2>6
<1> QED
  BY <1>2, <1>3

LEMMA CopyStep == ASSUME IInv, CopyRegion PROVE IInv'
<1>1. PICK p \in todo : stripe => Replace(p, Cartes2Image(RegionBox(p), picture, region))
  BY DEF CopyRegion
<1>2. pc = "drawing" /\ UNCHANGED <<single, limit, stripe, lost, scenes, region>>
  BY DEF CopyRegion, given
<1> DEFINE part == Cartes2Image(RegionBox(p), picture, region)
<1>3. p \in Places /\ ShapeInv /\ Sized /\ region # NULL /\ Inside(RegionBox(p), region)
  BY <1>2 DEF IInv, ShapeInv, InsideInv, PartsInv
<1>4. CASE ~stripe \/ (single /\ Wide)
  <2>1. single /\ Wide => ~Fits(part)
    BY <1>3, PartTooWide
  <2>2. todo' = {} /\ pc' = "failed"
    <3> HIDE DEF part
    <3>1. CASE ~stripe
      BY <3>1 DEF CopyRegion, Fail
    <3>2. CASE stripe
      BY <1>1, <1>4, <2>1, <3>2 DEF Replace, Fail, part
    <3> QED
      BY <3>1, <3>2
  <2>3. ShapeInv'
    BY <1>2, <1>3, <2>2 DEF ShapeInv, Width, Height
  <2>4. lost' \/ (Wide' /\ single')
    BY <1>2, <1>4 DEF IInv, LostInv, Wide, Width, Height
  <2> QED
    BY <2>2, <2>3, <2>4 DEF IInv, InsideInv, PartsInv, LostInv, FailInv, PcInv
<1>5. CASE stripe /\ ~(single /\ Wide)
  <2>1. part = Place(p) /\ Fits(part)
    BY <1>3, <1>5, PartIsPlace, PlaceFits
  <2> HIDE DEF part
  <2>2. /\ picture' = [picture EXCEPT !.parts =
                         [q \in DOMAIN @ \union {p} |-> IF q = p THEN part ELSE @[q]]]
        /\ todo' = todo \ {p} /\ pc' = "drawing"
    BY <1>1, <1>2, <1>5, <2>1 DEF Replace, part
  <2>3. picture = [Width |-> picture.Width, Height |-> picture.Height, parts |-> picture.parts]
    BY <1>2 DEF IInv, PartsInv
  <2> DEFINE parts == [q \in DOMAIN picture.parts \union {p} |-> IF q = p THEN part ELSE picture.parts[q]]
  <2>4. picture' = [Width |-> picture.Width, Height |-> picture.Height, parts |-> parts]
    <3> HIDE DEF parts
    <3>1. picture' = [picture EXCEPT !.parts = parts]
      BY <2>2 DEF parts
    <3> QED
      BY <2>3, <3>1
  <2>5. Sized'
    BY <1>2, <1>3, <2>4 DEF Sized, Width, Height
  <2>6. DOMAIN parts = scenes \ (todo \ {p})
    BY <1>2 DEF IInv, PartsInv, ShapeInv
  <2>7. ASSUME NEW q \in scenes \ (todo \ {p}) PROVE parts[q] = Place(q)
    <3>1. CASE q = p
      BY <2>1, <2>6, <2>7, <3>1
    <3>2. CASE q # p
      <4>1. q \in scenes \ todo
        BY <3>2, <2>7
      <4>2. parts[q] = picture.parts[q]
        BY <2>6, <2>7, <3>2
      <4> QED
        BY <1>2, <4>1, <4>2 DEF IInv, PartsInv
    <3> QED
      BY <3>1, <3>2
  <2> HIDE DEF parts
  <2>8. picture'.parts = parts /\ picture'.Width = picture.Width /\ picture'.Height = picture.Height
    BY <2>4
  <2>9. \A q : Place(q)' = Place(q)
    BY <1>2 DEF Place
  <2>10. ~(single' /\ Wide') /\ ~Oversize'
    <3>1. ~Oversize
      BY <1>2, <1>5 DEF IInv, PartsInv
    <3> QED
      BY <1>2, <1>5, <3>1 DEF Wide, Oversize, TooLarge, Width, Height
  <2>11. PartsInv'
    BY <1>2, <2>2, <2>4, <2>5, <2>6, <2>7, <2>8, <2>9, <2>10 DEF PartsInv
  <2>12. ShapeInv'
    BY <1>2, <1>3, <2>2 DEF ShapeInv, Width, Height
  <2>13. InsideInv'
    BY <1>2, <2>2 DEF IInv, InsideInv
  <2> QED
    BY <1>2, <2>2, <2>11, <2>12, <2>13 DEF IInv, LostInv, FailInv, PcInv
<1> QED
  BY <1>4, <1>5

LEMMA EndStep == ASSUME IInv, EndPicture PROVE IInv'
BY DEF EndPicture, given, IInv, ShapeInv, InsideInv, PartsInv, LostInv, FailInv, PcInv, Sized, Place,
       Wide, Oversize, TooLarge, Width, Height

LEMMA StepIInv == IInv /\ [Next]_vars => IInv'
<1> SUFFICES ASSUME IInv, [Next]_vars PROVE IInv'
  OBVIOUS
<1>1. ASSUME NEW p \in Places, AddScene(p) \/ RemoveScene(p) PROVE IInv'
  <2>1. scenes \union {p} \in SUBSET Places /\ scenes \ {p} \in SUBSET Places
    BY DEF IInv, ShapeInv
  <2> QED
    BY <1>1, <2>1, HostStep DEF AddScene, RemoveScene
<1>2. CASE UNCHANGED vars
  BY <1>2 DEF vars, given, IInv, ShapeInv, InsideInv, PartsInv, LostInv, FailInv, PcInv, Sized,
              Place, Wide, Oversize, TooLarge, Width, Height
<1> QED
  BY <1>1, <1>2, StripeStep, BeginStep, ExtendStep, PartsStep, CopyStep, EndStep DEF Next

(***************************************************************************)
(* The theorems.                                                           *)
(***************************************************************************)

\* Failures: generateCacheBitmap of the terrain layer fails only before there is a
\* region, when its file of colours was missing, over a box too large for a bitmap,
\* or in a build where the rounding error is lost; and over the boxes of the last two
\* kinds no picture is drawn.
THEOREM FailuresAlwaysCaused == Spec => []FailureHasCause
<1>1. IInv => FailureHasCause
  BY DEF IInv, PartsInv, FailInv, ShapeInv, FailureHasCause, Drawn
<1> QED
  BY <1>1, InitIInv, StepIInv, PTL DEF Spec

\* Parts: in every picture that is made the regions lie as they lie on the grid.
THEOREM PictureIsGrid == Spec => []PartsLikeGrid
<1>1. ASSUME IInv, Drawn PROVE DOMAIN picture.parts = scenes
  BY <1>1 DEF IInv, PartsInv, ShapeInv, Drawn
<1>2. ASSUME IInv, Drawn, NEW p \in scenes, NEW q \in scenes
      PROVE  /\ p[1] < q[1] => picture.parts[p].MaxX < picture.parts[q].MinX
             /\ p[2] < q[2] => picture.parts[q].MaxY < picture.parts[p].MinY
  <2>1. picture.parts[p] = Place(p) /\ picture.parts[q] = Place(q) /\ region \in Boxes
    BY <1>2 DEF IInv, PartsInv, InsideInv, ShapeInv, Drawn
  <2>2. p[1] \in Nat /\ p[2] \in Nat /\ q[1] \in Nat /\ q[2] \in Nat
    BY <1>2, RegionBoxType DEF IInv, ShapeInv
  <2> QED
    BY <2>1, <2>2 DEF Place, Box, Boxes, Side
<1>3. IInv => PartsLikeGrid
  BY <1>1, <1>2 DEF PartsLikeGrid
<1> QED
  BY <1>3, InitIInv, StepIInv, PTL DEF Spec

LEMMA LinesBetween ==
  ASSUME NEW a \in Int, NEW b \in Int, NEW x \in Lines(a, b)
  PROVE  x \in Int /\ a <= x /\ (a <= b => x <= b)
<1>1. PICK i \in 0 .. ((b - a) \div (Side \div 2)) : x = a + i * (Side \div 2)
  BY DEF Lines
<1>2. Side \div 2 = 128
  BY DEF Side
<1> QED
  BY <1>1, <1>2

\* The rectangle drawn for a box in the picture: its corner, and one pixel less
\* than its size.
LEMMA SourceOf ==
  ASSUME ShapeInv, Sized, region # NULL, ~(single /\ Wide),
         NEW c \in Boxes, Inside(c, region)
  PROVE  /\ Source(c).x = c.MinX - region.MinX
         /\ Source(c).w = c.MaxX - c.MinX - 1
         /\ Source(c).y = region.MaxY - c.MaxY
         /\ Source(c).h = c.MaxY - c.MinY - 1
<1>1. region \in Boxes
  BY DEF ShapeInv
<1>2. Source(c) = ToRectangle(Box(c.MinX - region.MinX, region.MaxY - c.MaxY,
                                  c.MaxX - region.MinX - 1, region.MaxY - c.MinY - 1))
  BY ExactPart DEF Source
<1> QED
  BY <1>1, <1>2 DEF ToRectangle, PixelWidth, PixelHeight, Box, Boxes

LEMMA MeetFollows == IInv => RequestsMeet
<1> SUFFICES ASSUME IInv, Drawn, scenes # {} PROVE RequestsMeet
  BY DEF RequestsMeet
<1>1. /\ ShapeInv /\ Sized /\ region # NULL /\ ~(single /\ Wide)
      /\ region \in Boxes
  BY DEF IInv, ShapeInv, InsideInv, PartsInv, Drawn
<1>2. /\ region.MinX \in Int /\ region.MaxX \in Int /\ region.MinX <= region.MaxX
      /\ region.MinY \in Int /\ region.MaxY \in Int /\ region.MinY <= region.MaxY
  BY <1>1 DEF ShapeInv, Boxes, Width, Height
<1>3. ASSUME NEW x1 \in Lines(region.MinX, region.MaxX), NEW x2 \in Lines(region.MinX, region.MaxX),
             NEW x3 \in Lines(region.MinX, region.MaxX), x1 < x2, x2 < x3
      PROVE  Source(Box(x2, region.MinY, x3, region.MaxY)).x
               = Source(Box(x1, region.MinY, x2, region.MaxY)).x
                 + Source(Box(x1, region.MinY, x2, region.MaxY)).w + 1
  <2> DEFINE west == Box(x1, region.MinY, x2, region.MaxY)
             east == Box(x2, region.MinY, x3, region.MaxY)
  <2>1. /\ x1 \in Int /\ x2 \in Int /\ x3 \in Int
        /\ region.MinX <= x1 /\ x2 <= region.MaxX /\ region.MinX <= x2 /\ x3 <= region.MaxX
    BY <1>2, LinesBetween
  <2>2. west \in Boxes /\ Inside(west, region) /\ east \in Boxes /\ Inside(east, region)
    BY <1>2, <2>1 DEF Boxes, Box, Inside
  <2>3. /\ Source(west).x = x1 - region.MinX /\ Source(west).w = x2 - x1 - 1
        /\ Source(east).x = x2 - region.MinX
    BY <1>1, <2>2, SourceOf DEF Box
  <2> HIDE DEF west, east
  <2>4. Source(east).x = Source(west).x + Source(west).w + 1
    BY <1>2, <2>1, <2>3
  <2> QED
    BY <2>4 DEF west, east
<1>4. ASSUME NEW y1 \in Lines(region.MinY, region.MaxY), NEW y2 \in Lines(region.MinY, region.MaxY),
             NEW y3 \in Lines(region.MinY, region.MaxY), y1 < y2, y2 < y3
      PROVE  Source(Box(region.MinX, y1, region.MaxX, y2)).y
               = Source(Box(region.MinX, y2, region.MaxX, y3)).y
                 + Source(Box(region.MinX, y2, region.MaxX, y3)).h + 1
  <2> DEFINE south == Box(region.MinX, y1, region.MaxX, y2)
             north == Box(region.MinX, y2, region.MaxX, y3)
  <2>1. /\ y1 \in Int /\ y2 \in Int /\ y3 \in Int
        /\ region.MinY <= y1 /\ y2 <= region.MaxY /\ region.MinY <= y2 /\ y3 <= region.MaxY
    BY <1>2, LinesBetween
  <2>2. south \in Boxes /\ Inside(south, region) /\ north \in Boxes /\ Inside(north, region)
    BY <1>2, <2>1 DEF Boxes, Box, Inside
  <2>3. /\ Source(south).y = region.MaxY - y2
        /\ Source(north).y = region.MaxY - y3 /\ Source(north).h = y3 - y2 - 1
    BY <1>1, <2>2, SourceOf DEF Box
  <2> HIDE DEF south, north
  <2>4. Source(south).y = Source(north).y + Source(north).h + 1
    BY <1>2, <2>1, <2>3
  <2> QED
    BY <2>4 DEF south, north
<1> QED
  BY <1>3, <1>4 DEF RequestsMeet

\* Requests that meet: between the pixels of two requests whose boxes share an edge
\* one line of the picture is given to neither (Cartes2Image, then ToRectangle).
THEOREM RequestsAlwaysMeet == Spec => []RequestsMeet
BY MeetFollows, InitIInv, StepIInv, PTL DEF Spec
=============================================================================

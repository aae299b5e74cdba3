---------------------------- MODULE VolumeFaces ----------------------------
(***************************************************************************)
(* How LLVolume turns parameters into faces (llvolume.cpp): the outline of  *)
(* a profile, the points of a path, the faces that sweep the one along the  *)
(* other, and the buffers each face fills.  Points are counted, never       *)
(* placed: every number here decides a size, an index or which faces exist. *)
(*                                                                         *)
(* Cuts are in hundred-thousandths, to which setBegin and setEnd round      *)
(* them; twists and revolutions are in hundredths; a level of detail is     *)
(* given doubled, so that 1, 1.5, 2.5 and 4 are whole.                      *)
(***************************************************************************)
EXTENDS Integers, FiniteSets, Sequences

CONSTANT Details  \* the doubled levels of detail

\* mDetailScales goes from 1 to 4.
ASSUME DetailsAssumption == Details \subseteq 2 .. 8

Q == 100000

\* What decides sizes among the parameters, each within the limits that
\* LLVolumeParams has its setters keep: a cut leaves something, a twist is the
\* difference of two within a turn, there are one to four revolutions.  Half of
\* them are bits of a curve type; bent is any of skew, taper and radius offset
\* that keep a path from closing; a step of a path may come twice by rounding.
Shape ==
  {s \in [curve : {"square", "tri", "circle", "half"},
          hole : {"same", "circle", "square", "triangle"}, hollow : BOOLEAN,
          begin : 0 .. Q, end : 0 .. Q,
          path : {"line", "circle", "circle2", "test", "flexible"},
          pathBegin : 0 .. Q, pathEnd : 0 .. Q, twist : 0 .. 200, revolutions : 100 .. 400,
          bent : BOOLEAN, tapered : BOOLEAN, rounded : 0 .. 2] :
     s.begin < s.end /\ s.pathBegin < s.pathEnd}

CeilDiv(a, b) == (a + b - 1) \div b

Larger(a, b) == IF a > b THEN a ELSE b

Flat(s) == s.curve \in {"square", "tri"}

\* The curve type has no bits of a hole in it, hollow or not.
PlainCurve(s) == s.hole = "same"

\* The part of LLVolume::generate that decides how flat sides are divided.
Split(s, d) ==
  IF s.path = "line" /\ s.tapered /\ Flat(s) /\ PlainCurve(s) THEN 0 ELSE (d * 33) \div 100

(***************************************************************************)
(* LLPath::generate and LLDynamicPath::generate.                           *)
(***************************************************************************)

\* LLPath::genNGon: the begin, the whole steps after it, the end; rounding may
\* add steps to a path that begins or ends on one.
PathNGon(s, sides) ==
  [points |-> 2 + CeilDiv(s.pathEnd * sides, Q) - 1 - (s.pathBegin * sides) \div Q + s.rounded,
   open |-> s.pathEnd - s.pathBegin < Q \/ s.bent \/ s.twist # 0]

Path(s, d) ==
  CASE s.path = "line" ->
         [points |-> Larger((s.twist * 7 * (d - 1)) \div 400, Split(s, d)) + 2, open |-> TRUE]
    [] s.path = "circle" ->
         PathNGon(s, (((1200 * d + 7 * s.twist * (d - 1)) \div 400) * s.revolutions) \div 100)
    [] s.path = "circle2" -> PathNGon(s, 3 * d)
    [] s.path = "test" -> [points |-> 5, open |-> TRUE]
    [] s.path = "flexible" -> [points |-> 2, open |-> TRUE]

(***************************************************************************)
(* LLProfile::generate.                                                    *)
(***************************************************************************)

\* A profile too short to generate leaves the volume without faces.
Generated(s) == s.begin <= s.end - Q \div 100

SquareHole(s) == s.hollow /\ s.hole = "square"

Sides(s, d) ==
  CASE s.curve = "square" -> 4
    [] s.curve = "tri" -> 3
    [] s.curve = "circle" -> IF SquareHole(s) THEN 4 * CeilDiv(3 * d, 4) ELSE 3 * d
    [] s.curve = "half" -> IF SquareHole(s) THEN 2 * CeilDiv(3 * d, 4) ELSE (3 * d) \div 2

\* The sides addHole is asked for.
HoleSides(s, d) ==
  CASE s.hole = "square" -> IF s.curve = "half" THEN 2 ELSE 4
    [] s.hole = "triangle" -> 3
    [] s.hole = "circle" -> IF Flat(s) THEN 3 * d ELSE Sides(s, d)
    [] s.hole = "same" -> Sides(s, d)

FlatHole(s) == s.hole \in {"square", "triangle"} \/ (s.hole = "same" /\ Flat(s))

\* The first fractional side is so short that genNGon leaves its point out.
BeginSliver(s, sides) == (s.begin * sides) % Q >= 99990

\* LLProfile::genNGon without its centre: the point of the begin, the corners
\* up to the end, and the end unless it is on the last corner; every point but
\* the first of the profile brings split more.
NGon(s, sides, split, empty) ==
  LET first == (s.begin * sides) \div Q
      start == IF BeginSliver(s, sides) THEN 0 ELSE 1
      steps == CeilDiv(s.end * sides, Q) - 1 - first
      last == IF s.end * sides - (first + steps) * Q > 10 THEN 1 ELSE 0
  IN  start + (steps + last) * (split + 1) - (IF empty /\ start = 0 THEN split ELSE 0)

\* genNGon finds the slice open; half a circle always is.
Sliced(s) == s.curve = "half" \/ s.end - s.begin < 99000

\* What generate leaves in mOpen: a whole half circle without a hole is closed.
OpenProfile(s) == IF s.curve = "half" THEN s.hollow \/ s.end - s.begin < Q ELSE Sliced(s)

\* LLFaceID, by the bit that is set.
PathBegin == 0
PathEnd == 1
InnerSide == 2
ProfileBegin == 3
ProfileEnd == 4
OuterSide(i) == 5 + i

Cap(id, count) == [id |-> id, index |-> 0, count |-> count, cap |-> TRUE, flat |-> FALSE]
Side(id, index, count, flat) ==
  [id |-> id, index |-> index, count |-> count, cap |-> FALSE, flat |-> flat]

\* Mutant of Corner: neighbouring sides do not share their corner.
CornerApart(j, split) == j * (split + 2)

\* The point at which the j-th flat side begins.
Corner(j, split) == j * (split + 1)

\* One face for each side the cut leaves, or one for all that is round; total
\* counts the points so far, the centre included.
OuterFaces(s, sides, split, total) ==
  LET low == (s.begin * sides) \div Q
      high == (s.end * sides * 1000 + 999 * Q) \div (1000 * Q)
  IN  IF Flat(s)
      THEN [j \in 1 .. high - low |->
              Side(OuterSide(low + j - 1), Corner(j - 1, split), split + 2, TRUE)]
      ELSE <<Side(OuterSide(0), 0, IF Sliced(s) /\ ~s.hollow THEN total - 1 ELSE total, FALSE)>>

\* mTotal, which is the size of mProfile, mTotalOut, mOpen and mFaces; curve is what the
\* outer genNGon made without the centre.
Profile(s, d, pathOpen) ==
  LET split == Split(s, d)
      sides == Sides(s, d)
      curve == NGon(s, sides, IF Flat(s) THEN split ELSE 0, TRUE)
      out == IF Sliced(s) /\ ~s.hollow THEN curve + 1 ELSE curve
      inner == IF s.hollow
               THEN NGon(s, HoleSides(s, d), IF FlatHole(s) THEN split ELSE 0, FALSE) ELSE 0
      open == OpenProfile(s)
      closing == IF s.curve = "half" /\ ~open THEN 1 ELSE 0
      total == out + inner + closing
      If(b, faces) == IF b THEN faces ELSE <<>>
  IN  [curve |-> curve, out |-> out, total |-> total, open |-> open,
       faces |->
         If(pathOpen, <<Cap(PathBegin, CASE s.curve = "square" -> total
                                         [] s.curve # "square" /\ s.hollow -> 2 * out
                                         [] OTHER -> out)>>)
         \o OuterFaces(s, sides, split, out)
         \o If(s.hollow, <<Side(InnerSide, out, inner, FlatHole(s))>>)
         \o If(pathOpen, <<Cap(PathEnd, total)>>)
         \o If(open, <<Side(ProfileBegin, total - 1, 2, TRUE),
                       Side(ProfileEnd, IF s.hollow THEN out - 1 ELSE total - 2, 2, TRUE)>>)]

(***************************************************************************)
(* LLVolume.                                                               *)
(***************************************************************************)

\* What createVolumeFaces makes of a profile's face; the vertices of an inner
\* flat face are there twice.
Doubled(f) == f.id = InnerSide /\ f.flat /\ f.count > 2

Volume(s, d) ==
  LET path == Path(s, d)
      none == [curve |-> 0, out |-> 0, total |-> 0, open |-> FALSE, faces |-> <<>>]
  IN  [shape |-> s, path |-> path,
       profile |-> IF Generated(s) THEN Profile(s, d, path.open) ELSE none]

Faces(v) == {v.profile.faces[i] : i \in DOMAIN v.profile.faces}

\* mFaceMask, as generate leaves it.
FaceMask(v) == {f.id : f \in Faces(v)}

\* Mutant of GenerateFaceMask: the sides are not limited to those of the cut.
GenerateWholeMask(v) ==
  LET s == v.shape IN
  (IF Flat(s) THEN {OuterSide(i) : i \in 0 .. Sides(s, 2) - 1} ELSE {OuterSide(0)})
  \union (IF s.hollow THEN {InnerSide} ELSE {})
  \union (IF v.profile.open THEN {ProfileBegin, ProfileEnd} ELSE {})
  \union (IF v.path.open THEN {PathBegin, PathEnd} ELSE {})

\* generateFaceMask: the mask computed from the parameters.  A flat curve has as
\* many sides at every level of detail.
GenerateFaceMask(v) ==
  LET s == v.shape
      n == Sides(s, 2)
  IN  (IF Flat(s) THEN {OuterSide(i) : i \in (s.begin * n) \div Q .. CeilDiv(s.end * n, Q) - 1}
                  ELSE {OuterSide(0)})
      \union (IF s.hollow THEN {InnerSide} ELSE {})
      \union (IF v.profile.open THEN {ProfileBegin, ProfileEnd} ELSE {})
      \union (IF v.path.open THEN {PathBegin, PathEnd} ELSE {})

(***************************************************************************)
(* LLVolumeFace::create.  Of each face: the vertices allocated and written, *)
(* the indices allocated and written, the highest vertex an index names,    *)
(* the highest point read from the profile and from the mesh.               *)
(***************************************************************************)

\* createUnCutCubeCap
UnCutCubeCap(v) ==
  LET grid == (v.profile.total - 1) \div 4 IN
  [vertices |-> (grid + 1) * (grid + 1), written |-> (grid + 1) * (grid + 1),
   indices |-> 6 * grid * grid, filled |-> 6 * grid * grid,
   top |-> (grid - 1) * (grid + 1) + grid - 1 + (grid + 1) + 1,
   point |-> 3 * grid, mesh |-> (v.path.points - 1) * v.profile.total + 3 * grid]

UnCut(v) ==
  LET s == v.shape IN
  /\ ~s.hollow /\ ~v.profile.open
  /\ s.pathBegin = 0 /\ s.pathEnd = Q
  /\ s.curve = "square" /\ PlainCurve(s) /\ s.path = "line"

\* Mutant of CreateCap: the centre gets no triangle of its own.
CreateCapShort(v) ==
  LET n == v.profile.total
      centre == IF ~v.shape.hollow /\ ~v.profile.open THEN 1 ELSE 0
  IN  IF UnCut(v) THEN UnCutCubeCap(v)
      ELSE [vertices |-> n + centre, written |-> n + centre,
            indices |-> 3 * (n - 2), filled |-> 3 * (n + centre - 2),
            top |-> n + centre - 1, point |-> n - 1, mesh |-> v.path.points * n - 1]

\* createCap: a hollow cap is stitched from both ends of the outline, a solid
\* one is a fan around its last point, which for a closed outline is added.
CreateCap(v) ==
  LET n == v.profile.total
      centre == IF ~v.shape.hollow /\ ~v.profile.open THEN 1 ELSE 0
  IN  IF UnCut(v) THEN UnCutCubeCap(v)
      ELSE [vertices |-> n + centre, written |-> n + centre,
            indices |-> 3 * (n - 2) + 3 * centre, filled |-> 3 * (n + centre - 2),
            top |-> n + centre - 1, point |-> n - 1, mesh |-> v.path.points * n - 1]

\* createSide: one row of points for each of the path's, wrapped to the first
\* point of the row behind the last one; the ends of the cut read no texture
\* coordinate behind their first point.
CreateSide(v, f) ==
  LET n == v.profile.total
      t == v.path.points
      numS == IF Doubled(f) THEN 2 * f.count ELSE f.count
      row == IF Doubled(f) THEN 1 + 2 * (f.count - 1) + 1 ELSE f.count
      last == f.index + f.count - 1
      ends == f.id \in {ProfileBegin, ProfileEnd}
  IN  [vertices |-> numS * t, written |-> row * t,
       indices |-> (numS - 1) * (t - 1) * 6, filled |-> (numS - 1) * (t - 1) * 6,
       top |-> numS - 1 + numS * (t - 1),
       point |-> IF ends THEN f.index ELSE last,
       mesh |-> n * (t - 1) + (IF last < n THEN last ELSE Larger(n - 1, last - n))]

Create(v, f) == IF f.cap THEN CreateCap(v) ELSE CreateSide(v, f)

(***************************************************************************)
(* The whole volume as triangles, without its faces.                       *)
(***************************************************************************)

\* getNumTriangleIndices
PredictedIndices(v) ==
  LET n == v.profile.total
      rows == v.path.points - 1
      hollow == v.shape.hollow
      open == v.profile.open
      sides == CASE open -> (n - 1) * 6 + 6
                 [] ~open /\ hollow -> (v.profile.out - 1) * 6 + (n - 1 - v.profile.out) * 6
                 [] ~open /\ ~hollow -> (n - 1) * 6
      cap == IF open \/ hollow THEN n - 2 ELSE n - 3
  IN  rows * sides + (IF v.path.open THEN Larger(cap, 0) * 2 * 3 ELSE 0)

\* getTriangleIndices, the sides: for each row a strip along every run of
\* points, and for an open outline one quad that closes it.
SideIndices(v) ==
  LET n == v.profile.total
      hollow == v.shape.hollow
      open == v.profile.open
      runs == IF ~open /\ hollow
              THEN {0 .. v.profile.out - 2, v.profile.out .. n - 2} ELSE {0 .. n - 2}
  IN  (v.path.points - 1) * 6 * (Cardinality(UNION runs) + IF open THEN 1 ELSE 0)

\* getTriangleIndices, one cap: a stitch from both ends until they meet, a fan
\* around the centre, or a fan around the first point that leaves out the last.
CapIndices(v) ==
  LET n == v.profile.total IN
  3 * Cardinality(CASE v.shape.hollow -> 2 .. n - 1
                    [] ~v.shape.hollow /\ v.profile.open -> 0 .. n - 3
                    [] ~v.shape.hollow /\ ~v.profile.open -> 1 .. n - 3)

EmittedIndices(v) == SideIndices(v) + IF v.path.open THEN 2 * CapIndices(v) ELSE 0

(***************************************************************************)
(* Properties of a volume at any level of detail.                          *)
(***************************************************************************)

\* The last fractional side is so short that no face is made for it, while its
\* point, or the side in generateFaceMask, may be there.
EndSliver(s) == LET rest == (s.end * Sides(s, 2)) % Q IN Flat(s) /\ 0 < rest /\ rest < 100

FirstSliver(s) == Flat(s) /\ BeginSliver(s, Sides(s, 2))

\* The stretches of the outline, by their first point, that a side face sweeps.
Swept(f, n) == {(f.index + j) % n : j \in 0 .. f.count - 2}

\* Those that bound the solid: of an open outline all of them, the last one back
\* to the first point; of a closed one not the seams.
Outline(p, hollow) ==
  IF p.open THEN 0 .. p.total - 1
  ELSE (0 .. p.curve - 2) \union (IF hollow THEN p.out .. p.total - 2 ELSE {})

SidesTileOutline(v) ==
  LET p == v.profile IN
  \A i \in 0 .. p.total - 1 :
    Cardinality({k \in DOMAIN p.faces : ~p.faces[k].cap /\ i \in Swept(p.faces[k], p.total)})
      = IF i \in Outline(p, v.shape.hollow) THEN 1 ELSE 0

BufferFilled(v, f) ==
  LET b == Create(v, f) IN
  /\ b.written = b.vertices /\ b.vertices < 2^16
  /\ b.filled = b.indices
  /\ b.top < b.vertices
  /\ b.point < v.profile.total
  /\ b.mesh < v.path.points * v.profile.total
=============================================================================

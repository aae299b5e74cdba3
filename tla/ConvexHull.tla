----------------------------- MODULE ConvexHull -----------------------------
(***************************************************************************)
(* ObjectLayer.cs, GeneratePolygon and ConvenxHull: the shadow of a prim   *)
(* on the ground.  The eight corners of the prim's box are rotated, moved  *)
(* and projected, and a Graham scan makes a polygon of them.               *)
(*                                                                         *)
(* The quaternion of a prim is the integers x, y, z, w over the square     *)
(* root of the integer unit, and every coordinate is multiplied by         *)
(* 2 * unit, which changes no comparison of the scan.  The code computes   *)
(* in single precision, and rounds twice: the corners it gets are the      *)
(* exact ones, each with an error; and of three corners nearly on one line *)
(* it may take any side for the one they turn to, and any angle for the    *)
(* larger.  How near is near is the bound slack on their determinant; with *)
(* slack 0 every comparison is right.                                      *)
(***************************************************************************)
EXTENDS Integers, SequencesExt

\* A corner of the box is a choice of sign for each of its three edges.
Signs == {-1, 1} \X {-1, 1} \X {-1, 1}

CONSTANTS
  Prims,   \* what the method may be called with
  Errors,  \* what rounding may add to the corners
  Slacks   \* how far from zero a determinant may be that rounding turns over

ASSUME PrimsAssumption ==
  Prims \subseteq [scale : Int \X Int \X Int, pos : Int \X Int \X Int,
                  quat : [x : Int, y : Int, z : Int, w : Int, unit : Int]]

ASSUME ErrorsAssumption == Errors \subseteq [Signs -> Int \X Int]

ASSUME SlacksAssumption == Slacks \subseteq Nat

VARIABLES
  pc,             \* where the call is
  prim,           \* what it was called with
  slack,          \* what the rounding of its comparisons may change
  projected,      \* the eight corners on the ground, as they are computed
  rest,           \* of the list that is being sorted, what is not yet placed
  pointList,      \* the sorted points
  polyPointList,  \* the polygon so far
  tempOrigin,     \* the lowest point, which the angles are taken about
  index           \* the position in pointList of the loop that runs

vars == <<pc, prim, slack, projected, rest, pointList, polyPointList, tempOrigin, index>>

Sub(p, q) == <<p[1] - q[1], p[2] - q[2]>>

Cross(u, v) == u[1] * v[2] - u[2] * v[1]

\* Of QuaternionToMatrix, multiplied by unit, the two rows that reach the ground.
QuaternionToMatrix(q) ==
  << << -q.unit + 2*q.w*q.w + 2*q.z*q.z, 2*(q.w*q.x - q.y*q.z), 2*(q.w*q.y + q.x*q.z) >>,
     << 2*(q.w*q.x + q.y*q.z), -q.unit + 2*q.x*q.x + 2*q.z*q.z, 2*(q.x*q.y - q.w*q.z) >> >>

\* Where a corner is, by exact numbers.
Corner(p, s) ==
  LET m == QuaternionToMatrix(p.quat)
      At(i) == 2 * p.quat.unit * p.pos[i]
               + s[1]*m[i][1]*p.scale[1] + s[2]*m[i][2]*p.scale[2] + s[3]*m[i][3]*p.scale[3]
  IN  <<At(1), At(2)>>

Corners == {projected[s] : s \in Signs}

\* The list of the eight points, some of which may be the same.
CornerBag ==
  [c \in Corners |-> Cardinality({s \in Signs : projected[s] = c})]

\* Three points that rounding may put in any order.  Where two are the same or
\* all have one coordinate in common a difference is zero, and nothing rounded.
Close(p, q, r) ==
  /\ p # q /\ q # r /\ r # p
  /\ LET det == Cross(Sub(q, p), Sub(r, p)) IN -slack < det /\ det < slack
  /\ \A i \in {1, 2} : ~(p[i] = q[i] /\ q[i] = r[i])

\* What a comparison of three points may say whose exact result is b.
Verdict(b, p, q, r) == IF Close(p, q, r) THEN BOOLEAN ELSE {b}

Lower(p, q) == p[2] < q[2] \/ (p[2] = q[2] /\ p[1] < q[1])

Lowest(S) == CHOOSE p \in S : \A q \in S \ {p} : Lower(p, q)

\* Radius(p) < Radius(q), about an origin that no point is below: Radius gives
\* the origin itself three right angles, more than any other point can have.
RadiusLess(p, q) ==
  LET u == Sub(p, tempOrigin)
      v == Sub(q, tempOrigin)
  IN  u # <<0, 0>> /\ (v = <<0, 0>> \/ Cross(u, v) > 0)

\* What ComparePointByPolarAngle, the test for equal angles, and that for the
\* nearer of two points may say.
ComesBefore(p, q) == Verdict(RadiusLess(p, q), tempOrigin, p, q)

SameRadius(p, q) ==
  Verdict(~RadiusLess(p, q) /\ ~RadiusLess(q, p), tempOrigin, p, q)

\* The square of Distance.
Distance(p) == LET u == Sub(p, tempOrigin) IN u[1]*u[1] + u[2]*u[2]

Nearer(p, q) == Verdict(Distance(p) < Distance(q), tempOrigin, p, q)

\* Mutant of TurnLeft: going straight counts.
TurnNotRight(p, q, r) == Verdict(Cross(Sub(q, p), Sub(r, q)) >= 0, p, q, r)

\* Mutant of TurnLeft: the sides are swapped.
TurnRight(p, q, r) == Verdict(Cross(Sub(q, p), Sub(r, q)) < 0, p, q, r)

TurnLeft(p, q, r) == Verdict(Cross(Sub(q, p), Sub(r, q)) > 0, p, q, r)

Init ==
  /\ pc = "idle"
  /\ prim \in Prims
  /\ slack \in Slacks
  /\ projected = [s \in Signs |-> <<0, 0>>]
  /\ rest = EmptyBag
  /\ pointList = <<>>
  /\ polyPointList = <<>>
  /\ tempOrigin = <<0, 0>>
  /\ index = 1

\* The corners are rotated, moved and projected, and rounded at every step.
GeneratePolygon ==
  /\ pc = "idle"
  /\ \E e \in Errors :
       projected' = [s \in Signs |-> LET c == Corner(prim, s) IN <<c[1] + e[s][1], c[2] + e[s][2]>>]
  /\ pc' = "generated"
  /\ UNCHANGED <<prim, slack, rest, pointList, polyPointList, tempOrigin, index>>

\* ConvenxHull until the second Sort.
TakeLowest ==
  /\ pc = "generated"
  /\ LET p0 == Lowest(Corners) IN
     /\ tempOrigin' = p0
     /\ polyPointList' = <<p0>>
     /\ rest' = CornerBag (-) SetToBag({p0})
  /\ pc' = "sort"
  /\ UNCHANGED <<prim, slack, projected, pointList, index>>

\* List.Sort is not stable: points of one radius come in any order, and so may
\* those whose angles rounding confuses.
PlaceNext ==
  /\ pc = "sort"
  /\ \E p \in BagToSet(rest) :
       /\ \A q \in BagToSet(rest) : FALSE \in ComesBefore(q, p)
       /\ pointList' = Append(pointList, p)
       /\ rest' = rest (-) SetToBag({p})
  /\ pc' = IF rest' = EmptyBag THEN "dedupe" ELSE "sort"
  /\ UNCHANGED <<prim, slack, projected, polyPointList, tempOrigin, index>>

\* One turn of the loop that keeps, of neighbours of one radius, the farther.
Dedupe ==
  /\ pc = "dedupe"
  /\ index < Len(pointList)
  /\ LET p == pointList[index]
         q == pointList[index + 1]
     IN  \/ /\ FALSE \in SameRadius(p, q)
            /\ index' = index + 1
            /\ UNCHANGED pointList
         \/ /\ TRUE \in SameRadius(p, q)
            /\ \E nearer \in Nearer(p, q) :
                 pointList' = RemoveAt(pointList, IF nearer THEN index ELSE index + 1)
            /\ UNCHANGED index
  /\ UNCHANGED <<pc, prim, slack, projected, rest, polyPointList, tempOrigin>>

\* The first two points are taken unseen; taking the second of one throws.
TakeTwo ==
  /\ pc = "dedupe"
  /\ index >= Len(pointList)
  /\ IF Len(pointList) < 2 THEN pc' = "thrown" /\ UNCHANGED <<pointList, polyPointList>>
     ELSE /\ pc' = "scan"
          /\ polyPointList' = polyPointList \o SubSeq(pointList, 1, 2)
          /\ pointList' = SubSeq(pointList, 3, Len(pointList))
  /\ index' = 1
  /\ UNCHANGED <<prim, slack, projected, rest, tempOrigin>>

BeforeLast == Last(Front(polyPointList))

Thrown ==
  /\ pc' = "thrown"
  /\ UNCHANGED <<prim, slack, projected, rest, pointList, polyPointList, tempOrigin, index>>

\* Mutant of PopPoint: nothing is taken off.
PopNothing ==
  /\ pc = "scan" /\ index <= Len(pointList)
  /\ IF Len(polyPointList) < 2 THEN Thrown
     ELSE /\ FALSE \in TurnLeft(BeforeLast, Last(polyPointList), pointList[index])
          /\ UNCHANGED vars

\* The inner while: with one point left in the polygon its index is -1.
PopPoint ==
  /\ pc = "scan" /\ index <= Len(pointList)
  /\ IF Len(polyPointList) < 2 THEN Thrown
     ELSE /\ FALSE \in TurnLeft(BeforeLast, Last(polyPointList), pointList[index])
          /\ polyPointList' = Front(polyPointList)
          /\ UNCHANGED <<pc, prim, slack, projected, rest, pointList, tempOrigin, index>>

AddPoint ==
  /\ pc = "scan" /\ index <= Len(pointList)
  /\ Len(polyPointList) >= 2
  /\ TRUE \in TurnLeft(BeforeLast, Last(polyPointList), pointList[index])
  /\ polyPointList' = Append(polyPointList, pointList[index])
  /\ index' = index + 1
  /\ UNCHANGED <<pc, prim, slack, projected, rest, pointList, tempOrigin>>

Return ==
  /\ pc = "scan" /\ index > Len(pointList)
  /\ pc' = "returned"
  /\ UNCHANGED <<prim, slack, projected, rest, pointList, polyPointList, tempOrigin, index>>

Next == GeneratePolygon \/ TakeLowest \/ PlaceNext \/ Dedupe \/ TakeTwo \/ PopPoint \/ AddPoint \/ Return

Spec == Init /\ [][Next]_vars /\ WF_vars(Next)

(***************************************************************************)
(* Properties.                                                             *)
(***************************************************************************)

\* Every corner is on one line.
Flat == \A p, q, r \in Corners : Cross(Sub(q, p), Sub(r, p)) = 0

\* No two corners are in nearly one direction from the lowest.
DirectionsClear == \A p, q \in Corners : ~Close(tempOrigin, p, q)

\* No three corners are nearly on one line.
Clear == \A p, q, r \in Corners : ~Close(p, q, r)

\* A closed polygon, counterclockwise, whose corners all are needed.
IsHull(poly, points) ==
  LET n == Len(poly)
      At(i) == poly[1 + (i % n)]
  IN  /\ ToSet(poly) \subseteq points
      /\ IsInjective(poly)
      /\ \A i \in 0..(n - 1) :
           /\ Cross(Sub(At(i + 1), At(i)), Sub(At(i + 2), At(i + 1))) > 0
           /\ \A p \in points : Cross(Sub(At(i + 1), At(i)), Sub(p, At(i))) >= 0

\* Without the lowest point where it is repeated at the end.
Open(poly) ==
  IF Last(poly) = poly[1] THEN Front(poly) ELSE poly

\* Where rounding leaves no choice, what the scan returns is the hull of the
\* corners; of a prim that casts a line, it is that line, there and back.
PolygonIsHull ==
  pc = "returned" /\ Clear =>
    IF Flat
    THEN /\ Len(polyPointList) = 3
         /\ polyPointList[3] = polyPointList[1]
         /\ \A p \in Corners : Distance(p) <= Distance(polyPointList[2])
    ELSE IsHull(Open(polyPointList), Corners)

\* The scan throws, and ends the layer's thread, only for a prim of which two
\* corners are in nearly one direction from the lowest, or which casts a line
\* or a point and whose lowest corner is single or its only one.  However
\* badly the turns between other corners are rounded, it does not throw.
ThrowsOnlyFlat ==
  pc = "thrown" =>
    \/ ~DirectionsClear
    \/ Flat /\ (CornerBag[tempOrigin] = 1 \/ Corners = {tempOrigin})

\* Every call comes to an end, whatever order the sort leaves equal angles in
\* and whatever rounding makes of the turns.
CallEnds == <>(pc \in {"returned", "thrown"})

\* BasicMapTest.cs, TestPrimToPolygon: a cube of ten, the quaternion (1, 1, 1, 0).
TestedPrim == [scale |-> <<10, 10, 10>>, pos |-> <<0, 0, 0>>,
               quat |-> [x |-> 1, y |-> 1, z |-> 1, w |-> 0, unit |-> 1]]
=============================================================================

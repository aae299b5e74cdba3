-------------------------- MODULE ConvexHullProofs --------------------------
(***************************************************************************)
(* The scan of ConvexHull, for any prims and any rounding: where rounding  *)
(* leaves no choice what it returns is the hull of the corners, and where  *)
(* it leaves none about directions from the lowest corner the scan throws  *)
(* only when the corners are on one line.                                  *)
(*                                                                         *)
(* Everything is said by the area of two points about the lowest corner o, *)
(* twice that of the triangle they make with it.  A turn is a sum of three *)
(* areas, and among the six areas of four points there is one equation,    *)
(* that of Pluecker: what the scan needs of plane geometry is that         *)
(* equation and the signs it forces.                                       *)
(***************************************************************************)
EXTENDS ConvexHull, SequenceTheorems, FiniteSetTheorems, TLAPS

\* Points are exact: twice the unit of the quaternion, times the coordinate.
Point == Int \X Int

\* Positive when q is counterclockwise of p, seen from o.
Area(o, p, q) == Cross(Sub(p, o), Sub(q, o))

\* Positive when the way from p over q to r turns left.
Turn(p, q, r) == Cross(Sub(q, p), Sub(r, q))

\* The square of Distance, from any origin.
Far(o, p) == LET u == Sub(p, o) IN u[1]*u[1] + u[2]*u[2]

\* What may be about when o is the lowest.
Above(o) == {p \in Point : p = o \/ Lower(o, p)}

\* RadiusLess, about any origin.
Before(o, p, q) == p # o /\ (q = o \/ Area(o, p, q) > 0)

\* SameRadius, about any origin.
Same(o, p, q) == ~Before(o, p, q) /\ ~Before(o, q, p)

\* p is on the way from o to q.
Covered(o, p, q) == Same(o, p, q) /\ Far(o, p) <= Far(o, q)

\* What is still to come of s.
After(s, i) == {s[j] : j \in i..Len(s)}

\* The corner c lies behind the scan: before all that is to come, on or to the
\* left of every edge, and within the last point or left of the next edge.
Done(o, h, R, c) ==
  /\ \A r \in R : Before(o, c, r)
  /\ \A i \in 1..(Len(h) - 1) : Turn(h[i], h[i + 1], c) >= 0
  /\ \/ Area(o, c, h[Len(h)]) >= 0
     \/ \E r \in R : /\ \A y \in R \ {r} : Before(o, r, y)
                     /\ Turn(h[Len(h)], r, c) >= 0

\* The scan has made h, and the corners R are to come.
Chain(C, o, h, R) ==
  /\ h \in Seq(C) /\ Len(h) >= 2 /\ h[1] = o
  /\ R \subseteq C
  /\ \A i \in 2..Len(h) : h[i] # o
  /\ \A i, j \in 2..Len(h) : i < j => Area(o, h[i], h[j]) > 0
  /\ \A i \in 1..(Len(h) - 2) : Turn(h[i], h[i + 1], h[i + 2]) > 0
  /\ \A i \in 2..Len(h) : \A r \in R : Before(o, h[i], r)
  /\ \A c \in C : /\ Area(o, h[2], c) >= 0
                  /\ Area(o, h[2], c) = 0 => Far(o, c) <= Far(o, h[2])
  /\ \A c \in C \ {o} : (\E r \in R : Covered(o, c, r)) \/ Done(o, h, R, c)

\* From i on s goes strictly counterclockwise.
Ordered(o, s, i) == \A j, k \in i..Len(s) : j < k => Before(o, s[j], s[k])

\* s goes counterclockwise, and may stay in one direction for a while.
WeaklyOrdered(o, s) == \A j, k \in 1..Len(s) : j < k => ~Before(o, s[k], s[j])

\* The bag b is still to be placed in s; n is how often o is among the corners.
Sorting(C, o, n, b, s) ==
  /\ DOMAIN b \subseteq C
  /\ \A c \in DOMAIN b : b[c] \in Nat \ {0}
  /\ s \in Seq(C)
  /\ WeaklyOrdered(o, s)
  /\ \A j \in 1..Len(s) : \A c \in DOMAIN b : ~Before(o, c, s[j])
  /\ \A c \in C : c # o \/ n # 1 => c \in DOMAIN b \/ \E j \in 1..Len(s) : s[j] = c

\* Equal angles are left only beyond i, and no corner lies farther in its
\* direction than some point of s.
Deduping(C, o, n, s, i) ==
  /\ s \in Seq(C) /\ i \in 1..Len(s)
  /\ WeaklyOrdered(o, s)
  /\ \A j, k \in 1..i : j < k => Before(o, s[j], s[k])
  /\ \A c \in C \ {o} : \E j \in 1..Len(s) : Covered(o, c, s[j])
  /\ n # 1 => \E j \in 1..Len(s) : s[j] = o

\* The scan is at i of s; when it is through it may have closed the polygon.
Scanning(C, o, h, s, i) ==
  /\ s \in Seq(C) /\ i \in Nat \ {0}
  /\ Ordered(o, s, i)
  /\ \/ /\ Chain(C, o, h, After(s, i))
        /\ Len(h) = 2 => i <= Len(s) /\ s[i] # o
     \/ /\ i > Len(s)
        /\ h \in Seq(C) /\ Len(h) >= 3 /\ Last(h) = o
        /\ Chain(C, o, Front(h), {})

\* o is the lowest of C.
Rooted(C, o) == o \in C /\ \A c \in C \ {o} : Lower(o, c)

\* What the scan keeps however the turns between other points than o are
\* rounded: it goes counterclockwise about o, and does not lose its first edge.
Loose(C, o, h, s, i) ==
  /\ s \in Seq(C) /\ i \in Nat \ {0}
  /\ Ordered(o, s, i)
  /\ h \in Seq(C) /\ Len(h) >= 2 /\ h[1] = o
  /\ i <= Len(s) =>
       /\ \A j \in 2..Len(h) : h[j] # o /\ \A r \in After(s, i) : Before(o, h[j], r)
       /\ \A j \in 2..(Len(h) - 1) : Area(o, h[j], h[j + 1]) > 0
       /\ Len(h) = 2 => s[i] # o

\* The inductive invariant.
IInv ==
  LET C == Corners
      o == tempOrigin
      n == CornerBag[o]
  IN  /\ prim \in Prims /\ slack \in Nat
      /\ projected \in [Signs -> Point]
      /\ pc \in {"idle", "generated", "sort", "dedupe", "scan", "returned", "thrown"}
      /\ pc \in {"idle", "generated"} => pointList = <<>>
      /\ pc \in {"idle", "generated", "sort"} => index = 1
      /\ pc \notin {"idle", "generated"} => Rooted(C, o)
      /\ pc \in {"sort", "dedupe"} => polyPointList = <<o>>
      /\ pc = "sort" /\ DirectionsClear => Sorting(C, o, n, rest, pointList)
      /\ pc = "dedupe" /\ DirectionsClear => Deduping(C, o, n, pointList, index)
      /\ pc \in {"scan", "returned"} /\ DirectionsClear => Loose(C, o, polyPointList, pointList, index)
      /\ pc \in {"scan", "returned"} /\ Clear => Scanning(C, o, polyPointList, pointList, index)
      /\ pc = "returned" => index > Len(pointList)
      /\ ThrowsOnlyFlat

(***************************************************************************)
(* Areas, their signs and the order they make.                             *)
(***************************************************************************)
\* The signs of a product.
LEMMA PosProduct ==
  ASSUME NEW a \in Int, NEW b \in Int
  PROVE  /\ a > 0 /\ b > 0 => a * b > 0
         /\ a >= 0 /\ b >= 0 => a * b >= 0
         /\ a > 0 /\ a * b >= 0 => b >= 0
         /\ a > 0 /\ a * b > 0 => b > 0
         /\ a > 0 /\ a * b = 0 => b = 0
         /\ a * b \in Int
OBVIOUS

\* What Pluecker's equation says of the signs of turns, each in the form in which
\* a lemma on chains has it: xy is the area of x and y.
LEMMA ShortCut ==
  ASSUME NEW bc \in Int, NEW bd \in Int, NEW br \in Int,
         NEW cd \in Int, NEW cr \in Int, NEW dr \in Int,
         bc*dr - bd*cr + br*cd = 0,
         cd > 0, bd >= 0, dr >= 0, bc + cd - bd >= 0, cd + dr - cr > 0
  PROVE  bd + dr - br >= 0
<1>1. cd * (bd + dr - br) = dr * (bc + cd - bd) + bd * (cd + dr - cr)
  OBVIOUS
<1>2. dr * (bc + cd - bd) >= 0
  BY PosProduct
<1>3. bd * (cd + dr - cr) >= 0
  BY PosProduct
<1> DEFINE t == bd + dr - br
<1>4. cd * t >= 0
  <2>1. cd * t = cd * (bd + dr - br)
    OBVIOUS
  <2> HIDE DEF t
  <2> QED
    BY <1>1, <1>2, <1>3, <2>1, PosProduct
<1>5. t \in Int
  OBVIOUS
<1>6. t >= 0
  <2> HIDE DEF t
  <2> QED
   BY <1>4, <1>5, PosProduct
<1> QED
  BY <1>6

LEMMA LeftOfOld ==
  ASSUME NEW ab \in Int, NEW ad \in Int, NEW ar \in Int,
         NEW bd \in Int, NEW br \in Int, NEW dr \in Int,
         ab*dr - ad*br + ar*bd = 0,
         ab >= 0, bd > 0, br >= 0, bd + dr - br >= 0, ab + bd - ad >= 0
  PROVE  ab + br - ar >= 0
<1>1. bd * (ab + br - ar) = br * (ab + bd - ad) + ab * (bd + dr - br)
  OBVIOUS
<1>2. br * (ab + bd - ad) >= 0
  BY PosProduct
<1>3. ab * (bd + dr - br) >= 0
  BY PosProduct
<1>4. bd * (ab + br - ar) >= 0
  BY <1>1, <1>2, <1>3
<1> QED
  BY <1>4, PosProduct

LEMMA AddBetween ==
  ASSUME NEW cp \in Int, NEW cd \in Int, NEW cr \in Int,
         NEW pd \in Int, NEW pr \in Int, NEW dr \in Int,
         cp*dr - cd*pr + cr*pd = 0,
         cd > 0, pd >= 0, dr >= 0, cd - pd - cp >= 0, cd + dr - cr > 0
  PROVE  dr - pr + pd >= 0
<1>1. cd * (dr - pr + pd) = dr * (cd - pd - cp) + pd * (cd + dr - cr)
  OBVIOUS
<1>2. dr * (cd - pd - cp) >= 0
  BY PosProduct
<1>3. pd * (cd + dr - cr) >= 0
  BY PosProduct
<1>4. cd * (dr - pr + pd) >= 0
  BY <1>1, <1>2, <1>3
<1> QED
  BY <1>4, PosProduct

LEMMA PopBetween ==
  ASSUME NEW cp \in Int, NEW cd \in Int, NEW cr \in Int,
         NEW pd \in Int, NEW pr \in Int, NEW dr \in Int,
         cp*dr - cd*pr + cr*pd = 0,
         cd > 0, cp >= 0, cr >= 0, cd - pd - cp >= 0, cd + dr - cr <= 0
  PROVE  cr - pr - cp >= 0
<1>1. cd * (cr - pr - cp) = cr * (cd - pd - cp) + cp * (cr - cd - dr)
  OBVIOUS
<1>2. cr * (cd - pd - cp) >= 0
  BY PosProduct
<1>3. cp * (cr - cd - dr) >= 0
  BY PosProduct
<1>4. cd * (cr - pr - cp) >= 0
  BY <1>1, <1>2, <1>3
<1> QED
  BY <1>4, PosProduct

LEMMA PopBeyond ==
  ASSUME NEW cp \in Int, NEW cd \in Int, NEW cr \in Int,
         NEW dp \in Int, NEW pr \in Int, NEW dr \in Int,
         cd*pr - cp*dr + cr*dp = 0,
         dr > 0, pr >= 0, cr >= 0, dr - pr - dp >= 0, cd + dr - cr <= 0
  PROVE  cr - pr - cp >= 0
<1>1. dr * (cr - pr - cp) = cr * (dr - pr - dp) + pr * (cr - cd - dr)
  OBVIOUS
<1>2. cr * (dr - pr - dp) >= 0
  BY PosProduct
<1>3. pr * (cr - cd - dr) >= 0
  BY PosProduct
<1>4. dr * (cr - pr - cp) >= 0
  BY <1>1, <1>2, <1>3
<1> QED
  BY <1>4, PosProduct

\* Areas are antisymmetric.
LEMMA AreaFacts ==
  ASSUME NEW o \in Point, NEW p \in Point, NEW q \in Point
  PROVE  /\ Area(o, p, q) \in Int
         /\ Area(o, q, p) = -Area(o, p, q)
         /\ Area(o, p, p) = 0 /\ Area(o, o, p) = 0 /\ Area(o, p, o) = 0
BY DEF Area, Cross, Sub, Point

\* A turn is a sum of areas, about any point.
LEMMA TurnIsArea ==
  ASSUME NEW o \in Point, NEW p \in Point, NEW q \in Point, NEW r \in Point
  PROVE  Turn(p, q, r) = Area(o, p, q) + Area(o, q, r) - Area(o, p, r)
BY DEF Area, Turn, Cross, Sub, Point

\* Pluecker's equation, of four vectors and of four points.
LEMMA PluckerOf ==
  ASSUME NEW a1 \in Int, NEW a2 \in Int, NEW b1 \in Int, NEW b2 \in Int,
         NEW c1 \in Int, NEW c2 \in Int, NEW d1 \in Int, NEW d2 \in Int
  PROVE  (a1*b2 - a2*b1) * (c1*d2 - c2*d1) - (a1*c2 - a2*c1) * (b1*d2 - b2*d1)
           + (a1*d2 - a2*d1) * (b1*c2 - b2*c1) = 0
OBVIOUS

LEMMA Plucker ==
  ASSUME NEW o \in Point, NEW a \in Point, NEW b \in Point, NEW c \in Point, NEW d \in Point
  PROVE  Area(o, a, b) * Area(o, c, d) - Area(o, a, c) * Area(o, b, d)
           + Area(o, a, d) * Area(o, b, c) = 0
<1> DEFINE u(p) == Sub(p, o)
<1>1. \A p \in Point : u(p)[1] \in Int /\ u(p)[2] \in Int
  BY DEF Sub, Point
<1>2. \A p, q \in Point : Area(o, p, q) = u(p)[1] * u(q)[2] - u(p)[2] * u(q)[1]
  BY DEF Area, Cross
<1> HIDE DEF u
<1> QED
  BY <1>1, <1>2, PluckerOf

\* Within the upper half plane, counterclockwise is transitive.
LEMMA HalfOf ==
  ASSUME NEW u1 \in Int, NEW u2 \in Int, NEW v1 \in Int, NEW v2 \in Int,
         NEW w1 \in Int, NEW w2 \in Int,
         u2 > 0 \/ (u2 = 0 /\ u1 > 0), v2 > 0 \/ (v2 = 0 /\ v1 > 0), w2 > 0 \/ (w2 = 0 /\ w1 > 0),
         u1*v2 - u2*v1 >= 0, v1*w2 - v2*w1 >= 0
  PROVE  /\ u1*w2 - u2*w1 >= 0
         /\ u1*v2 - u2*v1 > 0 \/ v1*w2 - v2*w1 > 0 => u1*w2 - u2*w1 > 0
<1>1. v2 * (u1*w2 - u2*w1) = w2 * (u1*v2 - u2*v1) + u2 * (v1*w2 - v2*w1)
  OBVIOUS
<1> DEFINE x == u1*v2 - u2*v1
           y == v1*w2 - v2*w1
           z == u1*w2 - u2*w1
<1>2. x \in Int /\ y \in Int /\ z \in Int
  OBVIOUS
<1>3. v2 * z = w2 * x + u2 * y /\ x >= 0 /\ y >= 0
  BY <1>1
<1>4. v2 = 0 => x = -(u2 * v1) /\ y = v1 * w2
  OBVIOUS
<1>5. w2 = 0 => y = -(v2 * w1)
  OBVIOUS
<1>6. u2 = 0 => z = u1 * w2
  OBVIOUS
<1> HIDE DEF x, y, z
<1>7. w2 * x \in Int /\ u2 * y \in Int /\ w2 * x >= 0 /\ u2 * y >= 0
  BY <1>2, <1>3, PosProduct
<1>8. CASE v2 > 0
  <2>1. z >= 0
    BY <1>2, <1>3, <1>7, <1>8, PosProduct
  <2>2. w2 > 0 /\ x > 0 => z > 0
    BY <1>2, <1>3, <1>7, <1>8, PosProduct
  <2>3. u2 > 0 /\ y > 0 => z > 0
    BY <1>2, <1>3, <1>7, <1>8, PosProduct
  <2>4. w2 # 0
    BY <1>2, <1>3, <1>5, <1>8, PosProduct
  <2>5. u2 = 0 => z > 0
    BY <1>2, <1>6, <2>4, PosProduct
  <2> QED
    BY <1>2, <1>3, <2>1, <2>2, <2>3, <2>4, <2>5 DEF x, y, z
<1>9. CASE v2 = 0
  <2>1. u2 = 0
    BY <1>2, <1>3, <1>4, <1>9, PosProduct
  <2>2. x = 0 /\ y = v1 * w2 /\ z = u1 * w2
    BY <1>4, <1>6, <1>9, <2>1
  <2> QED
    BY <1>2, <1>9, <2>1, <2>2, PosProduct DEF x, y, z
<1> QED
  BY <1>8, <1>9

\* A point above o, seen from o, is in the upper half plane.
LEMMA AboveFacts ==
  ASSUME NEW o \in Point, NEW p \in Above(o), p # o
  PROVE  LET u == Sub(p, o) IN u[1] \in Int /\ u[2] \in Int /\ (u[2] > 0 \/ (u[2] = 0 /\ u[1] > 0))
BY DEF Above, Lower, Sub, Point

\* The same of points above o.
LEMMA HalfOrder ==
  ASSUME NEW o \in Point, NEW p \in Above(o), NEW q \in Above(o), NEW r \in Above(o),
         p # o, q # o, r # o, Area(o, p, q) >= 0, Area(o, q, r) >= 0
  PROVE  /\ Area(o, p, r) >= 0
         /\ Area(o, p, q) > 0 \/ Area(o, q, r) > 0 => Area(o, p, r) > 0
<1> DEFINE u == Sub(p, o)
           v == Sub(q, o)
           w == Sub(r, o)
<1>1. /\ u[1] \in Int /\ u[2] \in Int /\ (u[2] > 0 \/ (u[2] = 0 /\ u[1] > 0))
      /\ v[1] \in Int /\ v[2] \in Int /\ (v[2] > 0 \/ (v[2] = 0 /\ v[1] > 0))
      /\ w[1] \in Int /\ w[2] \in Int /\ (w[2] > 0 \/ (w[2] = 0 /\ w[1] > 0))
  BY AboveFacts
<1>2. /\ Area(o, p, q) = u[1] * v[2] - u[2] * v[1]
      /\ Area(o, q, r) = v[1] * w[2] - v[2] * w[1]
      /\ Area(o, p, r) = u[1] * w[2] - u[2] * w[1]
  BY DEF Area, Cross
<1> HIDE DEF u, v, w
<1> DEFINE u1 == u[1]
           u2 == u[2]
           v1 == v[1]
           v2 == v[2]
           w1 == w[1]
           w2 == w[2]
<1>3. /\ u1 \in Int /\ u2 \in Int /\ (u2 > 0 \/ (u2 = 0 /\ u1 > 0))
      /\ v1 \in Int /\ v2 \in Int /\ (v2 > 0 \/ (v2 = 0 /\ v1 > 0))
      /\ w1 \in Int /\ w2 \in Int /\ (w2 > 0 \/ (w2 = 0 /\ w1 > 0))
  BY <1>1
<1>4. u1*v2 - u2*v1 >= 0 /\ v1*w2 - v2*w1 >= 0
  BY <1>2
<1>5. /\ u1*w2 - u2*w1 >= 0
      /\ u1*v2 - u2*v1 > 0 \/ v1*w2 - v2*w1 > 0 => u1*w2 - u2*w1 > 0
  <2> HIDE DEF u1, u2, v1, v2, w1, w2
  <2> QED
    BY <1>3, <1>4, HalfOf
<1> QED
  BY <1>2, <1>5

\* The order of the sort is one: transitive, and so is its complement.
LEMMA BeforeOrder ==
  ASSUME NEW o \in Point, NEW p \in Above(o), NEW q \in Above(o), NEW r \in Above(o)
  PROVE  /\ Before(o, p, q) => ~Before(o, q, p)
         /\ ~Before(o, q, p) /\ ~Before(o, r, q) => ~Before(o, r, p)
         /\ Before(o, p, q) /\ ~Before(o, r, q) => Before(o, p, r)
         /\ ~Before(o, q, p) /\ Before(o, q, r) => Before(o, p, r)
<1>1. \A x \in {p, q, r} : x \in Point
  BY DEF Above
<1>2. \A x, y \in {p, q, r} : Area(o, x, y) \in Int /\ Area(o, y, x) = -Area(o, x, y)
  BY <1>1, AreaFacts
<1>3. p # o /\ q # o /\ r # o /\ Area(o, p, q) >= 0 /\ Area(o, q, r) >= 0 =>
        /\ Area(o, p, r) >= 0
        /\ Area(o, p, q) > 0 \/ Area(o, q, r) > 0 => Area(o, p, r) > 0
  BY HalfOrder
<1> QED
  BY <1>2, <1>3 DEF Before

\* The first vector is a fraction of the second.
Shorter(c1, c2, q1, q2) ==
  \E A, B \in Int :
    /\ 0 < B /\ B <= A
    /\ \A y1, y2 \in Int : A * (c1*y2 - c2*y1) = B * (q1*y2 - q2*y1)

\* Of two vectors that point the same way, the first the shorter.
LEMMA RayOf ==
  ASSUME NEW c1 \in Int, NEW c2 \in Int, NEW q1 \in Int, NEW q2 \in Int,
         c2 > 0 \/ (c2 = 0 /\ c1 > 0), q2 > 0 \/ (q2 = 0 /\ q1 > 0),
         c1*q2 - c2*q1 = 0, c1*c1 + c2*c2 <= q1*q1 + q2*q2
  PROVE  Shorter(c1, c2, q1, q2)
<1> DEFINE A == q1*q1 + q2*q2
           B == c1*q1 + c2*q2
           N == c1*c1 + c2*c2
           x == c1*q2 - c2*q1
<1>1. A \in Int /\ B \in Int /\ N \in Int /\ x = 0 /\ N <= A
  OBVIOUS
<1>2. q2 * B - c2 * A = q1 * x
  OBVIOUS
<1>3. q1 * B - c1 * A = -(q2 * x)
  OBVIOUS
<1>4. N * A = B * B + x * x
  OBVIOUS
<1>5. A > 0
  <2>1. q1*q1 >= 0 /\ q2*q2 >= 0 /\ (q1 > 0 => q1*q1 > 0) /\ (q2 > 0 => q2*q2 > 0)
    OBVIOUS
  <2> QED
    BY <2>1
<1>6. c2 = 0 => c1*q2 = x
  OBVIOUS
<1>7. ASSUME NEW y1 \in Int, NEW y2 \in Int
      PROVE  A * (c1*y2 - c2*y1) - B * (q1*y2 - q2*y1)
               = y2 * (c1 * A - q1 * B) - y1 * (c2 * A - q2 * B)
  <2> HIDE DEF A, B
  <2> QED
    BY <1>1
<1> HIDE DEF A, B, N, x
<1>8. q2 * B = c2 * A /\ q1 * B = c1 * A /\ N * A = B * B
  BY <1>1, <1>2, <1>3, <1>4
<1>9. B > 0
  <2>1. CASE q2 > 0
    <3>1. c2 # 0
      BY <1>1, <1>6, <2>1, PosProduct
    <3> QED
      BY <1>1, <1>5, <1>8, <2>1, <3>1, PosProduct
  <2>2. CASE q2 = 0
    <3>1. c2 = 0
      <4>1. A * c2 = 0
        BY <1>1, <1>8, <2>2
      <4> QED
        BY <1>1, <1>5, <4>1, PosProduct
    <3> QED
      BY <1>1, <1>5, <1>8, <2>2, <3>1, PosProduct
  <2> QED
    BY <2>1, <2>2
<1>10. B <= A
  <2>1. A * (A - N) >= 0
    BY <1>1, <1>5, PosProduct
  <2>2. B * B <= A * A
    BY <1>1, <1>8, <2>1
  <2>3. B > A => B * B > A * A
    BY <1>1, <1>5
  <2> QED
    BY <1>1, <2>2, <2>3
<1>11. ASSUME NEW y1 \in Int, NEW y2 \in Int
       PROVE  A * (c1*y2 - c2*y1) = B * (q1*y2 - q2*y1)
  <2>1. c1 * A - q1 * B = 0 /\ c2 * A - q2 * B = 0
    BY <1>1, <1>8
  <2>2. A * (c1*y2 - c2*y1) - B * (q1*y2 - q2*y1) = 0
    <3>1. y2 * (c1 * A - q1 * B) = 0 /\ y1 * (c2 * A - q2 * B) = 0
      BY <2>1
    <3> QED
      BY <1>7, <3>1
  <2> QED
    BY <1>1, <2>2
<1> QED
  BY <1>1, <1>9, <1>10, <1>11 DEF Shorter

\* A point on the way from o to q has a fraction of the areas of q.
LEMMA Ray ==
  ASSUME NEW o \in Point, NEW c \in Above(o), NEW q \in Above(o), c # o, Covered(o, c, q)
  PROVE  /\ q # o /\ Area(o, c, q) = 0
         /\ \E A, B \in Int :
              /\ 0 < B /\ B <= A
              /\ \A y \in Point : A * Area(o, c, y) = B * Area(o, q, y)
<1>1. c \in Point /\ q \in Point
  BY DEF Above
<1>2. q # o /\ Area(o, c, q) = 0
  BY <1>1, AreaFacts DEF Covered, Same, Before
<1> DEFINE u == Sub(c, o)
           v == Sub(q, o)
           c1 == u[1]
           c2 == u[2]
           q1 == v[1]
           q2 == v[2]
<1>3. /\ c1 \in Int /\ c2 \in Int /\ (c2 > 0 \/ (c2 = 0 /\ c1 > 0))
      /\ q1 \in Int /\ q2 \in Int /\ (q2 > 0 \/ (q2 = 0 /\ q1 > 0))
  BY <1>2, AboveFacts
<1>4. c1*q2 - c2*q1 = 0
  BY <1>2 DEF Area, Cross
<1>5. c1*c1 + c2*c2 <= q1*q1 + q2*q2
  BY DEF Covered, Far
<1>6. ASSUME NEW y \in Point
      PROVE  \E y1, y2 \in Int : /\ Area(o, c, y) = c1*y2 - c2*y1
                                 /\ Area(o, q, y) = q1*y2 - q2*y1
  <2>1. Sub(y, o)[1] \in Int /\ Sub(y, o)[2] \in Int
    BY DEF Sub, Point
  <2> QED
    BY <2>1 DEF Area, Cross
<1> HIDE DEF c1, c2, q1, q2
<1>7. PICK A, B \in Int :
        /\ 0 < B /\ B <= A
        /\ \A y1, y2 \in Int : A * (c1*y2 - c2*y1) = B * (q1*y2 - q2*y1)
  <2>1. Shorter(c1, c2, q1, q2)
    BY <1>3, <1>4, <1>5, RayOf
  <2> QED
    BY <2>1 DEF Shorter
<1>8. \A y \in Point : A * Area(o, c, y) = B * Area(o, q, y)
  BY <1>6, <1>7
<1> QED
  BY <1>2, <1>7, <1>8

\* If q is to the left of an edge that does not turn right about o, so is all
\* on the way to q.
LEMMA CoveredTurn ==
  ASSUME NEW o \in Point, NEW c \in Above(o), NEW q \in Above(o), c # o, Covered(o, c, q),
         NEW a \in Point, NEW b \in Point, Area(o, a, b) >= 0, Turn(a, b, q) >= 0
  PROVE  Turn(a, b, c) >= 0
<1>1. c \in Point /\ q \in Point
  BY DEF Above
<1>2. PICK A, B \in Int :
        /\ 0 < B /\ B <= A
        /\ \A y \in Point : A * Area(o, c, y) = B * Area(o, q, y)
  BY Ray
<1> DEFINE ab == Area(o, a, b)
           ca == Area(o, c, a)
           cb == Area(o, c, b)
           qa == Area(o, q, a)
           qb == Area(o, q, b)
<1>3. ab \in Int /\ ca \in Int /\ cb \in Int /\ qa \in Int /\ qb \in Int
  BY <1>1, AreaFacts
<1>4. Turn(a, b, c) = ab - cb + ca /\ Turn(a, b, q) = ab - qb + qa
  <2>1. Area(o, b, c) = -cb /\ Area(o, a, c) = -ca /\ Area(o, b, q) = -qb /\ Area(o, a, q) = -qa
    BY <1>1, AreaFacts
  <2> QED
    BY <1>1, <1>3, <2>1, TurnIsArea
<1>5. A * ca = B * qa /\ A * cb = B * qb /\ ab >= 0
  BY <1>2
<1> HIDE DEF ab, ca, cb, qa, qb
<1>6. A * (ab - cb + ca) = (A - B) * ab + B * (ab - qb + qa)
  BY <1>3, <1>5
<1>7. (A - B) * ab >= 0 /\ B * (ab - qb + qa) >= 0
  BY <1>2, <1>3, <1>4, <1>5, PosProduct
<1>8. A * (ab - cb + ca) >= 0
  BY <1>2, <1>3, <1>6, <1>7
<1> QED
  BY <1>2, <1>3, <1>4, <1>8, PosProduct

(***************************************************************************)
(* Chains: the polygon in the middle of the scan.                          *)
(***************************************************************************)
\* What the lemmas below use of a chain.
Shape(C, o, h, R) ==
  /\ Len(h) \in Nat /\ Len(h) >= 2 /\ h[1] = o /\ h \in Seq(C)
  /\ \A i \in 1..Len(h) : h[i] \in C /\ h[i] \in Point
  /\ \A r \in R : r \in C /\ r \in Point /\ r \in Above(o)
  /\ \A c \in C : c \in Point /\ c \in Above(o)
  /\ \A i, j \in 2..Len(h) : i < j => Area(o, h[i], h[j]) > 0
  /\ \A i \in 2..Len(h) : \A r \in R : r # o => Area(o, h[i], r) > 0
  /\ \A i \in 1..(Len(h) - 1) : Area(o, h[i], h[i + 1]) >= 0
  /\ \A i \in 2..Len(h) : h[i] # o /\ Done(o, h, R, h[i])

\* Each conjunct of Shape follows from Chain.
LEMMA ChainShape ==
  ASSUME NEW o \in Point, NEW C \in SUBSET Above(o), NEW h, NEW R, Chain(C, o, h, R)
  PROVE  Shape(C, o, h, R)
<1>1. /\ Len(h) \in Nat /\ Len(h) >= 2 /\ h[1] = o /\ h \in Seq(C)
      /\ \A i \in 1..Len(h) : h[i] \in C
  BY DEF Chain
<1>2. \A c \in C : c \in Point /\ c \in Above(o)
  BY DEF Above
<1>3. \A i \in 1..Len(h) : h[i] \in C /\ h[i] \in Point
  BY <1>1, <1>2
<1>4. \A r \in R : r \in C /\ r \in Point /\ r \in Above(o)
  BY <1>2 DEF Chain
<1>5. \A i, j \in 2..Len(h) : i < j => Area(o, h[i], h[j]) > 0
  BY DEF Chain
<1>6. \A i \in 2..Len(h) : h[i] # o /\ \A r \in R : Before(o, h[i], r)
  BY DEF Chain
<1>7. \A i \in 2..Len(h) : \A r \in R : r # o => Area(o, h[i], r) > 0
  BY <1>6 DEF Before
<1>8. ASSUME NEW i \in 1..(Len(h) - 1) PROVE Area(o, h[i], h[i + 1]) >= 0
  <2>1. CASE i = 1
    <3>1. h[2] \in Point
      BY <1>1, <1>3
    <3> QED
      BY <1>1, <2>1, <3>1, AreaFacts
  <2>2. CASE i # 1
    <3>1. i \in 2..Len(h) /\ i + 1 \in 2..Len(h) /\ i < i + 1
      BY <1>1, <2>2
    <3>2. Area(o, h[i], h[i + 1]) > 0
      BY <1>5, <3>1
    <3>3. Area(o, h[i], h[i + 1]) \in Int
      BY <1>1, <1>3, <3>1, AreaFacts
    <3> QED
      BY <3>2, <3>3
  <2> QED
    BY <2>1, <2>2
<1>9. ASSUME NEW i \in 2..Len(h) PROVE Done(o, h, R, h[i])
  <2>1. h[i] \in C \ {o}
    BY <1>1, <1>3, <1>6
  <2>2. \A r \in R : ~Covered(o, h[i], r)
    BY <1>6 DEF Covered, Same
  <2> QED
    BY <2>1, <2>2 DEF Chain
<1> QED
  BY <1>1, <1>2, <1>3, <1>4, <1>5, <1>6, <1>7, <1>8, <1>9 DEF Shape

\* A point that lies to the left of the last edge lies to the left of every edge.
LEMMA LeftOfEdges ==
  ASSUME NEW o \in Point, NEW C \in SUBSET Above(o), NEW h, NEW R, Chain(C, o, h, R),
         NEW r \in R, r # o, Turn(h[Len(h) - 1], h[Len(h)], r) > 0,
         NEW i \in 1..(Len(h) - 1)
  PROVE  Turn(h[i], h[i + 1], r) >= 0
<1> DEFINE a == h[i]
           b == h[i + 1]
           c == h[Len(h) - 1]
           d == h[Len(h)]
           ab == Area(o, a, b)
           ad == Area(o, a, d)
           ar == Area(o, a, r)
           bc == Area(o, b, c)
           bd == Area(o, b, d)
           br == Area(o, b, r)
           cb == Area(o, c, b)
           cd == Area(o, c, d)
           cr == Area(o, c, r)
           db == Area(o, d, b)
           dr == Area(o, d, r)
<1>s. Shape(C, o, h, R)
  BY ChainShape
<1>0. Len(h) \in Nat /\ Len(h) >= 2
  BY <1>s DEF Shape
<1>1. a \in Point /\ b \in Point /\ c \in Point /\ d \in Point /\ r \in Point
  BY <1>0, <1>s DEF Shape
<1>2. /\ ab \in Int /\ ad \in Int /\ ar \in Int /\ bc \in Int /\ bd \in Int
      /\ br \in Int /\ cd \in Int /\ cr \in Int /\ dr \in Int
      /\ db = -bd /\ cb = -bc
  BY <1>1, AreaFacts
<1>3. CASE i = 1
  <2>1. a = o /\ br > 0
    BY <1>0, <1>3, <1>s DEF Shape
  <2>2. Turn(a, b, r) = ab + br - ar
    BY <1>1, TurnIsArea
  <2>3. ab = 0 /\ ar = 0
    BY <1>1, <2>1, AreaFacts
  <2>4. Turn(a, b, r) >= 0
    <3> HIDE DEF a, b, c, d, ab, ad, ar, bc, bd, br, cb, cd, cr, db, dr
    <3> QED
      BY <1>2, <2>1, <2>2, <2>3
  <2> QED
    BY <2>4
<1>4. CASE i = Len(h) - 1
  <2>1. Turn(a, b, r) = ab + br - ar
    BY <1>1, TurnIsArea
  <2>2. Turn(a, b, r) \in Int
    <3> HIDE DEF a, b, c, d, ab, ad, ar, bc, bd, br, cb, cd, cr, db, dr
    <3> QED
      BY <1>2, <2>1
  <2>3. Turn(a, b, r) > 0
    BY <1>0, <1>4
  <2> QED
    BY <2>2, <2>3
<1>5. CASE i # 1 /\ i # Len(h) - 1
  <2>1. /\ i \in 2..Len(h) /\ i + 1 \in 2..Len(h) /\ Len(h) - 1 \in 2..Len(h)
        /\ Len(h) \in 2..Len(h) /\ i < i + 1 /\ i + 1 < Len(h) /\ Len(h) - 1 < Len(h)
        /\ Len(h) - 1 \in 1..(Len(h) - 1) /\ (Len(h) - 1) + 1 = Len(h)
    BY <1>0, <1>5
  <2>2. ab > 0 /\ bd > 0 /\ cd > 0 /\ br > 0 /\ dr > 0
    BY <2>1, <1>s DEF Shape
  <2>3. Done(o, h, R, b) /\ Done(o, h, R, d)
    BY <2>1, <1>s DEF Shape
  <2>4. Turn(a, b, d) >= 0 /\ Turn(c, d, b) >= 0
    BY <2>1, <2>3 DEF Done
  <2>5. /\ Turn(a, b, d) = ab + bd - ad
        /\ Turn(a, b, r) = ab + br - ar
        /\ Turn(c, d, b) = cd + db - cb
        /\ Turn(c, d, r) = cd + dr - cr
    BY <1>1, TurnIsArea
  <2>6. bc * dr - bd * cr + br * cd = 0
    BY <1>1, Plucker
  <2>7. ab * dr - ad * br + ar * bd = 0
    BY <1>1, Plucker
  <2>8. Turn(c, d, r) > 0
    OBVIOUS
  <2> HIDE DEF a, b, c, d, ab, ad, ar, bc, bd, br, cb, cd, cr, db, dr
  <2>9. bc + cd - bd >= 0 /\ cd + dr - cr > 0
    BY <1>2, <2>4, <2>5, <2>8
  <2>10. bd + dr - br >= 0
    <3>1. bd >= 0 /\ dr >= 0
      BY <1>2, <2>2
    <3> QED
      BY <1>2, <2>2, <2>6, <2>9, <3>1, ShortCut, Zenon
  <2>11. ab + bd - ad >= 0
    BY <2>4, <2>5
  <2>12. ab + br - ar >= 0
    BY <1>2, <2>2, <2>7, <2>10, <2>11, LeftOfOld
  <2>13. Turn(a, b, r) >= 0
    BY <2>5, <2>12
  <2> QED
    BY <2>13 DEF a, b
<1> QED
  BY <1>3, <1>4, <1>5

\* What lay behind the scan before a point is added does so afterwards.
LEMMA AddKeepsDone ==
  ASSUME NEW o \in Point, NEW C \in SUBSET Above(o), NEW h, NEW R, Chain(C, o, h, R),
         NEW r \in R, r # o, \A y \in R \ {r} : Before(o, r, y),
         Turn(h[Len(h) - 1], h[Len(h)], r) > 0,
         NEW p \in C, p # o, Done(o, h, R, p)
  PROVE  Turn(h[Len(h)], r, p) >= 0
<1> DEFINE c == h[Len(h) - 1]
           d == h[Len(h)]
           cd == Area(o, c, d)
           cp == Area(o, c, p)
           cr == Area(o, c, r)
           dp == Area(o, d, p)
           dr == Area(o, d, r)
           pd == Area(o, p, d)
           pr == Area(o, p, r)
           rp == Area(o, r, p)
<1>s. Shape(C, o, h, R)
  BY ChainShape
<1>0. Len(h) \in Nat /\ Len(h) >= 2 /\ h[1] = o
  BY <1>s DEF Shape
<1>1. c \in Point /\ d \in Point /\ r \in Point /\ p \in Point /\ d \in C /\ r \in C
  BY <1>0, <1>s DEF Shape, Above
<1>2. d # o /\ dr > 0
  BY <1>0, <1>s DEF Shape
<1>3. /\ cp \in Int /\ cd \in Int /\ cr \in Int
      /\ pd \in Int /\ pr \in Int /\ dr \in Int
      /\ dp = -pd /\ rp = -pr
  BY <1>1, AreaFacts
<1>4. Turn(d, r, p) = dr - pr + pd
  <2>1. Turn(d, r, p) = dr + rp - dp
    BY <1>1, TurnIsArea
  <2> QED
    BY <1>3, <2>1
<1>5. CASE \E y \in R : (\A z \in R \ {y} : Before(o, y, z)) /\ Turn(d, y, p) >= 0
  <2>1. PICK y \in R : (\A z \in R \ {y} : Before(o, y, z)) /\ Turn(d, y, p) >= 0
    BY <1>5
  <2>2. CASE y = r
    BY <2>1, <2>2
  <2>3. CASE y # r
    <3>1. Before(o, y, r) /\ Before(o, r, y)
      BY <2>1, <2>3
    <3>2. y \in C
      BY <1>s DEF Shape
    <3> QED
      BY <1>1, <3>1, <3>2, BeforeOrder
  <2> QED
    BY <2>2, <2>3
<1>6. CASE pd >= 0 /\ Len(h) = 2
  <2>1. d = h[2] /\ dp >= 0
    BY <1>6, <1>s DEF Shape, Chain
  <2>2. dp = 0 /\ pd = 0
    BY <1>3, <1>6, <2>1
  <2>3. Far(o, p) <= Far(o, d)
    BY <2>1, <2>2 DEF Chain
  <2>4. Covered(o, p, d)
    BY <1>2, <2>2, <2>3 DEF Covered, Same, Before
  <2>5. PICK A, B \in Int :
          /\ 0 < B /\ B <= A
          /\ \A y \in Point : A * Area(o, p, y) = B * Area(o, d, y)
    BY <1>1, <2>4, Ray
  <2>6. A * pr = B * dr
    BY <1>1, <2>5
  <2> HIDE DEF c, d, cd, cp, cr, dp, dr, pd, pr, rp
  <2>7. A * (dr - pr) = (A - B) * dr
    BY <1>3, <2>6
  <2>8. (A - B) * dr >= 0
    BY <1>2, <1>3, <2>5, PosProduct
  <2>9. dr - pr >= 0
    BY <1>3, <2>5, <2>7, <2>8, PosProduct
  <2>10. Turn(d, r, p) >= 0
    BY <1>3, <1>4, <2>2, <2>9
  <2> QED
    BY <2>10 DEF d
<1>7. CASE pd >= 0 /\ Len(h) # 2
  <2>0. Len(h) \in Nat /\ Len(h) >= 3
    BY <1>0, <1>7
  <2>1. /\ Len(h) - 1 \in 2..Len(h) /\ Len(h) \in 2..Len(h) /\ Len(h) - 1 < Len(h)
        /\ Len(h) - 1 \in 1..(Len(h) - 1) /\ (Len(h) - 1) + 1 = Len(h)
    BY <2>0
  <2>2. cd > 0
    BY <2>1, <1>s DEF Shape
  <2>3. Turn(c, d, p) >= 0 /\ Turn(c, d, r) > 0
    BY <2>1 DEF Done
  <2>4. /\ Turn(c, d, p) = cd + dp - cp
        /\ Turn(c, d, r) = cd + dr - cr
    BY <1>1, TurnIsArea
  <2>5. cp * dr - cd * pr + cr * pd = 0
    <3>1. cp * dr - cd * pr + cr * pd = 0
      BY <1>1, Plucker
    <3> QED
      BY <3>1
  <2> HIDE DEF c, d, cd, cp, cr, dp, dr, pd, pr, rp
  <2>6. cd - pd - cp >= 0 /\ cd + dr - cr > 0
    BY <1>3, <2>3, <2>4
  <2>7. dr - pr + pd >= 0
    BY <1>2, <1>3, <1>7, <2>2, <2>5, <2>6, AddBetween
  <2> QED
    BY <1>4, <2>7 DEF d
<1> QED
  BY <1>5, <1>6, <1>7 DEF Done

\* A chain is one still when a point is added that makes a left turn ...
LEMMA ChainAdd ==
  ASSUME NEW o \in Point, NEW C \in SUBSET Above(o), NEW h, NEW R, Chain(C, o, h, R),
         NEW r \in R, r # o, \A y \in R \ {r} : Before(o, r, y),
         Turn(h[Len(h) - 1], h[Len(h)], r) > 0
  PROVE  Chain(C, o, Append(h, r), R \ {r})
<1> DEFINE g == Append(h, r)
           K == Len(h)
           S == R \ {r}
<1>s. Shape(C, o, h, R)
  BY ChainShape
<1>1. K \in Nat /\ K >= 2 /\ h[1] = o /\ r \in C /\ r \in Point /\ h \in Seq(C)
  BY <1>s DEF Shape, Chain
<1>2. /\ g \in Seq(C) /\ Len(g) = K + 1 /\ g[K + 1] = r
      /\ \A i \in 1..K : g[i] = h[i]
  BY <1>1, AppendProperties
<1>3. \A i \in 1..K : h[i] \in C /\ h[i] \in Point
  BY <1>s DEF Shape
<1>4. \A i \in 2..K : h[i] # o /\ Area(o, h[i], r) > 0
  BY <1>s DEF Shape
<1> HIDE DEF g
<1>5. Len(g) \in Nat /\ Len(g) >= 2 /\ g[1] = o
  BY <1>1, <1>2
<1>6. S \subseteq C
  BY DEF Chain
<1>7. ASSUME NEW i \in 2..Len(g) PROVE g[i] # o
  BY <1>1, <1>2, <1>4
<1>8. ASSUME NEW i \in 2..Len(g), NEW j \in 2..Len(g), i < j PROVE Area(o, g[i], g[j]) > 0
  <2>1. i \in 2..K
    BY <1>1, <1>2, <1>8
  <2>2. CASE j = K + 1
    BY <1>1, <1>2, <1>4, <2>1, <2>2
  <2>3. CASE j # K + 1
    <3>1. j \in 2..K
      BY <1>1, <1>2, <2>3
    <3>2. Area(o, h[i], h[j]) > 0
      BY <1>8, <2>1, <3>1, <1>s DEF Shape
    <3> QED
      BY <1>1, <1>2, <2>1, <3>1, <3>2
  <2> QED
    BY <2>2, <2>3
<1>9. ASSUME NEW i \in 1..(Len(g) - 2) PROVE Turn(g[i], g[i + 1], g[i + 2]) > 0
  <2>1. CASE i = K - 1
    <3>1. g[i] = h[K - 1] /\ g[i + 1] = h[K] /\ g[i + 2] = r
      BY <1>1, <1>2, <2>1
    <3> QED
      BY <3>1
  <2>2. CASE i # K - 1
    <3>1. i \in 1..(K - 2) /\ i \in 1..K /\ i + 1 \in 1..K /\ i + 2 \in 1..K
      BY <1>1, <1>2, <2>2
    <3>2. g[i] = h[i] /\ g[i + 1] = h[i + 1] /\ g[i + 2] = h[i + 2]
      BY <1>2, <3>1
    <3>3. Turn(h[i], h[i + 1], h[i + 2]) > 0
      BY <3>1 DEF Chain
    <3> QED
      BY <3>2, <3>3
  <2> QED
    BY <2>1, <2>2
<1>10. ASSUME NEW i \in 2..Len(g), NEW y \in S PROVE Before(o, g[i], y)
  <2>1. CASE i = K + 1
    BY <1>2, <2>1
  <2>2. CASE i # K + 1
    <3>1. i \in 2..K /\ g[i] = h[i]
      BY <1>1, <1>2, <2>2
    <3> QED
      BY <3>1 DEF Chain
  <2> QED
    BY <2>1, <2>2
<1>11. ASSUME NEW c \in C
       PROVE  /\ Area(o, g[2], c) >= 0
              /\ Area(o, g[2], c) = 0 => Far(o, c) <= Far(o, g[2])
  <2>1. g[2] = h[2]
    BY <1>1, <1>2
  <2> QED
    BY <2>1 DEF Chain
<1>12. ASSUME NEW i \in 1..K PROVE g[i] = h[i] /\ (i # K => g[i + 1] = h[i + 1])
  BY <1>1, <1>2
<1>13. ASSUME NEW c \in C \ {o}, Done(o, h, R, c) PROVE Done(o, g, S, c)
  <2>1. \A y \in S : Before(o, c, y)
    BY <1>13 DEF Done
  <2>2. ASSUME NEW i \in 1..(Len(g) - 1) PROVE Turn(g[i], g[i + 1], c) >= 0
    <3>1. CASE i = K
      <4>1. Turn(h[K], r, c) >= 0
        BY <1>13, AddKeepsDone
      <4> QED
        BY <1>1, <1>2, <3>1, <4>1
    <3>2. CASE i # K
      <4>1. i \in 1..(K - 1) /\ i \in 1..K
        BY <1>1, <1>2, <3>2
      <4>2. Turn(h[i], h[i + 1], c) >= 0
        BY <1>13, <4>1 DEF Done
      <4> QED
        BY <1>12, <3>2, <4>1, <4>2
    <3> QED
      BY <3>1, <3>2
  <2>3. Area(o, c, g[Len(g)]) >= 0
    <3>1. Before(o, c, r)
      BY <1>13 DEF Done
    <3>2. Area(o, c, r) > 0 /\ Area(o, c, r) \in Int
      BY <1>1, <3>1, AreaFacts DEF Before, Above
    <3> QED
      BY <1>2, <3>2
  <2> QED
    BY <2>1, <2>2, <2>3 DEF Done
<1>14. ASSUME NEW c \in C \ {o}, Covered(o, c, r) PROVE Done(o, g, S, c)
  <2>0. c \in Above(o) /\ r \in Above(o) /\ c \in Point
    BY <1>1 DEF Above
  <2>1. ASSUME NEW y \in S PROVE Before(o, c, y)
    <3>1. y \in Above(o) /\ Before(o, r, y)
      BY <1>6
    <3> QED
      BY <1>14, <2>0, <3>1, BeforeOrder DEF Covered, Same
  <2>2. ASSUME NEW i \in 1..(Len(g) - 1) PROVE Turn(g[i], g[i + 1], c) >= 0
    <3>1. /\ g[i] \in Point /\ g[i + 1] \in Point
          /\ Area(o, g[i], g[i + 1]) >= 0 /\ Turn(g[i], g[i + 1], r) >= 0
      <4>1. CASE i = K
        <5>1. g[i] = h[K] /\ g[i + 1] = r /\ h[K] \in Point /\ Area(o, h[K], r) > 0
          BY <1>1, <1>2, <1>3, <1>4, <4>1
        <5>2. Area(o, h[K], r) \in Int /\ Area(o, r, r) = 0
          BY <1>1, <5>1, AreaFacts
        <5>3. Turn(h[K], r, r) = Area(o, h[K], r) + Area(o, r, r) - Area(o, h[K], r)
          BY <1>1, <5>1, TurnIsArea
        <5> QED
          BY <1>1, <5>1, <5>2, <5>3
      <4>2. CASE i # K
        <5>1. i \in 1..(K - 1) /\ i \in 1..K /\ i + 1 \in 1..K
          BY <1>1, <1>2, <4>2
        <5>2. Area(o, h[i], h[i + 1]) >= 0
          BY <5>1, <1>s DEF Shape
        <5>3. Turn(h[i], h[i + 1], r) >= 0
          BY <5>1, LeftOfEdges
        <5>4. g[i] = h[i] /\ g[i + 1] = h[i + 1]
          BY <1>12, <4>2, <5>1
        <5> QED
          BY <1>3, <5>1, <5>2, <5>3, <5>4
      <4> QED
        BY <4>1, <4>2
    <3> QED
      BY <1>14, <2>0, <3>1, CoveredTurn
  <2>3. Area(o, c, g[Len(g)]) >= 0
    <3>1. Area(o, c, r) = 0
      BY <1>14, <2>0, Ray
    <3> QED
      BY <1>2, <3>1
  <2> QED
    BY <2>1, <2>2, <2>3 DEF Done
<1>15. ASSUME NEW c \in C \ {o}
       PROVE  (\E y \in S : Covered(o, c, y)) \/ Done(o, g, S, c)
  BY <1>13, <1>14 DEF Chain
<1>16. Chain(C, o, g, S)
  <2> HIDE DEF S, K
  <2> QED
    BY <1>2, <1>5, <1>6, <1>7, <1>8, <1>9, <1>10, <1>11, <1>15 DEF Chain
<1> QED
  BY <1>16 DEF g

\* Of two edges that make no left turn, the first is replaced by a straight one.
LEMMA PopKeepsDone ==
  ASSUME NEW o \in Point, NEW C \in SUBSET Above(o), NEW h, NEW R, Chain(C, o, h, R),
         NEW r \in R, r # o, Len(h) >= 3,
         Turn(h[Len(h) - 1], h[Len(h)], r) <= 0,
         \A y \in R \ {r} : Before(o, r, y),
         NEW p \in C, p # o, Done(o, h, R, p)
  PROVE  Area(o, p, h[Len(h) - 1]) >= 0 \/ Turn(h[Len(h) - 1], r, p) >= 0
<1> DEFINE c == h[Len(h) - 1]
           d == h[Len(h)]
           cd == Area(o, c, d)
           cp == Area(o, c, p)
           cr == Area(o, c, r)
           dp == Area(o, d, p)
           dr == Area(o, d, r)
           p_c == Area(o, p, c)
           pd == Area(o, p, d)
           pr == Area(o, p, r)
           rp == Area(o, r, p)
<1>s. Shape(C, o, h, R)
  BY ChainShape
<1>0. /\ Len(h) \in Nat /\ Len(h) >= 3
      /\ Len(h) - 1 \in 2..Len(h) /\ Len(h) \in 2..Len(h) /\ Len(h) - 1 < Len(h)
      /\ Len(h) - 1 \in 1..(Len(h) - 1) /\ (Len(h) - 1) + 1 = Len(h)
  BY <1>s DEF Shape
<1>1. c \in Point /\ d \in Point /\ r \in Point /\ p \in Point /\ d \in C /\ r \in C
  BY <1>0, <1>s DEF Shape, Above
<1>2. dr > 0 /\ cr > 0 /\ cd > 0
  BY <1>0, <1>s DEF Shape
<1>3. /\ cp \in Int /\ cd \in Int /\ cr \in Int
      /\ pd \in Int /\ pr \in Int /\ dr \in Int /\ dp \in Int
      /\ dp = -pd /\ rp = -pr /\ p_c = -cp
  BY <1>1, AreaFacts
<1>4. Turn(c, r, p) = cr - pr - cp
  <2>1. Turn(c, r, p) = cr + rp - cp
    BY <1>1, TurnIsArea
  <2> QED
    BY <1>3, <2>1
<1>5. cd + dr - cr <= 0
  <2>1. Turn(c, d, r) = cd + dr - cr
    BY <1>1, TurnIsArea
  <2> QED
    BY <2>1
<1>6. pr > 0
  BY DEF Done, Before
<1>7. CASE pd >= 0 /\ cp > 0
  <2>1. Turn(c, d, p) >= 0
    BY <1>0 DEF Done
  <2>2. Turn(c, d, p) = cd + dp - cp
    BY <1>1, TurnIsArea
  <2>3. cp * dr - cd * pr + cr * pd = 0
    <3>1. cp * dr - cd * pr + cr * pd = 0
      BY <1>1, Plucker
    <3> QED
      BY <3>1
  <2> HIDE DEF c, d, cd, cp, cr, dp, dr, p_c, pd, pr, rp
  <2>4. cd - pd - cp >= 0
    BY <1>3, <2>1, <2>2
  <2>5. cr - pr - cp >= 0
    <3>1. cp >= 0 /\ cr >= 0
      BY <1>2, <1>3, <1>7
    <3> QED
      BY <1>2, <1>3, <1>5, <2>3, <2>4, <3>1, PopBetween, Zenon
  <2> QED
    BY <1>4, <2>5 DEF c
<1>8. CASE pd < 0
  <2>1. PICK y \in R : (\A z \in R \ {y} : Before(o, y, z)) /\ Turn(d, y, p) >= 0
    BY <1>3, <1>8 DEF Done
  <2>2. y = r
    <3>1. y # r => Before(o, y, r) /\ Before(o, r, y)
      BY <2>1
    <3>2. y \in C
      BY <1>s DEF Shape
    <3> QED
      BY <1>1, <3>1, <3>2, BeforeOrder
  <2>3. Turn(d, r, p) >= 0
    BY <2>1, <2>2
  <2>4. Turn(d, r, p) = dr + rp - dp
    BY <1>1, TurnIsArea
  <2>5. cd * pr - cp * dr + cr * dp = 0
    <3>1. cd * pr - cp * dr + cr * dp = 0
      BY <1>1, Plucker
    <3> QED
      BY <3>1
  <2> HIDE DEF c, d, cd, cp, cr, dp, dr, p_c, pd, pr, rp
  <2>6. dr - pr - dp >= 0
    BY <1>3, <2>3, <2>4
  <2>7. cr - pr - cp >= 0
    <3>1. pr >= 0 /\ cr >= 0
      BY <1>2, <1>3, <1>6
    <3> QED
      BY <1>2, <1>3, <1>5, <2>5, <2>6, <3>1, PopBeyond, Zenon
  <2> QED
    BY <1>4, <2>7 DEF c
<1>9. cp > 0 \/ p_c >= 0
  BY <1>3
<1> QED
  BY <1>3, <1>7, <1>8, <1>9

\* ... and when a point is taken off where there is none.
LEMMA ChainPop ==
  ASSUME NEW o \in Point, NEW C \in SUBSET Above(o), NEW h, NEW R, Chain(C, o, h, R),
         NEW r \in R, r # o, Len(h) >= 3,
         Turn(h[Len(h) - 1], h[Len(h)], r) <= 0,
         \A y \in R \ {r} : Before(o, r, y)
  PROVE  Chain(C, o, Front(h), R)
<1> DEFINE g == Front(h)
           K == Len(h)
<1>s. Shape(C, o, h, R)
  BY ChainShape
<1>1. K \in Nat /\ K >= 3 /\ h[1] = o /\ h \in Seq(C)
  BY <1>s DEF Shape, Chain
<1>2. g \in Seq(C) /\ Len(g) = K - 1 /\ \A i \in 1..(K - 1) : g[i] = h[i]
  BY <1>1 DEF Front
<1> HIDE DEF g
<1>3. Len(g) >= 2 /\ g[1] = o
  BY <1>1, <1>2
<1>4. R \subseteq C
  BY DEF Chain
<1>5. ASSUME NEW i \in 2..Len(g)
      PROVE  i \in 2..K /\ g[i] = h[i]
  BY <1>1, <1>2
<1>6. ASSUME NEW i \in 2..Len(g) PROVE g[i] # o /\ \A y \in R : Before(o, g[i], y)
  BY <1>5 DEF Chain
<1>7. ASSUME NEW i \in 2..Len(g), NEW j \in 2..Len(g), i < j PROVE Area(o, g[i], g[j]) > 0
  BY <1>5, <1>7 DEF Chain
<1>8. ASSUME NEW i \in 1..(Len(g) - 2) PROVE Turn(g[i], g[i + 1], g[i + 2]) > 0
  <2>1. i \in 1..(K - 2) /\ g[i] = h[i] /\ g[i + 1] = h[i + 1] /\ g[i + 2] = h[i + 2]
    BY <1>1, <1>2
  <2>2. Turn(h[i], h[i + 1], h[i + 2]) > 0
    BY <2>1 DEF Chain
  <2> QED
    BY <2>1, <2>2
<1>9. ASSUME NEW c \in C
      PROVE  /\ Area(o, g[2], c) >= 0
             /\ Area(o, g[2], c) = 0 => Far(o, c) <= Far(o, g[2])
  <2>1. g[2] = h[2]
    BY <1>1, <1>2
  <2> QED
    BY <2>1 DEF Chain
<1>10. ASSUME NEW c \in C \ {o}, Done(o, h, R, c) PROVE Done(o, g, R, c)
  <2>1. \A y \in R : Before(o, c, y)
    BY <1>10 DEF Done
  <2>2. ASSUME NEW i \in 1..(Len(g) - 1) PROVE Turn(g[i], g[i + 1], c) >= 0
    <3>1. i \in 1..(K - 1) /\ g[i] = h[i] /\ g[i + 1] = h[i + 1]
      BY <1>1, <1>2
    <3>2. Turn(h[i], h[i + 1], c) >= 0
      BY <1>10, <3>1 DEF Done
    <3> QED
      BY <3>1, <3>2
  <2>3. g[Len(g)] = h[K - 1]
    BY <1>1, <1>2
  <2>4. Area(o, c, h[K - 1]) >= 0 \/ Turn(h[K - 1], r, c) >= 0
    BY <1>10, PopKeepsDone
  <2> QED
    BY <2>1, <2>2, <2>3, <2>4 DEF Done
<1>11. ASSUME NEW c \in C \ {o}
       PROVE  (\E y \in R : Covered(o, c, y)) \/ Done(o, g, R, c)
  BY <1>10 DEF Chain
<1>12. Chain(C, o, g, R)
  <2> HIDE DEF K
  <2> QED
    BY <1>2, <1>3, <1>4, <1>6, <1>7, <1>8, <1>9, <1>11 DEF Chain
<1> QED
  BY <1>12 DEF g

\* The origin comes last, and closes the polygon.
LEMMA ChainEnd ==
  ASSUME NEW o \in Point, NEW C \in SUBSET Above(o), NEW h, NEW R, Chain(C, o, h, R),
         o \in R, \A y \in R \ {o} : Before(o, o, y)
  PROVE  Chain(C, o, h, {})
<1> DEFINE d == h[Len(h)]
<1>s. Shape(C, o, h, R)
  BY ChainShape
<1>1. R = {o}
  BY DEF Before
<1>2. Len(h) \in 1..Len(h) /\ d \in Point
  BY <1>s DEF Shape
<1>3. ASSUME NEW c \in C \ {o} PROVE Done(o, h, {}, c)
  <2>1. c \in Point /\ o \in Point
    BY DEF Above
  <2>2. ~Covered(o, c, o)
    BY DEF Covered, Same, Before
  <2>3. Done(o, h, R, c)
    BY <1>1, <2>2 DEF Chain
  <2>4. Area(o, c, d) >= 0 \/ Turn(d, o, c) >= 0
    BY <1>1, <2>3 DEF Done
  <2>5. Turn(d, o, c) = Area(o, d, o) + Area(o, o, c) - Area(o, d, c)
    BY <1>2, <2>1, TurnIsArea
  <2>6. /\ Area(o, d, o) = 0 /\ Area(o, o, c) = 0 /\ Area(o, d, c) \in Int
        /\ Area(o, c, d) = -Area(o, d, c)
    BY <1>2, <2>1, AreaFacts
  <2>7. Area(o, c, d) >= 0
    BY <2>4, <2>5, <2>6
  <2> QED
    BY <2>3, <2>7 DEF Done
<1> QED
  BY <1>3 DEF Chain

\* The cross product of two sides of a triangle is its turn.
LEMMA TurnFromFirst ==
  ASSUME NEW p \in Point, NEW q \in Point, NEW r \in Point
  PROVE  Cross(Sub(q, p), Sub(r, p)) = Turn(p, q, r)
BY DEF Turn, Cross, Sub, Point

\* Two vectors in the direction of a third are in one direction.
LEMMA OnOneLine ==
  ASSUME NEW q1 \in Int, NEW q2 \in Int, NEW p1 \in Int, NEW p2 \in Int,
         NEW r1 \in Int, NEW r2 \in Int, q2 > 0 \/ (q2 = 0 /\ q1 > 0),
         q1*p2 - q2*p1 = 0, q1*r2 - q2*r1 = 0
  PROVE  p1*r2 - p2*r1 = 0
<1> DEFINE A == q1*q1 + q2*q2
           x == q1*p2 - q2*p1
           y == q1*r2 - q2*r1
           z == p1*r2 - p2*r1
           B == q1*p1 + q2*p2
           D == q1*r1 + q2*r2
<1>1. A * z = B * y - D * x
  OBVIOUS
<1>2. x = 0 /\ y = 0 /\ A \in Int /\ z \in Int /\ B \in Int /\ D \in Int
  OBVIOUS
<1>3. A > 0
  <2>1. q1*q1 >= 0 /\ q2*q2 >= 0 /\ (q1 > 0 => q1*q1 > 0) /\ (q2 > 0 => q2*q2 > 0)
    OBVIOUS
  <2> QED
    BY <2>1
<1> HIDE DEF A, x, y, z, B, D
<1>4. A * z = 0
  BY <1>1, <1>2
<1>5. z = 0
  BY <1>2, <1>3, <1>4, PosProduct
<1> QED
  BY <1>5 DEF z

\* Points that lie in one direction from the origin lie on one line.
LEMMA OneDirection ==
  ASSUME NEW o \in Point, NEW q \in Above(o), q # o,
         NEW S \in SUBSET Point, \A c \in S : Area(o, q, c) = 0
  PROVE  \A p, a, b \in S : Cross(Sub(a, p), Sub(b, p)) = 0
<1>1. ASSUME NEW p \in S, NEW r \in S PROVE Area(o, p, r) = 0
  <2> DEFINE u == Sub(q, o)
             v == Sub(p, o)
             w == Sub(r, o)
             q1 == u[1]
             q2 == u[2]
             p1 == v[1]
             p2 == v[2]
             r1 == w[1]
             r2 == w[2]
  <2>1. q1 \in Int /\ q2 \in Int /\ (q2 > 0 \/ (q2 = 0 /\ q1 > 0))
    BY AboveFacts
  <2>2. p1 \in Int /\ p2 \in Int /\ r1 \in Int /\ r2 \in Int
    BY DEF Sub, Point
  <2>3. q1*p2 - q2*p1 = 0 /\ q1*r2 - q2*r1 = 0
    <3>1. Area(o, q, p) = 0 /\ Area(o, q, r) = 0
      OBVIOUS
    <3> QED
      BY <3>1 DEF Area, Cross
  <2>4. Area(o, p, r) = p1*r2 - p2*r1
    BY DEF Area, Cross
  <2> HIDE DEF q1, q2, p1, p2, r1, r2
  <2> QED
    BY <2>1, <2>2, <2>3, <2>4, OnOneLine
<1> SUFFICES ASSUME NEW p \in S, NEW a \in S, NEW b \in S
             PROVE  Cross(Sub(a, p), Sub(b, p)) = 0
  OBVIOUS
<1>2. Cross(Sub(a, p), Sub(b, p)) = Turn(p, a, b)
  BY TurnFromFirst
<1>3. Turn(p, a, b) = Area(o, p, a) + Area(o, a, b) - Area(o, p, b)
  BY TurnIsArea
<1> QED
  BY <1>1, <1>2, <1>3

\* The positions of a closed polygon.
LEMMA Wrap ==
  ASSUME NEW n \in Nat, n >= 3
  PROVE  /\ \A i \in 0..(n - 1) : i % n = i
         /\ n % n = 0
         /\ (n + 1) % n = 1
<1>1. \A i \in 0..(n - 1) : i % n = i
  OBVIOUS
<1>2. n % n = 0
  OBVIOUS
<1>3. (n + 1) % n = 1
  OBVIOUS
<1> QED
  BY <1>1, <1>2, <1>3

\* A chain with nothing to come is the hull.
LEMMA ChainIsHull ==
  ASSUME NEW o \in Point, NEW C \in SUBSET Above(o), o \in C, NEW h, Chain(C, o, h, {}),
         Len(h) >= 3
  PROVE  IsHull(h, C)
<1> DEFINE n == Len(h)
           At(i) == h[1 + (i % n)]
<1>s. Shape(C, o, h, {})
  BY ChainShape
<1>1. /\ n \in Nat /\ n >= 3 /\ h \in Seq(C) /\ h[1] = o
      /\ \A i \in 1..n : h[i] \in C /\ h[i] \in Point
      /\ \A i, j \in 2..n : i < j => Area(o, h[i], h[j]) > 0
  BY <1>s DEF Shape, Chain
<1>2. \A c \in C : c \in Point
  BY DEF Above
<1>3. ToSet(h) \subseteq C
  BY <1>1 DEF ToSet
<1>4. IsInjective(h)
  <2>1. DOMAIN h = 1..n
    BY <1>1
  <2>2. ASSUME NEW i \in 1..n, NEW j \in 1..n, i < j PROVE h[i] # h[j]
    <3>1. CASE i = 1
      BY <1>1, <2>2, <3>1, <1>s DEF Shape
    <3>2. CASE i # 1
      <4>1. Area(o, h[i], h[j]) > 0
        BY <1>1, <2>2, <3>2
      <4>2. Area(o, h[i], h[i]) = 0
        BY <1>1, AreaFacts
      <4> QED
        BY <4>1, <4>2
    <3> QED
      BY <3>1, <3>2
  <2>3. ASSUME NEW i \in 1..n, NEW j \in 1..n, h[i] = h[j] PROVE i = j
    <3>1. i < j \/ j < i \/ i = j
      BY <1>1
    <3> QED
      BY <2>2, <2>3, <3>1
  <2> QED
    BY <2>1, <2>3 DEF IsInjective
<1>5. /\ \A i \in 0..(n - 1) : At(i) = h[i + 1]
      /\ At(n) = o /\ At(n + 1) = h[2]
  <2>1. /\ \A i \in 0..(n - 1) : i % n = i
        /\ n % n = 0 /\ (n + 1) % n = 1
    BY <1>1, Wrap
  <2>2. ASSUME NEW i \in 0..(n - 1) PROVE At(i) = h[i + 1]
    <3>1. i % n = i /\ 1 + i = i + 1
      BY <2>1
    <3> QED
      BY <3>1
  <2>3. At(n) = h[1] /\ At(n + 1) = h[2]
    <3>1. 1 + (n % n) = 1 /\ 1 + ((n + 1) % n) = 2
      BY <2>1
    <3> QED
      BY <3>1, Zenon
  <2> QED
    BY <1>1, <2>2, <2>3
<1>6. ASSUME NEW i \in 1..(n - 1), NEW c \in C PROVE Turn(h[i], h[i + 1], c) >= 0
  <2>1. i \in 1..n /\ i + 1 \in 1..n
    BY <1>1
  <2>2. CASE c = o
    <3>1. Turn(h[i], h[i + 1], o)
            = Area(o, h[i], h[i + 1]) + Area(o, h[i + 1], o) - Area(o, h[i], o)
      BY <1>1, <2>1, TurnIsArea
    <3>2. Area(o, h[i + 1], o) = 0 /\ Area(o, h[i], o) = 0 /\ Area(o, h[i], h[i + 1]) \in Int
      BY <1>1, <2>1, AreaFacts
    <3>3. Area(o, h[i], h[i + 1]) >= 0
      BY <1>s DEF Shape
    <3> QED
      BY <2>2, <3>1, <3>2, <3>3
  <2>3. CASE c # o
    BY <2>3 DEF Chain, Done
  <2> QED
    BY <2>2, <2>3
<1>7. ASSUME NEW c \in C PROVE Turn(h[n], o, c) >= 0
  <2>1. h[n] \in Point /\ c \in Point
    BY <1>1, <1>2
  <2>2. Turn(h[n], o, c) = Area(o, h[n], o) + Area(o, o, c) - Area(o, h[n], c)
    BY <2>1, TurnIsArea
  <2>3. /\ Area(o, h[n], o) = 0 /\ Area(o, o, c) = 0 /\ Area(o, h[n], c) \in Int
        /\ Area(o, c, h[n]) = -Area(o, h[n], c)
    BY <2>1, AreaFacts
  <2>4. Area(o, c, h[n]) >= 0
    <3>1. CASE c = o
      BY <2>1, <3>1, AreaFacts
    <3>2. CASE c # o
      BY <3>2 DEF Chain, Done
    <3> QED
      BY <3>1, <3>2
  <2> QED
    BY <2>2, <2>3, <2>4
<1>8. Turn(h[n - 1], h[n], o) > 0
  <2>1. n - 1 \in 2..n /\ n \in 2..n /\ n - 1 < n /\ n - 1 \in 1..n /\ n \in 1..n
    BY <1>1
  <2>2. Area(o, h[n - 1], h[n]) > 0 /\ h[n - 1] \in Point /\ h[n] \in Point
    BY <1>1, <2>1
  <2>3. Turn(h[n - 1], h[n], o) = Area(o, h[n - 1], h[n]) + Area(o, h[n], o) - Area(o, h[n - 1], o)
    BY <2>2, TurnIsArea
  <2>4. Area(o, h[n], o) = 0 /\ Area(o, h[n - 1], o) = 0 /\ Area(o, h[n - 1], h[n]) \in Int
    BY <2>2, AreaFacts
  <2> QED
    BY <2>2, <2>3, <2>4
<1>9. Turn(h[n], o, h[2]) > 0
  <2>1. 2 \in 2..n /\ n \in 2..n /\ 2 < n /\ 2 \in 1..n /\ n \in 1..n
    BY <1>1
  <2>2. Area(o, h[2], h[n]) > 0 /\ h[2] \in Point /\ h[n] \in Point
    BY <1>1, <2>1
  <2>3. Turn(h[n], o, h[2]) = Area(o, h[n], o) + Area(o, o, h[2]) - Area(o, h[n], h[2])
    BY <2>2, TurnIsArea
  <2>4. /\ Area(o, h[n], o) = 0 /\ Area(o, o, h[2]) = 0 /\ Area(o, h[2], h[n]) \in Int
        /\ Area(o, h[n], h[2]) = -Area(o, h[2], h[n])
    BY <2>2, AreaFacts
  <2> QED
    BY <2>2, <2>3, <2>4
<1> HIDE DEF At
<1>10. ASSUME NEW i \in 0..(n - 1)
       PROVE  /\ At(i) \in Point /\ At(i + 1) \in Point
              /\ Turn(At(i), At(i + 1), At(i + 2)) > 0
              /\ \A c \in C : Turn(At(i), At(i + 1), c) >= 0
  <2>1. CASE i <= n - 3
    <3>1. /\ i + 1 \in 1..(n - 2) /\ i + 1 \in 1..(n - 1)
          /\ i + 1 \in 0..(n - 1) /\ i + 2 \in 0..(n - 1)
          /\ i + 1 \in 1..n /\ i + 2 \in 1..n
          /\ (i + 1) + 1 = i + 2 /\ (i + 1) + 2 = i + 3 /\ (i + 2) + 1 = i + 3
      BY <1>1, <2>1
    <3>2. At(i) = h[i + 1] /\ At(i + 1) = h[i + 2] /\ At(i + 2) = h[i + 3]
      BY <1>5, <3>1
    <3>3. Turn(h[i + 1], h[i + 2], h[i + 3]) > 0
      BY <3>1 DEF Chain
    <3>4. \A c \in C : Turn(h[i + 1], h[i + 2], c) >= 0
      BY <1>6, <3>1
    <3> QED
      BY <1>1, <3>1, <3>2, <3>3, <3>4
  <2>2. CASE i = n - 2
    <3>1. /\ i + 1 = n - 1 /\ i + 2 = n /\ n - 1 \in 1..(n - 1) /\ (n - 1) + 1 = n
          /\ n - 1 \in 1..n /\ n \in 1..n /\ n - 1 \in 0..(n - 1)
      BY <1>1, <2>2
    <3>2. At(i) = h[n - 1] /\ At(i + 1) = h[n] /\ At(i + 2) = o
      BY <1>5, <3>1
    <3>3. \A c \in C : Turn(h[n - 1], h[n], c) >= 0
      BY <1>6, <3>1
    <3> QED
      BY <1>1, <1>8, <3>1, <3>2, <3>3
  <2>3. CASE i = n - 1
    <3>1. i + 1 = n /\ i + 2 = n + 1 /\ n \in 1..n
      BY <1>1, <2>3
    <3>2. At(i) = h[n] /\ At(i + 1) = o /\ At(i + 2) = h[2]
      BY <1>5, <3>1
    <3> QED
      BY <1>1, <1>7, <1>9, <3>1, <3>2
  <2> QED
    BY <1>1, <2>1, <2>2, <2>3
<1>11. ASSUME NEW i \in 0..(n - 1)
       PROVE  /\ Cross(Sub(At(i + 1), At(i)), Sub(At(i + 2), At(i + 1))) > 0
              /\ \A c \in C : Cross(Sub(At(i + 1), At(i)), Sub(c, At(i))) >= 0
  <2>1. Turn(At(i), At(i + 1), At(i + 2)) > 0
    BY <1>10
  <2>2. ASSUME NEW c \in C
        PROVE  Cross(Sub(At(i + 1), At(i)), Sub(c, At(i))) = Turn(At(i), At(i + 1), c)
    BY <1>2, <1>10, TurnFromFirst
  <2> QED
    BY <1>10, <2>1, <2>2 DEF Turn
<1> QED
  BY <1>3, <1>4, <1>11 DEF IsHull, At

(***************************************************************************)
(* The corners, sorted and with the equal angles removed.                  *)
(***************************************************************************)
\* Corners have whole coordinates.
LEMMA CornerOf ==
  ASSUME NEW p \in Prims, NEW s \in Signs
  PROVE  Corner(p, s) \in Point
<1>1. /\ p.scale[1] \in Int /\ p.scale[2] \in Int /\ p.scale[3] \in Int
      /\ p.pos[1] \in Int /\ p.pos[2] \in Int
      /\ p.quat \in [x : Int, y : Int, z : Int, w : Int, unit : Int]
  BY PrimsAssumption
<1>2. s[1] \in Int /\ s[2] \in Int /\ s[3] \in Int
  BY DEF Signs
<1> DEFINE m == QuaternionToMatrix(p.quat)
           At(i) == 2 * p.quat.unit * p.pos[i]
                    + s[1]*m[i][1]*p.scale[1] + s[2]*m[i][2]*p.scale[2] + s[3]*m[i][3]*p.scale[3]
<1>3. \A i \in {1, 2}, j \in {1, 2, 3} : m[i][j] \in Int
  BY <1>1 DEF QuaternionToMatrix
<1>4. Corner(p, s) = <<At(1), At(2)>>
  BY DEF Corner
<1>5. p.quat.unit \in Int
  BY <1>1
<1> HIDE DEF m
<1>6. ASSUME NEW a \in Int, NEW b \in Int PROVE a * b \in Int
  OBVIOUS
<1>7. At(1) \in Int
  <2>1. /\ 2 * p.quat.unit * p.pos[1] \in Int /\ s[1]*m[1][1]*p.scale[1] \in Int
        /\ s[2]*m[1][2]*p.scale[2] \in Int /\ s[3]*m[1][3]*p.scale[3] \in Int
    BY <1>1, <1>2, <1>3, <1>5, <1>6
  <2> QED
    BY <2>1
<1>8. At(2) \in Int
  <2>1. /\ 2 * p.quat.unit * p.pos[2] \in Int /\ s[1]*m[2][1]*p.scale[1] \in Int
        /\ s[2]*m[2][2]*p.scale[2] \in Int /\ s[3]*m[2][3]*p.scale[3] \in Int
    BY <1>1, <1>2, <1>3, <1>5, <1>6
  <2> QED
    BY <2>1
<1> QED
  BY <1>4, <1>7, <1>8 DEF Point

\* Corners are points.
LEMMA CornerType ==
  ASSUME projected \in [Signs -> Point]
  PROVE  Corners \in SUBSET Point
BY DEF Corners

\* Some point of S is the lowest.
HasLowest(S) == \E p \in S : \A q \in S \ {p} : Lower(p, q)

\* Of a finite set of points one is the lowest, one point at a time.
LEMMA LowestOfMore ==
  ASSUME NEW S \in SUBSET Point, HasLowest(S), NEW x \in Point
  PROVE  HasLowest(S \union {x})
<1>1. PICK p \in S : \A q \in S \ {p} : Lower(p, q)
  BY DEF HasLowest
<1>2. CASE Lower(x, p)
  <2>1. ASSUME NEW q \in (S \union {x}) \ {x} PROVE Lower(x, q)
    <3>1. q = p \/ Lower(p, q)
      BY <1>1
    <3> QED
      BY <1>2, <3>1 DEF Lower, Point
  <2> QED
    BY <2>1 DEF HasLowest
<1>3. CASE ~Lower(x, p)
  <2>1. x # p => Lower(p, x)
    BY <1>3 DEF Lower, Point
  <2> QED
    BY <1>1, <2>1 DEF HasLowest
<1> QED
  BY <1>2, <1>3

\* Lowest chooses the lowest corner: there is one.
LEMMA LowestCorner ==
  ASSUME projected \in [Signs -> Point]
  PROVE  Rooted(Corners, Lowest(Corners))
<1> DEFINE c(a, b, d) == projected[<<a, b, d>>]
           T2 == {c(-1, -1, -1)} \union {c(-1, -1, 1)}
           T3 == T2 \union {c(-1, 1, -1)}
           T4 == T3 \union {c(-1, 1, 1)}
           T5 == T4 \union {c(1, -1, -1)}
           T6 == T5 \union {c(1, -1, 1)}
           T7 == T6 \union {c(1, 1, -1)}
           T8 == T7 \union {c(1, 1, 1)}
<1>1. \A a, b, d \in {-1, 1} : c(a, b, d) \in Point
  BY DEF Signs
<1>2. Corners = T8
  <2>1. Signs = {<<-1, -1, -1>>, <<-1, -1, 1>>, <<-1, 1, -1>>, <<-1, 1, 1>>,
                 <<1, -1, -1>>, <<1, -1, 1>>, <<1, 1, -1>>, <<1, 1, 1>>}
    BY DEF Signs
  <2> QED
    BY <2>1 DEF Corners
<1>3. T8 \subseteq Point
  BY <1>1
<1> HIDE DEF c
<1>4. HasLowest({c(-1, -1, -1)})
  BY DEF HasLowest
<1>5. HasLowest(T2)
  BY <1>1, <1>4, LowestOfMore
<1>6. HasLowest(T3)
  BY <1>1, <1>3, <1>5, LowestOfMore
<1>7. HasLowest(T4)
  BY <1>1, <1>3, <1>6, LowestOfMore
<1>8. HasLowest(T5)
  BY <1>1, <1>3, <1>7, LowestOfMore
<1>9. HasLowest(T6)
  BY <1>1, <1>3, <1>8, LowestOfMore
<1>10. HasLowest(T7)
  BY <1>1, <1>3, <1>9, LowestOfMore
<1>11. HasLowest(T8)
  BY <1>1, <1>3, <1>10, LowestOfMore
<1>12. HasLowest(Corners)
  BY <1>2, <1>11
<1> QED
  BY <1>12 DEF HasLowest, Rooted, Lowest

\* Every corner is above the lowest.
LEMMA RootedAbove ==
  ASSUME projected \in [Signs -> Point], NEW o, Rooted(Corners, o)
  PROVE  o \in Point /\ o \in Corners /\ Corners \in SUBSET Above(o)
BY CornerType DEF Rooted, Above

\* Every corner is in the list at least once.
LEMMA CornersCounted ==
  /\ DOMAIN CornerBag = Corners
  /\ \A c \in Corners : CornerBag[c] \in Nat \ {0}
<1>2. IsFiniteSet(Signs)
  <2>1. Signs = {<<-1, -1, -1>>, <<-1, -1, 1>>, <<-1, 1, -1>>, <<-1, 1, 1>>,
                 <<1, -1, -1>>, <<1, -1, 1>>, <<1, 1, -1>>, <<1, 1, 1>>}
    BY DEF Signs
  <2> DEFINE T1 == {<<-1, -1, -1>>}
             T2 == T1 \union {<<-1, -1, 1>>}
             T3 == T2 \union {<<-1, 1, -1>>}
             T4 == T3 \union {<<-1, 1, 1>>}
             T5 == T4 \union {<<1, -1, -1>>}
             T6 == T5 \union {<<1, -1, 1>>}
             T7 == T6 \union {<<1, 1, -1>>}
             T8 == T7 \union {<<1, 1, 1>>}
  <2>2. IsFiniteSet(T1)
    BY FS_Singleton
  <2>3. IsFiniteSet(T2)
    BY <2>2, FS_AddElement
  <2>4. IsFiniteSet(T3)
    BY <2>3, FS_AddElement
  <2>5. IsFiniteSet(T4)
    BY <2>4, FS_AddElement
  <2>6. IsFiniteSet(T5)
    BY <2>5, FS_AddElement
  <2>7. IsFiniteSet(T6)
    BY <2>6, FS_AddElement
  <2>8. IsFiniteSet(T7)
    BY <2>7, FS_AddElement
  <2>9. IsFiniteSet(T8)
    BY <2>8, FS_AddElement
  <2>10. Signs = T8
    BY <2>1
  <2> QED
    BY <2>9, <2>10
<1>3. ASSUME NEW c \in Corners PROVE CornerBag[c] \in Nat \ {0}
  <2> DEFINE T == {s \in Signs : projected[s] = c}
  <2>1. T # {} /\ IsFiniteSet(T)
    BY <1>2, FS_Subset DEF Corners
  <2>2. Cardinality(T) \in Nat /\ Cardinality(T) # 0
    BY <2>1, FS_CardinalityType, FS_EmptySet
  <2>3. CornerBag[c] = Cardinality(T)
    BY DEF CornerBag
  <2> QED
    BY <2>2, <2>3
<1> QED
  BY <1>3 DEF CornerBag

\* Taking one point from a bag.
LEMMA OneLess ==
  ASSUME NEW b, NEW x \in DOMAIN b, \A c \in DOMAIN b : b[c] \in Nat \ {0}
  PROVE  /\ DOMAIN (b (-) SetToBag({x})) \subseteq DOMAIN b
         /\ \A c \in DOMAIN (b (-) SetToBag({x})) : (b (-) SetToBag({x}))[c] \in Nat \ {0}
         /\ \A c \in DOMAIN b : c # x \/ b[x] # 1 => c \in DOMAIN (b (-) SetToBag({x}))
<1> DEFINE a == [e \in DOMAIN b |-> IF e \in DOMAIN SetToBag({x}) THEN b[e] - SetToBag({x})[e]
                                    ELSE b[e]]
           m == b (-) SetToBag({x})
<1>1. DOMAIN SetToBag({x}) = {x} /\ SetToBag({x})[x] = 1
  BY DEF SetToBag
<1>2. DOMAIN a = DOMAIN b /\ \A c \in DOMAIN b : a[c] = IF c = x THEN b[c] - 1 ELSE b[c]
  BY <1>1
<1>3. m = [e \in {d \in DOMAIN a : a[d] > 0} |-> a[e]]
  BY DEF (-)
<1> HIDE DEF a, m
<1>4. DOMAIN m = {d \in DOMAIN b : a[d] > 0} /\ \A c \in DOMAIN m : m[c] = a[c]
  BY <1>2, <1>3
<1>5. \A c \in DOMAIN b : a[c] \in Nat /\ (c # x \/ b[x] # 1 => a[c] > 0)
  BY <1>2
<1> QED
  BY <1>4, <1>5 DEF m

\* The list to be sorted has all corners, but the lowest one time less.
LEMMA SortStart ==
  ASSUME NEW o, NEW C, NEW b, o \in C, DOMAIN b = C, \A c \in C : b[c] \in Nat \ {0}
  PROVE  Sorting(C, o, b[o], b (-) SetToBag({o}), <<>>)
<1> DEFINE m == b (-) SetToBag({o})
<1>1. /\ DOMAIN m \subseteq C
      /\ \A c \in DOMAIN m : m[c] \in Nat \ {0}
      /\ \A c \in C : c # o \/ b[o] # 1 => c \in DOMAIN m
  BY OneLess
<1> HIDE DEF m
<1>2. <<>> \in Seq(C) /\ Len(<<>>) = 0
  OBVIOUS
<1>3. Sorting(C, o, b[o], m, <<>>)
  BY <1>1, <1>2 DEF Sorting, WeaklyOrdered
<1> QED
  BY <1>3 DEF m

\* Placing a point that none of the rest comes before.
LEMMA SortPlace ==
  ASSUME NEW C, NEW o, NEW n, NEW b, NEW s, Sorting(C, o, n, b, s),
         NEW x \in DOMAIN b, \A c \in DOMAIN b : ~Before(o, c, x)
  PROVE  Sorting(C, o, n, b (-) SetToBag({x}), Append(s, x))
<1> DEFINE m == b (-) SetToBag({x})
           t == Append(s, x)
<1>1. /\ DOMAIN m \subseteq DOMAIN b
      /\ \A c \in DOMAIN m : m[c] \in Nat \ {0}
      /\ \A c \in DOMAIN b : c # x => c \in DOMAIN m
  BY OneLess DEF Sorting
<1>2. s \in Seq(C) /\ x \in C /\ Len(s) \in Nat
  BY DEF Sorting
<1>3. /\ t \in Seq(C) /\ Len(t) = Len(s) + 1 /\ t[Len(s) + 1] = x
      /\ \A j \in 1..Len(s) : t[j] = s[j]
  BY <1>2, AppendProperties
<1> HIDE DEF m, t
<1>4. ASSUME NEW j \in 1..Len(t), NEW k \in 1..Len(t), j < k PROVE ~Before(o, t[k], t[j])
  <2>1. j \in 1..Len(s) /\ t[j] = s[j]
    BY <1>2, <1>3, <1>4
  <2>2. CASE k = Len(s) + 1
    BY <1>3, <2>1, <2>2 DEF Sorting
  <2>3. CASE k # Len(s) + 1
    <3>1. k \in 1..Len(s) /\ t[k] = s[k]
      BY <1>2, <1>3, <2>3
    <3> QED
      BY <1>4, <2>1, <3>1 DEF Sorting, WeaklyOrdered
  <2> QED
    BY <2>2, <2>3
<1>5. ASSUME NEW j \in 1..Len(t), NEW c \in DOMAIN m PROVE ~Before(o, c, t[j])
  <2>1. j = Len(s) + 1 \/ (j \in 1..Len(s) /\ t[j] = s[j])
    BY <1>2, <1>3
  <2> QED
    BY <1>1, <1>3, <2>1 DEF Sorting
<1>6. ASSUME NEW c \in C, c # o \/ n # 1
      PROVE  c \in DOMAIN m \/ \E j \in 1..Len(t) : t[j] = c
  <2>1. c \in DOMAIN b \/ \E j \in 1..Len(s) : s[j] = c
    BY <1>6 DEF Sorting
  <2>2. CASE c = x
    <3>1. Len(s) + 1 \in 1..Len(t)
      BY <1>2, <1>3
    <3> QED
      BY <1>3, <2>2, <3>1
  <2>3. CASE \E j \in 1..Len(s) : s[j] = c
    <3>1. \A j \in 1..Len(s) : j \in 1..Len(t)
      BY <1>2, <1>3
    <3> QED
      BY <1>3, <2>3, <3>1
  <2> QED
    BY <1>1, <2>1, <2>2, <2>3
<1>7. DOMAIN m \subseteq C
  BY <1>1 DEF Sorting
<1>8. Sorting(C, o, n, m, t)
  BY <1>1, <1>3, <1>4, <1>5, <1>6, <1>7 DEF Sorting, WeaklyOrdered
<1> QED
  BY <1>8 DEF m, t

\* With nothing left to place the removal of equal angles begins.
LEMMA SortEnd ==
  ASSUME NEW o \in Point, NEW C \in SUBSET Above(o), NEW n, NEW b, NEW s,
         Sorting(C, o, n, b, s), DOMAIN b = {}, Len(s) >= 1, o \in C
  PROVE  Deduping(C, o, n, s, 1)
<1>1. s \in Seq(C) /\ Len(s) \in Nat /\ 1 \in 1..Len(s)
  BY DEF Sorting
<1>2. WeaklyOrdered(o, s)
  BY DEF Sorting
<1>3. \A j, k \in 1..1 : j < k => Before(o, s[j], s[k])
  OBVIOUS
<1>4. ASSUME NEW c \in C PROVE Covered(o, c, c)
  <2>1. c \in Point
    BY DEF Above
  <2>2. Area(o, c, c) = 0
    BY <2>1, AreaFacts
  <2>3. Far(o, c) \in Int
    <3>1. Sub(c, o)[1] \in Int /\ Sub(c, o)[2] \in Int
      BY <2>1 DEF Sub, Point
    <3>2. \A a, e \in Int : a*a + e*e \in Int
      OBVIOUS
    <3> QED
      BY <3>1, <3>2 DEF Far
  <2>4. Far(o, c) <= Far(o, c)
    BY <2>3
  <2> QED
    BY <2>2, <2>4 DEF Covered, Same, Before
<1>5. ASSUME NEW c \in C \ {o} PROVE \E j \in 1..Len(s) : Covered(o, c, s[j])
  <2>1. PICK j \in 1..Len(s) : s[j] = c
    BY DEF Sorting
  <2> QED
    BY <1>4, <2>1
<1>6. n # 1 => \E j \in 1..Len(s) : s[j] = o
  BY DEF Sorting
<1> QED
  BY <1>1, <1>2, <1>3, <1>5, <1>6 DEF Deduping

\* Neighbours of two angles are kept.
LEMMA DedupeKeep ==
  ASSUME NEW o \in Point, NEW C \in SUBSET Above(o), NEW n, NEW s, NEW i,
         Deduping(C, o, n, s, i), i < Len(s), ~Same(o, s[i], s[i + 1])
  PROVE  Deduping(C, o, n, s, i + 1)
<1>1. s \in Seq(C) /\ Len(s) \in Nat /\ i \in 1..Len(s) /\ i + 1 \in 1..Len(s) /\ i < i + 1
  BY DEF Deduping
<1>2. \A j \in 1..Len(s) : s[j] \in C /\ s[j] \in Above(o)
  BY <1>1
<1>3. ~Before(o, s[i + 1], s[i])
  BY <1>1 DEF Deduping, WeaklyOrdered
<1>4. Before(o, s[i], s[i + 1])
  BY <1>3 DEF Same
<1>5. ASSUME NEW j \in 1..(i + 1), NEW k \in 1..(i + 1), j < k PROVE Before(o, s[j], s[k])
  <2>1. CASE k = i + 1 /\ j = i
    BY <1>4, <2>1
  <2>2. CASE k = i + 1 /\ j # i
    <3>1. j \in 1..i /\ i \in 1..i /\ j < i /\ j \in 1..Len(s)
      BY <1>1, <1>5, <2>2
    <3>2. Before(o, s[j], s[i])
      BY <3>1 DEF Deduping
    <3>3. s[j] \in Above(o) /\ s[i] \in Above(o) /\ s[i + 1] \in Above(o)
      BY <1>1, <1>2, <3>1
    <3> QED
      BY <1>3, <2>2, <3>2, <3>3, BeforeOrder
  <2>3. CASE k # i + 1
    <3>1. j \in 1..i /\ k \in 1..i
      BY <1>1, <1>5, <2>3
    <3> QED
      BY <1>5, <3>1 DEF Deduping
  <2> QED
    BY <2>1, <2>2, <2>3
<1> QED
  BY <1>1, <1>5 DEF Deduping

\* On the way is transitive.
LEMMA CoveredOrder ==
  ASSUME NEW o \in Point, NEW p \in Above(o), NEW q \in Above(o), NEW r \in Above(o),
         Covered(o, p, q), Covered(o, q, r)
  PROVE  Covered(o, p, r)
<1>1. Same(o, p, r)
  BY BeforeOrder DEF Covered, Same
<1>2. \A x \in Above(o) : Far(o, x) \in Int
  <2> SUFFICES ASSUME NEW x \in Above(o) PROVE Far(o, x) \in Int
    OBVIOUS
  <2>1. Sub(x, o)[1] \in Int /\ Sub(x, o)[2] \in Int
    BY DEF Sub, Point, Above
  <2>2. \A a, e \in Int : a*a + e*e \in Int
    OBVIOUS
  <2> QED
    BY <2>1, <2>2 DEF Far
<1>3. Far(o, p) <= Far(o, r)
  BY <1>2 DEF Covered
<1> QED
  BY <1>1, <1>3 DEF Covered

\* What RemoveAt leaves.
LEMMA Removed ==
  ASSUME NEW C, NEW s \in Seq(C), NEW k \in 1..Len(s)
  PROVE  /\ RemoveAt(s, k) \in Seq(C) /\ Len(RemoveAt(s, k)) = Len(s) - 1
         /\ \A j \in 1..(Len(s) - 1) : RemoveAt(s, k)[j] = IF j < k THEN s[j] ELSE s[j + 1]
<1> DEFINE a == SubSeq(s, 1, k - 1)
           e == SubSeq(s, k + 1, Len(s))
<1>1. Len(s) \in Nat /\ \A j \in 1..Len(s) : s[j] \in C
  OBVIOUS
<1>2. a \in Seq(C) /\ Len(a) = k - 1 /\ \A j \in 1..(k - 1) : a[j] = s[j]
  BY <1>1
<1>3. e \in Seq(C) /\ Len(e) = Len(s) - k /\ \A j \in 1..(Len(s) - k) : e[j] = s[k + j]
  <2>1. \A j \in (k + 1)..Len(s) : s[j] \in C
    BY <1>1
  <2>2. /\ e \in Seq(C) /\ Len(e) = IF k + 1 <= Len(s) THEN Len(s) - (k + 1) + 1 ELSE 0
        /\ \A j \in 1..(Len(s) - (k + 1) + 1) : e[j] = s[(k + 1) + j - 1]
    BY <1>1, <2>1, SubSeqProperties
  <2> QED
    BY <1>1, <2>2
<1> HIDE DEF a, e
<1>4. /\ a \o e \in Seq(C) /\ Len(a \o e) = Len(a) + Len(e)
      /\ \A j \in 1..(Len(a) + Len(e)) : (a \o e)[j] = IF j <= Len(a) THEN a[j] ELSE e[j - Len(a)]
  BY <1>2, <1>3, ConcatProperties
<1>5. RemoveAt(s, k) = a \o e
  BY DEF RemoveAt, a, e
<1>6. ASSUME NEW j \in 1..(Len(s) - 1)
      PROVE  (a \o e)[j] = IF j < k THEN s[j] ELSE s[j + 1]
  <2>1. CASE j < k
    BY <1>1, <1>2, <1>3, <1>4, <2>1
  <2>2. CASE ~(j < k)
    <3>1. j - (k - 1) \in 1..(Len(s) - k) /\ k + (j - (k - 1)) = j + 1
      BY <1>1, <2>2
    <3>2. (a \o e)[j] = e[j - (k - 1)]
      BY <1>1, <1>2, <1>3, <1>4, <2>2
    <3> QED
      BY <1>3, <2>2, <3>1, <3>2
  <2> QED
    BY <2>1, <2>2
<1>7. Len(a) + Len(e) = Len(s) - 1
  BY <1>1, <1>2, <1>3
<1> QED
  BY <1>4, <1>5, <1>6, <1>7

\* Of two neighbours of one angle, the one removed is on the way to the other.
LEMMA DedupeRemove ==
  ASSUME NEW o \in Point, NEW C \in SUBSET Above(o), NEW n, NEW s, NEW i,
         Deduping(C, o, n, s, i), i < Len(s), Same(o, s[i], s[i + 1])
  PROVE  Deduping(C, o, n, RemoveAt(s, IF Far(o, s[i]) < Far(o, s[i + 1]) THEN i ELSE i + 1), i)
<1> DEFINE k == IF Far(o, s[i]) < Far(o, s[i + 1]) THEN i ELSE i + 1
           l == IF Far(o, s[i]) < Far(o, s[i + 1]) THEN i + 1 ELSE i
           t == RemoveAt(s, k)
           Old(j) == IF j < k THEN j ELSE j + 1
           New(j) == IF j < k THEN j ELSE j - 1
<1>1. /\ s \in Seq(C) /\ Len(s) \in Nat /\ i \in 1..Len(s) /\ i + 1 \in 1..Len(s)
      /\ k \in 1..Len(s) /\ l \in 1..Len(s) /\ k # l /\ (k = i \/ k = i + 1)
      /\ (l = i \/ l = i + 1)
  BY DEF Deduping
<1>2. \A j \in 1..Len(s) : s[j] \in C /\ s[j] \in Above(o)
  BY <1>1
<1>3. Covered(o, s[k], s[l])
  <2>1. \A x \in Above(o) : Far(o, x) \in Int
    <3> SUFFICES ASSUME NEW x \in Above(o) PROVE Far(o, x) \in Int
      OBVIOUS
    <3>1. Sub(x, o)[1] \in Int /\ Sub(x, o)[2] \in Int
      BY DEF Sub, Point, Above
    <3>2. \A a, e \in Int : a*a + e*e \in Int
      OBVIOUS
    <3> QED
      BY <3>1, <3>2 DEF Far
  <2>2. Far(o, s[i]) \in Int /\ Far(o, s[i + 1]) \in Int
    BY <1>1, <1>2, <2>1
  <2>3. CASE Far(o, s[i]) < Far(o, s[i + 1])
    BY <2>2, <2>3 DEF Covered, Same
  <2>4. CASE ~(Far(o, s[i]) < Far(o, s[i + 1]))
    BY <2>2, <2>4 DEF Covered, Same
  <2> QED
    BY <2>3, <2>4
<1>4. /\ t \in Seq(C) /\ Len(t) = Len(s) - 1
      /\ \A j \in 1..(Len(s) - 1) : t[j] = s[Old(j)]
  <2> HIDE DEF k
  <2>1. /\ t \in Seq(C) /\ Len(t) = Len(s) - 1
        /\ \A j \in 1..(Len(s) - 1) : t[j] = IF j < k THEN s[j] ELSE s[j + 1]
    BY <1>1, Removed
  <2> QED
    BY <2>1
<1> HIDE DEF k, l, t
<1>5. ASSUME NEW j \in 1..Len(s), j # k PROVE New(j) \in 1..Len(t) /\ t[New(j)] = s[j]
  <2>1. New(j) \in 1..(Len(s) - 1) /\ Old(New(j)) = j
    BY <1>1, <1>5
  <2> QED
    BY <1>4, <2>1
<1>6. ASSUME NEW j \in 1..Len(t) PROVE Old(j) \in 1..Len(s) /\ t[j] = s[Old(j)]
  BY <1>1, <1>4
<1>7. \A j, m \in 1..Len(t) : j < m => Old(j) < Old(m)
  BY <1>1, <1>4
<1> HIDE DEF Old, New
<1>8. WeaklyOrdered(o, t)
  BY <1>6, <1>7 DEF Deduping, WeaklyOrdered
<1>9. i \in 1..Len(t)
  BY <1>1, <1>4
<1>10. ASSUME NEW j \in 1..i, NEW m \in 1..i, j < m PROVE Before(o, t[j], t[m])
  <2>1. j < i /\ j \in 1..(Len(s) - 1) /\ m \in 1..(Len(s) - 1) /\ j < k
    BY <1>1, <1>4, <1>9, <1>10
  <2>2. t[j] = s[j]
    BY <1>4, <2>1 DEF Old
  <2>3. CASE m < i
    <3>1. m < k
      BY <1>1, <2>3
    <3>2. t[m] = s[m]
      BY <1>4, <2>1, <3>1 DEF Old
    <3> QED
      BY <1>10, <2>2, <3>2 DEF Deduping
  <2>4. CASE m = i
    <3>1. Before(o, s[j], s[i])
      <4>1. i \in 1..i
        BY <1>1
      <4> QED
        BY <2>1, <4>1 DEF Deduping
    <3>2. CASE k = i + 1
      <4>1. t[m] = s[i]
        BY <1>1, <1>4, <2>1, <2>4, <3>2 DEF Old
      <4> QED
        BY <2>2, <3>1, <4>1
    <3>3. CASE k = i
      <4>1. t[m] = s[i + 1]
        BY <1>1, <1>4, <2>1, <2>4, <3>3 DEF Old
      <4>2. s[j] \in Above(o) /\ s[i] \in Above(o) /\ s[i + 1] \in Above(o)
        BY <1>1, <1>2, <2>1
      <4>3. ~Before(o, s[i + 1], s[i])
        BY DEF Same
      <4> QED
        BY <2>2, <3>1, <4>1, <4>2, <4>3, BeforeOrder
    <3> QED
      BY <1>1, <3>2, <3>3
  <2> QED
    BY <1>1, <2>3, <2>4
<1>11. ASSUME NEW c \in C \ {o} PROVE \E j \in 1..Len(t) : Covered(o, c, t[j])
  <2>1. PICK j \in 1..Len(s) : Covered(o, c, s[j])
    BY DEF Deduping
  <2>2. CASE j = k
    <3>1. Covered(o, c, s[l])
      <4>1. c \in Above(o) /\ s[k] \in Above(o) /\ s[l] \in Above(o)
        BY <1>1, <1>2
      <4> QED
        BY <1>3, <2>1, <2>2, <4>1, CoveredOrder
    <3> QED
      BY <1>1, <1>5, <3>1
  <2>3. CASE j # k
    BY <1>5, <2>1, <2>3
  <2> QED
    BY <2>2, <2>3
<1>12. ASSUME n # 1 PROVE \E j \in 1..Len(t) : t[j] = o
  <2>1. PICK j \in 1..Len(s) : s[j] = o
    BY <1>12 DEF Deduping
  <2>2. CASE j = k
    <3>1. s[l] = o
      BY <1>3, <2>1, <2>2 DEF Covered, Same, Before
    <3> QED
      BY <1>1, <1>5, <3>1
  <2>3. CASE j # k
    BY <1>5, <2>1, <2>3
  <2> QED
    BY <2>2, <2>3
<1>13. Deduping(C, o, n, t, i)
  BY <1>4, <1>8, <1>9, <1>10, <1>11, <1>12 DEF Deduping
<1> QED
  BY <1>13 DEF t, k

\* One point, or none but the lowest: the corners are on one line.
LEMMA TooFew ==
  ASSUME NEW o \in Point, NEW C \in SUBSET Above(o), o \in C, NEW n, NEW s, NEW i,
         Deduping(C, o, n, s, i), Len(s) < 2
  PROVE  /\ \A p, q, r \in C : Cross(Sub(q, p), Sub(r, p)) = 0
         /\ n = 1 \/ C = {o}
<1>1. s \in Seq(C) /\ Len(s) = 1 /\ s[1] \in C
  <2>1. s \in Seq(C) /\ i \in 1..Len(s)
    BY DEF Deduping
  <2>2. Len(s) \in Nat /\ 1 <= Len(s)
    BY <2>1
  <2>3. Len(s) = 1
    <3> DEFINE n0 == Len(s)
    <3>1. n0 \in Nat /\ 1 <= n0 /\ n0 < 2
      BY <2>2
    <3> HIDE DEF n0
    <3>2. n0 = 1
      BY <3>1
    <3> QED
      BY <3>2 DEF n0
  <2> QED
    BY <2>1, <2>3
<1>2. \A c \in C \ {o} : Covered(o, c, s[1])
  BY <1>1 DEF Deduping
<1>3. \A c \in C : c \in Point /\ c \in Above(o)
  BY DEF Above
<1>4. CASE s[1] = o
  <2>1. C = {o}
    BY <1>2, <1>4 DEF Covered, Same, Before
  <2>2. Cross(Sub(o, o), Sub(o, o)) = 0
    BY DEF Cross, Sub, Point
  <2> QED
    BY <2>1, <2>2
<1>5. CASE s[1] # o
  <2>1. n = 1
    BY <1>1, <1>5 DEF Deduping
  <2>2. ASSUME NEW c \in C PROVE Area(o, s[1], c) = 0
    <3>1. CASE c = o
      BY <1>1, <1>3, <3>1, AreaFacts
    <3>2. CASE c # o
      <4>1. Area(o, c, s[1]) = 0
        BY <1>1, <1>2, <1>3, <3>2, Ray
      <4> QED
        BY <1>1, <1>3, <4>1, AreaFacts
    <3> QED
      BY <3>1, <3>2
  <2>3. C \in SUBSET Point
    BY <1>3
  <2>4. s[1] \in Above(o)
    BY <1>1, <1>3
  <2>5. \A p, q, r \in C : Cross(Sub(q, p), Sub(r, p)) = 0
    BY <1>5, <2>2, <2>3, <2>4, OneDirection
  <2> QED
    BY <2>1, <2>5
<1> QED
  BY <1>4, <1>5

\* The origin and the first point are a chain.
LEMMA FirstEdge ==
  ASSUME NEW o \in Point, NEW C \in SUBSET Above(o), o \in C, NEW n, NEW s,
         Deduping(C, o, n, s, Len(s)), Len(s) >= 2
  PROVE  Chain(C, o, <<o, s[1]>>, After(s, 2))
<1> DEFINE h == <<o, s[1]>>
           R == After(s, 2)
           q == s[1]
<1>1. /\ s \in Seq(C) /\ Len(s) \in Nat
      /\ \A j \in 1..Len(s) : s[j] \in C /\ s[j] \in Point /\ s[j] \in Above(o)
  BY DEF Deduping, Above
<1>2. \A c \in C : c \in Point /\ c \in Above(o)
  BY DEF Above
<1>3. /\ q \in C /\ q \in Point /\ q \in Above(o) /\ s[2] \in C
      /\ \A j \in 2..Len(s) : Before(o, q, s[j])
  BY <1>1 DEF Deduping
<1>4. q # o /\ R \subseteq C /\ \A r \in R : Before(o, q, r)
  <2>1. 2 \in 2..Len(s)
    BY <1>1
  <2> QED
    BY <1>1, <1>3, <2>1 DEF After, Before
<1>5. h \in Seq(C) /\ Len(h) = 2 /\ h[1] = o /\ h[2] = q
  BY <1>3
<1> HIDE DEF h, q
<1>6. \A i \in 2..Len(h) : i = 2 /\ h[i] = q
  BY <1>5
<1>7. \A i, j \in 2..Len(h) : i < j => Area(o, h[i], h[j]) > 0
  BY <1>5
<1>8. \A i \in 1..(Len(h) - 2) : Turn(h[i], h[i + 1], h[i + 2]) > 0
  BY <1>5
<1>9. ASSUME NEW c \in C \ {o}, ~Covered(o, c, q)
      PROVE  \E r \in R : Covered(o, c, r)
  <2>1. PICK j \in 1..Len(s) : Covered(o, c, s[j])
    BY DEF Deduping
  <2>2. j \in 2..Len(s)
    BY <1>1, <1>9, <2>1 DEF q
  <2> QED
    BY <2>1, <2>2 DEF After
<1>10. ASSUME NEW c \in C \ {o}, NEW r \in R, Covered(o, c, r) PROVE Area(o, q, c) > 0
  <2>1. c \in Above(o) /\ r \in Above(o) /\ q \in Above(o)
    BY <1>2, <1>3, <1>4
  <2>2. Before(o, q, r) /\ ~Before(o, c, r)
    BY <1>4, <1>10 DEF Covered, Same
  <2>3. Before(o, q, c)
    BY <1>10, <2>1, <2>2, BeforeOrder DEF Covered, Same
  <2> QED
    BY <2>3 DEF Before
<1>11. ASSUME NEW c \in C \ {o}, Covered(o, c, q)
       PROVE  /\ Area(o, c, q) = 0 /\ Area(o, q, c) = 0
              /\ Far(o, c) <= Far(o, q)
              /\ \A r \in R : Before(o, c, r)
  <2>1. Area(o, c, q) = 0
    BY <1>2, <1>3, <1>11, Ray
  <2>2. Area(o, q, c) = 0
    BY <1>2, <1>3, <2>1, AreaFacts
  <2>3. ASSUME NEW r \in R PROVE Before(o, c, r)
    <3>1. c \in Above(o) /\ r \in Above(o) /\ q \in Above(o)
      BY <1>2, <1>3, <1>4
    <3> QED
      BY <1>4, <1>11, <3>1, BeforeOrder DEF Covered, Same
  <2> QED
    BY <1>11, <2>1, <2>2, <2>3 DEF Covered
<1>12. /\ Area(o, q, o) = 0 /\ Far(o, o) = 0 /\ 0 <= Far(o, q)
  <2>1. Area(o, q, o) = 0
    BY <1>3, AreaFacts
  <2>2. Far(o, o) = 0
    BY DEF Far, Sub, Point
  <2>3. Sub(q, o)[1] \in Int /\ Sub(q, o)[2] \in Int
    BY <1>3 DEF Sub, Point
  <2>4. \A a \in Int : a * a \in Int /\ a * a >= 0
    OBVIOUS
  <2>5. 0 <= Far(o, q)
    BY <2>3, <2>4 DEF Far
  <2> QED
    BY <2>1, <2>2, <2>5
<1>13. ASSUME NEW c \in C
       PROVE  /\ Area(o, h[2], c) >= 0
              /\ Area(o, h[2], c) = 0 => Far(o, c) <= Far(o, h[2])
  <2>1. Area(o, q, c) \in Int
    BY <1>2, <1>3, AreaFacts
  <2>2. CASE c = o
    BY <1>5, <1>12, <2>2
  <2>3. CASE c # o /\ Covered(o, c, q)
    BY <1>5, <1>11, <2>3
  <2>4. CASE c # o /\ ~Covered(o, c, q)
    <3>1. Area(o, q, c) > 0
      BY <1>9, <1>10, <2>4
    <3> QED
      BY <1>5, <2>1, <3>1
  <2> QED
    BY <2>2, <2>3, <2>4
<1>14. ASSUME NEW c \in C \ {o}, Covered(o, c, q) PROVE Done(o, h, R, c)
  <2>1. Turn(o, q, c) >= 0
    <3>1. c \in Point
      BY <1>2
    <3>2. Turn(o, q, c) = Area(o, o, q) + Area(o, q, c) - Area(o, o, c)
      BY <1>3, <3>1, TurnIsArea
    <3>3. Area(o, o, q) = 0 /\ Area(o, o, c) = 0
      BY <1>3, <3>1, AreaFacts
    <3> QED
      BY <1>11, <1>14, <3>2, <3>3
  <2>2. \A i \in 1..(Len(h) - 1) : Turn(h[i], h[i + 1], c) >= 0
    <3>1. \A i \in 1..(Len(h) - 1) : i = 1
      BY <1>5
    <3> QED
      BY <1>5, <2>1, <3>1
  <2>3. Area(o, c, h[Len(h)]) >= 0
    BY <1>5, <1>11, <1>14
  <2> QED
    BY <1>11, <1>14, <2>2, <2>3 DEF Done
<1>15. \A c \in C \ {o} : (\E r \in R : Covered(o, c, r)) \/ Done(o, h, R, c)
  BY <1>9, <1>14
<1>16. /\ \A i \in 2..Len(h) : h[i] # o
       /\ \A i \in 2..Len(h) : \A r \in R : Before(o, h[i], r)
  BY <1>4, <1>6
<1>17. Chain(C, o, h, R)
  <2> HIDE DEF R
  <2> QED
    BY <1>4, <1>5, <1>7, <1>8, <1>13, <1>15, <1>16 DEF Chain
<1> QED
  BY <1>17 DEF h, q

\* The next point comes before all that remain, and leaves them.
LEMMA NextFirst ==
  ASSUME NEW o \in Point, NEW C \in SUBSET Above(o), NEW s \in Seq(C), NEW i \in 1..Len(s),
         Ordered(o, s, i)
  PROVE  /\ s[i] \in After(s, i)
         /\ \A y \in After(s, i) \ {s[i]} : Before(o, s[i], y)
         /\ After(s, i) \ {s[i]} = After(s, i + 1)
         /\ Ordered(o, s, i + 1)
<1>1. Len(s) \in Nat /\ i \in i..Len(s)
  OBVIOUS
<1>2. \A j \in (i + 1)..Len(s) : Before(o, s[i], s[j])
  <2>1. \A j \in (i + 1)..Len(s) : j \in i..Len(s) /\ i < j
    BY <1>1
  <2> QED
    BY <1>1, <2>1 DEF Ordered
<1>3. \A j \in i..Len(s) : j = i \/ j \in (i + 1)..Len(s)
  BY <1>1
<1>4. \A j \in (i + 1)..Len(s) : j \in i..Len(s)
  BY <1>1
<1>5. \A j \in (i + 1)..Len(s) : s[j] # s[i]
  <2>1. s[i] \in Point
    BY DEF Above
  <2>2. Area(o, s[i], s[i]) = 0
    BY <2>1, AreaFacts
  <2>3. ~Before(o, s[i], s[i])
    BY <2>2 DEF Before
  <2> QED
    BY <1>2, <2>3
<1>6. s[i] \in After(s, i)
  BY <1>1 DEF After
<1>7. After(s, i) \ {s[i]} = After(s, i + 1)
  BY <1>3, <1>4, <1>5 DEF After
<1>8. \A y \in After(s, i + 1) : Before(o, s[i], y)
  BY <1>2 DEF After
<1>9. Ordered(o, s, i + 1)
  BY <1>4 DEF Ordered
<1> QED
  BY <1>6, <1>7, <1>8, <1>9

\* A number from two on that is not two.
LEMMA AtLeastThree ==
  ASSUME NEW n \in Nat, n >= 2, n # 2
  PROVE  n >= 3 /\ n - 1 \in 2..n /\ n - 1 < n
OBVIOUS

\* The scan adds a point that makes a left turn.
LEMMA ScanAdd ==
  ASSUME NEW o \in Point, NEW C \in SUBSET Above(o), NEW h, NEW s, NEW i,
         Scanning(C, o, h, s, i), i <= Len(s), o \in C,
         Turn(h[Len(h) - 1], h[Len(h)], s[i]) > 0
  PROVE  Scanning(C, o, Append(h, s[i]), s, i + 1)
<1> DEFINE r == s[i]
           g == Append(h, r)
           R == After(s, i)
<1>1. s \in Seq(C) /\ Len(s) \in Nat /\ i \in 1..Len(s) /\ Ordered(o, s, i)
  BY DEF Scanning
<1>2. r \in R /\ (\A y \in R \ {r} : Before(o, r, y)) /\ R \ {r} = After(s, i + 1)
      /\ Ordered(o, s, i + 1)
  BY <1>1, NextFirst
<1>3. Chain(C, o, h, R) /\ (Len(h) = 2 => r # o)
  BY <1>1 DEF Scanning
<1>4. h \in Seq(C) /\ Len(h) \in Nat /\ Len(h) >= 2 /\ r \in C
  BY <1>1, <1>3 DEF Chain
<1>5. g \in Seq(C) /\ Len(g) = Len(h) + 1 /\ g[Len(h) + 1] = r /\ Front(g) = h /\ Last(g) = r
  BY <1>4 DEF Front, Last
<1> HIDE DEF R
<1>6. CASE r # o
  <2>1. Chain(C, o, g, R \ {r})
    BY <1>2, <1>3, <1>6, ChainAdd
  <2>2. Len(g) # 2
    BY <1>4, <1>5
  <2>3. Chain(C, o, g, After(s, i + 1))
    BY <1>2, <2>1
  <2> HIDE DEF g, r
  <2>4. Scanning(C, o, g, s, i + 1)
    BY <1>1, <1>2, <2>2, <2>3 DEF Scanning
  <2> QED
    BY <2>4 DEF g, r
<1>7. CASE r = o
  <2>1. Chain(C, o, h, {})
    BY <1>2, <1>3, <1>7, ChainEnd
  <2>2. After(s, i + 1) = {}
    BY <1>2, <1>7 DEF Before
  <2>3. i + 1 > Len(s)
    <3>1. i + 1 <= Len(s) => s[i + 1] \in After(s, i + 1)
      BY <1>1 DEF After
    <3> QED
      BY <1>1, <2>2, <3>1
  <2>4. Len(g) >= 3
    BY <1>3, <1>4, <1>5, <1>7
  <2>5. Chain(C, o, Front(g), {}) /\ Last(g) = o /\ g \in Seq(C)
    BY <1>5, <1>7, <2>1
  <2> HIDE DEF g, r
  <2>6. Scanning(C, o, g, s, i + 1)
    BY <1>1, <1>2, <2>3, <2>4, <2>5 DEF Scanning
  <2> QED
    BY <2>6 DEF g, r
<1> QED
  BY <1>6, <1>7

\* The scan never takes off the first edge.
LEMMA ScanPop ==
  ASSUME NEW o \in Point, NEW C \in SUBSET Above(o), NEW h, NEW s, NEW i,
         Scanning(C, o, h, s, i), i <= Len(s),
         ~(Turn(h[Len(h) - 1], h[Len(h)], s[i]) > 0)
  PROVE  Scanning(C, o, Front(h), s, i)
<1> DEFINE r == s[i]
           g == Front(h)
           R == After(s, i)
           c == h[Len(h) - 1]
           d == h[Len(h)]
<1>1. s \in Seq(C) /\ Len(s) \in Nat /\ i \in 1..Len(s) /\ Ordered(o, s, i)
  BY DEF Scanning
<1>2. r \in R /\ \A y \in R \ {r} : Before(o, r, y)
  BY <1>1, NextFirst
<1>3. Chain(C, o, h, R) /\ (Len(h) = 2 => r # o)
  BY <1>1 DEF Scanning
<1>s. Shape(C, o, h, R)
  BY <1>3, ChainShape
<1>4. /\ h \in Seq(C) /\ Len(h) \in Nat /\ Len(h) >= 2 /\ h[1] = o /\ r \in C /\ r \in Point
      /\ Len(h) - 1 \in 1..Len(h) /\ Len(h) \in 2..Len(h) /\ Len(h) \in 1..Len(h)
      /\ c \in Point /\ d \in Point
  <2>1. /\ h \in Seq(C) /\ Len(h) \in Nat /\ Len(h) >= 2 /\ h[1] = o
        /\ \A j \in 1..Len(h) : h[j] \in Point
    BY <1>s DEF Shape
  <2>2. r \in C /\ r \in Point
    BY <1>2, <1>s DEF Shape
  <2>3. Len(h) - 1 \in 1..Len(h) /\ Len(h) \in 2..Len(h) /\ Len(h) \in 1..Len(h)
    BY <2>1
  <2> QED
    BY <2>1, <2>2, <2>3
<1> HIDE DEF R
<1>5. Turn(c, d, r) = Area(o, c, d) + Area(o, d, r) - Area(o, c, r)
  BY <1>4, TurnIsArea
<1>6. Area(o, c, d) \in Int /\ Area(o, d, r) \in Int /\ Area(o, c, r) \in Int
  BY <1>4, AreaFacts
<1>7. r # o
  <2> SUFFICES ASSUME r = o PROVE FALSE
    OBVIOUS
  <2>0. Len(h) \in Nat /\ Len(h) >= 2 /\ Len(h) # 2
    BY <1>3, <1>4
  <2>1. Len(h) - 1 \in 2..Len(h) /\ Len(h) - 1 < Len(h)
    BY <2>0, AtLeastThree, Zenon
  <2>2. Area(o, c, d) > 0
    BY <1>4, <1>s, <2>1 DEF Shape
  <2>3. Area(o, d, r) = 0 /\ Area(o, c, r) = 0
    BY <1>4, AreaFacts
  <2>4. Turn(c, d, r) > 0
    BY <1>5, <1>6, <2>2, <2>3
  <2> QED
    BY <2>4
<1>8. Len(h) # 2
  <2> SUFFICES ASSUME Len(h) = 2 PROVE FALSE
    OBVIOUS
  <2>1. c = o
    BY <1>4
  <2>2. Area(o, d, r) > 0
    BY <1>2, <1>4, <1>7, <1>s DEF Shape
  <2>3. Area(o, c, d) = 0 /\ Area(o, c, r) = 0
    BY <1>4, <2>1, AreaFacts
  <2>4. Turn(c, d, r) > 0
    BY <1>5, <1>6, <2>2, <2>3
  <2> QED
    BY <2>4
<1>9. Turn(c, d, r) <= 0
  <2>1. Turn(c, d, r) \in Int
    BY <1>5, <1>6
  <2> QED
    BY <2>1
<1>10. Chain(C, o, g, R)
  <2>1. Len(h) \in Nat /\ Len(h) >= 2 /\ Len(h) # 2
    BY <1>4, <1>8
  <2>2. Len(h) >= 3
    BY <2>1, AtLeastThree, Zenon
  <2> QED
    BY <1>2, <1>3, <1>7, <1>9, <2>2, ChainPop
<1>11. Scanning(C, o, g, s, i)
  <2> HIDE DEF g
  <2> QED
    BY <1>1, <1>7, <1>10 DEF Scanning, R
<1> QED
  BY <1>11

\* With two points in the polygon the inner while has its two indices.
LEMMA ScanLength ==
  ASSUME NEW o, NEW C, NEW h, NEW s, NEW i, Scanning(C, o, h, s, i)
  PROVE  h \in Seq(C) /\ Len(h) \in Nat /\ Len(h) >= 2
<1>1. h \in Seq(C) /\ Len(h) >= 2
  BY DEF Scanning, Chain
<1> QED
  BY <1>1

\* The first two points: the second is the origin, or the scan may add it.
LEMMA DedupeEnd ==
  ASSUME NEW o \in Point, NEW C \in SUBSET Above(o), o \in C, NEW n, NEW s,
         Deduping(C, o, n, s, Len(s)), Len(s) >= 2
  PROVE  Scanning(C, o, <<o>> \o SubSeq(s, 1, 2), SubSeq(s, 3, Len(s)), 1)
<1> DEFINE h == <<o, s[1]>>
           r == s[2]
           t == SubSeq(s, 3, Len(s))
           g == Append(h, r)
<1>1. /\ s \in Seq(C) /\ Len(s) \in Nat /\ 1 \in 1..Len(s) /\ 2 \in 1..Len(s)
      /\ \A j \in 1..Len(s) : s[j] \in C
  BY DEF Deduping
<1>2. \A j, k \in 1..Len(s) : j < k => Before(o, s[j], s[k])
  BY DEF Deduping
<1>3. Ordered(o, s, 2)
  <2>1. \A j \in 2..Len(s) : j \in 1..Len(s)
    BY <1>1
  <2> QED
    BY <1>2, <2>1 DEF Ordered
<1>4. /\ r \in After(s, 2) /\ (\A y \in After(s, 2) \ {r} : Before(o, r, y))
      /\ After(s, 2) \ {r} = After(s, 3) /\ Ordered(o, s, 3)
  <2>1. 2 + 1 = 3
    OBVIOUS
  <2> QED
    BY <1>1, <1>3, <2>1, NextFirst
<1>5. <<o>> \o SubSeq(s, 1, 2) = g
  <2> DEFINE u == SubSeq(s, 1, 2)
  <2>1. u \in Seq(C) /\ Len(u) = 2 /\ \A j \in 1..2 : u[j] = s[j]
    BY <1>1
  <2> HIDE DEF u
  <2>2. u = <<s[1], s[2]>>
    BY <1>1, <2>1
  <2>3. <<o>> \o u = g
    BY <2>2
  <2> QED
    BY <2>3 DEF u
<1>6. t \in Seq(C) /\ Len(t) = Len(s) - 2 /\ \A j \in 1..(Len(s) - 2) : t[j] = s[j + 2]
  <2>1. \A j \in 3..Len(s) : s[j] \in C
    BY <1>1
  <2>2. /\ t \in Seq(C) /\ Len(t) = IF 3 <= Len(s) THEN Len(s) - 3 + 1 ELSE 0
        /\ \A j \in 1..(Len(s) - 3 + 1) : t[j] = s[3 + j - 1]
    BY <1>1, <2>1, SubSeqProperties
  <2> HIDE DEF t
  <2>3. Len(s) - 3 + 1 = Len(s) - 2 /\ (3 <= Len(s) \/ Len(s) - 2 = 0)
    <3>1. ASSUME NEW m \in Nat, m >= 2
          PROVE  m - 3 + 1 = m - 2 /\ (3 <= m \/ m - 2 = 0)
      BY <3>1
    <3> QED
      BY <1>1, <3>1, Zenon
  <2>4. \A j \in 1..(Len(s) - 2) : 3 + j - 1 = j + 2
    BY <1>1
  <2> QED
    BY <2>2, <2>3, <2>4
<1> HIDE DEF t
<1>7. After(t, 1) = After(s, 3)
  <2>1. \A j \in 1..Len(t) : j + 2 \in 3..Len(s) /\ t[j] = s[j + 2]
    BY <1>1, <1>6
  <2>2. \A j \in 3..Len(s) : j - 2 \in 1..Len(t) /\ t[j - 2] = s[j]
    BY <1>1, <1>6
  <2> QED
    BY <2>1, <2>2 DEF After
<1>8. Ordered(o, t, 1)
  <2>1. \A j \in 1..Len(t) : j + 2 \in 3..Len(s) /\ t[j] = s[j + 2]
    BY <1>1, <1>6
  <2>2. \A j, k \in 1..Len(t) : j < k => j + 2 < k + 2
    BY <1>1, <1>6
  <2> QED
    BY <1>4, <2>1, <2>2 DEF Ordered
<1>9. Chain(C, o, h, After(s, 2))
  BY FirstEdge
<1>10. h \in Seq(C) /\ Len(h) = 2 /\ h[1] = o /\ h[2] = s[1] /\ r \in C
  BY <1>1
<1>11. g \in Seq(C) /\ Len(g) = 3 /\ Front(g) = h /\ Last(g) = r
  <2>1. g \in Seq(C) /\ Len(g) = 3 /\ \A j \in 1..2 : g[j] = h[j]
    BY <1>10, AppendProperties DEF g
  <2>2. Last(g) = r
    BY <1>10, AppendProperties DEF g, Last
  <2> DEFINE f == SubSeq(g, 1, 2)
  <2>3. f \in Seq(C) /\ Len(f) = 2 /\ \A j \in 1..2 : f[j] = g[j]
    BY <2>1
  <2>4. Front(g) = f
    BY <2>1 DEF Front
  <2> HIDE DEF f
  <2>5. f = h
    BY <1>10, <2>1, <2>3, SeqEqual
  <2> QED
    BY <2>1, <2>2, <2>4, <2>5
<1> HIDE DEF h, r, g
<1>12. CASE r = o
  <2>1. Chain(C, o, h, {})
    BY <1>4, <1>9, <1>12, ChainEnd
  <2>2. After(s, 3) = {}
    BY <1>4, <1>12 DEF Before
  <2>3. 1 > Len(t)
    <3>1. 1 <= Len(t) => t[1] \in After(t, 1)
      BY <1>1, <1>6 DEF After
    <3> QED
      BY <1>1, <1>6, <1>7, <2>2, <3>1
  <2>4. Scanning(C, o, g, t, 1)
    BY <1>6, <1>8, <1>11, <1>12, <2>1, <2>3 DEF Scanning
  <2> QED
    BY <1>5, <2>4 DEF t
<1>13. CASE r # o
  <2>1. Turn(h[Len(h) - 1], h[Len(h)], r) > 0
    <3>1. Before(o, s[1], r)
      BY <1>1, <1>2 DEF r
    <3>2. Area(o, s[1], r) > 0 /\ s[1] \in Point /\ r \in Point
      BY <1>1, <1>13, <3>1 DEF Before, Above, r
    <3>3. Turn(o, s[1], r) = Area(o, o, s[1]) + Area(o, s[1], r) - Area(o, o, r)
      BY <3>2, TurnIsArea
    <3>4. Area(o, o, s[1]) = 0 /\ Area(o, o, r) = 0 /\ Area(o, s[1], r) \in Int
      BY <3>2, AreaFacts
    <3>5. Turn(o, s[1], r) > 0
      BY <3>2, <3>3, <3>4
    <3>6. Len(h) - 1 = 1
      BY <1>10
    <3> QED
      BY <1>10, <3>5, <3>6
  <2>2. Chain(C, o, g, After(s, 2) \ {r})
    BY <1>4, <1>9, <1>13, <2>1, ChainAdd DEF g
  <2>3. Chain(C, o, g, After(t, 1)) /\ Len(g) # 2
    BY <1>4, <1>7, <1>11, <2>2
  <2>4. Scanning(C, o, g, t, 1)
    BY <1>6, <1>8, <2>3 DEF Scanning
  <2> QED
    BY <1>5, <2>4 DEF t
<1> QED
  BY <1>12, <1>13

(***************************************************************************)
(* Comparisons, and when rounding does not change them.                    *)
(***************************************************************************)

\* Only o is nowhere from o.
LEMMA SamePoint ==
  ASSUME NEW o \in Point, NEW p \in Point
  PROVE  Sub(p, o) = <<0, 0>> <=> p = o
<1>1. p = <<p[1], p[2]>> /\ p[1] \in Int /\ p[2] \in Int
  BY DEF Point
<1>2. o = <<o[1], o[2]>> /\ o[1] \in Int /\ o[2] \in Int
  BY DEF Point
<1>3. Sub(p, o) = <<p[1] - o[1], p[2] - o[2]>>
  BY DEF Sub
<1>4. Sub(p, o) = <<0, 0>> <=> p[1] - o[1] = 0 /\ p[2] - o[2] = 0
  BY <1>3
<1>5. Sub(p, o) = <<0, 0>> <=> p[1] = o[1] /\ p[2] = o[2]
  BY <1>1, <1>2, <1>4
<1>6. p[1] = o[1] /\ p[2] = o[2] <=> p = o
  BY <1>1, <1>2
<1> QED
  BY <1>5, <1>6

\* What the scan compares, in the words of the lemmas above.
LEMMA RadiusIsOrder ==
  ASSUME tempOrigin \in Point, NEW p \in Point, NEW q \in Point
  PROVE  /\ RadiusLess(p, q) <=> Before(tempOrigin, p, q)
         /\ RadiusLess(q, p) <=> Before(tempOrigin, q, p)
         /\ Distance(p) = Far(tempOrigin, p)
<1>1. ASSUME NEW a \in Point, NEW b \in Point
      PROVE  RadiusLess(a, b) <=> Before(tempOrigin, a, b)
  BY SamePoint, Zenon DEF RadiusLess, Before, Area
<1>2. RadiusLess(p, q) <=> Before(tempOrigin, p, q)
  BY <1>1
<1>3. RadiusLess(q, p) <=> Before(tempOrigin, q, p)
  BY <1>1
<1>4. Distance(p) = Far(tempOrigin, p)
  BY DEF Distance, Far
<1> QED
  BY <1>2, <1>3, <1>4

\* The comparisons about the origin, of points that are not close to one
\* direction from it.
LEMMA ClearDirections ==
  ASSUME tempOrigin \in Point, NEW p \in Point, NEW q \in Point, ~Close(tempOrigin, p, q)
  PROVE  /\ FALSE \in ComesBefore(p, q) => ~Before(tempOrigin, p, q)
         /\ TRUE \in SameRadius(p, q) => Same(tempOrigin, p, q)
         /\ FALSE \in SameRadius(p, q) => ~Same(tempOrigin, p, q)
         /\ \A b \in Nearer(p, q) : b <=> Far(tempOrigin, p) < Far(tempOrigin, q)
<1>1. /\ RadiusLess(p, q) <=> Before(tempOrigin, p, q)
      /\ RadiusLess(q, p) <=> Before(tempOrigin, q, p)
  BY RadiusIsOrder
<1>2. Distance(p) = Far(tempOrigin, p) /\ Distance(q) = Far(tempOrigin, q)
  BY RadiusIsOrder
<1>3. ComesBefore(p, q) = {RadiusLess(p, q)}
  BY DEF ComesBefore, Verdict
<1>4. SameRadius(p, q) = {~RadiusLess(p, q) /\ ~RadiusLess(q, p)}
  BY DEF SameRadius, Verdict
<1>5. Nearer(p, q) = {Distance(p) < Distance(q)}
  BY DEF Nearer, Verdict
<1>6. FALSE \in ComesBefore(p, q) => ~Before(tempOrigin, p, q)
  BY <1>1, <1>3
<1>7. TRUE \in SameRadius(p, q) => Same(tempOrigin, p, q)
  BY <1>1, <1>4 DEF Same
<1>8. FALSE \in SameRadius(p, q) => ~Same(tempOrigin, p, q)
  BY <1>1, <1>4 DEF Same
<1>9. \A b \in Nearer(p, q) : b <=> Far(tempOrigin, p) < Far(tempOrigin, q)
  BY <1>2, <1>5
<1> QED
  BY <1>6, <1>7, <1>8, <1>9

\* A turn between points that are not close.
LEMMA ClearTurn ==
  ASSUME NEW p, NEW q, NEW r, ~Close(p, q, r)
  PROVE  /\ TRUE \in TurnLeft(p, q, r) => Turn(p, q, r) > 0
         /\ FALSE \in TurnLeft(p, q, r) => ~(Turn(p, q, r) > 0)
<1>1. TurnLeft(p, q, r) = {Turn(p, q, r) > 0}
  BY DEF TurnLeft, Verdict, Turn
<1> QED
  BY <1>1

\* Whether three points are close does not depend on which comes first.
LEMMA CloseTurns ==
  ASSUME slack \in Nat, NEW o \in Point, NEW p \in Point, NEW q \in Point, ~Close(o, p, q)
  PROVE  ~Close(p, q, o)
<1>1. Cross(Sub(q, p), Sub(o, p)) = Cross(Sub(p, o), Sub(q, o))
  BY DEF Cross, Sub, Point
<1> QED
  BY <1>1 DEF Close

\* The two points that the inner while looks at.
LEMMA LastTwo ==
  ASSUME NEW C, NEW h, h \in Seq(C), Len(h) >= 2
  PROVE  /\ Last(h) = h[Len(h)] /\ Last(Front(h)) = h[Len(h) - 1]
         /\ h[Len(h)] \in C /\ h[Len(h) - 1] \in C
<1>1. Last(h) = h[Len(h)]
  BY DEF Last
<1>2. Front(h) \in Seq(C) /\ Len(Front(h)) = Len(h) - 1
      /\ \A i \in 1..(Len(h) - 1) : Front(h)[i] = h[i]
  BY DEF Front
<1>3. Last(Front(h)) = h[Len(h) - 1]
  BY <1>2 DEF Last
<1> QED
  BY <1>1, <1>3

(***************************************************************************)
(* The scan when turns that do not involve o may be rounded.               *)
(***************************************************************************)

\* What the exact scan keeps is more.
LEMMA ScanIsLoose ==
  ASSUME NEW o, NEW C, NEW h, NEW s, NEW i, Scanning(C, o, h, s, i)
  PROVE  Loose(C, o, h, s, i)
<1>1. s \in Seq(C) /\ i \in Nat \ {0} /\ Ordered(o, s, i) /\ Len(s) \in Nat
  BY DEF Scanning
<1>2. CASE Chain(C, o, h, After(s, i)) /\ (Len(h) = 2 => i <= Len(s) /\ s[i] # o)
  <2>1. h \in Seq(C) /\ Len(h) >= 2 /\ h[1] = o /\ Len(h) \in Nat
    BY <1>2 DEF Chain
  <2>2. \A j \in 2..Len(h) : h[j] # o /\ \A r \in After(s, i) : Before(o, h[j], r)
    BY <1>2 DEF Chain
  <2>3. \A j \in 2..(Len(h) - 1) : Area(o, h[j], h[j + 1]) > 0
    <3>1. \A j \in 2..(Len(h) - 1) : j \in 2..Len(h) /\ j + 1 \in 2..Len(h) /\ j < j + 1
      BY <2>1
    <3> QED
      BY <1>2, <3>1 DEF Chain
  <2> QED
    BY <1>1, <1>2, <2>1, <2>2, <2>3 DEF Loose
<1>3. CASE i > Len(s) /\ h \in Seq(C) /\ Len(h) >= 3 /\ Last(h) = o /\ Chain(C, o, Front(h), {})
  <2>1. Len(h) \in Nat /\ Len(h) >= 2 /\ ~(i <= Len(s))
    BY <1>1, <1>3
  <2>2. Front(h)[1] = h[1]
    BY <1>3, <2>1 DEF Front
  <2>3. h[1] = o
    BY <1>3, <2>2 DEF Chain
  <2> QED
    BY <1>1, <1>3, <2>1, <2>3 DEF Loose
<1> QED
  BY <1>2, <1>3 DEF Scanning

\* From the first edge, and back to o, it is a left turn.
LEMMA LooseTurn ==
  ASSUME NEW o \in Point, NEW C \in SUBSET Point, NEW h, NEW s, NEW i,
         Loose(C, o, h, s, i), i <= Len(s), Len(h) = 2 \/ s[i] = o
  PROVE  /\ Turn(h[Len(h) - 1], h[Len(h)], s[i]) > 0
         /\ h[Len(h) - 1] = o \/ s[i] = o
<1> DEFINE r == s[i]
           a == h[Len(h) - 1]
           b == h[Len(h)]
<1>1. /\ h \in Seq(C) /\ Len(h) \in Nat /\ Len(h) >= 2 /\ h[1] = o
      /\ s \in Seq(C) /\ i \in 1..Len(s)
  BY DEF Loose
<1>2. a \in Point /\ b \in Point /\ r \in Point /\ r \in After(s, i)
  <2>1. Len(h) - 1 \in 1..Len(h) /\ Len(h) \in 1..Len(h) /\ i \in i..Len(s)
    BY <1>1
  <2> QED
    BY <1>1, <2>1 DEF After
<1>3. Turn(a, b, r) = Area(o, a, b) + Area(o, b, r) - Area(o, a, r)
  BY <1>2, TurnIsArea
<1>4. /\ Area(o, a, b) \in Int /\ Area(o, b, r) \in Int /\ Area(o, a, r) \in Int
      /\ Area(o, o, b) = 0 /\ Area(o, o, r) = 0 /\ Area(o, b, o) = 0 /\ Area(o, a, o) = 0
  BY <1>2, AreaFacts
<1>5. CASE Len(h) = 2
  <2>1. a = o /\ r # o /\ b = h[2]
    BY <1>1, <1>5 DEF Loose
  <2>2. 2 \in 2..Len(h)
    BY <1>5
  <2>3. Before(o, h[2], r)
    BY <1>2, <2>2 DEF Loose
  <2>4. Area(o, b, r) > 0
    BY <2>1, <2>3 DEF Before
  <2> HIDE DEF a, b, r
  <2>5. Turn(a, b, r) > 0
    BY <1>3, <1>4, <2>1, <2>4
  <2> QED
    BY <2>1, <2>5 DEF a, b, r
<1>6. CASE Len(h) # 2 /\ r = o
  <2>1. Len(h) - 1 \in 2..(Len(h) - 1) /\ (Len(h) - 1) + 1 = Len(h)
    <3>1. \A m \in Nat : m >= 2 /\ m # 2 => m - 1 \in 2..(m - 1) /\ (m - 1) + 1 = m
      OBVIOUS
    <3> QED
      BY <1>1, <1>6, <3>1, Zenon
  <2>2. Area(o, h[Len(h) - 1], h[(Len(h) - 1) + 1]) > 0
    BY <2>1 DEF Loose
  <2>3. Area(o, a, b) > 0
    BY <2>1, <2>2
  <2> HIDE DEF a, b, r
  <2>4. Turn(a, b, r) > 0
    BY <1>3, <1>4, <1>6, <2>3
  <2> QED
    BY <1>6, <2>4 DEF a, b, r
<1> QED
  BY <1>5, <1>6

\* A point is added, whatever made it a left turn.
LEMMA LooseAdd ==
  ASSUME NEW o \in Point, NEW C \in SUBSET Above(o), NEW h, NEW s, NEW i,
         Loose(C, o, h, s, i), i <= Len(s)
  PROVE  Loose(C, o, Append(h, s[i]), s, i + 1)
<1> DEFINE r == s[i]
           g == Append(h, r)
<1>1. /\ h \in Seq(C) /\ Len(h) \in Nat /\ Len(h) >= 2 /\ h[1] = o
      /\ s \in Seq(C) /\ Len(s) \in Nat /\ i \in 1..Len(s) /\ Ordered(o, s, i)
      /\ r \in C
  BY DEF Loose
<1>2. /\ r \in After(s, i) /\ (\A y \in After(s, i) \ {r} : Before(o, r, y))
      /\ After(s, i) \ {r} = After(s, i + 1) /\ Ordered(o, s, i + 1)
  BY <1>1, NextFirst
<1>3. /\ g \in Seq(C) /\ Len(g) = Len(h) + 1 /\ g[Len(h) + 1] = r
      /\ \A j \in 1..Len(h) : g[j] = h[j]
  BY <1>1, AppendProperties
<1> HIDE DEF g
<1>4. g[1] = o /\ Len(g) >= 2 /\ Len(g) # 2
  <2>1. 1 \in 1..Len(h)
    BY <1>1
  <2> QED
    BY <1>1, <1>3, <2>1
<1>5. ASSUME i + 1 <= Len(s)
      PROVE  /\ \A j \in 2..Len(g) : g[j] # o /\ \A y \in After(s, i + 1) : Before(o, g[j], y)
             /\ \A j \in 2..(Len(g) - 1) : Area(o, g[j], g[j + 1]) > 0
  <2>1. s[i + 1] \in After(s, i + 1)
    <3>1. i + 1 \in (i + 1)..Len(s)
      BY <1>1, <1>5
    <3> QED
      BY <3>1 DEF After
  <2>2. r # o /\ \A y \in After(s, i + 1) : Before(o, r, y)
    BY <1>2, <2>1 DEF Before
  <2>3. \A j \in 2..Len(h) : h[j] # o /\ \A y \in After(s, i) : Before(o, h[j], y)
    BY <1>1 DEF Loose
  <2>4. ASSUME NEW j \in 2..Len(g)
        PROVE  g[j] # o /\ \A y \in After(s, i + 1) : Before(o, g[j], y)
    <3>1. (j \in 2..Len(h) /\ g[j] = h[j]) \/ g[j] = r
      BY <1>1, <1>3
    <3> QED
      BY <1>2, <2>2, <2>3, <3>1
  <2>5. ASSUME NEW j \in 2..(Len(g) - 1) PROVE Area(o, g[j], g[j + 1]) > 0
    <3>1. j \in 2..Len(h) /\ g[j] = h[j]
      BY <1>1, <1>3
    <3>2. CASE j = Len(h)
      <4>1. Before(o, h[j], r)
        BY <1>2, <2>3, <3>1
      <4> QED
        BY <1>3, <2>2, <3>1, <3>2, <4>1 DEF Before
    <3>3. CASE j # Len(h)
      <4>1. j \in 2..(Len(h) - 1) /\ g[j + 1] = h[j + 1]
        BY <1>1, <1>3, <3>1, <3>3
      <4> QED
        BY <1>1, <3>1, <4>1 DEF Loose
    <3> QED
      BY <3>2, <3>3
  <2> QED
    BY <2>4, <2>5
<1> HIDE DEF r
<1>6. i + 1 \in Nat \ {0}
  BY <1>1
<1>7. Loose(C, o, g, s, i + 1)
  BY <1>1, <1>2, <1>3, <1>4, <1>5, <1>6 DEF Loose
<1> QED
  BY <1>7 DEF g, r

\* A point is taken off, whatever made it none, but never the first edge.
LEMMA LoosePop ==
  ASSUME NEW o, NEW C, NEW h, NEW s, NEW i,
         Loose(C, o, h, s, i), i <= Len(s), Len(h) # 2, s[i] # o
  PROVE  Loose(C, o, Front(h), s, i)
<1> DEFINE g == Front(h)
<1>1. /\ h \in Seq(C) /\ Len(h) \in Nat /\ Len(h) >= 3 /\ h[1] = o
      /\ s \in Seq(C) /\ i \in Nat \ {0} /\ Ordered(o, s, i)
  <2>1. h \in Seq(C) /\ Len(h) >= 2 /\ h[1] = o
    BY DEF Loose
  <2>2. Len(h) \in Nat
    BY <2>1
  <2>3. Len(h) >= 3
    BY <2>1, <2>2, AtLeastThree, Zenon
  <2> QED
    BY <2>1, <2>2, <2>3 DEF Loose
<1>2. g \in Seq(C) /\ Len(g) = Len(h) - 1 /\ \A j \in 1..(Len(h) - 1) : g[j] = h[j]
  BY <1>1 DEF Front
<1> HIDE DEF g
<1>3. g[1] = o /\ Len(g) >= 2
  <2>1. 1 \in 1..(Len(h) - 1)
    BY <1>1
  <2> QED
    BY <1>1, <1>2, <2>1
<1>4. \A j \in 2..Len(g) : g[j] # o /\ \A r \in After(s, i) : Before(o, g[j], r)
  <2>1. \A j \in 2..Len(g) : j \in 2..Len(h) /\ g[j] = h[j]
    BY <1>1, <1>2
  <2> QED
    BY <2>1 DEF Loose
<1>5. \A j \in 2..(Len(g) - 1) : Area(o, g[j], g[j + 1]) > 0
  <2>1. \A j \in 2..(Len(g) - 1) : j \in 2..(Len(h) - 1) /\ g[j] = h[j] /\ g[j + 1] = h[j + 1]
    BY <1>1, <1>2
  <2> QED
    BY <2>1 DEF Loose
<1>6. Loose(C, o, g, s, i)
  BY <1>1, <1>2, <1>3, <1>4, <1>5 DEF Loose
<1> QED
  BY <1>6 DEF g

(***************************************************************************)
(* The steps.                                                              *)
(***************************************************************************)

\* No call has begun.
LEMMA InitIInv == Init => IInv
BY SlacksAssumption DEF Init, IInv, ThrowsOnlyFlat, Point

\* Once the lowest corner is known, every corner is above it.
LEMMA InTypes ==
  ASSUME IInv, pc \notin {"idle", "generated"}
  PROVE  /\ prim \in Prims /\ slack \in Nat
         /\ tempOrigin \in Point /\ tempOrigin \in Corners
         /\ Corners \in SUBSET Above(tempOrigin) /\ Corners \in SUBSET Point
<1>1. /\ prim \in Prims /\ slack \in Nat /\ projected \in [Signs -> Point]
      /\ Rooted(Corners, tempOrigin)
  BY DEF IInv
<1> QED
  BY <1>1, RootedAbove, CornerType

\* Where no three corners are close, none are with the lowest.
LEMMA ClearAll ==
  ASSUME tempOrigin \in Corners, Clear
  PROVE  DirectionsClear
BY DEF Clear, DirectionsClear

\* What depends on the corners alone stays as it is while they do.
LEMMA SameCorners ==
  ASSUME projected' = projected, slack' = slack
  PROVE  /\ Corners' = Corners /\ CornerBag' = CornerBag /\ Clear' = Clear
         /\ tempOrigin' = tempOrigin => DirectionsClear' = DirectionsClear
<1>1. Corners' = Corners
  BY DEF Corners
<1>2. CornerBag' = CornerBag
  BY <1>1 DEF CornerBag
<1>3. Clear' = Clear
  BY <1>1 DEF Clear, Close, Cross, Sub
<1>4. tempOrigin' = tempOrigin => DirectionsClear' = DirectionsClear
  BY <1>1 DEF DirectionsClear, Close, Cross, Sub
<1> QED
  BY <1>1, <1>2, <1>3, <1>4

\* One lemma for each step: it keeps the invariant.
LEMMA GeneratePolygonStep == IInv /\ GeneratePolygon => IInv'
<1> SUFFICES ASSUME IInv, GeneratePolygon PROVE IInv'
  OBVIOUS
<1>1. PICK e \in Errors :
        projected' = [s \in Signs |-> LET c == Corner(prim, s) IN <<c[1] + e[s][1], c[2] + e[s][2]>>]
  BY DEF GeneratePolygon
<1>2. /\ pc = "idle" /\ pc' = "generated" /\ prim' = prim /\ slack' = slack
      /\ pointList' = pointList /\ index' = index
  BY DEF GeneratePolygon
<1>3. prim \in Prims /\ slack \in Nat /\ pointList = <<>> /\ index = 1
  BY <1>2 DEF IInv
<1>4. ASSUME NEW s \in Signs
      PROVE  <<Corner(prim, s)[1] + e[s][1], Corner(prim, s)[2] + e[s][2]>> \in Point
  <2>1. Corner(prim, s) \in Int \X Int
    BY <1>3, CornerOf DEF Point
  <2>2. e[s] \in Int \X Int
    BY ErrorsAssumption
  <2> QED
    BY <2>1, <2>2 DEF Point
<1>5. projected' \in [Signs -> Point]
  BY <1>1, <1>4
<1> QED
  BY <1>2, <1>3, <1>5 DEF IInv, ThrowsOnlyFlat

LEMMA TakeLowestStep == IInv /\ TakeLowest => IInv'
<1> SUFFICES ASSUME IInv, TakeLowest PROVE IInv'
  OBVIOUS
<1> DEFINE C == Corners
           p0 == Lowest(C)
<1>1. /\ tempOrigin' = p0 /\ polyPointList' = <<p0>>
      /\ rest' = CornerBag (-) SetToBag({p0})
      /\ pc' = "sort" /\ prim' = prim /\ pointList' = <<>> /\ index' = 1
      /\ slack' = slack /\ projected' = projected
      /\ prim \in Prims /\ slack \in Nat /\ projected \in [Signs -> Point]
  BY DEF TakeLowest, IInv
<1>2. Rooted(C, p0)
  BY <1>1, LowestCorner
<1>3. p0 \in C
  BY <1>2 DEF Rooted
<1>4. DOMAIN CornerBag = C /\ \A c \in C : CornerBag[c] \in Nat \ {0}
  BY CornersCounted
<1> HIDE DEF p0
<1>5. Sorting(C, p0, CornerBag[p0], CornerBag (-) SetToBag({p0}), <<>>)
  BY <1>3, <1>4, SortStart
<1>6. Corners' = C /\ CornerBag' = CornerBag
  BY <1>1, SameCorners
<1> QED
  BY <1>1, <1>2, <1>5, <1>6 DEF IInv, ThrowsOnlyFlat

LEMMA PlaceNextStep == IInv /\ PlaceNext => IInv'
<1> SUFFICES ASSUME IInv, PlaceNext PROVE IInv'
  OBVIOUS
<1> DEFINE C == Corners
           o == tempOrigin
           n == CornerBag[o]
<1>1. PICK p \in BagToSet(rest) :
        /\ \A q \in BagToSet(rest) : FALSE \in ComesBefore(q, p)
        /\ pointList' = Append(pointList, p)
        /\ rest' = rest (-) SetToBag({p})
  BY DEF PlaceNext
<1>2. /\ pc = "sort" /\ pc' = IF rest' = EmptyBag THEN "dedupe" ELSE "sort"
      /\ prim' = prim /\ slack' = slack /\ projected' = projected
      /\ polyPointList' = polyPointList /\ tempOrigin' = o /\ index' = index
  BY DEF PlaceNext
<1>3. /\ prim \in Prims /\ slack \in Nat /\ o \in Point /\ o \in C
      /\ C \in SUBSET Above(o) /\ C \in SUBSET Point
  BY <1>2, InTypes
<1>4. /\ index = 1 /\ polyPointList = <<o>> /\ projected \in [Signs -> Point] /\ Rooted(C, o)
      /\ DirectionsClear => Sorting(C, o, n, rest, pointList)
  BY <1>2 DEF IInv
<1>5. ASSUME DirectionsClear
      PROVE  /\ Sorting(C, o, n, rest', pointList')
             /\ pc' = "dedupe" => Deduping(C, o, n, pointList', 1)
  <2>1. p \in DOMAIN rest /\ DOMAIN rest \subseteq C /\ BagToSet(rest) = DOMAIN rest
    BY <1>4, <1>5 DEF Sorting, BagToSet
  <2>2. ASSUME NEW q \in DOMAIN rest PROVE ~Before(o, q, p)
    <3>1. q \in C /\ p \in C /\ q \in Point /\ p \in Point
      BY <1>3, <2>1
    <3>2. ~Close(o, q, p)
      BY <1>5, <3>1 DEF DirectionsClear
    <3>3. FALSE \in ComesBefore(q, p)
      BY <1>1, <2>1
    <3> QED
      BY <1>3, <3>1, <3>2, <3>3, ClearDirections
  <2> HIDE DEF C, n
  <2>3. Sorting(C, o, n, rest', pointList')
    BY <1>1, <1>4, <1>5, <2>1, <2>2, SortPlace
  <2>4. ASSUME pc' = "dedupe" PROVE Deduping(C, o, n, pointList', 1)
    <3>1. DOMAIN rest' = {}
      BY <1>2, <2>4 DEF EmptyBag, SetToBag
    <3>2. Len(pointList') >= 1
      <4>1. pointList \in Seq(C)
        BY <1>4, <1>5 DEF Sorting
      <4> QED
        BY <1>1, <4>1
    <3> QED
      BY <1>3, <2>3, <3>1, <3>2, SortEnd
  <2> QED
    BY <2>3, <2>4
<1>6. Corners' = C /\ CornerBag'[tempOrigin'] = n /\ DirectionsClear' = DirectionsClear
  BY <1>2, SameCorners
<1>7. pc' \in {"sort", "dedupe"}
  BY <1>2
<1> QED
  BY <1>2, <1>3, <1>4, <1>5, <1>6, <1>7 DEF IInv, ThrowsOnlyFlat

LEMMA DedupeStep == IInv /\ Dedupe => IInv'
<1> SUFFICES ASSUME IInv, Dedupe PROVE IInv'
  OBVIOUS
<1> DEFINE C == Corners
           o == tempOrigin
           n == CornerBag[o]
           p == pointList[index]
           q == pointList[index + 1]
<1>1. /\ pc = "dedupe" /\ index < Len(pointList) /\ pc' = pc /\ prim' = prim /\ rest' = rest
      /\ slack' = slack /\ projected' = projected
      /\ polyPointList' = polyPointList /\ tempOrigin' = o
  BY DEF Dedupe
<1>2. /\ prim \in Prims /\ slack \in Nat /\ o \in Point /\ o \in C
      /\ C \in SUBSET Above(o) /\ C \in SUBSET Point
  BY <1>1, InTypes
<1>3. /\ polyPointList = <<o>> /\ projected \in [Signs -> Point] /\ Rooted(C, o)
      /\ DirectionsClear => Deduping(C, o, n, pointList, index)
  BY <1>1 DEF IInv
<1>4. ASSUME DirectionsClear PROVE Deduping(C, o, n, pointList', index')
  <2>1. p \in C /\ q \in C /\ p \in Point /\ q \in Point
    <3>1. pointList \in Seq(C) /\ index \in 1..Len(pointList)
      BY <1>3, <1>4 DEF Deduping
    <3>2. p \in C /\ q \in C
      BY <1>1, <3>1
    <3> QED
      BY <1>2, <3>2
  <2>2. ~Close(o, p, q)
    BY <1>4, <2>1 DEF DirectionsClear
  <2>3. CASE FALSE \in SameRadius(p, q) /\ index' = index + 1 /\ pointList' = pointList
    <3>1. ~Same(o, p, q)
      BY <1>2, <2>1, <2>2, <2>3, ClearDirections
    <3> HIDE DEF C, n
    <3> QED
      BY <1>1, <1>2, <1>3, <1>4, <2>3, <3>1, DedupeKeep
  <2>4. CASE /\ TRUE \in SameRadius(p, q)
             /\ \E nearer \in Nearer(p, q) :
                  pointList' = RemoveAt(pointList, IF nearer THEN index ELSE index + 1)
             /\ index' = index
    <3>1. Same(o, p, q)
      BY <1>2, <2>1, <2>2, <2>4, ClearDirections
    <3>2. PICK b \in Nearer(p, q) :
            pointList' = RemoveAt(pointList, IF b THEN index ELSE index + 1)
      BY <2>4
    <3>3. b <=> Far(o, p) < Far(o, q)
      BY <1>2, <2>1, <2>2, ClearDirections
    <3>4. pointList' = RemoveAt(pointList, IF Far(o, p) < Far(o, q) THEN index ELSE index + 1)
      BY <3>2, <3>3
    <3> HIDE DEF C, n
    <3> QED
      BY <1>1, <1>2, <1>3, <1>4, <2>4, <3>1, <3>4, DedupeRemove
  <2> QED
    BY <2>3, <2>4 DEF Dedupe
<1>5. Corners' = C /\ CornerBag'[tempOrigin'] = n /\ DirectionsClear' = DirectionsClear
  BY <1>1, SameCorners
<1> QED
  BY <1>1, <1>2, <1>3, <1>4, <1>5 DEF IInv, ThrowsOnlyFlat

LEMMA TakeTwoStep == IInv /\ TakeTwo => IInv'
<1> SUFFICES ASSUME IInv, TakeTwo PROVE IInv'
  OBVIOUS
<1> DEFINE C == Corners
           o == tempOrigin
           n == CornerBag[o]
<1>1. /\ pc = "dedupe" /\ index >= Len(pointList) /\ prim' = prim /\ rest' = rest
      /\ slack' = slack /\ projected' = projected
      /\ tempOrigin' = o /\ index' = 1
  BY DEF TakeTwo
<1>2. /\ prim \in Prims /\ slack \in Nat /\ o \in Point /\ o \in C
      /\ C \in SUBSET Above(o) /\ C \in SUBSET Point
  BY <1>1, InTypes
<1>3. /\ polyPointList = <<o>> /\ projected \in [Signs -> Point] /\ Rooted(C, o)
      /\ DirectionsClear => Deduping(C, o, n, pointList, index)
  BY <1>1 DEF IInv
<1>4. DirectionsClear => index = Len(pointList)
  BY <1>1, <1>3 DEF Deduping
<1>5. Corners' = C /\ CornerBag' = CornerBag /\ DirectionsClear' = DirectionsClear /\ Clear' = Clear
  BY <1>1, SameCorners
<1>6. CASE Len(pointList) < 2
  <2>1. pc' = "thrown"
    BY <1>6 DEF TakeTwo
  <2>2. DirectionsClear => /\ \A a, b, c \in C : Cross(Sub(b, a), Sub(c, a)) = 0
                           /\ n = 1 \/ C = {o}
    <3> HIDE DEF C, n
    <3> QED
      BY <1>2, <1>3, <1>6, TooFew
  <2>3. ThrowsOnlyFlat'
    BY <1>1, <1>5, <2>2 DEF ThrowsOnlyFlat, Flat
  <2> QED
    BY <1>1, <1>2, <1>3, <1>5, <2>1, <2>3 DEF IInv
<1>7. CASE ~(Len(pointList) < 2)
  <2>1. /\ pc' = "scan"
        /\ polyPointList' = polyPointList \o SubSeq(pointList, 1, 2)
        /\ pointList' = SubSeq(pointList, 3, Len(pointList))
    BY <1>7 DEF TakeTwo
  <2>2. ASSUME DirectionsClear PROVE Scanning(C, o, polyPointList', pointList', 1)
    <3>1. Len(pointList) >= 2
      BY <1>3, <1>7, <2>2 DEF Deduping
    <3> HIDE DEF C, n
    <3> QED
      BY <1>2, <1>3, <1>4, <2>1, <2>2, <3>1, DedupeEnd
  <2>3. DirectionsClear => Loose(C, o, polyPointList', pointList', 1)
    BY <2>2, ScanIsLoose
  <2>4. Clear => Scanning(C, o, polyPointList', pointList', 1)
    BY <1>2, <2>2, ClearAll
  <2> QED
    BY <1>1, <1>2, <1>3, <1>5, <2>1, <2>3, <2>4 DEF IInv, ThrowsOnlyFlat
<1> QED
  BY <1>6, <1>7

LEMMA PopPointStep == IInv /\ PopPoint => IInv'
<1> SUFFICES ASSUME IInv, PopPoint PROVE IInv'
  OBVIOUS
<1> DEFINE C == Corners
           o == tempOrigin
           h == polyPointList
           r == pointList[index]
           a == h[Len(h) - 1]
           b == h[Len(h)]
<1>1. /\ pc = "scan" /\ index <= Len(pointList)
      /\ prim' = prim /\ slack' = slack /\ projected' = projected /\ rest' = rest
      /\ pointList' = pointList /\ tempOrigin' = o /\ index' = index
  BY DEF PopPoint, Thrown
<1>2. /\ prim \in Prims /\ slack \in Nat /\ o \in Point /\ o \in C
      /\ C \in SUBSET Above(o) /\ C \in SUBSET Point
  BY <1>1, InTypes
<1>3. /\ projected \in [Signs -> Point] /\ Rooted(C, o)
      /\ DirectionsClear => Loose(C, o, h, pointList, index)
      /\ Clear => Scanning(C, o, h, pointList, index)
  BY <1>1 DEF IInv
<1>4. Corners' = C /\ DirectionsClear' = DirectionsClear /\ Clear' = Clear
  BY <1>1, SameCorners
<1>5. CASE Len(h) < 2
  <2>1. pc' = "thrown"
    BY <1>5 DEF PopPoint, Thrown
  <2>2. ~DirectionsClear
    <3> SUFFICES ASSUME DirectionsClear PROVE FALSE
      OBVIOUS
    <3>1. h \in Seq(C) /\ Len(h) >= 2
      BY <1>3 DEF Loose
    <3> QED
      BY <1>5, <3>1
  <2>3. ThrowsOnlyFlat'
    BY <1>4, <2>2 DEF ThrowsOnlyFlat
  <2> QED
    BY <1>1, <1>2, <1>3, <1>4, <2>1, <2>3 DEF IInv
<1>6. CASE ~(Len(h) < 2)
  <2>1. /\ FALSE \in TurnLeft(BeforeLast, Last(h), r)
        /\ h' = Front(h) /\ pc' = pc
    BY <1>6 DEF PopPoint
  <2>2. ASSUME DirectionsClear
        PROVE  /\ a \in C /\ b \in C /\ r \in C
               /\ FALSE \in TurnLeft(a, b, r)
    <3>1. h \in Seq(C) /\ Len(h) >= 2 /\ pointList \in Seq(C) /\ index \in 1..Len(pointList)
      BY <1>1, <1>3, <2>2 DEF Loose
    <3>2. /\ Last(h) = b /\ BeforeLast = a /\ a \in C /\ b \in C
      BY <3>1, LastTwo DEF BeforeLast
    <3>3. r \in C
      BY <3>1
    <3> QED
      BY <2>1, <3>2, <3>3
  <2>3. ASSUME DirectionsClear PROVE Loose(C, o, h', pointList, index)
    <3>1. Loose(C, o, h, pointList, index) /\ a \in Point /\ b \in Point /\ r \in Point
      BY <1>2, <1>3, <2>2, <2>3
    <3>2. ASSUME Len(h) = 2 \/ r = o PROVE FALSE
      <4> HIDE DEF C
      <4>1. Turn(a, b, r) > 0 /\ (a = o \/ r = o)
        BY <1>1, <1>2, <3>1, <3>2, LooseTurn
      <4>2. ~Close(a, b, r)
        <5>1. ~Close(o, b, r) /\ ~Close(o, a, b)
          BY <2>2, <2>3 DEF DirectionsClear, C
        <5>2. ~Close(a, b, o)
          BY <1>2, <3>1, <5>1, CloseTurns
        <5> QED
          BY <4>1, <5>1, <5>2
      <4> QED
        BY <2>2, <2>3, <4>1, <4>2, ClearTurn
    <3> HIDE DEF C
    <3> QED
      BY <1>1, <2>1, <3>1, <3>2, LoosePop
  <2>4. ASSUME Clear PROVE Scanning(C, o, h', pointList, index)
    <3>1. DirectionsClear
      BY <1>2, <2>4, ClearAll
    <3>2. ~Close(a, b, r)
      BY <2>2, <2>4, <3>1 DEF Clear
    <3>3. ~(Turn(a, b, r) > 0)
      BY <2>2, <3>1, <3>2, ClearTurn
    <3> HIDE DEF C
    <3> QED
      BY <1>1, <1>2, <1>3, <2>1, <2>4, <3>3, ScanPop
  <2> QED
    BY <1>1, <1>2, <1>3, <1>4, <2>1, <2>3, <2>4 DEF IInv, ThrowsOnlyFlat
<1> QED
  BY <1>5, <1>6

LEMMA AddPointStep == IInv /\ AddPoint => IInv'
<1> SUFFICES ASSUME IInv, AddPoint PROVE IInv'
  OBVIOUS
<1> DEFINE C == Corners
           o == tempOrigin
           h == polyPointList
           r == pointList[index]
           a == h[Len(h) - 1]
           b == h[Len(h)]
<1>1. /\ pc = "scan" /\ index <= Len(pointList)
      /\ TRUE \in TurnLeft(BeforeLast, Last(h), r)
      /\ h' = Append(h, r) /\ index' = index + 1
      /\ pc' = pc /\ prim' = prim /\ slack' = slack /\ projected' = projected /\ rest' = rest
      /\ pointList' = pointList /\ tempOrigin' = o
  BY DEF AddPoint
<1>2. /\ prim \in Prims /\ slack \in Nat /\ o \in Point /\ o \in C
      /\ C \in SUBSET Above(o) /\ C \in SUBSET Point
  BY <1>1, InTypes
<1>3. /\ projected \in [Signs -> Point] /\ Rooted(C, o)
      /\ DirectionsClear => Loose(C, o, h, pointList, index)
      /\ Clear => Scanning(C, o, h, pointList, index)
  BY <1>1 DEF IInv
<1>4. Corners' = C /\ DirectionsClear' = DirectionsClear /\ Clear' = Clear
  BY <1>1, SameCorners
<1>5. DirectionsClear => Loose(C, o, h', pointList, index + 1)
  <2> HIDE DEF C
  <2> QED
    BY <1>1, <1>2, <1>3, LooseAdd
<1>6. ASSUME Clear PROVE Scanning(C, o, h', pointList, index + 1)
  <2>1. h \in Seq(C) /\ Len(h) >= 2 /\ pointList \in Seq(C) /\ index \in 1..Len(pointList)
    BY <1>1, <1>3, <1>6, ScanLength DEF Scanning
  <2>2. Last(h) = b /\ BeforeLast = a /\ a \in C /\ b \in C /\ r \in C
    BY <2>1, LastTwo DEF BeforeLast
  <2>3. ~Close(a, b, r)
    BY <1>6, <2>2 DEF Clear
  <2>4. TRUE \in TurnLeft(a, b, r)
    BY <1>1, <2>2
  <2>5. Turn(a, b, r) > 0
    BY <2>3, <2>4, ClearTurn
  <2> HIDE DEF C
  <2> QED
    BY <1>1, <1>2, <1>3, <1>6, <2>5, ScanAdd
<1> QED
  BY <1>1, <1>2, <1>3, <1>4, <1>5, <1>6 DEF IInv, ThrowsOnlyFlat

LEMMA ReturnStep == IInv /\ Return => IInv'
<1> SUFFICES ASSUME IInv, Return PROVE IInv'
  OBVIOUS
<1>1. /\ pc = "scan" /\ index > Len(pointList) /\ pc' = "returned"
      /\ prim' = prim /\ slack' = slack /\ projected' = projected /\ rest' = rest
      /\ pointList' = pointList /\ polyPointList' = polyPointList
      /\ tempOrigin' = tempOrigin /\ index' = index
  BY DEF Return
<1>2. Corners' = Corners /\ DirectionsClear' = DirectionsClear /\ Clear' = Clear
  BY <1>1, SameCorners
<1> QED
  BY <1>1, <1>2 DEF IInv, ThrowsOnlyFlat

LEMMA StepIInv == IInv /\ [Next]_vars => IInv'
<1>1. ASSUME IInv, UNCHANGED vars PROVE IInv'
  <2>1. /\ pc' = pc /\ prim' = prim /\ slack' = slack /\ projected' = projected /\ rest' = rest
        /\ pointList' = pointList /\ polyPointList' = polyPointList
        /\ tempOrigin' = tempOrigin /\ index' = index
    BY <1>1 DEF vars
  <2>2. /\ Corners' = Corners /\ CornerBag' = CornerBag
        /\ DirectionsClear' = DirectionsClear /\ Clear' = Clear
    BY <2>1, SameCorners
  <2> QED
    BY <1>1, <2>1, <2>2 DEF IInv, ThrowsOnlyFlat, Flat
<1> QED
  BY <1>1, GeneratePolygonStep, TakeLowestStep, PlaceNextStep, DedupeStep, TakeTwoStep,
     PopPointStep, AddPointStep, ReturnStep DEF Next

(***************************************************************************)
(* What is returned.                                                       *)
(***************************************************************************)

\* Three points of a chain are not on one line.
LEMMA ChainIsWide ==
  ASSUME NEW o \in Point, NEW C \in SUBSET Above(o), o \in C, NEW h, Chain(C, o, h, {}),
         Len(h) >= 3
  PROVE  \E p, q, r \in C : Cross(Sub(q, p), Sub(r, p)) # 0
<1>1. h \in Seq(C) /\ Area(o, h[2], h[3]) > 0
  BY DEF Chain
<1>2. h[2] \in C /\ h[3] \in C
  BY <1>1
<1>3. Cross(Sub(h[2], o), Sub(h[3], o)) # 0
  BY <1>1 DEF Area
<1> QED
  BY <1>2, <1>3

\* When all that is left is the first edge, no corner lies beside it.
LEMMA ChainIsThin ==
  ASSUME NEW o \in Point, NEW C \in SUBSET Above(o), o \in C, NEW h, Chain(C, o, h, {}),
         Len(h) = 2
  PROVE  /\ \A p, q, r \in C : Cross(Sub(q, p), Sub(r, p)) = 0
         /\ \A c \in C : Far(o, c) <= Far(o, h[2])
<1>1. h \in Seq(C) /\ h[2] # o
  BY DEF Chain
<1>2. h[2] \in C
  BY <1>1
<1>3. C \in SUBSET Point /\ h[2] \in Above(o) /\ h[2] \in Point
  BY <1>2 DEF Above
<1>4. ASSUME NEW c \in C PROVE Area(o, h[2], c) = 0 /\ Far(o, c) <= Far(o, h[2])
  <2>1. c \in Point
    BY <1>3
  <2>2. /\ Area(o, h[2], c) \in Int /\ Area(o, c, h[2]) = -Area(o, h[2], c)
        /\ Area(o, h[2], o) = 0
    BY <1>3, <2>1, AreaFacts
  <2>3. Area(o, h[2], c) >= 0 /\ (Area(o, h[2], c) = 0 => Far(o, c) <= Far(o, h[2]))
    BY DEF Chain
  <2>4. c # o => Area(o, c, h[2]) >= 0
    BY DEF Chain, Done
  <2>5. Area(o, h[2], c) = 0
    BY <2>2, <2>3, <2>4
  <2> QED
    BY <2>3, <2>5
<1>5. \A p, q, r \in C : Cross(Sub(q, p), Sub(r, p)) = 0
  BY <1>1, <1>3, <1>4, OneDirection
<1> QED
  BY <1>4, <1>5

\* The invariant holds what is promised of a polygon that is returned.
LEMMA ReturnedIsHull == IInv => PolygonIsHull
<1> SUFFICES ASSUME IInv, pc = "returned", Clear
             PROVE  IF Flat
                    THEN /\ Len(polyPointList) = 3
                         /\ polyPointList[3] = polyPointList[1]
                         /\ \A p \in Corners : Distance(p) <= Distance(polyPointList[2])
                    ELSE IsHull(Open(polyPointList), Corners)
  BY DEF PolygonIsHull
<1> DEFINE C == Corners
           o == tempOrigin
           h == polyPointList
<1>1. /\ o \in Point /\ o \in C /\ C \in SUBSET Above(o) /\ C \in SUBSET Point
  BY InTypes
<1>2. Scanning(C, o, h, pointList, index) /\ index > Len(pointList)
  BY DEF IInv
<1>3. index \in Nat /\ pointList \in Seq(C) /\ After(pointList, index) = {}
  BY <1>2 DEF Scanning, After
<1>4. Flat <=> \A p, q, r \in C : Cross(Sub(q, p), Sub(r, p)) = 0
  BY DEF Flat
<1> HIDE DEF C
<1>5. CASE Chain(C, o, h, {}) /\ Len(h) >= 3
  <2>1. IsHull(h, C)
    BY <1>1, <1>5, ChainIsHull
  <2>2. ~Flat
    BY <1>1, <1>4, <1>5, ChainIsWide
  <2>3. h \in Seq(C) /\ h[1] = o /\ h[Len(h)] # o
    BY <1>5 DEF Chain
  <2>4. Open(h) = h
    BY <2>3 DEF Open, Last
  <2> QED
    BY <2>1, <2>2, <2>4 DEF C
<1>6. CASE h \in Seq(C) /\ Len(h) >= 3 /\ Last(h) = o /\ Chain(C, o, Front(h), {})
  <2> DEFINE g == Front(h)
  <2>1. /\ g \in Seq(C) /\ Len(g) = Len(h) - 1 /\ \A i \in 1..Len(g) : g[i] = h[i]
        /\ h[Len(h)] = o
    BY <1>6 DEF Front, Last
  <2>2. g[1] = o /\ Len(g) >= 2 /\ Len(g) \in Nat
    BY <1>6, <2>1 DEF Chain
  <2>3. h[1] = o /\ h[2] = g[2]
    BY <2>1, <2>2
  <2>4. Open(h) = g
    BY <1>6, <2>3 DEF Open
  <2> HIDE DEF g
  <2>5. CASE Len(g) = 2
    <3>1. Flat /\ \A c \in C : Far(o, c) <= Far(o, h[2])
      BY <1>1, <1>4, <1>6, <2>3, <2>5, ChainIsThin DEF g
    <3>2. Len(h) = 3 /\ h[3] = h[1]
      <4>1. Len(h) \in Nat
        BY <1>6
      <4>2. Len(h) - 1 = 2
        BY <2>1, <2>5, Zenon
      <4>3. \A m \in Nat : m - 1 = 2 => m = 3
        OBVIOUS
      <4>4. Len(h) = 3
        BY <4>1, <4>2, <4>3, Zenon
      <4> QED
        BY <2>1, <2>3, <4>4, Zenon
    <3>3. h[2] \in C
      BY <1>6
    <3>4. \A c \in C : Distance(c) <= Distance(h[2])
      BY <1>1, <3>1, <3>3, RadiusIsOrder
    <3> QED
      BY <3>1, <3>2, <3>4 DEF C
  <2>6. CASE Len(g) # 2
    <3>1. Len(g) >= 3
      BY <2>2, <2>6, AtLeastThree
    <3>2. IsHull(g, C)
      BY <1>1, <1>6, <3>1, ChainIsHull DEF g
    <3>3. ~Flat
      BY <1>1, <1>4, <1>6, <3>1, ChainIsWide DEF g
    <3> QED
      BY <2>4, <3>2, <3>3 DEF C
  <2> QED
    BY <2>5, <2>6
<1>7. Chain(C, o, h, {}) => Len(h) >= 2 /\ Len(h) \in Nat
  BY DEF Chain
<1>8. Len(h) # 2 \/ ~Chain(C, o, h, {}) \/ (h \in Seq(C) /\ Len(h) >= 3 /\ Last(h) = o
        /\ Chain(C, o, Front(h), {}))
  BY <1>2, <1>3 DEF Scanning
<1>9. Chain(C, o, h, {}) \/ (h \in Seq(C) /\ Len(h) >= 3 /\ Last(h) = o
        /\ Chain(C, o, Front(h), {}))
  BY <1>2, <1>3 DEF Scanning
<1>10. Chain(C, o, h, {}) /\ Len(h) # 2 => Len(h) >= 3
  BY <1>7, AtLeastThree
<1> QED
  BY <1>5, <1>6, <1>8, <1>9, <1>10

\* The shadow: for any prims, any rounding of their corners and any order the
\* sort leaves equal angles in, the polygon that ConvenxHull returns is the convex
\* hull of the corners, or the line there and back when they are on one line,
\* provided that no three of them are so nearly on one line that a turn may be
\* rounded.
THEOREM PolygonIsAlwaysHull == Spec => []PolygonIsHull
<1> QED
  BY ReturnedIsHull, InitIInv, StepIInv, PTL DEF Spec

\* The scan: for any prims, any rounding of their corners and any bound on the
\* rounding of its turns, it throws only when two corners are in nearly one
\* direction from the lowest, or when all are on one line and the lowest is single
\* or the only one.
THEOREM ScanThrowsOnlyFlat == Spec => []ThrowsOnlyFlat
<1>1. IInv => ThrowsOnlyFlat
  BY DEF IInv
<1> QED
  BY <1>1, InitIInv, StepIInv, PTL DEF Spec
=============================================================================

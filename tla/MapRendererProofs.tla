-------------------------- MODULE MapRendererProofs --------------------------
(***************************************************************************)
(* What volumes are made of, for every shape and level of detail, and what *)
(* the renderer presents and loses, for any number of volumes and failures. *)
(***************************************************************************)
EXTENDS MapRenderer, FiniteSetTheorems, TLAPS

(***************************************************************************)
(* The outline in numbers.                                                 *)
(***************************************************************************)

\* The stretches between corners, and beside them, that genNGon makes points for.
Stretches(s, sides) ==
  LET first == (s.begin * sides) \div Q
      steps == CeilDiv(s.end * sides, Q) - 1 - first
  IN  steps + IF s.end * sides - (first + steps) * Q > 10 THEN 1 ELSE 0

\* The sides generate makes faces for.
LowSide(s, sides) == (s.begin * sides) \div Q
HighSide(s, sides) == (s.end * sides * 1000 + 999 * Q) \div (1000 * Q)

\* Three roundings of one cut: b and e are its ends in hundred-thousandths of a side.
LEMMA Roundings ==
  ASSUME NEW b \in Nat, NEW e \in Nat, b + 2000 <= e,
         NEW first, first = b \div Q, NEW high, high = (e * 1000 + 999 * Q) \div (1000 * Q),
         NEW ceil, ceil = (e + Q - 1) \div Q,
         NEW last, last = IF e - (ceil - 1) * Q > 10 THEN 1 ELSE 0
  PROVE  /\ first \in Nat /\ high \in Nat /\ ceil \in Nat /\ first <= high
         /\ ceil - 1 - first + last >= high - first
         /\ ceil - 1 - first + last >= 0
         /\ b % Q >= 99990 => ceil - 1 - first + last >= 1
         /\ ~(0 < e % Q /\ e % Q < 100) =>
              high = ceil /\ ceil - 1 - first + last = high - first
<1> DEFINE k == e \div Q
           r == e % Q
           m == b \div Q
           t == b % Q
<1>1. e = 100000 * k + r /\ k \in Nat /\ r \in Nat /\ r <= 99999
  BY SMTT(30) DEF Q
<1>2. b = 100000 * m + t /\ m \in Nat /\ t \in Nat /\ t <= 99999
  BY SMTT(30) DEF Q
<1>3. first = m /\ e % Q = r /\ b % Q = t
  OBVIOUS
<1>4. high = IF r >= 100 THEN k + 1 ELSE k
  <2> HIDE DEF k, r
  <2> QED
    BY <1>1, SMTT(30) DEF Q
<1>5. ceil = IF r > 0 THEN k + 1 ELSE k
  <2> HIDE DEF k, r
  <2> QED
    BY <1>1, SMTT(30) DEF Q
<1>6. last = IF r = 0 \/ r > 10 THEN 1 ELSE 0
  <2> HIDE DEF k, r
  <2> QED
    BY <1>1, <1>5, SMTT(30) DEF Q
<1> HIDE DEF k, r, m, t
<1>7. m <= k /\ (t >= 99990 => m + 1 <= k)
  BY <1>1, <1>2, SMTT(30)
<1> QED
  BY <1>1, <1>2, <1>3, <1>4, <1>5, <1>6, <1>7 DEF Q

LEMMA ShapeFacts ==
  ASSUME NEW s \in Shape
  PROVE  /\ s.curve \in {"square", "tri", "circle", "half"}
         /\ s.hole \in {"same", "circle", "square", "triangle"}
         /\ s.hollow \in BOOLEAN /\ s.bent \in BOOLEAN /\ s.tapered \in BOOLEAN
         /\ s.begin \in Int /\ s.end \in Int
         /\ 0 <= s.begin /\ s.begin < s.end /\ s.end <= Q
         /\ s.path \in {"line", "circle", "circle2", "test", "flexible"}
         /\ s.pathBegin \in Int /\ s.pathEnd \in Int
         /\ 0 <= s.pathBegin /\ s.pathBegin < s.pathEnd /\ s.pathEnd <= Q
         /\ s.twist \in Int /\ 0 <= s.twist /\ s.twist <= 200
         /\ s.revolutions \in Int /\ 100 <= s.revolutions /\ s.revolutions <= 400
         /\ s.rounded \in 0 .. 2
<1>1. Q \in Int
  BY DEF Q
<1> QED
  BY <1>1 DEF Shape

\* How many sides there are and into how many pieces a flat one is divided.
LEMMA SidesBounds ==
  ASSUME NEW s \in Shape, NEW d \in 2 .. 8
  PROVE  /\ Sides(s, d) \in 3 .. 24 /\ HoleSides(s, d) \in 2 .. 24
         /\ Split(s, d) \in 0 .. 2
         /\ Flat(s) => Sides(s, d) \in 3 .. 4 /\ Sides(s, d) = Sides(s, 2)
<1>0. /\ s.curve \in {"square", "tri", "circle", "half"}
      /\ s.hole \in {"same", "circle", "square", "triangle"}
      /\ d \in Int /\ 2 <= d /\ d <= 8
  BY ShapeFacts
<1>1. Sides(s, d) \in 3 .. 24
  <2>1. CeilDiv(3 * d, 4) \in 2 .. 6
    BY <1>0 DEF CeilDiv
  <2>2. CASE s.curve = "square"
    BY <2>2 DEF Sides
  <2>3. CASE s.curve = "tri"
    BY <2>3 DEF Sides
  <2>4. CASE s.curve = "circle"
    BY <1>0, <2>1, <2>4 DEF Sides
  <2>5. CASE s.curve = "half"
    BY <1>0, <2>1, <2>5 DEF Sides
  <2> QED
    BY <1>0, <2>2, <2>3, <2>4, <2>5
<1>2. Flat(s) => Sides(s, d) \in 3 .. 4 /\ Sides(s, d) = Sides(s, 2)
  BY DEF Sides, Flat
<1>3. HoleSides(s, d) \in 2 .. 24
  BY <1>0, <1>1 DEF HoleSides
<1>4. Split(s, d) \in 0 .. 2
  BY <1>0 DEF Split
<1> QED
  BY <1>1, <1>2, <1>3, <1>4

LEMMA StretchBounds ==
  ASSUME NEW s \in Shape, NEW sides \in 2 .. 24, Generated(s)
  PROVE  /\ Stretches(s, sides) \in 0 .. 25
         /\ BeginSliver(s, sides) => Stretches(s, sides) >= 1
         /\ LowSide(s, sides) \in Nat /\ HighSide(s, sides) \in Nat
         /\ LowSide(s, sides) <= HighSide(s, sides)
         /\ HighSide(s, sides) - LowSide(s, sides) <= Stretches(s, sides)
         /\ ~(0 < (s.end * sides) % Q /\ (s.end * sides) % Q < 100) =>
              /\ HighSide(s, sides) = CeilDiv(s.end * sides, Q)
              /\ HighSide(s, sides) - LowSide(s, sides) = Stretches(s, sides)
<1> DEFINE b == s.begin * sides
           e == s.end * sides
           ceil == (e + Q - 1) \div Q
           first == b \div Q
           last == IF e - (ceil - 1) * Q > 10 THEN 1 ELSE 0
           high == (e * 1000 + 999 * Q) \div (1000 * Q)
<1>1. /\ s.begin \in Int /\ s.end \in Int
      /\ 0 <= s.begin /\ s.begin + 1000 <= s.end /\ s.end <= 100000
  BY ShapeFacts DEF Generated, Q
<1>2. b \in Nat /\ e \in Nat /\ b + 2000 <= e /\ e <= 2400000
  <2>1. b \in Nat /\ e \in Nat
    BY <1>1
  <2>2. e - b = (s.end - s.begin) * sides
    BY <1>1
  <2>3. (s.end - s.begin) * sides >= 1000 * 2
    BY <1>1
  <2>4. s.end * sides <= 100000 * 24
    BY <1>1
  <2> QED
    BY <2>1, <2>2, <2>3, <2>4
<1>3. /\ CeilDiv(s.end * sides, Q) = ceil /\ LowSide(s, sides) = first
      /\ HighSide(s, sides) = high
      /\ BeginSliver(s, sides) <=> b % Q >= 99990
  BY DEF CeilDiv, LowSide, HighSide, BeginSliver
<1> HIDE DEF b, e
<1>4. ceil \in 0 .. 24 /\ first \in Nat
  BY <1>2 DEF Q
<1>5. Stretches(s, sides) = ceil - 1 - first + last
  <2>1. Stretches(s, sides) = (ceil - 1 - first) +
          IF e - (first + (ceil - 1 - first)) * Q > 10 THEN 1 ELSE 0
    BY <1>3 DEF Stretches, LowSide, b, e
  <2>2. first + (ceil - 1 - first) = ceil - 1
    BY <1>4
  <2> HIDE DEF ceil, first
  <2> QED
    BY <2>1, <2>2
<1> HIDE DEF ceil, first, last, high
<1>6. /\ first \in Nat /\ high \in Nat /\ ceil \in Nat /\ first <= high
      /\ ceil - 1 - first + last >= high - first
      /\ ceil - 1 - first + last >= 0
      /\ b % Q >= 99990 => ceil - 1 - first + last >= 1
      /\ ~(0 < e % Q /\ e % Q < 100) =>
           high = ceil /\ ceil - 1 - first + last = high - first
  BY <1>2, Roundings DEF ceil, first, last, high
<1>7. last \in {0, 1}
  BY DEF last
<1>8. /\ Stretches(s, sides) \in 0 .. 25
      /\ BeginSliver(s, sides) => Stretches(s, sides) >= 1
  BY <1>3, <1>4, <1>5, <1>6, <1>7
<1>9. (s.end * sides) % Q = e % Q
  BY DEF e
<1> QED
  BY <1>3, <1>5, <1>6, <1>8, <1>9

\* genNGon makes a point for each piece of a stretch, and the first.
LEMMA NGonPoints ==
  ASSUME NEW s \in Shape, NEW sides \in 2 .. 24, NEW split \in 0 .. 2, NEW empty \in BOOLEAN,
         Generated(s)
  PROVE  /\ NGon(s, sides, split, empty) \in 1 .. 76
         /\ ~BeginSliver(s, sides) =>
              NGon(s, sides, split, empty) = 1 + Stretches(s, sides) * (split + 1)
         /\ NGon(s, sides, 0, empty) \in 1 .. 26
<1> DEFINE first == (s.begin * sides) \div Q
           start == IF BeginSliver(s, sides) THEN 0 ELSE 1
           steps == CeilDiv(s.end * sides, Q) - 1 - first
           last == IF s.end * sides - (first + steps) * Q > 10 THEN 1 ELSE 0
           n == Stretches(s, sides)
<1>1. n = steps + last
  BY DEF Stretches
<1>2. ASSUME NEW k PROVE NGon(s, sides, k, empty)
         = start + (steps + last) * (k + 1) - (IF empty /\ start = 0 THEN k ELSE 0)
  BY DEF NGon
<1> HIDE DEF first, steps, last
<1>3. n \in 0 .. 25 /\ (BeginSliver(s, sides) => n >= 1)
  BY StretchBounds
<1>4. ASSUME NEW k \in 0 .. 2
      PROVE  /\ n * (k + 1) \in 0 .. 75
             /\ BeginSliver(s, sides) => n * (k + 1) - k >= 1
             /\ k = 0 => n * (k + 1) = n
  <2> HIDE DEF n
  <2>1. k = 0 \/ k = 1 \/ k = 2
    OBVIOUS
  <2> QED
    BY <1>3, <2>1
<1>5. ASSUME NEW k \in 0 .. 2 PROVE NGon(s, sides, k, empty)
         = start + n * (k + 1) - (IF empty /\ start = 0 THEN k ELSE 0)
  BY <1>1, <1>2
<1> HIDE DEF n
<1>6. NGon(s, sides, split, empty) \in 1 .. 76
  BY <1>4, <1>5
<1>7. NGon(s, sides, 0, empty) \in 1 .. 26
  <2>1. NGon(s, sides, 0, empty) = start + n
    BY <1>4, <1>5
  <2> QED
    BY <1>3, <2>1
<1>8. ASSUME ~BeginSliver(s, sides) PROVE NGon(s, sides, split, empty) = 1 + n * (split + 1)
  BY <1>4, <1>5, <1>8
<1> QED
  BY <1>6, <1>7, <1>8 DEF n

(***************************************************************************)
(* The points and the faces of a profile.                                  *)
(***************************************************************************)

\* The points of the outer outline, without and with its centre, of the hole, and
\* of both.
CurvePoints(s, d) == NGon(s, Sides(s, d), IF Flat(s) THEN Split(s, d) ELSE 0, TRUE)

OuterPoints(s, d) == CurvePoints(s, d) + IF Sliced(s) /\ ~s.hollow THEN 1 ELSE 0

HolePoints(s, d) ==
  IF s.hollow THEN NGon(s, HoleSides(s, d), IF FlatHole(s) THEN Split(s, d) ELSE 0, FALSE) ELSE 0

AllPoints(s, d) ==
  OuterPoints(s, d) + HolePoints(s, d) + IF s.curve = "half" /\ ~OpenProfile(s) THEN 1 ELSE 0

BeginCaps(s, d, open) ==
  IF open THEN <<Cap(PathBegin, CASE s.curve = "square" -> AllPoints(s, d)
                                  [] s.curve # "square" /\ s.hollow -> 2 * OuterPoints(s, d)
                                  [] OTHER -> OuterPoints(s, d))>>
  ELSE <<>>

EndCaps(s, d, open) == IF open THEN <<Cap(PathEnd, AllPoints(s, d))>> ELSE <<>>

Outer(s, d) == OuterFaces(s, Sides(s, d), Split(s, d), OuterPoints(s, d))

Inner(s, d) ==
  IF s.hollow THEN <<Side(InnerSide, OuterPoints(s, d), HolePoints(s, d), FlatHole(s))>> ELSE <<>>

Ends(s, d) ==
  IF OpenProfile(s)
  THEN <<Side(ProfileBegin, AllPoints(s, d) - 1, 2, TRUE),
         Side(ProfileEnd, IF s.hollow THEN OuterPoints(s, d) - 1
                          ELSE AllPoints(s, d) - 2, 2, TRUE)>>
  ELSE <<>>

LEMMA ProfileIs ==
  ASSUME NEW s \in Shape, NEW d \in 2 .. 8, NEW open \in BOOLEAN, Generated(s)
  PROVE  Profile(s, d, open) =
           [curve |-> CurvePoints(s, d), out |-> OuterPoints(s, d), total |-> AllPoints(s, d),
            open |-> OpenProfile(s),
            faces |-> BeginCaps(s, d, open) \o Outer(s, d) \o Inner(s, d) \o EndCaps(s, d, open)
                        \o Ends(s, d)]
<1> DEFINE curve == NGon(s, Sides(s, d), IF Flat(s) THEN Split(s, d) ELSE 0, TRUE)
<1>1. CurvePoints(s, d) = curve /\ curve \in Nat
  <2> DEFINE split == IF Flat(s) THEN Split(s, d) ELSE 0
  <2>1. split \in 0 .. 2 /\ Sides(s, d) \in 2 .. 24 /\ TRUE \in BOOLEAN
    BY SidesBounds
  <2> HIDE DEF split
  <2>2. NGon(s, Sides(s, d), split, TRUE) \in Nat
    <3>1. \A n \in 1 .. 76 : n \in Nat
      OBVIOUS
    <3>2. NGon(s, Sides(s, d), split, TRUE) \in 1 .. 76
      BY <2>1, NGonPoints
    <3> QED
      BY <3>1, <3>2
  <2>3. curve = NGon(s, Sides(s, d), split, TRUE)
    BY DEF split
  <2> HIDE DEF curve
  <2>4. CurvePoints(s, d) = curve
    BY DEF CurvePoints, curve
  <2> QED
    BY <2>2, <2>3, <2>4
<1> HIDE DEF curve
<1>2. OuterPoints(s, d) = IF Sliced(s) /\ ~s.hollow THEN curve + 1 ELSE curve
  BY <1>1 DEF OuterPoints
<1> QED
  BY <1>1, <1>2 DEF Profile, curve, HolePoints, AllPoints, BeginCaps, EndCaps, Outer, Inner, Ends

\* How many points there are, and that slivers apart the corners of a flat
\* outline are where its faces begin.
LEMMA PointBounds ==
  ASSUME NEW s \in Shape, NEW d \in 2 .. 8, Generated(s)
  PROVE  /\ CurvePoints(s, d) \in 1 .. 76
         /\ OuterPoints(s, d) = CurvePoints(s, d) + IF Sliced(s) /\ ~s.hollow THEN 1 ELSE 0
         /\ s.hollow => HolePoints(s, d) \in 1 .. 76
         /\ ~s.hollow => HolePoints(s, d) = 0
         /\ AllPoints(s, d) = OuterPoints(s, d) + HolePoints(s, d)
              + IF s.curve = "half" /\ ~OpenProfile(s) THEN 1 ELSE 0
         /\ Flat(s) /\ ~FirstSliver(s) =>
              CurvePoints(s, d) = 1 + Stretches(s, Sides(s, d)) * (Split(s, d) + 1)
         /\ s.hollow \in BOOLEAN
<1> DEFINE split == IF Flat(s) THEN Split(s, d) ELSE 0
           cut == IF FlatHole(s) THEN Split(s, d) ELSE 0
<1>1. /\ split \in 0 .. 2 /\ cut \in 0 .. 2
      /\ Sides(s, d) \in 2 .. 24 /\ HoleSides(s, d) \in 2 .. 24
      /\ Flat(s) => split = Split(s, d) /\ Sides(s, d) = Sides(s, 2)
      /\ TRUE \in BOOLEAN /\ FALSE \in BOOLEAN
  BY SidesBounds
<1>2. CurvePoints(s, d) = NGon(s, Sides(s, d), split, TRUE)
  BY DEF CurvePoints
<1>3. HolePoints(s, d) = IF s.hollow THEN NGon(s, HoleSides(s, d), cut, FALSE) ELSE 0
  BY DEF HolePoints
<1> HIDE DEF split, cut
<1>4. /\ NGon(s, Sides(s, d), split, TRUE) \in 1 .. 76
      /\ ~BeginSliver(s, Sides(s, d)) =>
           NGon(s, Sides(s, d), split, TRUE) = 1 + Stretches(s, Sides(s, d)) * (split + 1)
  BY <1>1, NGonPoints
<1>5. NGon(s, HoleSides(s, d), cut, FALSE) \in 1 .. 76
  BY <1>1, NGonPoints
<1>6. Flat(s) /\ ~FirstSliver(s) =>
        CurvePoints(s, d) = 1 + Stretches(s, Sides(s, d)) * (Split(s, d) + 1)
  BY <1>1, <1>2, <1>4 DEF FirstSliver
<1>7. s.hollow \in BOOLEAN
  BY ShapeFacts
<1> QED
  BY <1>2, <1>3, <1>4, <1>5, <1>6, <1>7 DEF OuterPoints, AllPoints

(***************************************************************************)
(* Sequences of faces.                                                     *)
(***************************************************************************)

Face == [id : Nat, index : Int, count : Int, cap : BOOLEAN, flat : BOOLEAN]

Entries(q) == {q[i] : i \in DOMAIN q}

Ids(q) == {f.id : f \in Entries(q)}

\* No two faces have one number.
Distinct(q) == \A i, j \in DOMAIN q : q[i].id = q[j].id => i = j

\* What lists of faces that are joined keep.
LEMMA Joined ==
  ASSUME NEW p \in Seq(Face), NEW q \in Seq(Face)
  PROVE  /\ p \o q \in Seq(Face)
         /\ Entries(p \o q) = Entries(p) \union Entries(q)
         /\ Ids(p \o q) = Ids(p) \union Ids(q)
         /\ Distinct(p) /\ Distinct(q) /\ Ids(p) \intersect Ids(q) = {} => Distinct(p \o q)
<1> DEFINE r == p \o q
<1>1. /\ r \in Seq(Face)
      /\ Len(r) = Len(p) + Len(q) /\ Len(p) \in Nat /\ Len(q) \in Nat
      /\ \A i \in 1 .. Len(p) + Len(q) : r[i] = IF i <= Len(p) THEN p[i] ELSE q[i - Len(p)]
      /\ DOMAIN r = 1 .. Len(p) + Len(q) /\ DOMAIN p = 1 .. Len(p) /\ DOMAIN q = 1 .. Len(q)
  OBVIOUS
<1> HIDE DEF r
<1>2. ASSUME NEW i \in DOMAIN r
      PROVE  \/ i \in DOMAIN p /\ r[i] = p[i]
             \/ i - Len(p) \in DOMAIN q /\ r[i] = q[i - Len(p)]
  BY <1>1
<1>3. ASSUME NEW i \in DOMAIN p PROVE i \in DOMAIN r /\ r[i] = p[i]
  BY <1>1
<1>4. ASSUME NEW i \in DOMAIN q PROVE i + Len(p) \in DOMAIN r /\ r[i + Len(p)] = q[i]
  BY <1>1
<1>5. Entries(r) = Entries(p) \union Entries(q)
  <2>1. ASSUME NEW f \in Entries(r) PROVE f \in Entries(p) \union Entries(q)
    BY <1>2 DEF Entries
  <2>2. ASSUME NEW f \in Entries(p) PROVE f \in Entries(r)
    BY <1>3 DEF Entries
  <2>3. ASSUME NEW f \in Entries(q) PROVE f \in Entries(r)
    BY <1>4 DEF Entries
  <2> QED
    BY <2>1, <2>2, <2>3
<1>6. Ids(r) = Ids(p) \union Ids(q)
  BY <1>5 DEF Ids
<1>7. ASSUME Distinct(p), Distinct(q), Ids(p) \intersect Ids(q) = {},
             NEW i \in DOMAIN r, NEW j \in DOMAIN r, r[i].id = r[j].id
      PROVE  i = j
  <2>1. ASSUME NEW k \in DOMAIN p PROVE p[k].id \in Ids(p)
    BY DEF Ids, Entries
  <2>2. ASSUME NEW k \in DOMAIN q PROVE q[k].id \in Ids(q)
    BY DEF Ids, Entries
  <2>3. CASE i \in DOMAIN p /\ r[i] = p[i] /\ j \in DOMAIN p /\ r[j] = p[j]
    BY <1>7, <2>3 DEF Distinct
  <2>4. CASE /\ i - Len(p) \in DOMAIN q /\ r[i] = q[i - Len(p)]
             /\ j - Len(p) \in DOMAIN q /\ r[j] = q[j - Len(p)]
    <3>1. i - Len(p) = j - Len(p)
      BY <1>7, <2>4 DEF Distinct
    <3> QED
      BY <1>1, <3>1
  <2>5. CASE i \in DOMAIN p /\ r[i] = p[i] /\ j - Len(p) \in DOMAIN q /\ r[j] = q[j - Len(p)]
    BY <1>7, <2>1, <2>2, <2>5
  <2>6. CASE j \in DOMAIN p /\ r[j] = p[j] /\ i - Len(p) \in DOMAIN q /\ r[i] = q[i - Len(p)]
    BY <1>7, <2>1, <2>2, <2>6
  <2> QED
    BY <1>2, <2>3, <2>4, <2>5, <2>6
<1> QED
  BY <1>1, <1>5, <1>6, <1>7 DEF r, Distinct

LEMMA NoFace ==
  /\ <<>> \in Seq(Face) /\ Entries(<<>>) = {} /\ Ids(<<>>) = {} /\ Distinct(<<>>)
BY DEF Entries, Ids, Distinct

LEMMA OneFace ==
  ASSUME NEW f \in Face
  PROVE  /\ <<f>> \in Seq(Face) /\ Entries(<<f>>) = {f} /\ Ids(<<f>>) = {f.id} /\ Distinct(<<f>>)
BY DEF Entries, Ids, Distinct

LEMMA TwoFaces ==
  ASSUME NEW f \in Face, NEW g \in Face, f.id # g.id
  PROVE  /\ <<f, g>> \in Seq(Face) /\ Entries(<<f, g>>) = {f, g} /\ Ids(<<f, g>>) = {f.id, g.id}
         /\ Distinct(<<f, g>>)
BY DEF Entries, Ids, Distinct

\* As many numbers as faces.
LEMMA IdCount ==
  ASSUME NEW q \in Seq(Face), Distinct(q)
  PROVE  Cardinality(Ids(q)) = Len(q)
<1> DEFINE f == [i \in 1 .. Len(q) |-> q[i].id]
<1>1. DOMAIN q = 1 .. Len(q) /\ Len(q) \in Nat
  OBVIOUS
<1>2. IsFiniteSet(1 .. Len(q)) /\ Cardinality(1 .. Len(q)) = Len(q)
  BY <1>1, FS_Interval
<1>3. f \in Bijection(1 .. Len(q), Ids(q))
  <2>1. f \in [1 .. Len(q) -> Ids(q)]
    BY <1>1 DEF Ids, Entries
  <2>2. \A i, j \in 1 .. Len(q) : f[i] = f[j] => i = j
    BY <1>1 DEF Distinct
  <2>3. \A x \in Ids(q) : \E i \in 1 .. Len(q) : f[i] = x
    BY <1>1 DEF Ids, Entries
  <2> HIDE DEF f
  <2>4. f \in Injection(1 .. Len(q), Ids(q))
    BY <2>1, <2>2 DEF Injection, IsInjective
  <2>5. f \in Surjection(1 .. Len(q), Ids(q))
    BY <2>1, <2>3 DEF Surjection
  <2> QED
    BY <2>4, <2>5 DEF Bijection
<1> HIDE DEF f
<1>4. ExistsBijection(1 .. Len(q), Ids(q))
  BY <1>3 DEF ExistsBijection
<1> QED
  BY <1>2, <1>4, FS_Bijection

LEMMA PathPoints ==
  ASSUME NEW s \in Shape, NEW d \in 2 .. 8
  PROVE  /\ Path(s, d).open \in BOOLEAN
         /\ Path(s, d).points \in Int
         /\ 1 <= Path(s, d).points /\ Path(s, d).points <= 195
<1>1. /\ s.path \in {"line", "circle", "circle2", "test", "flexible"}
      /\ s.pathBegin \in Int /\ s.pathEnd \in Int
      /\ 0 <= s.pathBegin /\ s.pathBegin < s.pathEnd /\ s.pathEnd <= Q
      /\ s.twist \in Int /\ 0 <= s.twist /\ s.twist <= 200
      /\ s.revolutions \in Int /\ 100 <= s.revolutions /\ s.revolutions <= 400
      /\ s.rounded \in 0 .. 2
      /\ d \in Int /\ 2 <= d /\ d <= 8 /\ Split(s, d) \in 0 .. 2
  BY ShapeFacts, SidesBounds
<1>2. s.bent \in BOOLEAN
  BY ShapeFacts
<1>3. ASSUME NEW sides \in Int, 0 <= sides, sides <= 192
      PROVE  /\ PathNGon(s, sides).open \in BOOLEAN
             /\ PathNGon(s, sides).points \in Int
             /\ 1 <= PathNGon(s, sides).points /\ PathNGon(s, sides).points <= 195
  <2> DEFINE b == s.pathBegin * sides
             e == s.pathEnd * sides
             m == CeilDiv(e, Q)
             n == b \div Q
  <2>1. b \in Int /\ e \in Int /\ 0 <= b /\ b <= e /\ e <= Q * sides
    <3>1. /\ b \in Int /\ e \in Int /\ Q \in Int
      BY <1>1, <1>3 DEF Q
    <3>2. 0 <= b
      BY <1>1, <1>3
    <3>3. b <= e
      <4>1. e - b = (s.pathEnd - s.pathBegin) * sides
        BY <1>1, <1>3
      <4>2. (s.pathEnd - s.pathBegin) * sides >= 0
        BY <1>1, <1>3
      <4> QED
        BY <3>1, <4>1, <4>2
    <3>4. e <= Q * sides
      <4>1. Q * sides - e = (Q - s.pathEnd) * sides
        BY <1>1, <1>3, <3>1
      <4>2. (Q - s.pathEnd) * sides >= 0
        BY <1>1, <1>3, <3>1
      <4> QED
        BY <1>3, <3>1, <4>1, <4>2
    <3> QED
      BY <3>1, <3>2, <3>3, <3>4
  <2> HIDE DEF b, e
  <2>2. m \in Int /\ n \in Int /\ 0 <= n /\ n <= m /\ m <= sides
    BY <1>3, <2>1, SMTT(30) DEF CeilDiv, Q
  <2>3. PathNGon(s, sides).points = 2 + m - 1 - n + s.rounded
    BY DEF PathNGon, b, e
  <2>4. PathNGon(s, sides).open \in BOOLEAN
    BY <1>1, <1>2 DEF PathNGon
  <2> HIDE DEF m, n
  <2> QED
    BY <1>1, <1>3, <2>2, <2>3, <2>4
<1>4. CASE s.path = "line"
  <2> DEFINE k == (s.twist * 7 * (d - 1)) \div 400
  <2>1. s.twist * (d - 1) >= 0 /\ s.twist * (d - 1) <= 200 * 7 /\ s.twist * (d - 1) \in Int
    BY <1>1, SMTT(30)
  <2>2. s.twist * 7 * (d - 1) = 7 * (s.twist * (d - 1))
    BY <1>1, SMTT(30)
  <2>3. k \in Int /\ 0 <= k /\ k <= 24
    BY <2>1, <2>2
  <2>4. Path(s, d) = [points |-> Larger(k, Split(s, d)) + 2, open |-> TRUE]
    BY <1>4 DEF Path
  <2> HIDE DEF k
  <2> QED
    BY <1>1, <2>3, <2>4 DEF Larger
<1>5. CASE s.path = "circle"
  <2> DEFINE k == (1200 * d + 7 * s.twist * (d - 1)) \div 400
             sides == (k * s.revolutions) \div 100
  <2>1. s.twist * (d - 1) >= 0 /\ s.twist * (d - 1) <= 200 * 7 /\ s.twist * (d - 1) \in Int
    BY <1>1, SMTT(30)
  <2>2. 7 * s.twist * (d - 1) = 7 * (s.twist * (d - 1))
    BY <1>1, SMTT(30)
  <2>3. k \in Int /\ 0 <= k /\ k <= 48
    BY <1>1, <2>1, <2>2
  <2>4. sides \in Int /\ 0 <= sides /\ sides <= 192
    <3> HIDE DEF k
    <3>1. k * s.revolutions \in Int /\ 0 <= k * s.revolutions /\ k * s.revolutions <= 48 * 400
      BY <1>1, <2>3, SMTT(30)
    <3> QED
      BY <3>1
  <2>5. Path(s, d) = PathNGon(s, sides)
    BY <1>5 DEF Path
  <2> HIDE DEF sides
  <2> QED
    BY <1>3, <2>4, <2>5
<1>6. CASE s.path = "circle2"
  <2>1. Path(s, d) = PathNGon(s, 3 * d) /\ 3 * d \in Int /\ 0 <= 3 * d /\ 3 * d <= 192
    BY <1>1, <1>6 DEF Path
  <2> QED
    BY <1>3, <2>1
<1>7. CASE s.path = "test"
  <2>1. Path(s, d) = [points |-> 5, open |-> TRUE]
    BY <1>7 DEF Path
  <2> QED
    BY <2>1
<1>8. CASE s.path = "flexible"
  <2>1. Path(s, d) = [points |-> 2, open |-> TRUE]
    BY <1>8 DEF Path
  <2> QED
    BY <2>1
<1> QED
  BY <1>1, <1>4, <1>5, <1>6, <1>7, <1>8

(***************************************************************************)
(* The faces of a volume.                                                  *)
(***************************************************************************)

\* The face of the j-th side a cut leaves of a flat outline.
FlatSide(s, d, j) ==
  Side(OuterSide(LowSide(s, Sides(s, d)) + j - 1), Corner(j - 1, Split(s, d)), Split(s, d) + 2,
       TRUE)

SideCount(s, d) == HighSide(s, Sides(s, d)) - LowSide(s, Sides(s, d))

RoundCount(s, d) ==
  IF Sliced(s) /\ ~s.hollow THEN OuterPoints(s, d) - 1 ELSE OuterPoints(s, d)

LEMMA SideCounts ==
  ASSUME NEW s \in Shape, NEW d \in 2 .. 8, Generated(s)
  PROVE  /\ LowSide(s, Sides(s, d)) \in Nat /\ SideCount(s, d) \in Nat
         /\ HighSide(s, Sides(s, d)) = LowSide(s, Sides(s, d)) + SideCount(s, d)
         /\ SideCount(s, d) <= Stretches(s, Sides(s, d))
         /\ Flat(s) /\ ~EndSliver(s) => SideCount(s, d) = Stretches(s, Sides(s, d))
         /\ Stretches(s, Sides(s, d)) \in 0 .. 25
         /\ Split(s, d) \in 0 .. 2
<1>1. Sides(s, d) \in 2 .. 24 /\ Split(s, d) \in 0 .. 2
      /\ (Flat(s) => Sides(s, 2) = Sides(s, d))
  BY SidesBounds
<1> DEFINE n == Sides(s, d)
<1> HIDE DEF n
<1>2. /\ Stretches(s, n) \in 0 .. 25
      /\ LowSide(s, n) \in Nat /\ HighSide(s, n) \in Nat
      /\ LowSide(s, n) <= HighSide(s, n)
      /\ HighSide(s, n) - LowSide(s, n) <= Stretches(s, n)
      /\ ~(0 < (s.end * n) % Q /\ (s.end * n) % Q < 100) =>
           HighSide(s, n) - LowSide(s, n) = Stretches(s, n)
  BY <1>1, StretchBounds DEF n
<1>3. Flat(s) /\ ~EndSliver(s) => ~(0 < (s.end * n) % Q /\ (s.end * n) % Q < 100)
  BY <1>1 DEF EndSliver, n
<1> QED
  BY <1>1, <1>2, <1>3 DEF SideCount, n

\* The outer faces of a flat outline: one for each side, in order.
LEMMA FlatFaces ==
  ASSUME NEW s \in Shape, NEW d \in 2 .. 8, Generated(s), Flat(s)
  PROVE  /\ Outer(s, d) \in Seq(Face)
         /\ Entries(Outer(s, d)) = {FlatSide(s, d, j) : j \in 1 .. SideCount(s, d)}
         /\ Ids(Outer(s, d)) = {OuterSide(i) :
              i \in LowSide(s, Sides(s, d)) .. HighSide(s, Sides(s, d)) - 1}
         /\ Distinct(Outer(s, d))
<1> DEFINE n == SideCount(s, d)
           low == LowSide(s, Sides(s, d))
           q == Outer(s, d)
<1>1. low \in Nat /\ n \in Nat /\ HighSide(s, Sides(s, d)) = low + n /\ Split(s, d) \in 0 .. 2
  BY SideCounts
<1>2. q = [j \in 1 .. n |-> FlatSide(s, d, j)]
  BY DEF Outer, OuterFaces, FlatSide, SideCount, LowSide, HighSide
<1> HIDE DEF n, low, q
<1>3. ASSUME NEW j \in 1 .. n
      PROVE  /\ FlatSide(s, d, j) \in Face
             /\ FlatSide(s, d, j).id = 5 + low + j - 1
  <2>1. Corner(j - 1, Split(s, d)) \in Int /\ 5 + (low + j - 1) \in Nat
    BY <1>1 DEF Corner
  <2> QED
    BY <1>1, <2>1 DEF FlatSide, OuterSide, Side, Face, low
<1>4. /\ q \in Seq(Face) /\ DOMAIN q = 1 .. n
      /\ \A j \in 1 .. n : q[j] = FlatSide(s, d, j)
  BY <1>1, <1>2, <1>3
<1>5. Entries(q) = {FlatSide(s, d, j) : j \in 1 .. n}
  BY <1>4 DEF Entries
<1>6. Distinct(q)
  BY <1>1, <1>3, <1>4 DEF Distinct
<1>7. Ids(q) = {OuterSide(i) : i \in low .. low + n - 1}
  <2>1. ASSUME NEW j \in 1 .. n
        PROVE  low + j - 1 \in low .. low + n - 1 /\ FlatSide(s, d, j).id = OuterSide(low + j - 1)
    BY <1>1, <1>3 DEF OuterSide
  <2>2. ASSUME NEW i \in low .. low + n - 1
        PROVE  i - low + 1 \in 1 .. n /\ FlatSide(s, d, i - low + 1).id = OuterSide(i)
    <3>1. i - low + 1 \in 1 .. n
      BY <1>1
    <3> QED
      BY <1>1, <1>3, <3>1 DEF OuterSide
  <2>3. Ids(q) = {FlatSide(s, d, j).id : j \in 1 .. n}
    BY <1>5 DEF Ids
  <2> QED
    BY <2>1, <2>2, <2>3
<1> QED
  BY <1>1, <1>4, <1>5, <1>6, <1>7 DEF n, low, q

\* The outer face of a round outline.
LEMMA RoundFaces ==
  ASSUME NEW s \in Shape, NEW d \in 2 .. 8, Generated(s), ~Flat(s)
  PROVE  LET f == Side(OuterSide(0), 0, RoundCount(s, d), FALSE)
         IN  /\ Outer(s, d) \in Seq(Face) /\ Entries(Outer(s, d)) = {f}
             /\ Ids(Outer(s, d)) = {OuterSide(0)} /\ Distinct(Outer(s, d))
<1> DEFINE f == Side(OuterSide(0), 0, RoundCount(s, d), FALSE)
<1>1. Outer(s, d) = <<f>>
  <2> DEFINE sides == Sides(s, d)
             split == Split(s, d)
             total == OuterPoints(s, d)
             low == (s.begin * sides) \div Q
             high == (s.end * sides * 1000 + 999 * Q) \div (1000 * Q)
             flat == [j \in 1 .. high - low |->
                        Side(OuterSide(low + j - 1), Corner(j - 1, split), split + 2, TRUE)]
             round == <<Side(OuterSide(0), 0,
                             IF Sliced(s) /\ ~s.hollow THEN total - 1 ELSE total, FALSE)>>
  <2>1. Outer(s, d) = IF Flat(s) THEN flat ELSE round
    BY DEF Outer, OuterFaces
  <2> HIDE DEF flat
  <2>2. Outer(s, d) = round
    BY <2>1
  <2> QED
    BY <2>2 DEF RoundCount
<1>2. RoundCount(s, d) \in Int /\ OuterSide(0) \in Nat
  BY PointBounds DEF RoundCount, OuterSide
<1>3. f \in Face /\ f.id = OuterSide(0)
  BY <1>2 DEF Side, Face
<1> HIDE DEF f
<1>4. <<f>> \in Seq(Face) /\ Entries(<<f>>) = {f} /\ Ids(<<f>>) = {f.id} /\ Distinct(<<f>>)
  BY <1>3, OneFace
<1> QED
  BY <1>1, <1>3, <1>4 DEF f

OuterIds(s, d) ==
  IF Flat(s)
  THEN {OuterSide(i) : i \in LowSide(s, Sides(s, d)) .. HighSide(s, Sides(s, d)) - 1}
  ELSE {OuterSide(0)}

LEMMA OuterFacts ==
  ASSUME NEW s \in Shape, NEW d \in 2 .. 8, Generated(s)
  PROVE  /\ Outer(s, d) \in Seq(Face) /\ Ids(Outer(s, d)) = OuterIds(s, d) /\ Distinct(Outer(s, d))
         /\ \A i \in OuterIds(s, d) : i \notin 0 .. 4
<1>1. CASE Flat(s)
  <2>1. /\ Outer(s, d) \in Seq(Face) /\ Distinct(Outer(s, d))
        /\ Ids(Outer(s, d)) = OuterIds(s, d)
    BY <1>1, FlatFaces DEF OuterIds
  <2>2. LowSide(s, Sides(s, d)) \in Nat /\ HighSide(s, Sides(s, d)) \in Int
    BY SideCounts
  <2>3. \A i \in OuterIds(s, d) : i \notin 0 .. 4
    BY <1>1, <2>2 DEF OuterIds, OuterSide
  <2> QED
    BY <2>1, <2>3
<1>2. CASE ~Flat(s)
  <2>1. /\ Outer(s, d) \in Seq(Face) /\ Distinct(Outer(s, d))
        /\ Ids(Outer(s, d)) = OuterIds(s, d)
    BY <1>2, RoundFaces DEF OuterIds
  <2>2. \A i \in OuterIds(s, d) : i \notin 0 .. 4
    BY <1>2 DEF OuterIds, OuterSide
  <2> QED
    BY <2>1, <2>2
<1> QED
  BY <1>1, <1>2

FaceList(s, d, open) ==
  BeginCaps(s, d, open) \o Outer(s, d) \o Inner(s, d) \o EndCaps(s, d, open) \o Ends(s, d)

\* The parts the list of faces is joined from.
LEMMA PartFacts ==
  ASSUME NEW s \in Shape, NEW d \in 2 .. 8, NEW open \in BOOLEAN, Generated(s)
  PROVE  /\ BeginCaps(s, d, open) \in Seq(Face) /\ Distinct(BeginCaps(s, d, open))
         /\ Ids(BeginCaps(s, d, open)) = (IF open THEN {PathBegin} ELSE {})
         /\ \A f \in Entries(BeginCaps(s, d, open)) : f.cap
         /\ EndCaps(s, d, open) \in Seq(Face) /\ Distinct(EndCaps(s, d, open))
         /\ Ids(EndCaps(s, d, open)) = (IF open THEN {PathEnd} ELSE {})
         /\ \A f \in Entries(EndCaps(s, d, open)) : f.cap
         /\ Inner(s, d) \in Seq(Face) /\ Distinct(Inner(s, d))
         /\ Ids(Inner(s, d)) = (IF s.hollow THEN {InnerSide} ELSE {})
         /\ Ends(s, d) \in Seq(Face) /\ Distinct(Ends(s, d))
         /\ Ids(Ends(s, d)) = (IF OpenProfile(s) THEN {ProfileBegin, ProfileEnd} ELSE {})
         /\ Entries(Inner(s, d)) =
              (IF s.hollow
               THEN {Side(InnerSide, OuterPoints(s, d), HolePoints(s, d), FlatHole(s))} ELSE {})
         /\ Entries(Ends(s, d)) =
              (IF OpenProfile(s)
               THEN {Side(ProfileBegin, AllPoints(s, d) - 1, 2, TRUE),
                     Side(ProfileEnd, IF s.hollow THEN OuterPoints(s, d) - 1
                                      ELSE AllPoints(s, d) - 2, 2, TRUE)} ELSE {})
<1>1. /\ PathBegin = 0 /\ PathEnd = 1 /\ InnerSide = 2 /\ ProfileBegin = 3 /\ ProfileEnd = 4
  BY DEF PathBegin, PathEnd, InnerSide, ProfileBegin, ProfileEnd
<1>2. /\ OuterPoints(s, d) \in Int /\ AllPoints(s, d) \in Int /\ HolePoints(s, d) \in Int
  BY PointBounds
<1>3. FlatHole(s) \in BOOLEAN
  BY DEF FlatHole, Flat
<1>4. ASSUME NEW id \in Nat, NEW n \in Int
      PROVE  /\ <<Cap(id, n)>> \in Seq(Face) /\ Distinct(<<Cap(id, n)>>)
             /\ Ids(<<Cap(id, n)>>) = {id} /\ \A f \in Entries(<<Cap(id, n)>>) : f.cap
  <2>1. Cap(id, n) \in Face /\ Cap(id, n).id = id /\ Cap(id, n).cap
    BY DEF Cap, Face
  <2> QED
    BY <2>1, OneFace
<1>5. /\ BeginCaps(s, d, open) \in Seq(Face) /\ Distinct(BeginCaps(s, d, open))
      /\ Ids(BeginCaps(s, d, open)) = (IF open THEN {PathBegin} ELSE {})
      /\ \A f \in Entries(BeginCaps(s, d, open)) : f.cap
  <2> DEFINE n == CASE s.curve = "square" -> AllPoints(s, d)
                    [] s.curve # "square" /\ s.hollow -> 2 * OuterPoints(s, d)
                    [] OTHER -> OuterPoints(s, d)
  <2>1. n \in Int
    BY <1>2
  <2>2. BeginCaps(s, d, open) = IF open THEN <<Cap(PathBegin, n)>> ELSE <<>>
    BY DEF BeginCaps
  <2> HIDE DEF n
  <2>3. CASE open
    <3>1. BeginCaps(s, d, open) = <<Cap(PathBegin, n)>> /\ PathBegin \in Nat
      BY <1>1, <2>2, <2>3
    <3> QED
      BY <1>4, <2>1, <2>3, <3>1
  <2>4. CASE ~open
    BY <2>2, <2>4, NoFace
  <2> QED
    BY <2>3, <2>4
<1>6. /\ EndCaps(s, d, open) \in Seq(Face) /\ Distinct(EndCaps(s, d, open))
      /\ Ids(EndCaps(s, d, open)) = (IF open THEN {PathEnd} ELSE {})
      /\ \A f \in Entries(EndCaps(s, d, open)) : f.cap
  BY <1>1, <1>2, <1>4, NoFace DEF EndCaps
<1>7. /\ Inner(s, d) \in Seq(Face) /\ Distinct(Inner(s, d))
      /\ Ids(Inner(s, d)) = (IF s.hollow THEN {InnerSide} ELSE {})
      /\ Entries(Inner(s, d)) =
           (IF s.hollow
            THEN {Side(InnerSide, OuterPoints(s, d), HolePoints(s, d), FlatHole(s))} ELSE {})
  <2> DEFINE f == Side(InnerSide, OuterPoints(s, d), HolePoints(s, d), FlatHole(s))
  <2>1. f \in Face /\ f.id = InnerSide
    BY <1>1, <1>2, <1>3 DEF Side, Face
  <2>2. Inner(s, d) = IF s.hollow THEN <<f>> ELSE <<>>
    BY DEF Inner
  <2> HIDE DEF f
  <2>3. /\ Inner(s, d) \in Seq(Face) /\ Distinct(Inner(s, d))
        /\ Ids(Inner(s, d)) = (IF s.hollow THEN {InnerSide} ELSE {})
        /\ Entries(Inner(s, d)) = (IF s.hollow THEN {f} ELSE {})
    BY <2>1, <2>2, NoFace, OneFace
  <2> QED
    BY <2>3 DEF f
<1>8. /\ Ends(s, d) \in Seq(Face) /\ Distinct(Ends(s, d))
      /\ Ids(Ends(s, d)) = (IF OpenProfile(s) THEN {ProfileBegin, ProfileEnd} ELSE {})
      /\ Entries(Ends(s, d)) =
           (IF OpenProfile(s)
            THEN {Side(ProfileBegin, AllPoints(s, d) - 1, 2, TRUE),
                  Side(ProfileEnd, IF s.hollow THEN OuterPoints(s, d) - 1
                                   ELSE AllPoints(s, d) - 2, 2, TRUE)} ELSE {})
  <2> DEFINE k == IF s.hollow THEN OuterPoints(s, d) - 1 ELSE AllPoints(s, d) - 2
             f == Side(ProfileBegin, AllPoints(s, d) - 1, 2, TRUE)
             g == Side(ProfileEnd, k, 2, TRUE)
  <2>1. k \in Int
    BY <1>2
  <2>2. Ends(s, d) = IF OpenProfile(s) THEN <<f, g>> ELSE <<>>
    BY DEF Ends
  <2> HIDE DEF k
  <2>3. /\ f \in Face /\ f.id = ProfileBegin /\ g \in Face /\ g.id = ProfileEnd
        /\ f.id # g.id
    BY <1>1, <1>2, <2>1 DEF Side, Face
  <2> HIDE DEF f, g
  <2>4. /\ <<f, g>> \in Seq(Face) /\ Entries(<<f, g>>) = {f, g} /\ Ids(<<f, g>>) = {f.id, g.id}
        /\ Distinct(<<f, g>>)
    BY <2>3, TwoFaces
  <2>5. /\ Ends(s, d) \in Seq(Face) /\ Distinct(Ends(s, d))
        /\ Ids(Ends(s, d)) = (IF OpenProfile(s) THEN {ProfileBegin, ProfileEnd} ELSE {})
        /\ Entries(Ends(s, d)) = (IF OpenProfile(s) THEN {f, g} ELSE {})
    BY <2>2, <2>3, <2>4, NoFace
  <2> QED
    BY <2>5 DEF f, g, k
<1> QED
  BY <1>5, <1>6, <1>7, <1>8

\* The whole list: no two faces have one number, and which numbers there are.
LEMMA ListFacts ==
  ASSUME NEW s \in Shape, NEW d \in 2 .. 8, NEW open \in BOOLEAN, Generated(s)
  PROVE  /\ FaceList(s, d, open) \in Seq(Face) /\ Distinct(FaceList(s, d, open))
         /\ Ids(FaceList(s, d, open)) =
              OuterIds(s, d)
              \union (IF s.hollow THEN {InnerSide} ELSE {})
              \union (IF OpenProfile(s) THEN {ProfileBegin, ProfileEnd} ELSE {})
              \union (IF open THEN {PathBegin, PathEnd} ELSE {})
         /\ Entries(FaceList(s, d, open)) =
              Entries(BeginCaps(s, d, open)) \union Entries(Outer(s, d))
              \union Entries(Inner(s, d)) \union Entries(EndCaps(s, d, open))
              \union Entries(Ends(s, d))
<1> DEFINE a == BeginCaps(s, d, open)
           b == Outer(s, d)
           c == Inner(s, d)
           e == EndCaps(s, d, open)
           g == Ends(s, d)
<1>1. /\ PathBegin = 0 /\ PathEnd = 1 /\ InnerSide = 2 /\ ProfileBegin = 3 /\ ProfileEnd = 4
  BY DEF PathBegin, PathEnd, InnerSide, ProfileBegin, ProfileEnd
<1>2. /\ a \in Seq(Face) /\ b \in Seq(Face) /\ c \in Seq(Face) /\ e \in Seq(Face) /\ g \in Seq(Face)
      /\ Distinct(a) /\ Distinct(b) /\ Distinct(c) /\ Distinct(e) /\ Distinct(g)
      /\ Ids(a) = (IF open THEN {PathBegin} ELSE {})
      /\ Ids(b) = OuterIds(s, d)
      /\ Ids(c) = (IF s.hollow THEN {InnerSide} ELSE {})
      /\ Ids(e) = (IF open THEN {PathEnd} ELSE {})
      /\ Ids(g) = (IF OpenProfile(s) THEN {ProfileBegin, ProfileEnd} ELSE {})
  BY OuterFacts, PartFacts
<1>3. \A i \in OuterIds(s, d) : i \notin 0 .. 4
  BY OuterFacts
<1>4. FaceList(s, d, open) = (((a \o b) \o c) \o e) \o g
  BY DEF FaceList
<1> HIDE DEF a, b, c, e, g
<1>5. /\ a \o b \in Seq(Face) /\ Distinct(a \o b)
      /\ Ids(a \o b) = Ids(a) \union Ids(b) /\ Entries(a \o b) = Entries(a) \union Entries(b)
  <2>1. Ids(a) \intersect Ids(b) = {}
    BY <1>1, <1>2, <1>3
  <2> QED
    BY <1>2, <2>1, Joined
<1> DEFINE ab == a \o b
           abc == ab \o c
           abce == abc \o e
<1> HIDE DEF ab
<1>6. /\ ab \in Seq(Face) /\ Distinct(ab)
      /\ Ids(ab) = Ids(a) \union Ids(b) /\ Entries(ab) = Entries(a) \union Entries(b)
  BY <1>5 DEF ab
<1>7. /\ abc \in Seq(Face) /\ Distinct(abc)
      /\ Ids(abc) = Ids(ab) \union Ids(c) /\ Entries(abc) = Entries(ab) \union Entries(c)
  <2>1. Ids(ab) \intersect Ids(c) = {}
    BY <1>1, <1>2, <1>3, <1>6
  <2> QED
    BY <1>2, <1>6, <2>1, Joined
<1> HIDE DEF abc
<1>8. /\ abce \in Seq(Face) /\ Distinct(abce)
      /\ Ids(abce) = Ids(abc) \union Ids(e) /\ Entries(abce) = Entries(abc) \union Entries(e)
  <2>1. Ids(abc) \intersect Ids(e) = {}
    BY <1>1, <1>2, <1>3, <1>6, <1>7
  <2> QED
    BY <1>2, <1>7, <2>1, Joined
<1> HIDE DEF abce
<1>9. /\ abce \o g \in Seq(Face) /\ Distinct(abce \o g)
      /\ Ids(abce \o g) = Ids(abce) \union Ids(g)
      /\ Entries(abce \o g) = Entries(abce) \union Entries(g)
  <2>1. Ids(abce) \intersect Ids(g) = {}
    BY <1>1, <1>2, <1>3, <1>6, <1>7, <1>8
  <2> QED
    BY <1>2, <1>8, <2>1, Joined
<1>10. FaceList(s, d, open) = abce \o g
  BY <1>4 DEF ab, abc, abce
<1>11. Ids(abce \o g) = OuterIds(s, d)
              \union (IF s.hollow THEN {InnerSide} ELSE {})
              \union (IF OpenProfile(s) THEN {ProfileBegin, ProfileEnd} ELSE {})
              \union (IF open THEN {PathBegin, PathEnd} ELSE {})
  BY <1>2, <1>6, <1>7, <1>8, <1>9
<1>12. Entries(abce \o g) = Entries(a) \union Entries(b) \union Entries(c) \union Entries(e)
                              \union Entries(g)
  BY <1>6, <1>7, <1>8, <1>9
<1> QED
  BY <1>9, <1>10, <1>11, <1>12 DEF a, b, c, e, g

VolumeFacts(v, s, d) ==
  /\ v.shape = s /\ v.path = Path(s, d)
  /\ v.profile.curve = CurvePoints(s, d) /\ v.profile.out = OuterPoints(s, d)
  /\ v.profile.total = AllPoints(s, d) /\ v.profile.open = OpenProfile(s)
  /\ v.profile.faces = FaceList(s, d, Path(s, d).open)

LEMMA VolumeIs ==
  ASSUME NEW s \in Shape, NEW d \in 2 .. 8, Generated(s), NEW v, v = Volume(s, d)
  PROVE  /\ VolumeFacts(v, s, d)
         /\ Faces(v) = Entries(v.profile.faces) /\ FaceMask(v) = Ids(v.profile.faces)
<1>1. Path(s, d).open \in BOOLEAN
  BY PathPoints
<1>2. /\ v.shape = s /\ v.path = Path(s, d) /\ v.profile = Profile(s, d, Path(s, d).open)
  BY DEF Volume
<1>3. Profile(s, d, Path(s, d).open) =
        [curve |-> CurvePoints(s, d), out |-> OuterPoints(s, d), total |-> AllPoints(s, d),
         open |-> OpenProfile(s), faces |-> FaceList(s, d, Path(s, d).open)]
  BY <1>1, ProfileIs DEF FaceList
<1>4. VolumeFacts(v, s, d)
  BY <1>2, <1>3 DEF VolumeFacts
<1>5. Faces(v) = Entries(v.profile.faces)
  BY DEF Faces, Entries
<1> QED
  BY <1>4, <1>5 DEF FaceMask, Ids

\* The two masks.
LEMMA MasksAgreeFor ==
  ASSUME NEW s \in Shape, NEW d \in 2 .. 8, Generated(s), ~EndSliver(s), NEW v, v = Volume(s, d)
  PROVE  GenerateFaceMask(v) = FaceMask(v) /\ Cardinality(FaceMask(v)) = Len(v.profile.faces)
<1> DEFINE q == v.profile.faces
<1>1. Path(s, d).open \in BOOLEAN
  BY PathPoints
<1>2. VolumeFacts(v, s, d) /\ FaceMask(v) = Ids(q)
  BY VolumeIs
<1>3. q = FaceList(s, d, Path(s, d).open)
  BY <1>2 DEF VolumeFacts
<1>4. q \in Seq(Face) /\ Distinct(q)
  BY <1>1, <1>3, ListFacts
<1>5. Ids(q) = OuterIds(s, d)
               \union (IF s.hollow THEN {InnerSide} ELSE {})
               \union (IF OpenProfile(s) THEN {ProfileBegin, ProfileEnd} ELSE {})
               \union (IF Path(s, d).open THEN {PathBegin, PathEnd} ELSE {})
  BY <1>1, <1>3, ListFacts
<1>6. OuterIds(s, d) =
        IF Flat(s) THEN {OuterSide(i) : i \in (s.begin * Sides(s, 2)) \div Q
                                                .. CeilDiv(s.end * Sides(s, 2), Q) - 1}
        ELSE {OuterSide(0)}
  <2>1. CASE Flat(s)
    <3>1. Sides(s, d) = Sides(s, 2) /\ Sides(s, 2) \in 2 .. 24
      BY <2>1, SidesBounds
    <3>2. ~(0 < (s.end * Sides(s, 2)) % Q /\ (s.end * Sides(s, 2)) % Q < 100)
      BY <2>1 DEF EndSliver
    <3>3. HighSide(s, Sides(s, 2)) = CeilDiv(s.end * Sides(s, 2), Q)
      BY <3>1, <3>2, StretchBounds
    <3> QED
      BY <2>1, <3>1, <3>3 DEF OuterIds, LowSide
  <2>2. CASE ~Flat(s)
    BY <2>2 DEF OuterIds
  <2> QED
    BY <2>1, <2>2
<1>7. GenerateFaceMask(v) = Ids(q)
  BY <1>2, <1>5, <1>6 DEF VolumeFacts, GenerateFaceMask
<1> QED
  BY <1>2, <1>4, <1>7, IdCount

(***************************************************************************)
(* The buffers of the faces.                                               *)
(***************************************************************************)

\* The numbers of a volume that its buffers depend on.
Measures(v, s) ==
  /\ v.shape = s
  /\ v.path.points \in Int /\ 1 <= v.path.points /\ v.path.points <= 195
  /\ v.path.open \in BOOLEAN /\ v.profile.open \in BOOLEAN /\ s.hollow \in BOOLEAN
  /\ v.profile.out \in Int /\ 1 <= v.profile.out /\ v.profile.out <= 77
  /\ v.profile.total \in Int /\ v.profile.out <= v.profile.total /\ v.profile.total <= 153
  /\ s.hollow => v.profile.out + 1 <= v.profile.total

LEMMA MeasuresOf ==
  ASSUME NEW s \in Shape, NEW d \in 2 .. 8, Generated(s), NEW v, v = Volume(s, d)
  PROVE  Measures(v, s)
<1>1. VolumeFacts(v, s, d)
  BY VolumeIs
<1>2. /\ Path(s, d).open \in BOOLEAN /\ Path(s, d).points \in Int
      /\ 1 <= Path(s, d).points /\ Path(s, d).points <= 195
  BY PathPoints
<1>3. OpenProfile(s) \in BOOLEAN
  <2>1. CASE s.curve = "half"
    <3>1. OpenProfile(s) <=> s.hollow \/ s.end - s.begin < Q
      BY <2>1 DEF OpenProfile
    <3> QED
      BY <2>1, Zenon DEF OpenProfile
  <2>2. CASE s.curve # "half"
    BY <2>2 DEF OpenProfile, Sliced
  <2> QED
    BY <2>1, <2>2
<1>4. /\ CurvePoints(s, d) \in 1 .. 76
      /\ OuterPoints(s, d) = CurvePoints(s, d) + IF Sliced(s) /\ ~s.hollow THEN 1 ELSE 0
      /\ s.hollow => HolePoints(s, d) \in 1 .. 76
      /\ ~s.hollow => HolePoints(s, d) = 0
      /\ AllPoints(s, d) = OuterPoints(s, d) + HolePoints(s, d)
           + IF s.curve = "half" /\ ~OpenProfile(s) THEN 1 ELSE 0
      /\ s.hollow \in BOOLEAN
  BY PointBounds
<1>5. s.hollow /\ s.curve = "half" => OpenProfile(s)
  BY DEF OpenProfile
<1>6. /\ OuterPoints(s, d) \in Int /\ 1 <= OuterPoints(s, d) /\ OuterPoints(s, d) <= 77
      /\ AllPoints(s, d) \in Int /\ OuterPoints(s, d) <= AllPoints(s, d) /\ AllPoints(s, d) <= 153
      /\ s.hollow => OuterPoints(s, d) + 1 <= AllPoints(s, d)
  BY <1>4, <1>5
<1> QED
  BY <1>1, <1>2, <1>3, <1>4, <1>6 DEF VolumeFacts, Measures

LEMMA WordSize == 2^16 = 65536
<1>1. 2^16 = 65536
  OBVIOUS
<1> QED
  BY <1>1

LEMMA CapFilled ==
  ASSUME NEW s, NEW v, Measures(v, s), NEW f, f.cap
  PROVE  BufferFilled(v, f)
<1> DEFINE n == v.profile.total
           t == v.path.points
           b == CreateCap(v)
<1>1. /\ n \in Int /\ 1 <= n /\ n <= 153 /\ t \in Int /\ 1 <= t /\ t <= 195
  BY DEF Measures
<1>2. Create(v, f) = b
  BY DEF Create
<1>3. CASE UnCut(v)
  <2> DEFINE g == (n - 1) \div 4
  <2>1. b = [vertices |-> (g + 1) * (g + 1), written |-> (g + 1) * (g + 1),
             indices |-> 6 * g * g, filled |-> 6 * g * g,
             top |-> (g - 1) * (g + 1) + g - 1 + (g + 1) + 1,
             point |-> 3 * g, mesh |-> (t - 1) * n + 3 * g]
    BY <1>3 DEF CreateCap, UnCutCubeCap
  <2>2. g \in 0 .. 38 /\ 4 * g + 1 <= n
    BY <1>1
  <2> HIDE DEF g, b, n, t
  <2>3. (g + 1) * (g + 1) = g * g + 2 * g + 1 /\ (g - 1) * (g + 1) = g * g - 1
        /\ g * g \in Int /\ g * g <= 38 * 38
    BY <2>2, SMTT(30)
  <2>4. t * n \in Int /\ (t - 1) * n = t * n - n
    BY <1>1
  <2>5. /\ b.written = b.vertices /\ b.vertices < 65536 /\ b.filled = b.indices
        /\ b.top < b.vertices /\ b.point < n /\ b.mesh < t * n
    BY <1>1, <2>1, <2>2, <2>3, <2>4
  <2> QED
    BY <1>2, <2>5, WordSize DEF BufferFilled, n, t
<1>4. CASE ~UnCut(v)
  <2> DEFINE centre == IF ~v.shape.hollow /\ ~v.profile.open THEN 1 ELSE 0
  <2>1. b = [vertices |-> n + centre, written |-> n + centre,
             indices |-> 3 * (n - 2) + 3 * centre, filled |-> 3 * (n + centre - 2),
             top |-> n + centre - 1, point |-> n - 1, mesh |-> t * n - 1]
    BY <1>4 DEF CreateCap
  <2>2. centre \in {0, 1}
    OBVIOUS
  <2> HIDE DEF centre, b, n, t
  <2>3. t * n \in Int
    BY <1>1
  <2>4. /\ b.written = b.vertices /\ b.vertices < 65536 /\ b.filled = b.indices
        /\ b.top < b.vertices /\ b.point < n /\ b.mesh < t * n
    BY <1>1, <2>1, <2>2, <2>3
  <2> QED
    BY <1>2, <2>4, WordSize DEF BufferFilled, n, t
<1> QED
  BY <1>3, <1>4

\* A side that stays on the outline, or an end of the cut, which may be wrapped
\* to the first point.
LEMMA SideFilled ==
  ASSUME NEW s, NEW v, Measures(v, s), NEW f, ~f.cap,
         f.index \in Int, f.count \in Int, f.count <= 77, f.index < v.profile.total,
         \/ f.index + f.count - 1 < v.profile.total
         \/ f.id \in {ProfileBegin, ProfileEnd} /\ f.count = 2
  PROVE  BufferFilled(v, f)
<1> DEFINE n == v.profile.total
           t == v.path.points
           numS == IF Doubled(f) THEN 2 * f.count ELSE f.count
           row == IF Doubled(f) THEN 1 + 2 * (f.count - 1) + 1 ELSE f.count
           last == f.index + f.count - 1
           ends == f.id \in {ProfileBegin, ProfileEnd}
           far == IF last < n THEN last ELSE Larger(n - 1, last - n)
           b == CreateSide(v, f)
<1>1. n \in Int /\ 1 <= n /\ n <= 153 /\ t \in Int /\ 1 <= t /\ t <= 195
  BY DEF Measures
<1>2. Create(v, f) = b
  BY DEF Create
<1>3. b = [vertices |-> numS * t, written |-> row * t,
           indices |-> (numS - 1) * (t - 1) * 6, filled |-> (numS - 1) * (t - 1) * 6,
           top |-> numS - 1 + numS * (t - 1),
           point |-> IF ends THEN f.index ELSE last,
           mesh |-> n * (t - 1) + far]
  BY DEF CreateSide
<1>4. numS \in Int /\ row = numS /\ numS <= 154
  OBVIOUS
<1>5. far \in Int /\ far <= n - 1
  BY <1>1 DEF Larger
<1>6. (IF ends THEN f.index ELSE last) < n
  OBVIOUS
<1> DEFINE point == IF ends THEN f.index ELSE last
<1> HIDE DEF n, t, numS, row, far, b, point
<1>7. numS * t \in Int /\ numS * (t - 1) = numS * t - numS
  BY <1>1, <1>4
<1>8. n * t \in Int /\ n * (t - 1) = n * t - n /\ t * n = n * t
  BY <1>1
<1>9. numS * t <= 154 * 195
  <2>1. (154 - numS) * t >= 0 /\ (154 - numS) * t = 154 * t - numS * t
    BY <1>1, <1>4
  <2> QED
    BY <1>1, <1>7, <2>1
<1>10. /\ b.written = b.vertices /\ b.vertices < 65536 /\ b.filled = b.indices
       /\ b.top < b.vertices /\ b.point < n /\ b.mesh < t * n
  <2>1. /\ b.vertices = numS * t /\ b.written = row * t /\ b.filled = b.indices
        /\ b.top = numS - 1 + numS * (t - 1) /\ b.point = point
        /\ b.mesh = n * (t - 1) + far
    BY <1>3 DEF point
  <2>2. point < n
    BY <1>6 DEF point
  <2> QED
    BY <1>1, <1>4, <1>5, <1>7, <1>8, <1>9, <2>1, <2>2
<1> QED
  BY <1>2, <1>10, WordSize DEF BufferFilled, n, t

\* What is emitted for the whole volume is what was predicted.
LEMMA IndicesFor ==
  ASSUME NEW s, NEW v, Measures(v, s)
  PROVE  EmittedIndices(v) = PredictedIndices(v)
<1> DEFINE n == v.profile.total
           out == v.profile.out
           rows == v.path.points - 1
           hollow == v.shape.hollow
           open == v.profile.open
           runs == IF ~open /\ hollow THEN {0 .. out - 2, out .. n - 2} ELSE {0 .. n - 2}
           sides == CASE open -> (n - 1) * 6 + 6
                      [] ~open /\ hollow -> (out - 1) * 6 + (n - 1 - out) * 6
                      [] ~open /\ ~hollow -> (n - 1) * 6
           caps == CASE hollow -> 2 .. n - 1
                     [] ~hollow /\ open -> 0 .. n - 3
                     [] ~hollow /\ ~open -> 1 .. n - 3
           cap == IF open \/ hollow THEN n - 2 ELSE n - 3
<1>1. /\ n \in Int /\ out \in Int /\ 1 <= out /\ out <= n /\ rows \in Int
      /\ hollow \in BOOLEAN /\ open \in BOOLEAN /\ (hollow => out + 1 <= n)
  BY DEF Measures
<1>2. /\ EmittedIndices(v) = rows * 6 * (Cardinality(UNION runs) + IF open THEN 1 ELSE 0)
           + IF v.path.open THEN 2 * (3 * Cardinality(caps)) ELSE 0
      /\ PredictedIndices(v) = rows * sides + (IF v.path.open THEN Larger(cap, 0) * 2 * 3 ELSE 0)
  BY DEF EmittedIndices, SideIndices, CapIndices, PredictedIndices
<1> HIDE DEF n, out, rows, hollow, open
<1>3. Cardinality(caps) = Larger(cap, 0) /\ Larger(cap, 0) \in Int
  <2>1. CASE hollow
    <3>1. Cardinality(2 .. n - 1) = IF 2 > n - 1 THEN 0 ELSE n - 2
      BY <1>1, FS_Interval
    <3>2. caps = 2 .. n - 1 /\ cap = n - 2
      BY <2>1
    <3> HIDE DEF caps, cap
    <3> QED
      BY <1>1, <3>1, <3>2 DEF Larger
  <2>2. CASE ~hollow /\ open
    <3>1. Cardinality(0 .. n - 3) = IF 0 > n - 3 THEN 0 ELSE n - 2
      BY <1>1, FS_Interval
    <3> QED
      BY <1>1, <2>2, <3>1 DEF Larger
  <2>3. CASE ~hollow /\ ~open
    <3>1. Cardinality(1 .. n - 3) = IF 1 > n - 3 THEN 0 ELSE n - 3
      BY <1>1, FS_Interval
    <3> QED
      BY <1>1, <2>3, <3>1 DEF Larger
  <2> QED
    BY <1>1, <2>1, <2>2, <2>3
<1>4. /\ Cardinality(UNION runs) \in Int
      /\ sides = 6 * (Cardinality(UNION runs) + IF open THEN 1 ELSE 0)
  <2>1. CASE ~open /\ hollow
    <3>1. UNION runs = (0 .. out - 2) \union (out .. n - 2)
      BY <2>1
    <3>2. /\ IsFiniteSet(0 .. out - 2) /\ Cardinality(0 .. out - 2) = out - 1
      <4>1. /\ IsFiniteSet(0 .. out - 2)
            /\ Cardinality(0 .. out - 2) = IF 0 > out - 2 THEN 0 ELSE out - 2 - 0 + 1
        BY <1>1, FS_Interval
      <4> QED
        BY <1>1, <4>1
    <3>3. IsFiniteSet(out .. n - 2) /\ Cardinality(out .. n - 2) = n - 1 - out
      <4>1. /\ IsFiniteSet(out .. n - 2)
            /\ Cardinality(out .. n - 2) = IF out > n - 2 THEN 0 ELSE n - 2 - out + 1
        BY <1>1, FS_Interval
      <4> QED
        BY <1>1, <2>1, <4>1
    <3>4. Cardinality((0 .. out - 2) \union (out .. n - 2)) = out - 1 + (n - 1 - out)
      <4>1. (0 .. out - 2) \intersect (out .. n - 2) = {}
        BY <1>1
      <4> DEFINE A == 0 .. out - 2
                 B == out .. n - 2
      <4>2. IsFiniteSet(A) /\ IsFiniteSet(B) /\ A \intersect B = {}
        BY <3>2, <3>3, <4>1
      <4>3. Cardinality(A \union B) = Cardinality(A) + Cardinality(B) - Cardinality({})
        <5> HIDE DEF A, B
        <5>1. Cardinality(A \union B) = Cardinality(A) + Cardinality(B) - Cardinality(A \intersect B)
          BY <4>2, FS_Union
        <5> QED
          BY <4>2, <5>1
      <4> QED
        BY <1>1, <3>2, <3>3, <4>3, FS_EmptySet
    <3>5. sides = (out - 1) * 6 + (n - 1 - out) * 6
      BY <2>1
    <3> HIDE DEF runs, sides
    <3>6. Cardinality(UNION runs) = out - 1 + (n - 1 - out)
      BY <3>1, <3>4
    <3> DEFINE m == Cardinality(UNION runs)
    <3>7. m = out - 1 + (n - 1 - out)
      BY <3>6
    <3> HIDE DEF m
    <3>8. m \in Int /\ sides = 6 * (m + IF open THEN 1 ELSE 0)
      BY <1>1, <2>1, <3>5, <3>7
    <3> QED
      BY <3>8 DEF m
  <2>2. CASE open \/ ~hollow
    <3>1. UNION runs = 0 .. n - 2
      BY <2>2
    <3>2. Cardinality(0 .. n - 2) = n - 1
      <4>1. Cardinality(0 .. n - 2) = IF 0 > n - 2 THEN 0 ELSE n - 2 - 0 + 1
        BY <1>1, FS_Interval
      <4> QED
        BY <1>1, <4>1
    <3>3. sides = IF open THEN (n - 1) * 6 + 6 ELSE (n - 1) * 6
      BY <1>1, <2>2
    <3> HIDE DEF runs, sides
    <3> DEFINE m == Cardinality(UNION runs)
    <3>4. m = n - 1
      BY <3>1, <3>2
    <3> HIDE DEF m
    <3>5. m \in Int /\ sides = 6 * (m + IF open THEN 1 ELSE 0)
      BY <1>1, <3>3, <3>4
    <3> QED
      BY <3>5 DEF m
  <2> QED
    BY <1>1, <2>1, <2>2
<1> DEFINE m == Cardinality(UNION runs)
           k == m + IF open THEN 1 ELSE 0
<1>5. k \in Int /\ sides = 6 * k
  BY <1>4
<1> HIDE DEF m, k, sides, runs, caps, cap
<1>6. rows * sides = rows * 6 * k
  BY <1>1, <1>5
<1> QED
  BY <1>2, <1>3, <1>6 DEF k, m

\* The faces that are not caps.
SideFaces(s, d) == Entries(Outer(s, d)) \union Entries(Inner(s, d)) \union Entries(Ends(s, d))

LEMMA SweptParts ==
  ASSUME NEW s \in Shape, NEW d \in 2 .. 8, Generated(s)
  PROVE  /\ Entries(Inner(s, d)) =
              (IF s.hollow
               THEN {Side(InnerSide, OuterPoints(s, d), HolePoints(s, d), FlatHole(s))} ELSE {})
         /\ Entries(Ends(s, d)) =
              (IF OpenProfile(s)
               THEN {Side(ProfileBegin, AllPoints(s, d) - 1, 2, TRUE),
                     Side(ProfileEnd, IF s.hollow THEN OuterPoints(s, d) - 1
                                      ELSE AllPoints(s, d) - 2, 2, TRUE)} ELSE {})
<1>1. TRUE \in BOOLEAN
  OBVIOUS
<1> QED
  BY <1>1, PartFacts

LEMMA EveryFace ==
  ASSUME NEW s \in Shape, NEW d \in 2 .. 8, Generated(s), NEW v, v = Volume(s, d),
         NEW f \in Faces(v)
  PROVE  f.cap \/ f \in SideFaces(s, d)
<1>1. Path(s, d).open \in BOOLEAN
  BY PathPoints
<1>2. Faces(v) = Entries(FaceList(s, d, Path(s, d).open))
  BY VolumeIs DEF VolumeFacts
<1>3. Faces(v) = Entries(BeginCaps(s, d, Path(s, d).open)) \union Entries(Outer(s, d))
                   \union Entries(Inner(s, d)) \union Entries(EndCaps(s, d, Path(s, d).open))
                   \union Entries(Ends(s, d))
  BY <1>1, <1>2, ListFacts
<1>4. /\ \A g \in Entries(BeginCaps(s, d, Path(s, d).open)) : g.cap
      /\ \A g \in Entries(EndCaps(s, d, Path(s, d).open)) : g.cap
  BY <1>1, PartFacts
<1> QED
  BY <1>3, <1>4 DEF SideFaces

\* The last point of a flat side is the corner after it.
LEMMA FlatCorner ==
  ASSUME NEW s \in Shape, NEW d \in 2 .. 8, Generated(s), Flat(s), ~FirstSliver(s),
         NEW j \in 1 .. SideCount(s, d)
  PROVE  LET f == FlatSide(s, d, j)
         IN  /\ ~f.cap /\ f.id \notin {ProfileBegin, ProfileEnd}
             /\ f.index \in Int /\ 0 <= f.index /\ f.index = (j - 1) * (Split(s, d) + 1)
             /\ f.count = Split(s, d) + 2
             /\ f.index + f.count - 1 = j * (Split(s, d) + 1)
             /\ f.index + f.count - 1 < CurvePoints(s, d)
<1> DEFINE k == Split(s, d) + 1
           n == SideCount(s, d)
           low == LowSide(s, Sides(s, d))
           r == Stretches(s, Sides(s, d))
           f == FlatSide(s, d, j)
<1>1. /\ low \in Nat /\ n \in Nat /\ n <= r /\ r \in 0 .. 25 /\ k \in 1 .. 3
      /\ Split(s, d) = k - 1
  BY SideCounts
<1>2. CurvePoints(s, d) = 1 + r * k
  BY PointBounds
<1>3. f = [id |-> 5 + (low + j - 1), index |-> (j - 1) * k, count |-> Split(s, d) + 2,
           cap |-> FALSE, flat |-> TRUE]
  BY DEF FlatSide, Side, OuterSide, Corner
<1> HIDE DEF k, n, low, r, f
<1>4. j \in Int /\ 1 <= j /\ j <= n
  BY <1>1 DEF n
<1>5. /\ (j - 1) * k = j * k - k /\ (j - 1) * k >= 0 /\ j * k <= r * k
      /\ j * k \in Int /\ r * k \in Int
  <2>1. k \in Int /\ 1 <= k /\ r \in Int
    BY <1>1
  <2>2. (r - j) * k >= 0 /\ (r - j) * k = r * k - j * k
    BY <1>1, <1>4, <2>1
  <2>3. (j - 1) * k >= 0
    BY <1>4, <2>1
  <2> QED
    BY <1>4, <2>1, <2>2, <2>3
<1>6. /\ ~f.cap /\ f.id \notin {3, 4} /\ f.index \in Int /\ 0 <= f.index
      /\ f.index = (j - 1) * k /\ f.count = k + 1 /\ f.index + f.count - 1 = j * k
      /\ f.index + f.count - 1 < CurvePoints(s, d)
  BY <1>1, <1>2, <1>3, <1>4, <1>5
<1>7. k = Split(s, d) + 1 /\ k + 1 = Split(s, d) + 2
  BY <1>1
<1> QED
  BY <1>6, <1>7 DEF f, ProfileBegin, ProfileEnd

\* The buffers of all faces of a volume.
LEMMA BuffersFilledFor ==
  ASSUME NEW s \in Shape, NEW d \in 2 .. 8, Generated(s), ~FirstSliver(s),
         NEW v, v = Volume(s, d)
  PROVE  /\ \A f \in Faces(v) : BufferFilled(v, f)
         /\ EmittedIndices(v) = PredictedIndices(v)
<1>1. Measures(v, s)
  BY MeasuresOf
<1>2. /\ v.profile.out = OuterPoints(s, d) /\ v.profile.total = AllPoints(s, d)
  BY VolumeIs DEF VolumeFacts
<1>3. /\ CurvePoints(s, d) \in Int /\ 1 <= CurvePoints(s, d) /\ CurvePoints(s, d) <= 76
      /\ OuterPoints(s, d) = CurvePoints(s, d) + IF Sliced(s) /\ ~s.hollow THEN 1 ELSE 0
      /\ OuterPoints(s, d) \in Int /\ CurvePoints(s, d) <= OuterPoints(s, d)
      /\ s.hollow => /\ HolePoints(s, d) \in Int /\ 1 <= HolePoints(s, d) /\ HolePoints(s, d) <= 76
                     /\ OuterPoints(s, d) + HolePoints(s, d) <= AllPoints(s, d)
      /\ AllPoints(s, d) \in Int /\ OuterPoints(s, d) <= AllPoints(s, d)
  BY PointBounds
<1>4. ASSUME NEW f \in Faces(v) PROVE BufferFilled(v, f)
  <2>1. CASE f.cap
    BY <1>1, <2>1, CapFilled
  <2>2. CASE f \in Entries(Outer(s, d)) /\ Flat(s)
    <3>1. PICK j \in 1 .. SideCount(s, d) : f = FlatSide(s, d, j)
      BY <2>2, FlatFaces
    <3>2. /\ ~f.cap /\ f.index \in Int /\ 0 <= f.index
          /\ f.count = Split(s, d) + 2 /\ f.index + f.count - 1 < CurvePoints(s, d)
      BY <2>2, <3>1, FlatCorner
    <3>3. Split(s, d) \in 0 .. 2
      BY SideCounts
    <3>4. /\ f.count \in Int /\ f.count <= 77 /\ f.index < v.profile.total
          /\ f.index + f.count - 1 < v.profile.total
      BY <1>2, <1>3, <3>2, <3>3
    <3> QED
      BY <1>1, <3>2, <3>4, SideFilled
  <2>3. CASE f \in Entries(Outer(s, d)) /\ ~Flat(s)
    <3>1. f = Side(OuterSide(0), 0, RoundCount(s, d), FALSE)
      BY <2>3, RoundFaces
    <3>2. RoundCount(s, d) = CurvePoints(s, d)
      BY <1>3 DEF RoundCount
    <3>3. ~f.cap /\ f.index = 0 /\ f.count = CurvePoints(s, d)
      BY <3>1, <3>2 DEF Side
    <3>4. /\ f.index \in Int /\ f.count \in Int /\ f.count <= 77 /\ f.index < v.profile.total
          /\ f.index + f.count - 1 < v.profile.total
      BY <1>2, <1>3, <3>3
    <3> QED
      BY <1>1, <3>3, <3>4, SideFilled
  <2>4. CASE f \in Entries(Inner(s, d))
    <3>1. s.hollow /\ f = Side(InnerSide, OuterPoints(s, d), HolePoints(s, d), FlatHole(s))
      BY <2>4, SweptParts
    <3>2. ~f.cap /\ f.index = OuterPoints(s, d) /\ f.count = HolePoints(s, d)
      BY <3>1 DEF Side
    <3>3. /\ f.index \in Int /\ f.count \in Int /\ f.count <= 77 /\ f.index < v.profile.total
          /\ f.index + f.count - 1 < v.profile.total
      BY <1>2, <1>3, <3>1, <3>2
    <3> QED
      BY <1>1, <3>2, <3>3, SideFilled
  <2>5. CASE f \in Entries(Ends(s, d))
    <3>1. \/ f = Side(ProfileBegin, AllPoints(s, d) - 1, 2, TRUE)
          \/ f = Side(ProfileEnd, IF s.hollow THEN OuterPoints(s, d) - 1
                                  ELSE AllPoints(s, d) - 2, 2, TRUE)
      BY <2>5, SweptParts
    <3>2. /\ ~f.cap /\ f.id \in {ProfileBegin, ProfileEnd} /\ f.count = 2
          /\ f.index \in {AllPoints(s, d) - 1, OuterPoints(s, d) - 1, AllPoints(s, d) - 2}
      BY <3>1 DEF Side
    <3>3. f.index \in Int /\ f.index < v.profile.total
      BY <1>2, <1>3, <3>2
    <3> QED
      BY <1>1, <3>2, <3>3, SideFilled
  <2> QED
    BY <2>1, <2>2, <2>3, <2>4, <2>5, EveryFace DEF SideFaces
<1> QED
  BY <1>1, <1>4, IndicesFor

(***************************************************************************)
(* The stretches of the outline.                                           *)
(***************************************************************************)

LEMMA NoWrap == ASSUME NEW x \in Int, NEW n \in Int, 0 <= x, x < n PROVE x % n = x
OBVIOUS

\* A face that stays on the outline sweeps from its first point on.
LEMMA SweptRun ==
  ASSUME NEW f, NEW n \in Int, f.index \in Int, f.count \in Int, 0 <= f.index, 1 <= n,
         f.index + f.count - 2 < n,
         NEW i \in Int
  PROVE  i \in Swept(f, n) <=> f.index <= i /\ i <= f.index + f.count - 2
<1>1. ASSUME NEW j \in 0 .. f.count - 2 PROVE (f.index + j) % n = f.index + j
  <2>1. f.index + j \in Int /\ 0 <= f.index + j /\ f.index + j < n
    OBVIOUS
  <2> DEFINE x == f.index + j
  <2>2. x \in Int /\ 0 <= x /\ x < n
    BY <2>1
  <2> HIDE DEF x
  <2>3. x % n = x
    BY <2>2, NoWrap
  <2> QED
    BY <2>3 DEF x
<1>2. ASSUME i \in Swept(f, n) PROVE f.index <= i /\ i <= f.index + f.count - 2
  BY <1>1, <1>2 DEF Swept
<1>3. ASSUME f.index <= i, i <= f.index + f.count - 2 PROVE i \in Swept(f, n)
  <2>1. i - f.index \in 0 .. f.count - 2 /\ f.index + (i - f.index) = i
    BY <1>3
  <2>2. (f.index + (i - f.index)) % n = f.index + (i - f.index)
    BY <1>1, <2>1
  <2> QED
    BY <2>1, <2>2 DEF Swept
<1> QED
  BY <1>2, <1>3

\* Exactly one face of a set sweeps i.
SweptOnce(F, i, n) ==
  /\ \E f \in F : i \in Swept(f, n)
  /\ \A f, g \in F : i \in Swept(f, n) /\ i \in Swept(g, n) => f = g

NotSwept(F, i, n) == \A f \in F : i \notin Swept(f, n)

\* The outer faces sweep the outer outline from its first point to its last.
LEMMA OuterSweeps ==
  ASSUME NEW s \in Shape, NEW d \in 2 .. 8, Generated(s), ~FirstSliver(s), ~EndSliver(s),
         NEW i \in Int, 0 <= i, i < AllPoints(s, d)
  PROVE  /\ \A f \in Entries(Outer(s, d)) : ~f.cap
         /\ i <= CurvePoints(s, d) - 2 => SweptOnce(Entries(Outer(s, d)), i, AllPoints(s, d))
         /\ i > CurvePoints(s, d) - 2 => NotSwept(Entries(Outer(s, d)), i, AllPoints(s, d))
<1> DEFINE n == AllPoints(s, d)
           curve == CurvePoints(s, d)
           F == Entries(Outer(s, d))
<1>1. n \in Int /\ curve \in Int /\ 1 <= curve /\ curve <= n
  BY PointBounds
<1>2. CASE Flat(s)
  <2> DEFINE k == Split(s, d) + 1
             r == SideCount(s, d)
  <2>1. /\ k \in Int /\ 1 <= k /\ r \in Nat /\ r = Stretches(s, Sides(s, d)) /\ k \in 1 .. 3
    BY <1>2, SideCounts
  <2>2. curve = 1 + r * k
    BY <1>2, <2>1, PointBounds
  <2>3. F = {FlatSide(s, d, j) : j \in 1 .. r}
    BY <1>2, FlatFaces
  <2>4. ASSUME NEW j \in 1 .. r
        PROVE  /\ ~FlatSide(s, d, j).cap
               /\ i \in Swept(FlatSide(s, d, j), n) <=> (j - 1) * k <= i /\ i <= j * k - 1
    <3> DEFINE f == FlatSide(s, d, j)
    <3>1. /\ ~f.cap /\ f.index \in Int /\ 0 <= f.index /\ f.index = (j - 1) * k
          /\ f.count = Split(s, d) + 2 /\ f.index + f.count - 1 = j * k
          /\ f.index + f.count - 1 < curve
      BY <1>2, FlatCorner
    <3>2. Split(s, d) \in 0 .. 2
      BY SideCounts
    <3> HIDE DEF f, n, curve, k
    <3>3. f.count \in Int /\ f.index + f.count - 2 < n /\ f.index + f.count - 2 = j * k - 1
      BY <1>1, <3>1, <3>2
    <3>4. i \in Swept(f, n) <=> f.index <= i /\ i <= f.index + f.count - 2
      BY <1>1, <3>1, <3>3, SweptRun
    <3> QED
      BY <3>1, <3>3, <3>4 DEF f
  <2> HIDE DEF n, curve, k, r, F
  <2>5. \A f \in F : ~f.cap
    BY <2>3, <2>4
  <2>6. ASSUME i <= curve - 2 PROVE SweptOnce(F, i, n)
    <3> DEFINE m == i \div k
    <3>1. m \in Int /\ 0 <= m /\ m * k <= i /\ i <= m * k + k - 1
      BY <2>1
    <3> HIDE DEF m
    <3>2. m + 1 \in 1 .. r
      <4>1. m * k < r * k /\ m * k \in Int /\ r * k \in Int
        BY <1>1, <2>1, <2>2, <2>6, <3>1
      <4>2. CASE m >= r
        <5>1. (m - r) * k >= 0 /\ (m - r) * k = m * k - r * k
          BY <2>1, <3>1, <4>2
        <5> QED
          BY <4>1, <5>1
      <4> QED
        BY <2>1, <3>1, <4>2
    <3>3. (m + 1 - 1) * k = m * k /\ (m + 1) * k = m * k + k
      BY <2>1, <3>1
    <3>4. i \in Swept(FlatSide(s, d, m + 1), n)
      BY <2>1, <2>4, <3>1, <3>2, <3>3
    <3>5. ASSUME NEW a \in 1 .. r, NEW b \in 1 .. r,
                 i \in Swept(FlatSide(s, d, a), n), i \in Swept(FlatSide(s, d, b), n)
          PROVE  a = b
      <4>1. (a - 1) * k <= i /\ i <= a * k - 1 /\ (b - 1) * k <= i /\ i <= b * k - 1
        BY <2>4, <3>5
      <4>2. k = 1 \/ k = 2 \/ k = 3
        BY <2>1
      <4> QED
        BY <2>1, <4>1, <4>2
    <3> QED
      BY <2>3, <3>2, <3>4, <3>5 DEF SweptOnce
  <2>7. ASSUME i > curve - 2 PROVE NotSwept(F, i, n)
    <3>1. ASSUME NEW j \in 1 .. r PROVE i > j * k - 1
      <4>1. (r - j) * k >= 0 /\ (r - j) * k = r * k - j * k /\ r * k \in Int /\ j * k \in Int
        BY <2>1
      <4> QED
        BY <2>2, <2>7, <4>1
    <3> QED
      BY <2>1, <2>3, <2>4, <3>1 DEF NotSwept
  <2> QED
    BY <2>5, <2>6, <2>7 DEF F, n, curve
<1>3. CASE ~Flat(s)
  <2> DEFINE f == Side(OuterSide(0), 0, RoundCount(s, d), FALSE)
  <2>1. F = {f}
    BY <1>3, RoundFaces
  <2>2. RoundCount(s, d) = curve
    BY PointBounds DEF RoundCount
  <2>3. ~f.cap /\ f.index = 0 /\ f.count = curve
    BY <2>2 DEF Side
  <2> HIDE DEF n, curve, F, f
  <2>4. i \in Swept(f, n) <=> i <= curve - 2
    <3>1. f.index \in Int /\ f.count \in Int /\ 0 <= f.index /\ 1 <= n /\ f.index + f.count - 2 < n
      BY <1>1, <2>3
    <3>2. i \in Swept(f, n) <=> f.index <= i /\ i <= f.index + f.count - 2
      BY <1>1, <3>1, SweptRun
    <3> QED
      BY <1>1, <2>3, <3>2
  <2> QED
    BY <1>1, <2>1, <2>3, <2>4 DEF SweptOnce, NotSwept, F, n, curve
<1> QED
  BY <1>2, <1>3

\* The face of the hole and those of the cut, each with what it sweeps.
LEMMA OtherSweeps ==
  ASSUME NEW s \in Shape, NEW d \in 2 .. 8, Generated(s),
         NEW i \in Int, 0 <= i, i < AllPoints(s, d)
  PROVE  /\ s.hollow => \E f : /\ Entries(Inner(s, d)) = {f} /\ ~f.cap
                               /\ i \in Swept(f, AllPoints(s, d)) <=>
                                    /\ OuterPoints(s, d) <= i
                                    /\ i <= OuterPoints(s, d) + HolePoints(s, d) - 2
         /\ ~s.hollow => Entries(Inner(s, d)) = {}
         /\ OpenProfile(s) =>
              \E f, g : /\ Entries(Ends(s, d)) = {f, g} /\ ~f.cap /\ ~g.cap
                        /\ i \in Swept(f, AllPoints(s, d)) <=> i = AllPoints(s, d) - 1
                        /\ i \in Swept(g, AllPoints(s, d)) <=>
                             i = IF s.hollow THEN OuterPoints(s, d) - 1 ELSE AllPoints(s, d) - 2
         /\ ~OpenProfile(s) => Entries(Ends(s, d)) = {}
<1> DEFINE n == AllPoints(s, d)
           out == OuterPoints(s, d)
           hole == HolePoints(s, d)
<1>1. /\ n \in Int /\ out \in Int /\ hole \in Int /\ 1 <= out /\ out <= n
      /\ s.hollow => 1 <= hole /\ out + hole <= n
      /\ ~s.hollow /\ Sliced(s) => 2 <= out
  BY PointBounds
<1>2. OpenProfile(s) /\ ~s.hollow => Sliced(s)
  BY DEF OpenProfile, Sliced
<1>3. ASSUME s.hollow
      PROVE  \E f : /\ Entries(Inner(s, d)) = {f} /\ ~f.cap
                    /\ i \in Swept(f, n) <=> out <= i /\ i <= out + hole - 2
  <2> DEFINE f == Side(InnerSide, out, hole, FlatHole(s))
  <2>1. Entries(Inner(s, d)) = {f}
    BY <1>3, SweptParts
  <2>2. ~f.cap /\ f.index = out /\ f.count = hole
    BY DEF Side
  <2> HIDE DEF f, n, out, hole
  <2>3. f.index \in Int /\ f.count \in Int /\ 0 <= f.index /\ 1 <= n /\ f.index + f.count - 2 < n
    BY <1>1, <1>3, <2>2
  <2>4. i \in Swept(f, n) <=> f.index <= i /\ i <= f.index + f.count - 2
    BY <1>1, <2>3, SweptRun
  <2>5. i \in Swept(f, n) <=> out <= i /\ i <= out + hole - 2
    BY <2>2, <2>4
  <2> QED
    BY <2>1, <2>2, <2>5
<1>4. ASSUME OpenProfile(s)
      PROVE  \E f, g : /\ Entries(Ends(s, d)) = {f, g} /\ ~f.cap /\ ~g.cap
                       /\ i \in Swept(f, n) <=> i = n - 1
                       /\ i \in Swept(g, n) <=> i = IF s.hollow THEN out - 1 ELSE n - 2
  <2> DEFINE k == IF s.hollow THEN out - 1 ELSE n - 2
             f == Side(ProfileBegin, n - 1, 2, TRUE)
             g == Side(ProfileEnd, k, 2, TRUE)
  <2>1. Entries(Ends(s, d)) = {f, g}
    BY <1>4, SweptParts
  <2>2. /\ ~f.cap /\ f.index = n - 1 /\ f.count = 2
        /\ ~g.cap /\ g.index = k /\ g.count = 2
    BY DEF Side
  <2>3. k \in Int /\ 0 <= k /\ k < n
    BY <1>1, <1>2, <1>4
  <2> HIDE DEF f, g, n, out, k
  <2>4. i \in Swept(f, n) <=> i = n - 1
    <3>1. f.index \in Int /\ f.count \in Int /\ 0 <= f.index /\ 1 <= n /\ f.index + f.count - 2 < n
      BY <1>1, <2>2
    <3>2. i \in Swept(f, n) <=> f.index <= i /\ i <= f.index + f.count - 2
      BY <1>1, <3>1, SweptRun
    <3> QED
      BY <1>1, <2>2, <3>2
  <2>5. i \in Swept(g, n) <=> i = k
    <3>1. g.index \in Int /\ g.count \in Int /\ 0 <= g.index /\ 1 <= n /\ g.index + g.count - 2 < n
      BY <1>1, <2>2, <2>3
    <3>2. i \in Swept(g, n) <=> g.index <= i /\ i <= g.index + g.count - 2
      BY <1>1, <3>1, SweptRun
    <3> QED
      BY <2>2, <2>3, <3>2
  <2> QED
    BY <2>1, <2>2, <2>4, <2>5 DEF k
<1> QED
  BY <1>3, <1>4, SweptParts

LEMMA SideFacesAreFaces ==
  ASSUME NEW s \in Shape, NEW d \in 2 .. 8, Generated(s), NEW v, v = Volume(s, d)
  PROVE  SideFaces(s, d) \subseteq Faces(v)
<1>1. Path(s, d).open \in BOOLEAN
  BY PathPoints
<1>2. Faces(v) = Entries(FaceList(s, d, Path(s, d).open))
  BY VolumeIs DEF VolumeFacts
<1> QED
  BY <1>1, <1>2, ListFacts DEF SideFaces

\* All the faces together: the outline once, the seams of a closed one not.
LEMMA AllSweeps ==
  ASSUME NEW s \in Shape, NEW d \in 2 .. 8, Generated(s), ~FirstSliver(s), ~EndSliver(s),
         NEW p, p.curve = CurvePoints(s, d), p.out = OuterPoints(s, d),
         p.total = AllPoints(s, d), p.open = OpenProfile(s),
         NEW i \in Int, 0 <= i, i < p.total
  PROVE  /\ \A f \in SideFaces(s, d) : ~f.cap
         /\ i \in Outline(p, s.hollow) => SweptOnce(SideFaces(s, d), i, p.total)
         /\ i \notin Outline(p, s.hollow) => NotSwept(SideFaces(s, d), i, p.total)
<1> DEFINE n == AllPoints(s, d)
           out == OuterPoints(s, d)
           curve == CurvePoints(s, d)
           hole == HolePoints(s, d)
           open == OpenProfile(s)
           O == Entries(Outer(s, d))
           I == Entries(Inner(s, d))
           E == Entries(Ends(s, d))
<1>1. /\ n \in Int /\ out \in Int /\ curve \in Int /\ hole \in Int /\ 1 <= curve
      /\ s.hollow \in BOOLEAN
      /\ s.hollow => out = curve /\ 1 <= hole /\ n = out + hole
      /\ ~s.hollow /\ open => out = curve + 1 /\ n = out
      /\ ~s.hollow /\ ~open => curve <= n
      /\ s.hollow => s.curve # "half" \/ open
  <2>1. /\ open /\ ~s.hollow => Sliced(s)
        /\ s.curve = "half" /\ s.hollow => open
    BY DEF OpenProfile, Sliced
  <2> QED
    BY <2>1, PointBounds
<1>2. /\ \A f \in O : ~f.cap
      /\ i <= curve - 2 => SweptOnce(O, i, n)
      /\ i > curve - 2 => NotSwept(O, i, n)
  BY OuterSweeps
<1>3. /\ s.hollow => \E f : /\ I = {f} /\ ~f.cap
                            /\ i \in Swept(f, n) <=> out <= i /\ i <= out + hole - 2
      /\ ~s.hollow => I = {}
      /\ open =>
           \E f, g : /\ E = {f, g} /\ ~f.cap /\ ~g.cap
                     /\ i \in Swept(f, n) <=> i = n - 1
                     /\ i \in Swept(g, n) <=> i = IF s.hollow THEN out - 1 ELSE n - 2
      /\ ~open => E = {}
  BY OtherSweeps
<1>4. i \in Outline(p, s.hollow) <=>
        \/ open
        \/ i <= curve - 2
        \/ s.hollow /\ out <= i /\ i <= n - 2
  <2>1. Outline(p, s.hollow) = IF open THEN 0 .. n - 1
          ELSE (0 .. curve - 2) \union (IF s.hollow THEN out .. n - 2 ELSE {})
    BY DEF Outline
  <2> HIDE DEF n, out, curve, open
  <2> QED
    BY <1>1, <2>1 DEF n
<1>5. SideFaces(s, d) = O \union I \union E
  BY DEF SideFaces
<1> HIDE DEF n, out, curve, hole, open, O, I, E
<1>6. \A f \in O \union I \union E : ~f.cap
  BY <1>2, <1>3
<1>7. CASE i <= curve - 2
  <2>1. NotSwept(I, i, n)
    BY <1>1, <1>3, <1>7 DEF NotSwept
  <2>2. NotSwept(E, i, n)
    BY <1>1, <1>3, <1>7 DEF NotSwept
  <2>3. SweptOnce(O \union I \union E, i, n)
    BY <1>2, <1>7, <2>1, <2>2 DEF SweptOnce, NotSwept
  <2> QED
    BY <1>4, <1>5, <1>6, <1>7, <2>3 DEF n
<1>8. CASE i > curve - 2 /\ s.hollow /\ out <= i /\ i <= n - 2
  <2>1. NotSwept(O, i, n) /\ SweptOnce(I, i, n)
    BY <1>1, <1>2, <1>3, <1>8 DEF SweptOnce
  <2>2. NotSwept(E, i, n)
    BY <1>1, <1>3, <1>8 DEF NotSwept
  <2>3. SweptOnce(O \union I \union E, i, n)
    BY <2>1, <2>2 DEF SweptOnce, NotSwept
  <2> QED
    BY <1>4, <1>5, <1>6, <1>8, <2>3 DEF n
<1>9. CASE i > curve - 2 /\ ~(s.hollow /\ out <= i /\ i <= n - 2)
  <2>1. NotSwept(O, i, n)
    BY <1>2, <1>9
  <2>2. NotSwept(I, i, n)
    BY <1>1, <1>3, <1>9 DEF NotSwept
  <2>3. CASE open
    <3>1. i < n
      BY DEF n
    <3>2. SweptOnce(E, i, n)
      <4>1. PICK f, g : /\ E = {f, g}
                        /\ i \in Swept(f, n) <=> i = n - 1
                        /\ i \in Swept(g, n) <=> i = IF s.hollow THEN out - 1 ELSE n - 2
        BY <1>3, <2>3
      <4>2. i \in Swept(f, n) <=> ~(i \in Swept(g, n))
        BY <1>1, <1>9, <2>3, <3>1, <4>1
      <4> QED
        BY <4>1, <4>2 DEF SweptOnce
    <3>3. SweptOnce(O \union I \union E, i, n)
      BY <2>1, <2>2, <3>2 DEF SweptOnce, NotSwept
    <3> QED
      BY <1>4, <1>5, <1>6, <2>3, <3>3 DEF n
  <2>4. CASE ~open
    <3>1. E = {}
      BY <1>3, <2>4
    <3>2. NotSwept(O \union I \union E, i, n)
      BY <2>1, <2>2, <3>1 DEF NotSwept
    <3>3. i \notin Outline(p, s.hollow)
      BY <1>1, <1>4, <1>9, <2>4
    <3> QED
      BY <1>5, <1>6, <3>2, <3>3 DEF n
  <2> QED
    BY <2>3, <2>4
<1> QED
  BY <1>1, <1>7, <1>8, <1>9

\* The sides of a volume tile its outline.
LEMMA FacesTileFor ==
  ASSUME NEW s \in Shape, NEW d \in 2 .. 8, Generated(s), ~FirstSliver(s), ~EndSliver(s),
         NEW v, v = Volume(s, d)
  PROVE  SidesTileOutline(v)
<1> DEFINE p == v.profile
           q == p.faces
           n == p.total
<1>1. /\ v.shape = s /\ p.curve = CurvePoints(s, d) /\ p.out = OuterPoints(s, d)
      /\ n = AllPoints(s, d) /\ p.open = OpenProfile(s)
      /\ q = FaceList(s, d, Path(s, d).open) /\ Faces(v) = Entries(q)
  BY VolumeIs DEF VolumeFacts
<1>2. Distinct(q)
  BY <1>1, PathPoints, ListFacts
<1>3. /\ SideFaces(s, d) \subseteq Entries(q)
      /\ \A f \in Entries(q) : f.cap \/ f \in SideFaces(s, d)
  BY <1>1, SideFacesAreFaces, EveryFace
<1>4. n \in Int
  <2>1. /\ CurvePoints(s, d) \in Int /\ HolePoints(s, d) \in Int
        /\ OuterPoints(s, d) = CurvePoints(s, d) + IF Sliced(s) /\ ~s.hollow THEN 1 ELSE 0
        /\ AllPoints(s, d) = OuterPoints(s, d) + HolePoints(s, d)
             + IF s.curve = "half" /\ ~OpenProfile(s) THEN 1 ELSE 0
    BY PointBounds
  <2>2. AllPoints(s, d) \in Int
    BY <2>1
  <2> QED
    BY <1>1, <2>2
<1> SUFFICES ASSUME NEW i \in 0 .. n - 1
             PROVE  Cardinality({k \in DOMAIN q : ~q[k].cap /\ i \in Swept(q[k], n)})
                      = IF i \in Outline(p, v.shape.hollow) THEN 1 ELSE 0
  BY DEF SidesTileOutline
<1> DEFINE K == {k \in DOMAIN q : ~q[k].cap /\ i \in Swept(q[k], n)}
<1>5. i \in Int /\ 0 <= i /\ i < n
  BY <1>4
<1>6. /\ \A f \in SideFaces(s, d) : ~f.cap
      /\ i \in Outline(p, s.hollow) => SweptOnce(SideFaces(s, d), i, n)
      /\ i \notin Outline(p, s.hollow) => NotSwept(SideFaces(s, d), i, n)
  BY <1>1, <1>5, AllSweeps
<1> HIDE DEF p, q, n
<1>7. CASE i \in Outline(p, s.hollow)
  <2>1. PICK f \in SideFaces(s, d) : i \in Swept(f, n)
    BY <1>6, <1>7 DEF SweptOnce
  <2>2. PICK k \in DOMAIN q : q[k] = f
    BY <1>3, <2>1 DEF Entries
  <2>3. k \in K
    BY <1>6, <2>1, <2>2
  <2>4. ASSUME NEW l \in K PROVE l = k
    <3>1. q[l] \in Entries(q) /\ l \in DOMAIN q
      BY <2>4 DEF Entries
    <3>2. q[l] \in SideFaces(s, d) /\ i \in Swept(q[l], n)
      BY <1>3, <2>4, <3>1
    <3>3. q[l] = f
      BY <1>6, <1>7, <2>1, <3>2 DEF SweptOnce
    <3> QED
      BY <1>2, <2>2, <3>1, <3>3 DEF Distinct
  <2>5. K = {k}
    BY <2>3, <2>4
  <2> HIDE DEF K
  <2>6. Cardinality(K) = 1
    BY <2>5, FS_Singleton
  <2> QED
    BY <1>1, <1>7, <2>6 DEF K
<1>8. CASE i \notin Outline(p, s.hollow)
  <2>1. ASSUME NEW l \in K PROVE FALSE
    <3>1. q[l] \in Entries(q) /\ ~q[l].cap /\ i \in Swept(q[l], n)
      BY <2>1 DEF Entries
    <3> QED
      BY <1>3, <1>6, <1>8, <3>1 DEF NotSwept
  <2>2. K = {}
    BY <2>1
  <2> HIDE DEF K
  <2>3. Cardinality(K) = 0
    BY <2>2, FS_EmptySet
  <2> QED
    BY <1>1, <1>8, <2>3 DEF K
<1> QED
  BY <1>7, <1>8

(***************************************************************************)
(* The renderer.                                                           *)
(***************************************************************************)

\* The prims 1 to n, in the order render draws them.
UpTo(n) == [i \in 1 .. n |-> i]

Constructing == {"new", "make", "read", "crashed"}

CountsInv ==
  /\ prims \in Nat /\ next \in Nat \ {0}
  /\ surfaces \in Nat /\ failures \in Nat

\* While prims are still being made nothing has been presented.
NothingShown == pc \in Constructing => shown = NULL

\* The frame has the prims drawn so far; after the scene it has all of them.
FrameInv ==
  /\ pc = "draw" => next \in 1 .. prims + 1 /\ frame = UpTo(next - 1)
  /\ pc \in {"shot", "present"} => frame = UpTo(prims) /\ scene = FALSE
  /\ pc = "present" => saved = UpTo(prims)

\* The faces that are read are those of a volume that was given.
ReadingInv == pc = "read" => volume \in Shapes

IInv == CountsInv /\ NothingShown /\ FrameInv /\ ReadingInv /\ PresentedIsWhole /\ SurfacesTold

\* Drawing one more prim makes the frame one longer.
LEMMA OneMore ==
  ASSUME NEW n \in Nat \ {0}
  PROVE  Append(UpTo(n - 1), n) = UpTo(n)
BY DEF UpTo

LEMMA InitInv == Init => IInv
BY DEF Init, IInv, CountsInv, NothingShown, FrameInv, ReadingInv,
       PresentedIsWhole, SurfacesTold, Constructing

\* The constructor's steps: no frame there, and nothing shown.
LEMMA ConstructorInv ==
  ASSUME IInv,
         InitDevice \/ (\E s \in Shapes : MakeVolume(s)) \/ ReadFace \/ NextVolume \/ Constructed
  PROVE  IInv'
<1> USE DEF IInv, CountsInv, NothingShown, FrameInv, ReadingInv,
            PresentedIsWhole, SurfacesTold, Constructing,
            frame_vars
<1>1. CASE InitDevice
  BY <1>1 DEF InitDevice, Crash, made_vars
<1>2. CASE \E s \in Shapes : MakeVolume(s)
  BY <1>2 DEF MakeVolume
<1>3. CASE ReadFace
  BY <1>3 DEF ReadFace, Crash, made_vars
<1>4. CASE NextVolume
  BY <1>4 DEF NextVolume
<1>5. CASE Constructed
  BY <1>5 DEF Constructed
<1>6. QED
  BY <1>1, <1>2, <1>3, <1>4, <1>5

LEMMA RenderInv ==
  ASSUME IInv, Render
  PROVE  IInv'
BY DEF IInv, CountsInv, NothingShown, FrameInv, ReadingInv,
       PresentedIsWhole, SurfacesTold, Constructing,
       Render, made_vars, UpTo

\* A prim that is drawn is the next one; one that is not ends the frame.
LEMMA DrawPrimInv ==
  ASSUME IInv, DrawPrim
  PROVE  IInv'
<1> USE DEF DrawPrim, made_vars
<1>1. pc = "draw" /\ next \in 1 .. prims /\ frame = UpTo(next - 1) /\ next \in Nat \ {0}
  BY DEF IInv, CountsInv, FrameInv
<1>2. CASE pc' = "idle"
  BY <1>2 DEF IInv, CountsInv, NothingShown, FrameInv, ReadingInv, PresentedIsWhole, SurfacesTold,
              Constructing, Fail
<1>3. CASE pc' = "draw"
  <2>1. frame' = Append(frame, next) /\ next' = next + 1 /\ pc' = pc /\ failures' = failures
    BY <1>3 DEF Fail
  <2>2. frame' = UpTo(next' - 1)
    <3>1. next' - 1 = next
      BY <2>1, <1>1
    <3>2. QED
      BY <1>1, <2>1, <3>1, OneMore
  <2>3. FrameInv'
    BY <1>1, <1>3, <2>1, <2>2 DEF FrameInv, IInv, CountsInv
  <2>4. (CountsInv /\ NothingShown /\ ReadingInv /\ PresentedIsWhole /\ SurfacesTold)'
    BY <1>1, <2>1 DEF IInv, CountsInv, NothingShown, ReadingInv,
                      PresentedIsWhole, SurfacesTold, Constructing
  <2>5. QED
    BY <2>3, <2>4 DEF IInv
<1>4. QED
  BY <1>1, <1>2, <1>3 DEF Fail

LEMMA EndSceneInv ==
  ASSUME IInv, EndScene
  PROVE  IInv'
<1>1. next - 1 = prims
  BY DEF IInv, CountsInv, FrameInv, EndScene
<1>2. QED
  BY <1>1 DEF IInv, CountsInv, NothingShown, FrameInv, ReadingInv, PresentedIsWhole, SurfacesTold,
              Constructing, EndScene, made_vars

LEMMA ScreenShotInv ==
  ASSUME IInv, ScreenShot
  PROVE  IInv'
BY DEF IInv, CountsInv, NothingShown, FrameInv, ReadingInv,
       PresentedIsWhole, SurfacesTold, Constructing,
       ScreenShot, Fail, made_vars

LEMMA PresentInv ==
  ASSUME IInv, Present
  PROVE  IInv'
BY DEF IInv, CountsInv, NothingShown, FrameInv, ReadingInv,
       PresentedIsWhole, SurfacesTold, Constructing,
       Present, made_vars, UpTo

LEMMA DestroyInv ==
  ASSUME IInv, Destroy
  PROVE  IInv'
BY DEF IInv, CountsInv, NothingShown, FrameInv, ReadingInv,
       PresentedIsWhole, SurfacesTold, Constructing,
       Destroy, made_vars, frame_vars

LEMMA StutterInv ==
  ASSUME IInv, UNCHANGED vars
  PROVE  IInv'
BY DEF IInv, CountsInv, NothingShown, FrameInv, ReadingInv,
       PresentedIsWhole, SurfacesTold, Constructing,
       vars, made_vars, frame_vars

\* IInv is an invariant of the renderer.
THEOREM InductiveInvariant == Spec => []IInv
<1>1. IInv /\ [Next]_vars => IInv'
  BY ConstructorInv, RenderInv, DrawPrimInv, EndSceneInv, ScreenShotInv, PresentInv, DestroyInv,
     StutterInv DEF Next
<1>2. QED
  BY <1>1, InitInv, PTL DEF Spec

\* render presents a frame only when its scene is closed, every prim was drawn in
\* it, once and in order, and its screenshot was saved.
THEOREM OnlyWholeFrames == Spec => []PresentedIsWhole
<1>1. IInv => PresentedIsWhole
  BY DEF IInv
<1>2. QED
  BY <1>1, InductiveInvariant, PTL

\* ScreenShot leaves no surface behind that a failed render did not tell of.
THEOREM LostSurfacesWereTold == Spec => []SurfacesTold
<1>1. IInv => SurfacesTold
  BY DEF IInv
<1>2. QED
  BY <1>1, InductiveInvariant, PTL

\* A volume just made is of one of the shapes, at one of the levels of detail.
LEMMA MadeOf ==
  ASSUME IInv, NEW v \in Made
  PROVE  \E s \in Shape, d \in 2 .. 8 : v = Volume(s, d) /\ v.shape = s
<1>1. pc = "read" /\ volume \in Shapes
  BY DEF Made, IInv, ReadingInv
<1>2. PICK d \in Details : v = Volume(volume, d)
  BY DEF Made
<1>3. volume \in Shape /\ d \in 2 .. 8
  BY <1>1, RendererAssumption, DetailsAssumption
<1>4. v.shape = volume
  BY <1>2 DEF Volume
<1> QED
  BY <1>2, <1>3, <1>4

\* LLProfile::generate: whatever the profile, the hole, the cut, the path and the
\* level of detail, slivers apart, the side faces sweep every stretch of the
\* outline that bounds the solid, each exactly once.
THEOREM FacesAlwaysTile == Spec => []FacesTile
<1>1. IInv => FacesTile
  BY MadeOf, FacesTileFor DEF FacesTile
<1>2. QED
  BY <1>1, InductiveInvariant, PTL

\* generateFaceMask computes, for every shape and level of detail, slivers at the
\* end apart, the mask of the faces that generate made, one bit for each.
THEOREM MasksAlwaysAgree == Spec => []MasksAgree
<1>1. IInv => MasksAgree
  BY MadeOf, MasksAgreeFor DEF MasksAgree
<1>2. QED
  BY <1>1, InductiveInvariant, PTL

\* LLVolumeFace::create, for every shape and level of detail, slivers at the begin
\* apart: each face fills what it allocates, names only its own vertices, in 16
\* bits, and reads nothing behind the outline or the mesh; and as many indices
\* are emitted for the whole volume as getNumTriangleIndices predicts.
THEOREM BuffersAlwaysFilled == Spec => []BuffersFilled
<1>1. IInv => BuffersFilled
  BY MadeOf, BuffersFilledFor DEF BuffersFilled
<1>2. QED
  BY <1>1, InductiveInvariant, PTL
=============================================================================

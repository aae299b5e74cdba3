--------------------------- MODULE VolumeMgrProofs ---------------------------
(***************************************************************************)
(* The safety properties of VolumeMgr hold for any number of primitives,   *)
(* parameters, levels of detail and volumes; at the end, those of Xform,   *)
(* the transforms that the primitives also are.                            *)
(*                                                                         *)
(* setVolume is one step that runs refVolume, then unrefVolume, then the   *)
(* assignment to mVolumep.  In between the two counts disagree: the        *)
(* manager already counts the new volume for the primitive and no longer   *)
(* the old one, the pointers still do the opposite.  The invariant is      *)
(* therefore stated of a store and of two sets of pairs <<primitive,       *)
(* volume>>, the one that the manager's counts stand for and the one that  *)
(* the pointers' counts stand for; each operator is shown to keep it with  *)
(* its own change of the pairs.  In a state of the program both sets are   *)
(* what the primitives hold.                                               *)
(***************************************************************************)
EXTENDS VolumeMgr, Xform, FiniteSetTheorems, TLAPS

Group == [refs : Nat, lodRefs : [Lods -> Nat], lods : [Lods -> Ref]]

Cell == [live : BOOLEAN, params : Params \union {NULL}, lod : Lods \union {NULL},
         unique : BOOLEAN, refs : Nat]

StoreType(s) ==
  /\ DOMAIN s.groups \subseteq Params
  /\ \A p \in DOMAIN s.groups : s.groups[p] \in Group
  /\ s.volume \in [Volumes -> Cell]

\* The primitives that hold v, according to the pairs M.
Of(M, v) == {x \in Prims : <<x, v>> \in M}

\* What mRefs of the group g counts, according to M.
Counted(M, g) ==
  {c \in Prims \X Lods : g.lods[c[2]] # NULL /\ <<c[1], g.lods[c[2]]>> \in M}

\* A level of some group points to v.
InSlot(gs, v) == \E p \in DOMAIN gs : \E d \in Lods : gs[p].lods[d] = v

\* A level points to a shared volume of its own parameters and level: so no
\* volume is in two places.
Filed(s) ==
  \A p \in DOMAIN s.groups : \A d \in Lods :
    s.groups[p].lods[d] # NULL =>
      LET c == s.volume[s.groups[p].lods[d]]
      IN  c.params = p /\ c.lod = d /\ ~c.unique

\* A level counts who holds its volume, and has one as long as that is not 0.
LevelCounts(M, g) ==
  \A d \in Lods :
    /\ g.lods[d] = NULL => g.lodRefs[d] = 0
    /\ g.lods[d] # NULL => /\ g.lodRefs[d] = Cardinality(Of(M, g.lods[d]))
                           /\ g.lodRefs[d] # 0

\* A group counts at most what its levels do, and after no failed cleanup that.
GroupCount(M, g, told) ==
  /\ g.refs <= Cardinality(Counted(M, g))
  /\ ~told => g.refs = Cardinality(Counted(M, g))

\* The counts of the manager stand for the pairs M.
ManagerCounts(s, M, told) ==
  \A p \in DOMAIN s.groups :
    /\ LevelCounts(M, s.groups[p])
    /\ GroupCount(M, s.groups[p], told)
    /\ s.groups[p].refs # 0

\* After no failed cleanup each shared volume is where the manager looks for it.
Managed(s, M, told) ==
  ~told => \A x \in Prims, v \in Volumes :
    <<x, v>> \in M /\ ~s.volume[v].unique =>
      /\ s.volume[v].params \in DOMAIN s.groups
      /\ s.volume[v].lod \in Lods
      /\ s.groups[s.volume[v].params].lods[s.volume[v].lod] = v

\* The counts of the cells stand for the pairs P and the levels; new is a cell
\* just allocated, to which nothing points.
PointerCounts(s, P, new) ==
  \A v \in Volumes :
    /\ s.volume[v].refs = Cardinality(Of(P, v)) + IF InSlot(s.groups, v) THEN 1 ELSE 0
    /\ s.volume[v].live <=> s.volume[v].refs # 0 \/ v = new
    /\ v = new => s.volume[v].refs = 0

Books(s, M, P, new, told) ==
  /\ StoreType(s)
  /\ Filed(s)
  /\ ManagerCounts(s, M, told)
  /\ Managed(s, M, told)
  /\ PointerCounts(s, P, new)

\* What the primitives hold, as pairs.
Pairs(hd) == {h \in Prims \X Volumes : hd[h[1]] = h[2]}

Held == Pairs(held)

Entries ==
  \A x \in Prims :
    held[x] # NULL => numTEs[x] = Cardinality(Faces[volume[held[x]].params])

IInv ==
  /\ manager \in BOOLEAN /\ lost \in BOOLEAN
  /\ held \in [Prims -> Ref] /\ numTEs \in [Prims -> Nat]
  /\ fault \in {"none", "unset", "orphan", "freed"}
  /\ ~manager => DOMAIN groups = {}
  /\ fault \in {"orphan", "freed"} => lost
  /\ fault # "freed" => Books(Store, Held, Held, NULL, lost) /\ Entries

(***************************************************************************)
(* Counting.                                                               *)
(***************************************************************************)

LEMMA Finite ==
  ASSUME NEW M, NEW v, NEW g
  PROVE  /\ IsFiniteSet(Of(M, v)) /\ Cardinality(Of(M, v)) \in Nat
         /\ IsFiniteSet(Counted(M, g)) /\ Cardinality(Counted(M, g)) \in Nat
         /\ Cardinality(Of(M, v)) = 0 <=> Of(M, v) = {}
<1>1. IsFiniteSet(Prims) /\ IsFiniteSet(Lods)
  BY VolumeAssumption
<1>2. IsFiniteSet(Prims \X Lods)
  BY <1>1, FS_Product
<1>3. Of(M, v) \in SUBSET Prims /\ Counted(M, g) \in SUBSET (Prims \X Lods)
  BY DEF Of, Counted
<1>4. IsFiniteSet(Of(M, v)) /\ IsFiniteSet(Counted(M, g))
  BY <1>1, <1>2, <1>3, FS_Subset
<1> QED
  BY <1>4, FS_CardinalityType, FS_EmptySet

LEMMA OfAdd ==
  ASSUME NEW M, NEW x \in Prims, NEW v, NEW w, <<x, v>> \notin M
  PROVE  Cardinality(Of(M \union {<<x, v>>}, w))
           = Cardinality(Of(M, w)) + IF w = v THEN 1 ELSE 0
<1>1. CASE w = v
  <2>1. Of(M \union {<<x, v>>}, w) = Of(M, w) \union {x} /\ x \notin Of(M, w)
    BY <1>1 DEF Of
  <2> QED
    BY <1>1, <2>1, Finite, FS_AddElement
<1>2. CASE w # v
  <2>1. Of(M \union {<<x, v>>}, w) = Of(M, w)
    BY <1>2 DEF Of
  <2> QED
    BY <1>2, <2>1, Finite
<1> QED
  BY <1>1, <1>2

LEMMA OfDrop ==
  ASSUME NEW M, NEW x \in Prims, NEW v, NEW w, <<x, v>> \in M
  PROVE  /\ Cardinality(Of(M \ {<<x, v>>}, w))
              = Cardinality(Of(M, w)) - IF w = v THEN 1 ELSE 0
         /\ w = v => Cardinality(Of(M, w)) # 0
<1>1. CASE w = v
  <2>1. Of(M \ {<<x, v>>}, w) = Of(M, w) \ {x} /\ x \in Of(M, w)
    BY <1>1 DEF Of
  <2> QED
    BY <1>1, <2>1, Finite, FS_RemoveElement
<1>2. CASE w # v
  <2>1. Of(M \ {<<x, v>>}, w) = Of(M, w)
    BY <1>2 DEF Of
  <2>2. Cardinality(Of(M, w)) \in Nat
    BY Finite
  <2> QED
    BY <1>2, <2>1, <2>2
<1> QED
  BY <1>1, <1>2

\* A pair that no level of the group points to does not matter for it.
LEMMA CountsElsewhere ==
  ASSUME NEW M, NEW v \in Volumes, NEW g, \A d \in Lods : g.lods[d] # v, NEW told,
         NEW N, \A y \in Prims : \A w : w # v => (<<y, w>> \in N <=> <<y, w>> \in M)
  PROVE  /\ Counted(N, g) = Counted(M, g)
         /\ LevelCounts(M, g) => LevelCounts(N, g)
         /\ GroupCount(M, g, told) => GroupCount(N, g, told)
<1>1. \A d \in Lods : \A y \in Prims : <<y, g.lods[d]>> \in N <=> <<y, g.lods[d]>> \in M
  OBVIOUS
<1>2. Counted(N, g) = Counted(M, g)
  BY <1>1 DEF Counted
<1>3. \A d \in Lods : Of(N, g.lods[d]) = Of(M, g.lods[d])
  BY <1>1 DEF Of
<1> QED
  BY <1>2, <1>3 DEF LevelCounts, GroupCount

(***************************************************************************)
(* Pointers.                                                               *)
(***************************************************************************)

\* What Unref does to a cell that something points to, and to the others.
LEMMA UnrefFacts ==
  ASSUME NEW heap \in [Volumes -> Cell], NEW S,
         \A v \in S : v \in Volumes => heap[v].refs # 0
  PROVE  /\ Unref(heap, S) \in [Volumes -> Cell]
         /\ \A v \in Volumes :
              LET c == Unref(heap, S)[v]
              IN  /\ v \notin S => c = heap[v]
                  /\ v \in S => c.refs = heap[v].refs - 1
                  /\ v \in S /\ c.refs = 0 => ~c.live /\ ~c.unique
                  /\ v \in S /\ c.refs # 0 => c.live = heap[v].live
                  /\ c.refs # 0 => /\ c.params = heap[v].params
                                   /\ c.lod = heap[v].lod
                                   /\ c.unique = heap[v].unique
<1>1. Free \in Cell /\ Free.refs = 0 /\ Free.live = FALSE /\ Free.unique = FALSE
  BY DEF Free, Cell
<1>2. ASSUME NEW v \in Volumes
      PROVE  LET c == Unref(heap, S)[v]
             IN  /\ c \in Cell
                 /\ v \notin S => c = heap[v]
                 /\ v \in S => c.refs = heap[v].refs - 1
                 /\ v \in S /\ c.refs = 0 => ~c.live /\ ~c.unique
                 /\ v \in S /\ c.refs # 0 => c.live = heap[v].live
                 /\ c.refs # 0 => /\ c.params = heap[v].params
                                  /\ c.lod = heap[v].lod
                                  /\ c.unique = heap[v].unique
  <2>1. heap[v] \in Cell
    OBVIOUS
  <2>2. CASE v \notin S
    BY <2>1, <2>2 DEF Unref
  <2>3. CASE v \in S /\ heap[v].refs = 1
    <3>1. Unref(heap, S)[v] = Free
      BY <2>3 DEF Unref
    <3> QED
      BY <1>1, <2>3, <3>1
  <2>4. CASE v \in S /\ heap[v].refs # 1
    <3> DEFINE c == [heap[v] EXCEPT !.refs = @ - 1]
    <3>1. Unref(heap, S)[v] = c
      BY <2>4 DEF Unref
    <3>2. heap[v].refs \in Nat /\ heap[v].refs # 0
      BY <2>1, <2>4 DEF Cell
    <3>3. c \in Cell /\ c.refs = heap[v].refs - 1 /\ c.refs # 0
          /\ c.live = heap[v].live /\ c.params = heap[v].params
          /\ c.lod = heap[v].lod /\ c.unique = heap[v].unique
      BY <2>1, <2>4, <3>2 DEF Cell
    <3> HIDE DEF c
    <3> QED
      BY <2>4, <3>1, <3>3
  <2> QED
    BY <2>2, <2>3, <2>4
<1>3. Unref(heap, S) = [v \in Volumes |-> Unref(heap, S)[v]]
  BY DEF Unref
<1>4. Unref(heap, S) \in [Volumes -> Cell]
  BY <1>2, <1>3
<1> QED
  BY <1>2, <1>4

\* v is the volume that level d of the group p points to.
InPlace(s, p, d, v) ==
  /\ v \in Volumes /\ InSlot(s.groups, v)
  /\ s.volume[v].refs # 0 /\ s.volume[v].live
  /\ s.volume[v].params = p /\ s.volume[v].lod = d /\ ~s.volume[v].unique

AllInPlace(s) ==
  \A p \in DOMAIN s.groups : \A d \in Lods :
    s.groups[p].lods[d] # NULL => InPlace(s, p, d, s.groups[p].lods[d])

\* A volume in a level has a pointer, and so is there.
LEMMA SlotFacts ==
  ASSUME NEW s, NEW P, NEW new, StoreType(s), Filed(s), PointerCounts(s, P, new)
  PROVE  AllInPlace(s)
<1> SUFFICES ASSUME NEW p \in DOMAIN s.groups, NEW d \in Lods, s.groups[p].lods[d] # NULL
             PROVE  InPlace(s, p, d, s.groups[p].lods[d])
  BY DEF AllInPlace
<1> DEFINE v == s.groups[p].lods[d]
<1>1. v \in Volumes
  BY DEF StoreType, Group, Ref
<1>2. InSlot(s.groups, v)
  BY DEF InSlot
<1>3. s.volume[v].refs # 0 /\ s.volume[v].live
  BY <1>1, <1>2, Finite DEF PointerCounts
<1>4. s.volume[v].params = p /\ s.volume[v].lod = d /\ ~s.volume[v].unique
  BY DEF Filed
<1> QED
  BY <1>1, <1>2, <1>3, <1>4 DEF InPlace

(***************************************************************************)
(* refVolume.                                                              *)
(***************************************************************************)

LEMMA GroupOfFacts ==
  ASSUME NEW s, NEW M, NEW told, NEW p \in Params,
         StoreType(s), ManagerCounts(s, M, told)
  PROVE  /\ GroupOf(p, s) \in Group
         /\ LevelCounts(M, GroupOf(p, s))
         /\ GroupCount(M, GroupOf(p, s), told)
         /\ \A d \in Lods : GroupOf(p, s).lods[d] # NULL =>
              p \in DOMAIN s.groups /\ GroupOf(p, s) = s.groups[p]
<1>1. CASE p \in DOMAIN s.groups
  BY <1>1 DEF GroupOf, StoreType, ManagerCounts
<1>2. CASE p \notin DOMAIN s.groups
  <2>1. GroupOf(p, s) = NewGroup
    BY <1>2 DEF GroupOf
  <2>2. NewGroup \in Group /\ NewGroup.refs = 0
        /\ \A d \in Lods : NewGroup.lods[d] = NULL /\ NewGroup.lodRefs[d] = 0
    BY DEF NewGroup, Group, Ref
  <2>3. Counted(M, NewGroup) = {}
    BY <2>2 DEF Counted
  <2>4. Cardinality(Counted(M, NewGroup)) = 0
    BY <2>3, FS_EmptySet
  <2>5. LevelCounts(M, NewGroup) /\ GroupCount(M, NewGroup, told)
    BY <2>2, <2>4 DEF LevelCounts, GroupCount
  <2> QED
    BY <2>1, <2>2, <2>5
<1> QED
  BY <1>1, <1>2

\* One more reference to a level that has v, or gets it.
LEMMA RefGroup ==
  ASSUME NEW g \in Group, NEW M, NEW told, LevelCounts(M, g), GroupCount(M, g, told),
         NEW d \in Lods, NEW x \in Prims, NEW v \in Volumes, <<x, v>> \notin M,
         \A e \in Lods : e # d => g.lods[e] # v,
         g.lods[d] = v \/ (g.lods[d] = NULL /\ Of(M, v) = {}),
         NEW h, h = [refs |-> g.refs + 1,
                     lodRefs |-> [g.lodRefs EXCEPT ![d] = @ + 1],
                     lods |-> [g.lods EXCEPT ![d] = v]]
  PROVE  /\ h \in Group
         /\ LevelCounts(M \union {<<x, v>>}, h)
         /\ GroupCount(M \union {<<x, v>>}, h, told)
         /\ h.refs # 0
<1> DEFINE N == M \union {<<x, v>>}
<1>1. g.refs \in Nat /\ g.lodRefs \in [Lods -> Nat] /\ g.lods \in [Lods -> Ref]
  BY DEF Group
<1>2. h.refs = g.refs + 1 /\ h.refs # 0
  BY <1>1
<1>3. /\ \A e \in Lods : h.lods[e] = IF e = d THEN v ELSE g.lods[e]
      /\ \A e \in Lods : h.lodRefs[e] = IF e = d THEN g.lodRefs[d] + 1 ELSE g.lodRefs[e]
  BY <1>1
<1>4. h \in Group
  BY <1>1 DEF Group, Ref
<1>5. v # NULL
  BY VolumeAssumption
<1>6. LevelCounts(N, h)
  <2> SUFFICES ASSUME NEW e \in Lods
               PROVE  /\ h.lods[e] = NULL => h.lodRefs[e] = 0
                      /\ h.lods[e] # NULL => /\ h.lodRefs[e] = Cardinality(Of(N, h.lods[e]))
                                             /\ h.lodRefs[e] # 0
    BY DEF LevelCounts
  <2>1. CASE e = d
    <3>1. Cardinality(Of(N, v)) = Cardinality(Of(M, v)) + 1
      BY OfAdd
    <3>2. g.lodRefs[d] = Cardinality(Of(M, v)) /\ g.lodRefs[d] \in Nat
      BY <1>1, <1>5, Finite DEF LevelCounts
    <3> QED
      BY <1>3, <1>5, <2>1, <3>1, <3>2
  <2>2. CASE e # d
    <3>1. Cardinality(Of(N, g.lods[e])) = Cardinality(Of(M, g.lods[e])) + 0
      BY <2>2, OfAdd
    <3>2. Cardinality(Of(M, g.lods[e])) \in Nat
      BY Finite
    <3> QED
      BY <1>3, <2>2, <3>1, <3>2 DEF LevelCounts
  <2> QED
    BY <2>1, <2>2
<1>7. Cardinality(Counted(N, h)) = Cardinality(Counted(M, g)) + 1
  <2>1. <<x, d>> \notin Counted(M, g)
    BY <1>5 DEF Counted
  <2>2. Counted(N, h) = Counted(M, g) \union {<<x, d>>}
    <3> SUFFICES ASSUME NEW y \in Prims, NEW e \in Lods
                 PROVE  <<y, e>> \in Counted(N, h) <=> <<y, e>> \in Counted(M, g) \union {<<x, d>>}
      BY DEF Counted
    <3>1. CASE e = d
      <4>1. <<y, e>> \in Counted(N, h) <=> <<y, v>> \in M \/ y = x
        BY <1>3, <1>5, <3>1 DEF Counted
      <4>2. <<y, e>> \in Counted(M, g) <=> <<y, v>> \in M
        BY <1>5, <3>1 DEF Counted, Of
      <4> QED
        BY <3>1, <4>1, <4>2
    <3>2. CASE e # d
      <4>1. h.lods[e] = g.lods[e] /\ g.lods[e] # v
        BY <1>3, <3>2
      <4>2. <<y, e>> \in Counted(N, h) <=> g.lods[e] # NULL /\ <<y, g.lods[e]>> \in N
        BY <4>1 DEF Counted
      <4>3. <<y, g.lods[e]>> \in N <=> <<y, g.lods[e]>> \in M
        BY <4>1
      <4>4. <<y, e>> \in Counted(M, g) <=> g.lods[e] # NULL /\ <<y, g.lods[e]>> \in M
        BY DEF Counted
      <4> QED
        BY <3>2, <4>2, <4>3, <4>4
    <3> QED
      BY <3>1, <3>2
  <2> QED
    BY <2>1, <2>2, Finite, FS_AddElement
<1>8. GroupCount(N, h, told)
  <2>1. Cardinality(Counted(M, g)) \in Nat
    BY Finite
  <2> QED
    BY <1>1, <1>2, <1>7, <2>1 DEF GroupCount
<1> QED
  BY <1>2, <1>4, <1>6, <1>8

\* r is the store s after x has got the volume v with these parameters.
Referred(r, p, d, s, M, x, v, told) ==
  /\ Books(r, M \union {<<x, v>>}, M, NULL, told)
  /\ v \in Volumes
  /\ r.volume[v].live /\ ~r.volume[v].unique
  /\ r.volume[v].params = p /\ r.volume[v].lod = d
  /\ \A w \in Volumes : s.volume[w].refs # 0 => r.volume[w] = s.volume[w]

LEMMA RefVolumeBooks ==
  ASSUME NEW s, NEW M, NEW told, Books(s, M, M, NULL, told),
         NEW p \in Params, NEW d \in Lods, NEW x \in Prims,
         NEW fresh \in Volumes, ~s.volume[fresh].live,
         NEW r, r = RefVolume(p, d, fresh, s), <<x, r.result>> \notin M
  PROVE  Referred(r, p, d, s, M, x, r.result, told)
<1> DEFINE g == GroupOf(p, s)
           isNew == g.lods[d] = NULL
           v == IF isNew THEN fresh ELSE g.lods[d]
           h == [refs |-> g.refs + 1,
                 lodRefs |-> [g.lodRefs EXCEPT ![d] = @ + 1],
                 lods |-> [g.lods EXCEPT ![d] = v]]
           cell == [NewVolume(p, d, FALSE) EXCEPT !.refs = 1]
           N == M \union {<<x, v>>}
<1>0. AllInPlace(s)
  BY SlotFacts DEF Books
<1>1. StoreType(s) /\ Filed(s) /\ ManagerCounts(s, M, told) /\ Managed(s, M, told)
      /\ PointerCounts(s, M, NULL)
  BY DEF Books
<1>2. /\ g \in Group /\ LevelCounts(M, g) /\ GroupCount(M, g, told)
      /\ \A e \in Lods : g.lods[e] # NULL => p \in DOMAIN s.groups /\ g = s.groups[p]
  BY <1>1, GroupOfFacts
<1>3. /\ r.result = v
      /\ r.groups = With(p, h, s.groups)
      /\ r.volume = IF isNew THEN [s.volume EXCEPT ![v] = cell] ELSE s.volume
  BY DEF RefVolume
<1>4. /\ DOMAIN r.groups = DOMAIN s.groups \union {p}
      /\ r.groups[p] = h
      /\ \A q \in DOMAIN s.groups : q # p => r.groups[q] = s.groups[q]
  BY <1>3 DEF With
<1>5. v \in Volumes /\ v # NULL
  BY <1>2, VolumeAssumption DEF Group, Ref
<1>6. /\ cell \in Cell /\ cell.live = TRUE /\ cell.params = p /\ cell.lod = d
      /\ cell.unique = FALSE /\ cell.refs = 1
  BY DEF NewVolume, Cell
<1> HIDE DEF cell
<1>7. s.volume \in [Volumes -> Cell]
  BY <1>1 DEF StoreType
<1>8. /\ r.volume \in [Volumes -> Cell]
      /\ \A w \in Volumes : r.volume[w] = IF w = v /\ isNew THEN cell ELSE s.volume[w]
  BY <1>3, <1>5, <1>6, <1>7
<1>9. ASSUME isNew PROVE s.volume[v].refs = 0 /\ Of(M, v) = {} /\ ~InSlot(s.groups, v)
  <2>1. v = fresh
    BY <1>9
  <2>2. s.volume[v].refs = 0
    BY <1>1, <2>1 DEF PointerCounts
  <2>3. Cardinality(Of(M, v)) \in Nat
    BY Finite
  <2>4. Cardinality(Of(M, v)) = 0 /\ ~InSlot(s.groups, v)
    BY <1>1, <1>5, <2>2, <2>3 DEF PointerCounts
  <2> QED
    BY <2>2, <2>4, Finite
<1>10. ASSUME ~isNew
       PROVE  /\ p \in DOMAIN s.groups /\ s.groups[p].lods[d] = v /\ s.volume[v].live
              /\ s.volume[v].params = p /\ s.volume[v].lod = d /\ ~s.volume[v].unique
              /\ InSlot(s.groups, v)
  <2>1. p \in DOMAIN s.groups /\ s.groups[p].lods[d] = v
    BY <1>2, <1>10
  <2> HIDE DEF v
  <2>2. InPlace(s, p, d, v)
    BY <1>0, <1>5, <2>1 DEF AllInPlace
  <2> QED
    BY <2>1, <2>2 DEF InPlace
\* v is in no other place.
<1>11. ASSUME NEW q \in DOMAIN s.groups, NEW e \in Lods, q # p \/ e # d
       PROVE  s.groups[q].lods[e] # v
  <2> SUFFICES ASSUME s.groups[q].lods[e] = v PROVE FALSE
    OBVIOUS
  <2>1. InSlot(s.groups, v)
    BY DEF InSlot
  <2> HIDE DEF v
  <2>2. InPlace(s, q, e, v)
    BY <1>0, <1>5 DEF AllInPlace
  <2>3. s.volume[v].params = q /\ s.volume[v].lod = e
    BY <2>2 DEF InPlace
  <2> QED
    BY <1>9, <1>10, <1>11, <2>1, <2>3
<1>12. \A e \in Lods : e # d => g.lods[e] # v
  BY <1>2, <1>5, <1>11
<1> HIDE DEF g, h, v
<1>13. h \in Group /\ LevelCounts(N, h) /\ GroupCount(N, h, told) /\ h.refs # 0
  <2>1. g.lods[d] = v \/ (g.lods[d] = NULL /\ Of(M, v) = {})
    BY <1>9 DEF v
  <2>2. <<x, v>> \notin M
    BY <1>3
  <2> QED
    BY <1>2, <1>5, <1>12, <2>1, <2>2, RefGroup DEF h
<1>14. \A e \in Lods : h.lods[e] = IF e = d THEN v ELSE g.lods[e]
  BY <1>2 DEF h, Group
<1>15. StoreType(r)
  BY <1>1, <1>4, <1>8, <1>13 DEF StoreType
\* The levels of r are those of s, and the one that now has v.
<1>16. ASSUME NEW q \in DOMAIN r.groups, NEW e \in Lods, r.groups[q].lods[e] # NULL
       PROVE  \/ q = p /\ e = d /\ r.groups[q].lods[e] = v
              \/ /\ q \in DOMAIN s.groups
                 /\ r.groups[q].lods[e] = s.groups[q].lods[e]
                 /\ s.groups[q].lods[e] # v
  <2>1. CASE q = p /\ e = d
    BY <1>4, <1>14, <2>1
  <2>2. CASE q = p /\ e # d
    <3>1. r.groups[q].lods[e] = g.lods[e]
      BY <1>4, <1>14, <2>2
    <3>2. q \in DOMAIN s.groups /\ g = s.groups[q]
      BY <1>2, <1>16, <2>2, <3>1
    <3> QED
      BY <1>11, <2>2, <3>1, <3>2
  <2>3. CASE q # p
    BY <1>4, <1>11, <2>3
  <2> QED
    BY <2>1, <2>2, <2>3
<1>17. /\ r.volume[v].params = p /\ r.volume[v].lod = d
       /\ ~r.volume[v].unique /\ r.volume[v].live
  BY <1>5, <1>6, <1>8, <1>10
<1>18. Filed(r)
  <2> SUFFICES ASSUME NEW q \in DOMAIN r.groups, NEW e \in Lods, r.groups[q].lods[e] # NULL
               PROVE  LET c == r.volume[r.groups[q].lods[e]]
                      IN  c.params = q /\ c.lod = e /\ ~c.unique
    BY DEF Filed
  <2>1. CASE q = p /\ e = d /\ r.groups[q].lods[e] = v
    BY <1>17, <2>1
  <2>2. CASE /\ q \in DOMAIN s.groups
             /\ r.groups[q].lods[e] = s.groups[q].lods[e]
             /\ s.groups[q].lods[e] # v
    <3>1. s.groups[q].lods[e] \in Volumes
      BY <1>1, <2>2 DEF StoreType, Group, Ref
    <3> QED
      BY <1>1, <1>8, <2>2, <3>1 DEF Filed
  <2> QED
    BY <1>16, <2>1, <2>2
<1>19. ManagerCounts(r, N, told)
  <2> SUFFICES ASSUME NEW q \in DOMAIN r.groups
               PROVE  /\ LevelCounts(N, r.groups[q])
                      /\ GroupCount(N, r.groups[q], told)
                      /\ r.groups[q].refs # 0
    BY DEF ManagerCounts
  <2>1. CASE q = p
    BY <1>4, <1>13, <2>1
  <2>2. CASE q # p
    <3>1. q \in DOMAIN s.groups /\ r.groups[q] = s.groups[q]
      BY <1>4, <2>2
    <3>2. \A e \in Lods : s.groups[q].lods[e] # v
      BY <1>11, <2>2, <3>1
    <3>3. \A y \in Prims : \A w : w # v => (<<y, w>> \in N <=> <<y, w>> \in M)
      OBVIOUS
    <3>4. /\ LevelCounts(M, s.groups[q]) /\ GroupCount(M, s.groups[q], told)
          /\ s.groups[q].refs # 0
      BY <1>1, <3>1 DEF ManagerCounts
    <3> HIDE DEF N
    <3>5. LevelCounts(N, s.groups[q]) /\ GroupCount(N, s.groups[q], told)
      BY <1>5, <3>2, <3>3, <3>4, CountsElsewhere
    <3> QED
      BY <3>1, <3>4, <3>5
  <2> QED
    BY <2>1, <2>2
<1>20. InSlot(r.groups, v) /\ \A w \in Volumes : w # v => (InSlot(r.groups, w) <=> InSlot(s.groups, w))
  <2>1. InSlot(r.groups, v)
    BY <1>4, <1>14 DEF InSlot
  <2>2. ASSUME NEW w \in Volumes, w # v, InSlot(r.groups, w) PROVE InSlot(s.groups, w)
    <3>1. w # NULL
      BY VolumeAssumption
    <3> QED
      BY <1>16, <2>2, <3>1 DEF InSlot
  <2>3. ASSUME NEW w \in Volumes, w # v, InSlot(s.groups, w) PROVE InSlot(r.groups, w)
    <3>1. PICK q \in DOMAIN s.groups, e \in Lods : s.groups[q].lods[e] = w
      BY <2>3 DEF InSlot
    <3>2. CASE q # p
      BY <1>4, <3>1, <3>2 DEF InSlot
    <3>3. CASE q = p
      <4>1. g = s.groups[q]
        BY <3>3 DEF g, GroupOf
      <4>2. e # d
        BY <2>3, <3>1, <4>1, VolumeAssumption DEF v
      <4>3. r.groups[q].lods[e] = w
        BY <1>4, <1>14, <3>1, <3>3, <4>1, <4>2
      <4> QED
        BY <1>4, <3>3, <4>3 DEF InSlot
    <3> QED
      BY <3>2, <3>3
  <2> QED
    BY <2>1, <2>2, <2>3
<1>21. PointerCounts(r, M, NULL)
  <2> SUFFICES ASSUME NEW w \in Volumes
               PROVE  /\ r.volume[w].refs = Cardinality(Of(M, w))
                                            + IF InSlot(r.groups, w) THEN 1 ELSE 0
                      /\ r.volume[w].live <=> r.volume[w].refs # 0 \/ w = NULL
    BY VolumeAssumption DEF PointerCounts
  <2>1. CASE w = v /\ isNew
    <3>1. Cardinality(Of(M, w)) = 0
      BY <1>9, <2>1, FS_EmptySet
    <3> QED
      BY <1>6, <1>8, <1>20, <2>1, <3>1
  <2>2. CASE w = v /\ ~isNew
    BY <1>1, <1>8, <1>10, <1>20, <2>2 DEF PointerCounts
  <2>3. CASE w # v
    BY <1>1, <1>8, <1>20, <2>3 DEF PointerCounts
  <2> QED
    BY <2>1, <2>2, <2>3
<1>22. Managed(r, N, told)
  <2> SUFFICES ASSUME ~told, NEW y \in Prims, NEW w \in Volumes,
                      <<y, w>> \in N, ~r.volume[w].unique
               PROVE  /\ r.volume[w].params \in DOMAIN r.groups
                      /\ r.volume[w].lod \in Lods
                      /\ r.groups[r.volume[w].params].lods[r.volume[w].lod] = w
    BY DEF Managed
  <2>1. CASE w = v
    BY <1>4, <1>14, <1>17, <2>1
  <2>2. CASE w # v
    <3> DEFINE q == s.volume[w].params
               e == s.volume[w].lod
    <3>1. r.volume[w] = s.volume[w] /\ <<y, w>> \in M
      BY <1>8, <2>2
    <3>2. q \in DOMAIN s.groups /\ e \in Lods /\ s.groups[q].lods[e] = w
      BY <1>1, <3>1 DEF Managed
    <3>3. CASE q # p
      BY <1>4, <3>1, <3>2, <3>3
    <3>4. CASE q = p
      <4>1. g = s.groups[q]
        BY <3>2, <3>4 DEF g, GroupOf
      <4>2. e # d
        BY <2>2, <3>2, <4>1, VolumeAssumption DEF v
      <4> QED
        BY <1>4, <1>14, <3>1, <3>2, <3>4, <4>1, <4>2
    <3> QED
      BY <3>3, <3>4
  <2> QED
    BY <2>1, <2>2
<1>23. \A w \in Volumes : s.volume[w].refs # 0 => r.volume[w] = s.volume[w]
  BY <1>8, <1>9
<1> QED
  BY <1>3, <1>5, <1>15, <1>17, <1>18, <1>19, <1>21, <1>22, <1>23 DEF Books, Referred

(***************************************************************************)
(* unrefVolume.                                                            *)
(***************************************************************************)

LEMMA UnrefTwice ==
  ASSUME NEW heap \in [Volumes -> Cell], NEW S, NEW T, S \intersect T = {}
  PROVE  /\ Unref(Unref(heap, S), T) = Unref(heap, S \union T)
         /\ Unref(heap, {}) = heap
<1>1. \A v \in Volumes : v \in T => v \notin S
  OBVIOUS
<1>2. ASSUME NEW v \in Volumes
      PROVE  Unref(Unref(heap, S), T)[v] = Unref(heap, S \union T)[v]
  <2>1. CASE v \in T
    <3>1. Unref(heap, S)[v] = heap[v]
      BY <1>1, <2>1 DEF Unref
    <3> QED
      BY <2>1, <3>1 DEF Unref
  <2>2. CASE v \notin T
    <3>1. Unref(Unref(heap, S), T)[v] = Unref(heap, S)[v]
      BY <2>2 DEF Unref
    <3>2. v \in S <=> v \in S \union T
      BY <2>2
    <3> QED
      BY <3>1, <3>2 DEF Unref
  <2> QED
    BY <2>1, <2>2
<1>3. Unref(Unref(heap, S), T) = [v \in Volumes |-> Unref(Unref(heap, S), T)[v]]
      /\ Unref(heap, S \union T) = [v \in Volumes |-> Unref(heap, S \union T)[v]]
  BY DEF Unref
<1>4. Unref(heap, {}) = heap
  BY DEF Unref
<1> QED
  BY <1>2, <1>3, <1>4

\* What derefLOD of old makes of the group g: h, which counts for one pair less;
\* and of the heap: old is let go when a level loses it.
Derefed(s, M, told, g, h, x, old) ==
  /\ h \in Group /\ h.refs = g.refs - 1
  /\ LevelCounts(M \ {<<x, old>>}, h)
  /\ GroupCount(M \ {<<x, old>>}, h, told)
  /\ \A d \in Lods : h.lods[d] # g.lods[d] =>
       /\ h.lods[d] = NULL /\ g.lods[d] = old
       /\ Of(M \ {<<x, old>>}, old) = {}
  /\ \E let \in SUBSET {old} :
       /\ old \in let <=> \E d \in Lods : h.lods[d] # g.lods[d]
       /\ DerefLOD(old, g, s).volume = Unref(s.volume, let)

LEMMA DerefGroup ==
  ASSUME NEW s, s.volume \in [Volumes -> Cell],
         NEW g \in Group, NEW M, NEW told, LevelCounts(M, g), GroupCount(M, g, told), g.refs # 0,
         NEW x \in Prims, NEW old \in Volumes, <<x, old>> \in M,
         \A d, e \in Lods : g.lods[d] = old /\ g.lods[e] = old => d = e,
         ~told => \E d \in Lods : g.lods[d] = old,
         NEW h, h = DerefLOD(old, g, s).group
  PROVE  Derefed(s, M, told, g, h, x, old)
<1> DEFINE N == M \ {<<x, old>>}
           at == {d \in Lods : g.lods[d] = old}
           gone == {d \in at : g.lodRefs[d] = 1}
           let == IF gone = {} THEN {} ELSE {old}
<1>1. g.refs \in Nat /\ g.lodRefs \in [Lods -> Nat] /\ g.lods \in [Lods -> Ref]
  BY DEF Group
<1>2. old # NULL
  BY VolumeAssumption
<1>3. h = [refs |-> g.refs - 1,
           lodRefs |-> [d \in Lods |-> IF d \in at THEN g.lodRefs[d] - 1 ELSE g.lodRefs[d]],
           lods |-> [d \in Lods |-> IF d \in gone THEN NULL ELSE g.lods[d]]]
  BY DEF DerefLOD
<1>4. h.refs = g.refs - 1 /\ h.refs \in Nat
  BY <1>1, <1>3
<1>5. /\ \A d \in Lods : h.lodRefs[d] = IF d \in at THEN g.lodRefs[d] - 1 ELSE g.lodRefs[d]
      /\ \A d \in Lods : h.lods[d] = IF d \in gone THEN NULL ELSE g.lods[d]
  BY <1>3
<1>6. DerefLOD(old, g, s).volume = IF gone = {} THEN s.volume ELSE Unref(s.volume, {old})
  BY DEF DerefLOD
<1>7. let \in SUBSET {old} /\ (old \in let <=> \E d \in Lods : h.lods[d] # g.lods[d])
  BY <1>2, <1>5
<1>8. DerefLOD(old, g, s).volume = Unref(s.volume, let)
  <2>1. Unref(s.volume, {}) = s.volume
    BY UnrefTwice
  <2> QED
    BY <1>6, <2>1
<1>9. \A d \in at : g.lodRefs[d] # 0 /\ g.lodRefs[d] = Cardinality(Of(M, old))
  BY <1>2 DEF LevelCounts
<1>10. h \in Group
  <2>1. \A d \in Lods : h.lodRefs[d] \in Nat
    BY <1>1, <1>5, <1>9
  <2>2. \A d \in Lods : h.lods[d] \in Ref
    BY <1>1, <1>5 DEF Ref
  <2> QED
    BY <1>3, <1>4, <2>1, <2>2 DEF Group
<1> HIDE DEF gone, let
<1>11. CASE at = {}
  <2>1. gone = {}
    BY <1>11 DEF gone
  <2>2. told
    BY <1>11
  <2>3. \A d \in Lods : g.lods[d] # old
    BY <1>11
  <2>4. \A d \in Lods : h.lods[d] = g.lods[d] /\ h.lodRefs[d] = g.lodRefs[d]
    BY <1>5, <1>11, <2>1
  <2>5. \A y \in Prims : \A w : w # old => (<<y, w>> \in N <=> <<y, w>> \in M)
    OBVIOUS
  <2> HIDE DEF N
  <2>6. Counted(N, g) = Counted(M, g) /\ LevelCounts(N, g)
    BY <2>3, <2>5, CountsElsewhere
  <2>7. LevelCounts(N, h)
    BY <2>4, <2>6 DEF LevelCounts
  <2>8. Counted(N, h) = Counted(M, g)
    BY <2>4, <2>6 DEF Counted
  <2>9. GroupCount(N, h, told)
    <3>1. Cardinality(Counted(M, g)) \in Nat
      BY Finite
    <3> QED
      BY <1>1, <1>4, <2>2, <2>8, <3>1 DEF GroupCount
  <2> QED
    BY <1>4, <1>7, <1>8, <1>10, <2>4, <2>7, <2>9 DEF N, Derefed
<1>12. CASE at # {}
  <2>1. PICK d \in Lods : g.lods[d] = old
    BY <1>12
  <2>2. at = {d} /\ \A e \in Lods : e # d => g.lods[e] # old
    BY <2>1
  <2>3. /\ Cardinality(Of(N, old)) = Cardinality(Of(M, old)) - 1
        /\ \A v : v # old => Cardinality(Of(N, v)) = Cardinality(Of(M, v))
    <3>1. Cardinality(Of(N, old)) = Cardinality(Of(M, old)) - 1
      BY OfDrop
    <3>2. ASSUME NEW v, v # old PROVE Cardinality(Of(N, v)) = Cardinality(Of(M, v))
      <4>1. Cardinality(Of(N, v)) = Cardinality(Of(M, v)) - 0
        BY <3>2, OfDrop
      <4>2. Cardinality(Of(M, v)) \in Nat
        BY Finite
      <4> QED
        BY <4>1, <4>2
    <3> QED
      BY <3>1, <3>2
  <2>4. g.lodRefs[d] \in Nat /\ g.lodRefs[d] # 0 /\ g.lodRefs[d] = Cardinality(Of(M, old))
    BY <1>1, <1>9, <2>2
  <2>5. h.lodRefs[d] = g.lodRefs[d] - 1 /\ h.lodRefs[d] = Cardinality(Of(N, old))
    BY <1>5, <2>2, <2>3, <2>4
  <2>6. h.lods[d] = IF g.lodRefs[d] = 1 THEN NULL ELSE old
    BY <1>5, <2>1, <2>2 DEF gone
  <2>7. \A e \in Lods : e # d => h.lods[e] = g.lods[e] /\ h.lodRefs[e] = g.lodRefs[e]
    BY <1>5, <2>2 DEF gone
  <2>8. h.lods[d] = NULL => Of(N, old) = {}
    <3>1. h.lods[d] = NULL => Cardinality(Of(N, old)) = 0
      BY <1>2, <2>4, <2>5, <2>6
    <3> QED
      BY <3>1, Finite
  <2>9. LevelCounts(N, h)
    <3> SUFFICES ASSUME NEW e \in Lods
                 PROVE  /\ h.lods[e] = NULL => h.lodRefs[e] = 0
                        /\ h.lods[e] # NULL => /\ h.lodRefs[e] = Cardinality(Of(N, h.lods[e]))
                                               /\ h.lodRefs[e] # 0
      BY DEF LevelCounts
    <3>1. CASE e = d
      BY <1>2, <2>4, <2>5, <2>6, <3>1
    <3>2. CASE e # d
      BY <2>2, <2>3, <2>7, <3>2 DEF LevelCounts
    <3> QED
      BY <3>1, <3>2
  <2>10. Cardinality(Counted(N, h)) = Cardinality(Counted(M, g)) - 1
    <3>1. <<x, d>> \in Counted(M, g)
      BY <1>2, <2>1 DEF Counted
    <3>2. Counted(N, h) = Counted(M, g) \ {<<x, d>>}
      <4> SUFFICES ASSUME NEW y \in Prims, NEW e \in Lods
                   PROVE  <<y, e>> \in Counted(N, h) <=> <<y, e>> \in Counted(M, g) \ {<<x, d>>}
        BY DEF Counted
      <4>1. CASE e # d
        <5>1. <<y, g.lods[e]>> \in N <=> <<y, g.lods[e]>> \in M
          BY <2>2, <4>1
        <5>2. <<y, e>> \in Counted(N, h) <=> g.lods[e] # NULL /\ <<y, g.lods[e]>> \in N
          BY <2>7, <4>1 DEF Counted
        <5>3. <<y, e>> \in Counted(M, g) <=> g.lods[e] # NULL /\ <<y, g.lods[e]>> \in M
          BY DEF Counted
        <5> QED
          BY <4>1, <5>1, <5>2, <5>3
      <4>2. CASE e = d /\ h.lods[d] = NULL
        <5>1. <<y, e>> \notin Counted(N, h)
          BY <4>2 DEF Counted
        <5>2. y # x => <<y, old>> \notin M
          BY <2>8, <4>2 DEF Of
        <5>3. <<y, e>> \in Counted(M, g) => <<y, old>> \in M
          BY <2>1, <4>2 DEF Counted
        <5> QED
          BY <4>2, <5>1, <5>2, <5>3
      <4>3. CASE e = d /\ h.lods[d] # NULL
        <5>1. h.lods[d] = old
          BY <2>6, <4>3
        <5>2. <<y, e>> \in Counted(N, h) <=> <<y, old>> \in M /\ y # x
          BY <1>2, <4>3, <5>1 DEF Counted
        <5>3. <<y, e>> \in Counted(M, g) <=> <<y, old>> \in M
          BY <1>2, <2>1, <4>3 DEF Counted
        <5> QED
          BY <4>3, <5>2, <5>3
      <4> QED
        BY <4>1, <4>2, <4>3
    <3> QED
      BY <3>1, <3>2, Finite, FS_RemoveElement
  <2>11. GroupCount(N, h, told)
    <3>1. Cardinality(Counted(M, g)) \in Nat
      BY Finite
    <3> QED
      BY <1>1, <1>4, <2>10, <3>1 DEF GroupCount
  <2>12. \A e \in Lods : h.lods[e] # g.lods[e] =>
           h.lods[e] = NULL /\ g.lods[e] = old /\ Of(N, old) = {}
    BY <2>1, <2>6, <2>7, <2>8
  <2> QED
    BY <1>4, <1>7, <1>8, <1>10, <2>9, <2>11, <2>12 DEF Derefed
<1> QED
  BY <1>11, <1>12

\* The cells that no level points to any more are let go, once each.
LEMMA LevelsLetGo ==
  ASSUME NEW s, NEW P, NEW new, StoreType(s), Filed(s), PointerCounts(s, P, new),
         NEW t, NEW S, t.volume = Unref(s.volume, S),
         DOMAIN t.groups \subseteq DOMAIN s.groups,
         \A q \in DOMAIN t.groups : t.groups[q] \in Group,
         \A q \in DOMAIN t.groups : \A e \in Lods :
           t.groups[q].lods[e] # NULL => t.groups[q].lods[e] = s.groups[q].lods[e],
         S \subseteq Volumes,
         \A v \in Volumes : v \in S <=> InSlot(s.groups, v) /\ ~InSlot(t.groups, v)
  PROVE  /\ StoreType(t) /\ Filed(t) /\ PointerCounts(t, P, new)
         /\ \A v \in Volumes :
              /\ v \notin S => t.volume[v] = s.volume[v]
              /\ v \in S /\ t.volume[v].refs = 0 => ~t.volume[v].unique
              /\ t.volume[v].refs # 0 => /\ t.volume[v].params = s.volume[v].params
                                         /\ t.volume[v].lod = s.volume[v].lod
                                         /\ t.volume[v].unique = s.volume[v].unique
<1>1. s.volume \in [Volumes -> Cell]
  BY DEF StoreType
<1>2. \A v \in S : s.volume[v].refs # 0
  BY Finite DEF PointerCounts
<1>3. t.volume \in [Volumes -> Cell]
  BY <1>1, <1>2, UnrefFacts
<1>4. \A v \in Volumes :
        LET c == t.volume[v]
        IN  /\ v \notin S => c = s.volume[v]
            /\ v \in S => c.refs = s.volume[v].refs - 1
            /\ v \in S /\ c.refs = 0 => ~c.live /\ ~c.unique
            /\ v \in S /\ c.refs # 0 => c.live = s.volume[v].live
            /\ c.refs # 0 => /\ c.params = s.volume[v].params
                             /\ c.lod = s.volume[v].lod
                             /\ c.unique = s.volume[v].unique
  BY <1>1, <1>2, UnrefFacts
<1>5. StoreType(t)
  BY <1>3 DEF StoreType
<1>6. \A v \in Volumes : InSlot(t.groups, v) => InSlot(s.groups, v)
  BY VolumeAssumption DEF InSlot
<1>7. PointerCounts(t, P, new)
  <2> SUFFICES ASSUME NEW v \in Volumes
               PROVE  /\ t.volume[v].refs = Cardinality(Of(P, v))
                                            + IF InSlot(t.groups, v) THEN 1 ELSE 0
                      /\ t.volume[v].live <=> t.volume[v].refs # 0 \/ v = new
                      /\ v = new => t.volume[v].refs = 0
    BY DEF PointerCounts
  <2>1. Cardinality(Of(P, v)) \in Nat
    BY Finite
  <2>2. CASE v \in S
    <3>1. s.volume[v].refs = Cardinality(Of(P, v)) + 1 /\ ~InSlot(t.groups, v)
      BY <2>2 DEF PointerCounts
    <3>2. v # new /\ s.volume[v].live
      BY <2>1, <3>1 DEF PointerCounts
    <3> QED
      BY <1>4, <2>1, <2>2, <3>1, <3>2
  <2>3. CASE v \notin S
    BY <1>4, <1>6, <2>3 DEF PointerCounts
  <2> QED
    BY <2>2, <2>3
<1>8. Filed(t)
  <2> SUFFICES ASSUME NEW q \in DOMAIN t.groups, NEW e \in Lods, t.groups[q].lods[e] # NULL
               PROVE  LET c == t.volume[t.groups[q].lods[e]]
                      IN  c.params = q /\ c.lod = e /\ ~c.unique
    BY DEF Filed
  <2> DEFINE v == t.groups[q].lods[e]
  <2>1. v = s.groups[q].lods[e] /\ q \in DOMAIN s.groups
    OBVIOUS
  <2>2. v \in Volumes
    BY DEF Group, Ref
  <2>3. InSlot(t.groups, v)
    BY DEF InSlot
  <2>4. t.volume[v].refs # 0
    BY <1>7, <2>2, <2>3, Finite DEF PointerCounts
  <2> QED
    BY <1>4, <2>1, <2>2, <2>4 DEF Filed
<1> QED
  BY <1>4, <1>5, <1>7, <1>8

\* What something still points to is of the same shape as before.
Kept(s, t) ==
  \A v \in Volumes :
    t.volume[v].refs # 0 => /\ t.volume[v].params = s.volume[v].params
                            /\ t.volume[v].lod = s.volume[v].lod
                            /\ t.volume[v].unique = s.volume[v].unique

LEMMA UnrefVolumeBooks ==
  ASSUME NEW s, NEW M, NEW P, NEW new, NEW told, Books(s, M, P, new, told),
         NEW x \in Prims, NEW old \in Volumes, <<x, old>> \in M,
         NEW t, t = UnrefVolume(old, s)
  PROVE  /\ Books(t, M \ {<<x, old>>}, P, new, told)
         /\ Kept(s, t)
         /\ \A v \in Volumes :
              t.volume[v].live \/ t.volume[v] = s.volume[v] \/ ~t.volume[v].unique
         /\ new \in Volumes => t.volume[new] = s.volume[new]
         /\ DOMAIN t.groups \subseteq DOMAIN s.groups
<1> DEFINE N == M \ {<<x, old>>}
           p == s.volume[old].params
           g == s.groups[p]
           h == DerefLOD(old, g, s).group
<1>0. AllInPlace(s)
  BY SlotFacts DEF Books
<1>1. StoreType(s) /\ Filed(s) /\ ManagerCounts(s, M, told) /\ Managed(s, M, told)
      /\ PointerCounts(s, P, new)
  BY DEF Books
<1>2. old # NULL
  BY VolumeAssumption
<1>3. ASSUME NEW q \in DOMAIN s.groups, NEW e \in Lods, s.groups[q].lods[e] = old
      PROVE  q = p /\ e = s.volume[old].lod /\ ~s.volume[old].unique
  BY <1>1, <1>2, <1>3, <1>0 DEF AllInPlace, InPlace
\* A group that no level of which has old keeps its counts.
<1>4. ASSUME NEW q \in DOMAIN s.groups, \A e \in Lods : s.groups[q].lods[e] # old
      PROVE  /\ LevelCounts(N, s.groups[q]) /\ GroupCount(N, s.groups[q], told)
             /\ s.groups[q].refs # 0
  <2>1. /\ LevelCounts(M, s.groups[q]) /\ GroupCount(M, s.groups[q], told)
        /\ s.groups[q].refs # 0
    BY <1>1 DEF ManagerCounts
  <2>2. \A y \in Prims : \A w : w # old => (<<y, w>> \in N <=> <<y, w>> \in M)
    OBVIOUS
  <2> HIDE DEF N
  <2>3. LevelCounts(N, s.groups[q]) /\ GroupCount(N, s.groups[q], told)
    BY <1>4, <2>1, <2>2, CountsElsewhere
  <2> QED
    BY <2>1, <2>3
<1>5. CASE s.volume[old].unique \/ p \notin DOMAIN s.groups
  <2>1. t = s
    BY <1>5 DEF UnrefVolume
  <2>2. ManagerCounts(s, N, told)
    BY <1>3, <1>4, <1>5 DEF ManagerCounts
  <2>3. Managed(s, N, told)
    BY <1>1 DEF Managed
  <2> QED
    BY <1>1, <2>1, <2>2, <2>3 DEF Books, Kept
<1>6. CASE ~s.volume[old].unique /\ p \in DOMAIN s.groups
  <2>1. s.volume \in [Volumes -> Cell] /\ g \in Group
    BY <1>1, <1>6 DEF StoreType
  <2>2. LevelCounts(M, g) /\ GroupCount(M, g, told) /\ g.refs # 0
    BY <1>1, <1>6 DEF ManagerCounts
  <2>3. \A d, e \in Lods : g.lods[d] = old /\ g.lods[e] = old => d = e
    BY <1>3, <1>6
  <2>4. ~told => \E d \in Lods : g.lods[d] = old
    BY <1>1, <1>6 DEF Managed
  <2> HIDE DEF g
  <2>5. /\ h \in Group /\ h.refs = g.refs - 1
        /\ LevelCounts(N, h) /\ GroupCount(N, h, told)
        /\ \A d \in Lods : h.lods[d] # g.lods[d] =>
             h.lods[d] = NULL /\ g.lods[d] = old /\ Of(N, old) = {}
        /\ \E let \in SUBSET {old} :
             /\ old \in let <=> \E d \in Lods : h.lods[d] # g.lods[d]
             /\ DerefLOD(old, g, s).volume = Unref(s.volume, let)
    <3>1. Derefed(s, M, told, g, h, x, old)
      BY <2>1, <2>2, <2>3, <2>4, DerefGroup
    <3> QED
      BY <3>1 DEF Derefed
  <2>20. PICK let \in SUBSET {old} :
             /\ old \in let <=> \E d \in Lods : h.lods[d] # g.lods[d]
             /\ DerefLOD(old, g, s).volume = Unref(s.volume, let)
    BY <2>5
  <2>6. t = IF h.refs = 0
            THEN [groups |-> Without(p, s.groups),
                  volume |-> Unref(Unref(s.volume, let), Targets(h))]
            ELSE [groups |-> With(p, h, s.groups), volume |-> Unref(s.volume, let)]
    BY <1>6, <2>20 DEF UnrefVolume, g
  <2> HIDE DEF h
  <2>7. \A v \in let : v = old /\ \E d \in Lods : g.lods[d] = old /\ h.lods[d] # old
    BY <1>2, <2>5, <2>20
  <2> DEFINE S == IF h.refs = 0 THEN let \union Targets(h) ELSE let
  <2>8. t.volume = Unref(s.volume, S)
    <3>1. let \intersect Targets(h) = {}
      BY <2>3, <2>5, <2>7, <1>2 DEF Targets
    <3> QED
      BY <2>1, <2>6, <3>1, UnrefTwice
  <2>9. \A q \in DOMAIN t.groups :
          /\ q \in DOMAIN s.groups
          /\ q = p => h.refs # 0 /\ t.groups[q] = h
          /\ q # p => t.groups[q] = s.groups[q]
    BY <1>6, <2>6 DEF With, Without
  <2>10. /\ \A q \in DOMAIN s.groups : q # p => q \in DOMAIN t.groups
         /\ h.refs # 0 => p \in DOMAIN t.groups
    BY <2>6 DEF With, Without
  <2>11. \A q \in DOMAIN t.groups : t.groups[q] \in Group
    BY <1>1, <2>5, <2>9 DEF StoreType
  <2>12. \A q \in DOMAIN t.groups : \A e \in Lods :
           t.groups[q].lods[e] # NULL => t.groups[q].lods[e] = s.groups[q].lods[e]
    BY <2>5, <2>9 DEF g
  <2>13. S \subseteq Volumes
    <3>1. Targets(h) \subseteq Volumes
      BY <2>5 DEF Targets, Group, Ref
    <3> QED
      BY <2>7, <3>1
  <2>14. ASSUME NEW v \in Volumes
         PROVE  v \in S <=> InSlot(s.groups, v) /\ ~InSlot(t.groups, v)
    <3>0. v # NULL
      BY VolumeAssumption
    <3>1. ASSUME v \in S PROVE InSlot(s.groups, v) /\ ~InSlot(t.groups, v)
      <4>1. PICK e \in Lods : /\ g.lods[e] = v
                              /\ h.refs # 0 => v = old /\ h.lods[e] # v
        BY <2>5, <2>7, <3>1 DEF Targets
      <4>2. InSlot(s.groups, v)
        BY <1>6, <4>1 DEF InSlot, g
      <4>3. s.volume[v].params = p /\ s.volume[v].lod = e
        BY <1>1, <1>6, <3>0, <4>1, <1>0 DEF AllInPlace, InPlace, g
      <4>4. ASSUME NEW q \in DOMAIN t.groups, NEW d \in Lods, t.groups[q].lods[d] = v
            PROVE  FALSE
        <5>1. s.groups[q].lods[d] = v /\ q \in DOMAIN s.groups
          BY <2>9, <2>12, <3>0, <4>4
        <5>2. q = p /\ d = e
          BY <1>1, <3>0, <4>3, <5>1, <1>0 DEF AllInPlace, InPlace
        <5> QED
          BY <2>9, <4>1, <4>4, <5>2
      <4> QED
        BY <4>2, <4>4 DEF InSlot
    <3>2. ASSUME InSlot(s.groups, v), ~InSlot(t.groups, v) PROVE v \in S
      <4>1. PICK q \in DOMAIN s.groups, e \in Lods : s.groups[q].lods[e] = v
        BY <3>2 DEF InSlot
      <4>2. q = p
        BY <2>9, <2>10, <3>2, <4>1 DEF InSlot
      <4>3. g.lods[e] = v
        BY <4>1, <4>2 DEF g
      <4>4. CASE h.lods[e] = v
        <5>1. h.refs = 0
          BY <2>9, <2>10, <3>2, <4>4 DEF InSlot
        <5>2. v \in Targets(h)
          BY <3>0, <4>4 DEF Targets
        <5> QED
          BY <5>1, <5>2
      <4>5. CASE h.lods[e] # v
        <5>1. v = old
          BY <2>5, <4>3, <4>5
        <5>2. v \in let
          BY <2>20, <4>3, <4>5, <5>1
        <5> QED
          BY <5>2
      <4> QED
        BY <4>4, <4>5
    <3> QED
      BY <3>1, <3>2
  <2> HIDE DEF S
  <2>15. DOMAIN t.groups \subseteq DOMAIN s.groups
    BY <2>9
  <2>16. /\ StoreType(t) /\ Filed(t) /\ PointerCounts(t, P, new)
         /\ \A v \in Volumes :
              /\ v \notin S => t.volume[v] = s.volume[v]
              /\ v \in S /\ t.volume[v].refs = 0 => ~t.volume[v].unique
              /\ t.volume[v].refs # 0 => /\ t.volume[v].params = s.volume[v].params
                                         /\ t.volume[v].lod = s.volume[v].lod
                                         /\ t.volume[v].unique = s.volume[v].unique
    BY <1>1, <2>8, <2>11, <2>12, <2>13, <2>14, <2>15, LevelsLetGo
  <2>17. ManagerCounts(t, N, told)
    <3> SUFFICES ASSUME NEW q \in DOMAIN t.groups
                 PROVE  /\ LevelCounts(N, t.groups[q])
                        /\ GroupCount(N, t.groups[q], told)
                        /\ t.groups[q].refs # 0
      BY DEF ManagerCounts
    <3>1. CASE q = p
      BY <2>5, <2>9, <3>1
    <3>2. CASE q # p
      BY <1>3, <1>4, <2>9, <3>2
    <3> QED
      BY <3>1, <3>2
  <2>18. Managed(t, N, told)
    <3> SUFFICES ASSUME ~told, NEW y \in Prims, NEW w \in Volumes,
                        <<y, w>> \in N, ~t.volume[w].unique
                 PROVE  /\ t.volume[w].params \in DOMAIN t.groups
                        /\ t.volume[w].lod \in Lods
                        /\ t.groups[t.volume[w].params].lods[t.volume[w].lod] = w
      BY DEF Managed
    <3>1. w # NULL
      BY VolumeAssumption
    \* A level that N still needs is still there.
    <3>2. ASSUME NEW e \in Lods, g.lods[e] = w
          PROVE  h.lods[e] = w /\ h.refs # 0
      <4>1. h.lods[e] = w
        BY <2>5, <3>2 DEF Of
      <4>2. <<y, e>> \in Counted(N, h)
        BY <3>1, <4>1 DEF Counted
      <4>3. Cardinality(Counted(N, h)) # 0
        BY <4>2, Finite, FS_EmptySet
      <4> QED
        BY <2>5, <4>1, <4>3 DEF GroupCount
    <3>3. w \notin S
      <4> SUFFICES ASSUME w \in S PROVE FALSE
        OBVIOUS
      <4>1. PICK e \in Lods : g.lods[e] = w /\ (h.refs # 0 => h.lods[e] # w)
        BY <2>5, <2>7 DEF S, Targets
      <4> QED
        BY <3>2, <4>1
    <3>4. t.volume[w] = s.volume[w]
      BY <2>16, <3>3
    <3> DEFINE q == s.volume[w].params
               e == s.volume[w].lod
    <3>5. q \in DOMAIN s.groups /\ e \in Lods /\ s.groups[q].lods[e] = w
      BY <1>1, <3>4 DEF Managed
    <3>6. CASE q # p
      BY <2>9, <2>10, <3>4, <3>5, <3>6
    <3>7. CASE q = p
      <4>1. h.lods[e] = w /\ h.refs # 0
        BY <3>2, <3>5, <3>7 DEF g
      <4> QED
        BY <2>9, <2>10, <3>4, <3>5, <3>7, <4>1
    <3> QED
      BY <3>6, <3>7
  <2>19. new \in Volumes => new \notin S
    <3> SUFFICES ASSUME new \in Volumes, InSlot(s.groups, new) PROVE FALSE
      BY <2>14
    <3> QED
      BY <1>1, Finite DEF PointerCounts
  <2>21. \A v \in Volumes :
           t.volume[v].live \/ t.volume[v] = s.volume[v] \/ ~t.volume[v].unique
    BY <2>16 DEF PointerCounts
  <2> QED
    BY <2>15, <2>16, <2>17, <2>18, <2>19, <2>21 DEF Books, Kept
<1> QED
  BY <1>5, <1>6

(***************************************************************************)
(* Assignment to mVolumep.                                                 *)
(***************************************************************************)

\* From s to t a pointer to old has gone, and with it, at most, old.
LetGo(s, t, old) ==
  \A v \in Volumes :
    /\ v # old => t.volume[v] = s.volume[v]
    /\ t.volume[v].refs # 0 => t.volume[v].params = s.volume[v].params

\* The pointer from x to old goes away, after the manager was told.
LEMMA LetGoBooks ==
  ASSUME NEW s, NEW M, NEW P, NEW new, NEW told, Books(s, M, P, new, told),
         NEW x \in Prims, NEW old \in Volumes, <<x, old>> \in P,
         \A y \in Prims : <<y, old>> \in M => y # x /\ <<y, old>> \in P,
         NEW t, t.groups = s.groups, t.volume = Unref(s.volume, {old}),
         NEW Q, Q = P \ {<<x, old>>}
  PROVE  Books(t, M, Q, new, told) /\ LetGo(s, t, old)
<1>0. AllInPlace(s)
  BY SlotFacts DEF Books
<1>1. StoreType(s) /\ Filed(s) /\ ManagerCounts(s, M, told) /\ Managed(s, M, told)
      /\ PointerCounts(s, P, new)
  BY DEF Books
<1>2. s.volume \in [Volumes -> Cell]
  BY <1>1 DEF StoreType
<1>3. \A v \in Volumes :
        /\ s.volume[v].refs \in Nat
        /\ Cardinality(Of(P, v)) \in Nat /\ Cardinality(Of(Q, v)) \in Nat
        /\ v = old => /\ Cardinality(Of(P, v)) # 0
                      /\ Cardinality(Of(Q, v)) = Cardinality(Of(P, v)) - 1
        /\ v # old => Cardinality(Of(Q, v)) = Cardinality(Of(P, v))
  <2> SUFFICES ASSUME NEW v \in Volumes
               PROVE  /\ s.volume[v].refs \in Nat
                      /\ Cardinality(Of(P, v)) \in Nat /\ Cardinality(Of(Q, v)) \in Nat
                      /\ v = old => /\ Cardinality(Of(P, v)) # 0
                                    /\ Cardinality(Of(Q, v)) = Cardinality(Of(P, v)) - 1
                      /\ v # old => Cardinality(Of(Q, v)) = Cardinality(Of(P, v))
    OBVIOUS
  <2>1. Cardinality(Of(P, v)) \in Nat /\ Cardinality(Of(Q, v)) \in Nat
    BY Finite
  <2>2. /\ Cardinality(Of(Q, v)) = Cardinality(Of(P, v)) - IF v = old THEN 1 ELSE 0
        /\ v = old => Cardinality(Of(P, v)) # 0
    BY OfDrop
  <2>3. s.volume[v].refs \in Nat
    BY <1>2 DEF Cell
  <2> QED
    BY <2>1, <2>2, <2>3
<1>4. s.volume[old].refs # 0 /\ old # new
  BY <1>1, <1>3 DEF PointerCounts
<1>5. \A v \in {old} : v \in Volumes => s.volume[v].refs # 0
  BY <1>4
<1>6. t.volume \in [Volumes -> Cell]
  BY <1>2, <1>5, UnrefFacts
<1>7. \A v \in Volumes :
        LET c == t.volume[v]
        IN  /\ v \notin {old} => c = s.volume[v]
            /\ v \in {old} => c.refs = s.volume[v].refs - 1
            /\ v \in {old} /\ c.refs = 0 => ~c.live /\ ~c.unique
            /\ v \in {old} /\ c.refs # 0 => c.live = s.volume[v].live
            /\ c.refs # 0 => /\ c.params = s.volume[v].params
                             /\ c.lod = s.volume[v].lod
                             /\ c.unique = s.volume[v].unique
  BY <1>2, <1>5, UnrefFacts
<1>8. StoreType(t) /\ ManagerCounts(t, M, told)
  BY <1>1, <1>6 DEF StoreType, ManagerCounts
<1>14. \A v \in Volumes : InSlot(t.groups, v) <=> InSlot(s.groups, v)
  OBVIOUS
<1>9. PointerCounts(t, Q, new)
  <2> SUFFICES ASSUME NEW v \in Volumes
               PROVE  /\ t.volume[v].refs = Cardinality(Of(Q, v))
                                            + IF InSlot(s.groups, v) THEN 1 ELSE 0
                      /\ t.volume[v].live <=> t.volume[v].refs # 0 \/ v = new
                      /\ v = new => t.volume[v].refs = 0
    BY <1>14 DEF PointerCounts
  <2>1. /\ s.volume[v].refs = Cardinality(Of(P, v)) + IF InSlot(s.groups, v) THEN 1 ELSE 0
        /\ s.volume[v].live <=> s.volume[v].refs # 0 \/ v = new
        /\ v = new => s.volume[v].refs = 0
    BY <1>1 DEF PointerCounts
  <2>2. CASE v = old
    <3>1. t.volume[v].refs = s.volume[v].refs - 1
      BY <1>7, <2>2
    <3>2. t.volume[v].refs = Cardinality(Of(Q, v)) + IF InSlot(s.groups, v) THEN 1 ELSE 0
      BY <1>3, <2>1, <2>2, <3>1
    <3> QED
      BY <1>4, <1>7, <2>1, <2>2, <3>2
  <2>3. CASE v # old
    BY <1>3, <1>7, <2>1, <2>3
  <2> QED
    BY <2>2, <2>3
<1>10. \A v \in Volumes :
         /\ InSlot(s.groups, v) => t.volume[v].refs # 0
         /\ Cardinality(Of(Q, v)) # 0 => t.volume[v].refs # 0
  <2> SUFFICES ASSUME NEW v \in Volumes
               PROVE  /\ InSlot(s.groups, v) => t.volume[v].refs # 0
                      /\ Cardinality(Of(Q, v)) # 0 => t.volume[v].refs # 0
    OBVIOUS
  <2>1. t.volume[v].refs = Cardinality(Of(Q, v)) + IF InSlot(t.groups, v) THEN 1 ELSE 0
    BY <1>9 DEF PointerCounts
  <2>2. Cardinality(Of(Q, v)) \in Nat /\ (InSlot(t.groups, v) <=> InSlot(s.groups, v))
    BY <1>3, <1>14
  <2> QED
    BY <2>1, <2>2
<1>11. Filed(t)
  <2> SUFFICES ASSUME NEW q \in DOMAIN t.groups, NEW e \in Lods, t.groups[q].lods[e] # NULL
               PROVE  LET c == t.volume[t.groups[q].lods[e]]
                      IN  c.params = q /\ c.lod = e /\ ~c.unique
    BY DEF Filed
  <2>1. LET v == s.groups[q].lods[e]
        IN  /\ v \in Volumes /\ InSlot(s.groups, v)
            /\ s.volume[v].params = q /\ s.volume[v].lod = e /\ ~s.volume[v].unique
    BY <1>1, <1>0 DEF AllInPlace, InPlace
  <2>2. t.volume[s.groups[q].lods[e]].refs # 0
    BY <1>10, <2>1
  <2> QED
    BY <1>7, <2>1, <2>2
<1>12. Managed(t, M, told)
  <2> SUFFICES ASSUME ~told, NEW y \in Prims, NEW w \in Volumes,
                      <<y, w>> \in M, ~t.volume[w].unique
               PROVE  /\ t.volume[w].params \in DOMAIN s.groups
                      /\ t.volume[w].lod \in Lods
                      /\ s.groups[t.volume[w].params].lods[t.volume[w].lod] = w
    BY DEF Managed
  <2>1. CASE w = old
    <3>0. <<y, w>> \in Q
      BY <2>1
    <3>1. y \in Of(Q, w)
      BY <3>0 DEF Of
    <3>2. Cardinality(Of(Q, w)) # 0
      BY <3>1, Finite
    <3>3. t.volume[w].refs # 0
      BY <1>10, <3>2
    <3>4. /\ t.volume[w].params = s.volume[w].params
          /\ t.volume[w].lod = s.volume[w].lod
          /\ t.volume[w].unique = s.volume[w].unique
      BY <1>7, <3>3
    <3> QED
      BY <1>1, <3>4 DEF Managed
  <2>2. CASE w # old
    <3>1. t.volume[w] = s.volume[w]
      BY <1>7, <2>2
    <3> QED
      BY <1>1, <3>1 DEF Managed
  <2> QED
    BY <2>1, <2>2
<1>13. \A v \in Volumes :
         /\ v # old => t.volume[v] = s.volume[v]
         /\ t.volume[v].refs # 0 => t.volume[v].params = s.volume[v].params
  BY <1>7
<1> QED
  BY <1>8, <1>9, <1>11, <1>12, <1>13 DEF Books, LetGo

LEMMA OneMore ==
  ASSUME NEW c \in Cell, NEW b, b = [c EXCEPT !.refs = @ + 1]
  PROVE  /\ b \in Cell /\ c.refs \in Nat /\ b.refs = c.refs + 1
         /\ b.live = c.live /\ b.params = c.params /\ b.lod = c.lod /\ b.unique = c.unique
BY DEF Cell

\* x points to v, which the manager has counted already.
LEMMA PointBooks ==
  ASSUME NEW s, NEW M, NEW P, NEW new, NEW told, Books(s, M, P, new, told),
         NEW x \in Prims, NEW v \in Volumes, <<x, v>> \notin P, s.volume[v].live,
         new \in {NULL, v},
         NEW cell, cell = [s.volume[v] EXCEPT !.refs = @ + 1],
         NEW t, t.groups = s.groups, t.volume = [s.volume EXCEPT ![v] = cell],
         NEW Q, Q = P \union {<<x, v>>}
  PROVE  /\ Books(t, M, Q, NULL, told)
         /\ \A w \in Volumes : t.volume[w].params = s.volume[w].params
<1>0. AllInPlace(s)
  BY SlotFacts DEF Books
<1>1. StoreType(s) /\ Filed(s) /\ ManagerCounts(s, M, told) /\ Managed(s, M, told)
      /\ PointerCounts(s, P, new)
  BY DEF Books
<1>2. s.volume \in [Volumes -> Cell] /\ s.volume[v] \in Cell
  BY <1>1 DEF StoreType
<1>3. /\ cell \in Cell /\ cell.live = s.volume[v].live /\ cell.params = s.volume[v].params
      /\ cell.lod = s.volume[v].lod /\ cell.unique = s.volume[v].unique
      /\ cell.refs = s.volume[v].refs + 1 /\ s.volume[v].refs \in Nat
  BY <1>2, OneMore
<1>5. t.volume \in [Volumes -> Cell] /\ t.volume[v] = cell
      /\ \A w \in Volumes : w # v => t.volume[w] = s.volume[w]
  BY <1>2, <1>3
<1>6. StoreType(t) /\ ManagerCounts(t, M, told)
  BY <1>1, <1>5 DEF StoreType, ManagerCounts
<1>7. \A w \in Volumes : /\ t.volume[w].params = s.volume[w].params
                         /\ t.volume[w].lod = s.volume[w].lod
                         /\ t.volume[w].unique = s.volume[w].unique
                         /\ t.volume[w].live = s.volume[w].live
  BY <1>3, <1>5
<1>8. Filed(t)
  <2> SUFFICES ASSUME NEW q \in DOMAIN s.groups, NEW e \in Lods, s.groups[q].lods[e] # NULL
               PROVE  LET c == t.volume[s.groups[q].lods[e]]
                      IN  c.params = q /\ c.lod = e /\ ~c.unique
    BY DEF Filed
  <2>1. LET w == s.groups[q].lods[e]
        IN  /\ w \in Volumes
            /\ s.volume[w].params = q /\ s.volume[w].lod = e /\ ~s.volume[w].unique
    BY <1>1, <1>0 DEF AllInPlace, InPlace
  <2> QED
    BY <1>7, <2>1
<1>9. Managed(t, M, told)
  <2> SUFFICES ASSUME ~told, NEW y \in Prims, NEW w \in Volumes,
                      <<y, w>> \in M, ~t.volume[w].unique
               PROVE  /\ t.volume[w].params \in DOMAIN s.groups
                      /\ t.volume[w].lod \in Lods
                      /\ s.groups[t.volume[w].params].lods[t.volume[w].lod] = w
    BY DEF Managed
  <2>1. /\ t.volume[w].params = s.volume[w].params
        /\ t.volume[w].lod = s.volume[w].lod
        /\ t.volume[w].unique = s.volume[w].unique
    BY <1>7
  <2> QED
    BY <1>1, <2>1 DEF Managed
<1>10. PointerCounts(t, Q, NULL)
  <2> SUFFICES ASSUME NEW w \in Volumes
               PROVE  /\ t.volume[w].refs = Cardinality(Of(Q, w))
                                            + IF InSlot(s.groups, w) THEN 1 ELSE 0
                      /\ t.volume[w].live <=> t.volume[w].refs # 0
    <3>1. \A w \in Volumes : w # NULL /\ (InSlot(t.groups, w) <=> InSlot(s.groups, w))
      BY VolumeAssumption
    <3> QED
      BY <3>1 DEF PointerCounts
  <2>1. Cardinality(Of(P, w)) \in Nat /\ w # NULL
    BY Finite, VolumeAssumption
  <2>2. s.volume[w].refs = Cardinality(Of(P, w)) + IF InSlot(s.groups, w) THEN 1 ELSE 0
    BY <1>1 DEF PointerCounts
  <2>5. Cardinality(Of(Q, w)) = Cardinality(Of(P, w)) + IF w = v THEN 1 ELSE 0
    BY OfAdd
  <2>3. CASE w = v
    <3>1. t.volume[w].refs = s.volume[v].refs + 1
      BY <1>3, <1>5, <2>3
    <3>2. t.volume[w].refs # 0
      BY <1>3, <3>1
    <3>3. t.volume[w].live
      BY <1>7, <2>3
    <3> QED
      BY <2>1, <2>2, <2>3, <2>5, <3>1, <3>2, <3>3
  <2>4. CASE w # v
    <3>2. s.volume[w].live <=> s.volume[w].refs # 0
      BY <1>1, <2>1, <2>4 DEF PointerCounts
    <3>3. t.volume[w] = s.volume[w]
      BY <1>5, <2>4
    <3> QED
      BY <2>1, <2>2, <2>4, <2>5, <3>2, <3>3
  <2> QED
    BY <2>3, <2>4
<1> QED
  BY <1>6, <1>7, <1>8, <1>9, <1>10 DEF Books

(***************************************************************************)
(* LLPrimitive.                                                            *)
(***************************************************************************)

\* A volume that a pair points to is there.
LEMMA PointedIsThere ==
  ASSUME NEW s, NEW M, NEW P, NEW new, NEW told, Books(s, M, P, new, told),
         NEW w \in Volumes,
         InSlot(s.groups, w) \/ \E y \in Prims : <<y, w>> \in P
  PROVE  s.volume[w].refs # 0 /\ s.volume[w].live
<1>1. /\ s.volume[w].refs = Cardinality(Of(P, w)) + IF InSlot(s.groups, w) THEN 1 ELSE 0
      /\ s.volume[w].live <=> s.volume[w].refs # 0 \/ w = new
  BY DEF Books, PointerCounts
<1>2. Cardinality(Of(P, w)) \in Nat
      /\ (Cardinality(Of(P, w)) = 0 <=> Of(P, w) = {})
  BY Finite
<1>3. InSlot(s.groups, w) \/ Of(P, w) # {}
  BY DEF Of
<1> QED
  BY <1>1, <1>2, <1>3

LEMMA FacesCount ==
  ASSUME NEW p \in Params
  PROVE  Cardinality(Faces[p]) \in Nat
<1>1. Faces[p] \subseteq 0 .. 8
  BY VolumeAssumption
<1>2. IsFiniteSet(0 .. 8)
  <2> 0 \in Int /\ 8 \in Int
    OBVIOUS
  <2> QED
    BY FS_Interval
<1> QED
  BY <1>1, <1>2, FS_Subset, FS_CardinalityType

LEMMA SamePairs ==
  ASSUME NEW A \in SUBSET (Prims \X Volumes), NEW B \in SUBSET (Prims \X Volumes),
         \A y \in Prims, w \in Volumes : <<y, w>> \in A <=> <<y, w>> \in B
  PROVE  A = B
<1>1. \A h \in Prims \X Volumes : h \in A <=> h \in B
  OBVIOUS
<1> QED
  BY <1>1

\* The pairs before and after the assignment.
LEMMA PairsMove ==
  ASSUME held \in [Prims -> Ref], NEW x \in Prims, NEW v \in Volumes, held[x] # v,
         NEW hd, \A y \in Prims : hd[y] = IF y = x THEN v ELSE held[y],
         NEW H, H = Pairs(hd)
  PROVE  /\ H = (Held \union {<<x, v>>}) \ {<<x, held[x]>>}
         /\ H = (Held \ {<<x, held[x]>>}) \union {<<x, v>>}
         /\ <<x, v>> \in H /\ <<x, v>> \notin Held
         /\ \A y \in Prims : y # x => \A w \in Volumes : <<y, w>> \in H <=> held[y] = w
         /\ \A y \in Prims : \A w \in Volumes : <<y, w>> \in Held <=> held[y] = w
         /\ \A w : <<x, w>> \in H => w = v
<1>1. \A y \in Prims, w \in Volumes : <<y, w>> \in H <=> IF y = x THEN w = v ELSE held[y] = w
  BY DEF Pairs
<1>2. \A y \in Prims, w \in Volumes : <<y, w>> \in Held <=> held[y] = w
  BY DEF Held, Pairs
<1>3. H \subseteq Prims \X Volumes /\ Held \subseteq Prims \X Volumes
  BY DEF Held, Pairs
<1>4. H = (Held \union {<<x, v>>}) \ {<<x, held[x]>>}
  <2>1. ASSUME NEW y \in Prims, NEW w \in Volumes
        PROVE  <<y, w>> \in H <=> <<y, w>> \in (Held \union {<<x, v>>}) \ {<<x, held[x]>>}
    BY <1>1, <1>2
  <2>2. (Held \union {<<x, v>>}) \ {<<x, held[x]>>} \subseteq Prims \X Volumes
    BY <1>3
  <2> QED
    BY <1>3, <2>1, <2>2, SamePairs
<1>5. H = (Held \ {<<x, held[x]>>}) \union {<<x, v>>}
  <2>1. ASSUME NEW y \in Prims, NEW w \in Volumes
        PROVE  <<y, w>> \in H <=> <<y, w>> \in (Held \ {<<x, held[x]>>}) \union {<<x, v>>}
    BY <1>1, <1>2
  <2>2. (Held \ {<<x, held[x]>>}) \union {<<x, v>>} \subseteq Prims \X Volumes
    BY <1>3
  <2> QED
    BY <1>3, <2>1, <2>2, SamePairs
<1>6. \A w : <<x, w>> \in H => w = v
  BY <1>1, <1>3
<1> QED
  BY <1>1, <1>2, <1>4, <1>5, <1>6

LEMMA SameBooks ==
  ASSUME NEW s, NEW M, NEW P, NEW new, NEW told, Books(s, M, P, new, told),
         NEW u, u.groups = s.groups, u.volume = s.volume
  PROVE  Books(u, M, P, new, told)
<1>1. StoreType(u) /\ Filed(u)
  BY DEF Books, StoreType, Filed
<1>2. ManagerCounts(u, M, told) /\ Managed(u, M, told)
  BY DEF Books, ManagerCounts, Managed
<1>3. PointerCounts(u, P, new)
  BY DEF Books, PointerCounts
<1> QED
  BY <1>1, <1>2, <1>3 DEF Books

\* v, and what the primitives besides x hold, keep their parameters.
ParamsStay(x, v, s, t) ==
  /\ t.volume[v].params = s.volume[v].params
  /\ \A y \in Prims, w \in Volumes :
       y # x /\ held[y] = w => t.volume[w].params = s.volume[w].params

\* mVolumep is assigned: old is let go, then v is pointed to.
LEMMA AssignBooks ==
  ASSUME held \in [Prims -> Ref], NEW x \in Prims, NEW v \in Volumes, held[x] # v,
         NEW hd, \A y \in Prims : hd[y] = IF y = x THEN v ELSE held[y],
         NEW H, H = Pairs(hd),
         NEW new, new \in {NULL, v}, NEW told,
         NEW s, Books(s, H, Held, new, told), s.volume[v].live,
         NEW t, t.groups = s.groups, t.volume = Assign(s.volume, held[x], v)
  PROVE  Books(t, H, H, NULL, told) /\ ParamsStay(x, v, s, t)
<1>1. PICK old \in Ref : old = held[x]
  OBVIOUS
<1>2. PICK Q : Q = Held \ {<<x, old>>}
  OBVIOUS
<1>3. /\ H = Q \union {<<x, v>>}
      /\ <<x, v>> \in H /\ <<x, v>> \notin Held
      /\ \A y \in Prims : y # x => \A w \in Volumes : <<y, w>> \in H <=> held[y] = w
      /\ \A y \in Prims : \A w \in Volumes : <<y, w>> \in Held <=> held[y] = w
      /\ \A w : <<x, w>> \in H => w = v
  BY <1>1, <1>2, PairsMove
<1>4. PICK u : u = [groups |-> s.groups, volume |-> Unref(s.volume, {old} \ {NULL})]
  OBVIOUS
<1>5. /\ Books(u, H, Q, new, told)
      /\ \A w \in Volumes :
           /\ w # old => u.volume[w] = s.volume[w]
           /\ u.volume[w].refs # 0 => u.volume[w].params = s.volume[w].params
  <2>1. CASE old = NULL
    <3>1. NULL \notin Volumes
      BY VolumeAssumption
    <3>2. Q = Held
      <4>1. <<x, old>> \notin Held
        BY <2>1, <3>1 DEF Held, Pairs
      <4> QED
        BY <1>2, <4>1
    <3>3. u.volume = s.volume
      <4>1. s.volume \in [Volumes -> Cell]
        BY DEF Books, StoreType
      <4>2. Unref(s.volume, {}) = s.volume
        BY <4>1 DEF Unref
      <4>3. {old} \ {NULL} = {}
        BY <2>1
      <4> QED
        BY <1>4, <4>2, <4>3
    <3>4. u.groups = s.groups
      BY <1>4
    <3>5. Books(u, H, Held, new, told)
      BY <3>3, <3>4, SameBooks
    <3> QED
      BY <3>2, <3>3, <3>5
  <2>2. CASE old # NULL
    <3>1. old \in Volumes
      BY <2>2 DEF Ref
    <3>2. <<x, old>> \in Held
      BY <1>1, <1>3, <3>1
    <3>3. \A y \in Prims : <<y, old>> \in H => y # x /\ <<y, old>> \in Held
      BY <1>1, <1>3, <3>1
    <3>4. u.groups = s.groups /\ u.volume = Unref(s.volume, {old})
      <4>1. {old} \ {NULL} = {old}
        BY <2>2
      <4> QED
        BY <1>4, <4>1
    <3>5. Books(u, H, Q, new, told) /\ LetGo(s, u, old)
      BY <1>2, <3>1, <3>2, <3>3, <3>4, LetGoBooks
    <3> QED
      BY <3>5 DEF LetGo
  <2> QED
    BY <2>1, <2>2
<1>6. u.volume[v] = s.volume[v]
  BY <1>1, <1>5
<1>7. PICK cell : cell = [u.volume[v] EXCEPT !.refs = @ + 1]
  OBVIOUS
<1>8. t.groups = u.groups /\ t.volume = [u.volume EXCEPT ![v] = cell]
  <2>1. t.volume = [u.volume EXCEPT ![v].refs = @ + 1]
    BY <1>1, <1>4 DEF Assign
  <2> QED
    BY <1>4, <1>7, <2>1
<1>9. <<x, v>> \notin Q
  BY <1>2, <1>3
<1>10. /\ Books(t, H, H, NULL, told)
       /\ \A w \in Volumes : t.volume[w].params = u.volume[w].params
  <2>1. u.volume[v].live
    BY <1>6
  <2> QED
    BY <1>3, <1>5, <1>7, <1>8, <1>9, <2>1, PointBooks
<1>11. ASSUME NEW y \in Prims, NEW w \in Volumes, y # x, held[y] = w
       PROVE  t.volume[w].params = s.volume[w].params
  <2>1. <<y, w>> \in Q
    BY <1>2, <1>3, <1>11
  <2>2. u.volume[w].refs # 0
    BY <1>5, <2>1, PointedIsThere
  <2> QED
    BY <1>5, <1>10, <2>2
<1> QED
  BY <1>6, <1>10, <1>11 DEF ParamsStay

\* The second half of setVolume, from a store in which v is counted already.
LEMMA HoldStep ==
  ASSUME IInv, fault = "none", NEW x \in Prims, NEW v \in Volumes, NEW s, NEW new,
         new \in {NULL, v}, Books(s, Held \union {<<x, v>>}, Held, new, lost),
         held[x] # v, s.volume[v].live, s.volume[v].params \in Params,
         new = v \/ ~s.volume[v].unique,
         ~manager => DOMAIN s.groups = {},
         \A w \in Volumes : \A y \in Prims :
           held[y] = w => s.volume[w].params = volume[w].params,
         Hold(x, v, s)
  PROVE  IInv'
<1>1. /\ held \in [Prims -> Ref] /\ numTEs \in [Prims -> Nat]
      /\ lost \in BOOLEAN /\ manager \in BOOLEAN /\ Entries
  BY DEF IInv
<1>2. v # NULL /\ NULL \notin Volumes
  BY VolumeAssumption
<1>3. PICK old \in Ref : old = held[x]
  BY <1>1
<1>4. PICK after : after = IF old = NULL THEN s ELSE UnrefVolume(old, s)
  OBVIOUS
<1>14. PICK hd : hd = [held EXCEPT ![x] = v]
  OBVIOUS
<1>15. \A y \in Prims : hd[y] = IF y = x THEN v ELSE held[y]
  BY <1>1, <1>14
<1>5. PICK H : H = Pairs(hd)
  OBVIOUS
<1>6. /\ H = (Held \union {<<x, v>>}) \ {<<x, old>>}
      /\ <<x, v>> \in H
      /\ \A y \in Prims : \A w \in Volumes : <<y, w>> \in Held <=> held[y] = w
  BY <1>1, <1>3, <1>5, <1>15, PairsMove
<1>7. /\ Books(after, H, Held, new, lost)
      /\ Kept(s, after)
      /\ \A w \in Volumes :
           \/ after.volume[w].live
           \/ after.volume[w] = s.volume[w]
           \/ ~after.volume[w].unique
      /\ new \in Volumes => after.volume[new] = s.volume[new]
      /\ DOMAIN after.groups \subseteq DOMAIN s.groups
  <2>1. CASE old = NULL
    <3>1. H = Held \union {<<x, v>>}
      <4>1. <<x, old>> \notin Held \union {<<x, v>>}
        BY <1>2, <2>1 DEF Held, Pairs
      <4> QED
        BY <1>6, <4>1
    <3>2. after = s
      BY <1>4, <2>1
    <3> QED
      BY <3>1, <3>2 DEF Kept
  <2>2. CASE old # NULL
    <3>1. old \in Volumes
      BY <2>2 DEF Ref
    <3>2. <<x, old>> \in Held \union {<<x, v>>}
      BY <1>3, <1>6, <3>1
    <3>3. after = UnrefVolume(old, s)
      BY <1>4, <2>2
    <3> QED
      BY <1>6, <3>1, <3>2, <3>3, UnrefVolumeBooks
  <2> QED
    BY <2>1, <2>2
<1>16. \A w \in Volumes :
         after.volume[w].refs # 0 => after.volume[w].params = s.volume[w].params
  BY <1>7 DEF Kept
<1>8. ~manager => DOMAIN after.groups = {}
  BY <1>7
<1>9. CASE ~after.volume[v].live
  <2>1. /\ fault' = "freed" /\ groups' = after.groups
        /\ UNCHANGED <<manager, held, numTEs, lost>>
    BY <1>3, <1>4, <1>9 DEF Hold
  <2>2. ~after.volume[v].unique
    BY <1>7, <1>9
  <2>3. lost
    <3> SUFFICES ASSUME ~lost PROVE FALSE
      OBVIOUS
    <3>1. LET q == after.volume[v].params
              e == after.volume[v].lod
          IN  q \in DOMAIN after.groups /\ e \in Lods /\ after.groups[q].lods[e] = v
      BY <1>6, <1>7, <2>2 DEF Books, Managed
    <3>2. InSlot(after.groups, v)
      BY <3>1 DEF InSlot
    <3> QED
      BY <1>7, <1>9, <3>2, PointedIsThere
  <2> QED
    BY <1>1, <1>8, <2>1, <2>3 DEF IInv
<1>10. CASE after.volume[v].live
  <2>1. /\ groups' = after.groups
        /\ volume' = Assign(after.volume, old, v)
        /\ held' = [held EXCEPT ![x] = v]
        /\ numTEs' = [numTEs EXCEPT ![x] = TextureEntries(x, after.volume[v].params)]
        /\ UNCHANGED <<manager, lost, fault>>
    BY <1>3, <1>4, <1>10 DEF Hold
  <2>20. Store'.groups = groups' /\ Store'.volume = volume'
    BY DEF Store
  <2>2. PICK t : /\ t = Store' /\ t.groups = groups' /\ t.volume = volume'
                 /\ t.groups = after.groups /\ t.volume = Assign(after.volume, old, v)
    BY <2>1, <2>20
  <2>3. Held' = H
    BY <1>5, <1>14, <2>1 DEF Held, Pairs
  <2>4. /\ Books(t, H, H, NULL, lost)
        /\ t.volume[v].params = after.volume[v].params
        /\ \A y \in Prims, w \in Volumes :
             y # x /\ held[y] = w => t.volume[w].params = after.volume[w].params
    <3>1. t.groups = after.groups /\ t.volume = Assign(after.volume, held[x], v)
      BY <1>3, <2>2
    <3>2. held \in [Prims -> Ref] /\ after.volume[v].live /\ Books(after, H, Held, new, lost)
      BY <1>1, <1>7, <1>10
    <3>3. new \in {NULL, v} /\ held[x] # v
      OBVIOUS
    <3>4. Books(t, H, H, NULL, lost) /\ ParamsStay(x, v, after, t)
      BY <1>5, <1>15, <3>1, <3>2, <3>3, AssignBooks
    <3> QED
      BY <3>4 DEF ParamsStay
  <2>5. Books(Store, Held, Held, NULL, lost)'
    BY <2>1, <2>2, <2>3, <2>4
  <2>6. after.volume[v].params \in Params
    <3>1. after.volume[v].refs # 0 \/ new = v
      BY <1>7, <1>10 DEF Books, PointerCounts
    <3> QED
      BY <1>7, <1>16, <3>1
  <2>7. /\ TextureEntries(x, after.volume[v].params) = Cardinality(Faces[after.volume[v].params])
        /\ TextureEntries(x, after.volume[v].params) \in Nat
    <3>1. held[x] # NULL => numTEs[x] = Cardinality(Faces[volume[held[x]].params])
      BY <1>1 DEF Entries
    <3>2. Cardinality(Faces[after.volume[v].params]) \in Nat
      BY <2>6, FacesCount
    <3> QED
      BY <3>1, <3>2 DEF TextureEntries
  <2>8. held' \in [Prims -> Ref] /\ numTEs' \in [Prims -> Nat]
    BY <1>1, <2>1, <2>7 DEF Ref
  <2>9. Entries'
    <3> SUFFICES ASSUME NEW y \in Prims, held'[y] # NULL
                 PROVE  numTEs'[y] = Cardinality(Faces[volume'[held'[y]].params])
      BY DEF Entries
    <3>1. CASE y = x
      <4>1. held'[y] = v /\ numTEs'[y] = TextureEntries(x, after.volume[v].params)
        BY <1>1, <2>1, <3>1
      <4> QED
        BY <2>2, <2>4, <2>7, <4>1
    <3>2. CASE y # x
      <4>1. held'[y] = held[y] /\ numTEs'[y] = numTEs[y] /\ held[y] \in Volumes
        BY <1>1, <2>1, <3>2 DEF Ref
      <4>2. volume'[held[y]].params = after.volume[held[y]].params
        BY <2>2, <2>4, <3>2, <4>1
      <4>3. after.volume[held[y]].params = s.volume[held[y]].params
        <5>1. <<y, held[y]>> \in Held
          BY <1>6, <4>1
        <5> QED
          BY <1>7, <1>16, <4>1, <5>1, PointedIsThere
      <4>4. s.volume[held[y]].params = volume[held[y]].params
        BY <4>1
      <4> QED
        BY <1>1, <4>1, <4>2, <4>3, <4>4 DEF Entries
    <3> QED
      BY <3>1, <3>2
  <2> QED
    BY <1>1, <1>8, <2>1, <2>5, <2>8, <2>9 DEF IInv
<1> QED
  BY <1>9, <1>10

\* A volume of its own is allocated: the manager does not know of it.
LEMMA UniqueBooks ==
  ASSUME NEW s, NEW M, NEW told, Books(s, M, M, NULL, told),
         NEW x \in Prims, NEW v \in Volumes, ~s.volume[v].live,
         NEW r, r.groups = s.groups, r.volume \in [Volumes -> Cell],
         \A w \in Volumes : w # v => r.volume[w] = s.volume[w],
         r.volume[v].live, r.volume[v].unique, r.volume[v].refs = 0
  PROVE  Books(r, M \union {<<x, v>>}, M, v, told)
<1>0. AllInPlace(s)
  BY SlotFacts DEF Books
<1>1. StoreType(s) /\ Filed(s) /\ ManagerCounts(s, M, told) /\ Managed(s, M, told)
      /\ PointerCounts(s, M, NULL)
  BY DEF Books
<1>4. ~InSlot(s.groups, v) /\ \A y \in Prims : <<y, v>> \notin M
  BY PointedIsThere
<1>5. PICK N : N = M \union {<<x, v>>}
  OBVIOUS
<1>6. StoreType(r)
  BY <1>1 DEF StoreType
<1>7. Filed(r)
  <2> SUFFICES ASSUME NEW q \in DOMAIN r.groups, NEW e \in Lods, r.groups[q].lods[e] # NULL
               PROVE  LET c == r.volume[r.groups[q].lods[e]]
                      IN  c.params = q /\ c.lod = e /\ ~c.unique
    BY DEF Filed
  <2>1. LET w == s.groups[q].lods[e]
        IN  /\ w \in Volumes /\ InSlot(s.groups, w)
            /\ s.volume[w].params = q /\ s.volume[w].lod = e /\ ~s.volume[w].unique
    BY <1>1, <1>0 DEF AllInPlace, InPlace
  <2>2. s.groups[q].lods[e] # v
    BY <1>4, <2>1
  <2> QED
    BY <2>1, <2>2
<1>8. ManagerCounts(r, N, told)
  <2> SUFFICES ASSUME NEW q \in DOMAIN s.groups
               PROVE  /\ LevelCounts(N, s.groups[q])
                      /\ GroupCount(N, s.groups[q], told)
                      /\ s.groups[q].refs # 0
    BY DEF ManagerCounts
  <2>1. \A e \in Lods : s.groups[q].lods[e] # v
    BY <1>4 DEF InSlot
  <2>2. \A y \in Prims : \A w : w # v => (<<y, w>> \in N <=> <<y, w>> \in M)
    BY <1>5
  <2>3. LevelCounts(M, s.groups[q]) /\ GroupCount(M, s.groups[q], told) /\ s.groups[q].refs # 0
    BY <1>1 DEF ManagerCounts
  <2> QED
    BY <2>1, <2>2, <2>3, CountsElsewhere
<1>9. Managed(r, N, told)
  <2> SUFFICES ASSUME ~told, NEW y \in Prims, NEW w \in Volumes,
                      <<y, w>> \in N, ~r.volume[w].unique
               PROVE  /\ r.volume[w].params \in DOMAIN s.groups
                      /\ r.volume[w].lod \in Lods
                      /\ s.groups[r.volume[w].params].lods[r.volume[w].lod] = w
    BY DEF Managed
  <2>1. w # v
    OBVIOUS
  <2>2. <<y, w>> \in M /\ r.volume[w] = s.volume[w]
    BY <1>5, <2>1
  <2> QED
    BY <1>1, <2>2 DEF Managed
<1>10. PointerCounts(r, M, v)
  <2>1. ASSUME NEW w \in Volumes
        PROVE  /\ r.volume[w].refs = Cardinality(Of(M, w))
                                     + IF InSlot(s.groups, w) THEN 1 ELSE 0
               /\ r.volume[w].live <=> r.volume[w].refs # 0 \/ w = v
               /\ w = v => r.volume[w].refs = 0
    <3>1. w # NULL
      BY VolumeAssumption
    <3>2. CASE w = v
      <4>1. Of(M, w) = {}
        BY <1>4, <3>2 DEF Of
      <4>2. Cardinality(Of(M, w)) = 0
        BY <4>1, FS_EmptySet
      <4>3. r.volume[w].refs = 0 /\ r.volume[w].live
        BY <3>2
      <4>4. ~InSlot(s.groups, w)
        BY <1>4, <3>2
      <4>5. r.volume[w].refs = Cardinality(Of(M, w)) + IF InSlot(s.groups, w) THEN 1 ELSE 0
        <5>1. (IF InSlot(s.groups, w) THEN 1 ELSE 0) = 0
          BY <4>4
        <5> QED
          BY <4>2, <4>3, <5>1
      <4> QED
        BY <3>2, <4>3, <4>5
    <3>3. CASE w # v
      BY <1>1, <3>1, <3>3 DEF PointerCounts
    <3> QED
      BY <3>2, <3>3
  <2>2. \A w \in Volumes : InSlot(r.groups, w) <=> InSlot(s.groups, w)
    OBVIOUS
  <2> QED
    BY <2>1, <2>2 DEF PointerCounts
<1> QED
  BY <1>5, <1>6, <1>7, <1>8, <1>9, <1>10 DEF Books

(***************************************************************************)
(* The steps.                                                              *)
(***************************************************************************)

LEMMA StoreFacts ==
  ASSUME IInv, fault = "none"
  PROVE  /\ Books(Store, Held, Held, NULL, lost) /\ Entries
         /\ held \in [Prims -> Ref] /\ numTEs \in [Prims -> Nat]
         /\ lost \in BOOLEAN /\ manager \in BOOLEAN
         /\ ~manager => DOMAIN groups = {}
         /\ Store.groups = groups /\ Store.volume = volume
         /\ volume \in [Volumes -> Cell]
         /\ \A y \in Prims : \A w \in Volumes : <<y, w>> \in Held <=> held[y] = w
         /\ \A y \in Prims : held[y] # NULL =>
              held[y] \in Volumes /\ volume[held[y]].refs # 0 /\ volume[held[y]].live
<1>1. /\ Books(Store, Held, Held, NULL, lost) /\ Entries
      /\ held \in [Prims -> Ref] /\ numTEs \in [Prims -> Nat]
      /\ lost \in BOOLEAN /\ manager \in BOOLEAN
      /\ ~manager => DOMAIN groups = {}
  BY DEF IInv
<1>2. Store.groups = groups /\ Store.volume = volume
  BY DEF Store
<1>3. volume \in [Volumes -> Cell]
  BY <1>1, <1>2 DEF Books, StoreType
<1>4. \A y \in Prims : \A w \in Volumes : <<y, w>> \in Held <=> held[y] = w
  BY DEF Held, Pairs
<1>5. ASSUME NEW y \in Prims, held[y] # NULL
      PROVE  held[y] \in Volumes /\ volume[held[y]].refs # 0 /\ volume[held[y]].live
  <2>1. held[y] \in Volumes
    BY <1>1, <1>5 DEF Ref
  <2>2. <<y, held[y]>> \in Held
    BY <1>4, <2>1
  <2> QED
    BY <1>1, <1>2, <2>1, <2>2, PointedIsThere
<1> QED
  BY <1>1, <1>2, <1>3, <1>4, <1>5

\* setVolume or the destructor finds no manager for a shared volume.
LEMMA OrphanStep ==
  ASSUME IInv, fault = "none", NEW x \in Prims, held[x] # NULL, NoManagerFor(held[x]),
         Crash("orphan")
  PROVE  IInv'
<1>1. /\ Books(Store, Held, Held, NULL, lost) /\ Entries
      /\ ~manager => DOMAIN groups = {}
      /\ Store.groups = groups /\ Store.volume = volume
      /\ \A y \in Prims : \A w \in Volumes : <<y, w>> \in Held <=> held[y] = w
      /\ \A y \in Prims : held[y] # NULL => held[y] \in Volumes
  BY StoreFacts
<1>2. lost
  <2> SUFFICES ASSUME ~lost PROVE FALSE
    OBVIOUS
  <2>1. ~volume[held[x]].unique /\ DOMAIN groups = {}
    BY <1>1 DEF NoManagerFor
  <2>2. volume[held[x]].params \in DOMAIN groups
    BY <1>1, <2>1 DEF Books, Managed
  <2> QED
    BY <2>1, <2>2
<1>3. fault' = "orphan" /\ UNCHANGED <<manager, groups, volume, held, numTEs, lost>>
  BY DEF Crash
<1>4. Store' = Store /\ Held' = Held /\ (Entries' <=> Entries)
  BY <1>3 DEF Store, Held, Pairs, Entries
<1>5. Books(Store, Held, Held, NULL, lost)'
  BY <1>1, <1>3, <1>4
<1> QED
  BY <1>1, <1>2, <1>3, <1>4, <1>5 DEF IInv

LEMMA UniqueStep ==
  ASSUME IInv, NEW x \in Prims, NEW p \in Params, NEW d \in Lods, SetUniqueVolume(x, p, d)
  PROVE  IInv'
<1>1. fault = "none"
  BY DEF SetUniqueVolume
<1>2. /\ Books(Store, Held, Held, NULL, lost) /\ Entries
      /\ held \in [Prims -> Ref] /\ numTEs \in [Prims -> Nat]
      /\ lost \in BOOLEAN /\ manager \in BOOLEAN
      /\ ~manager => DOMAIN groups = {}
      /\ Store.groups = groups /\ Store.volume = volume
      /\ volume \in [Volumes -> Cell]
      /\ \A y \in Prims : \A w \in Volumes : <<y, w>> \in Held <=> held[y] = w
      /\ \A y \in Prims : held[y] # NULL =>
           held[y] \in Volumes /\ volume[held[y]].refs # 0 /\ volume[held[y]].live
  BY <1>1, StoreFacts
<1>3. CASE held[x] # NULL /\ NoManagerFor(held[x]) /\ Crash("orphan")
  BY <1>1, <1>3, OrphanStep
<1>4. CASE \E v \in Volumes :
             /\ ~volume[v].live
             /\ Hold(x, v, [groups |-> groups,
                            volume |-> [volume EXCEPT ![v] = NewVolume(p, d, TRUE)]])
  <2>1. PICK v \in Volumes :
             /\ ~volume[v].live
             /\ Hold(x, v, [groups |-> groups,
                            volume |-> [volume EXCEPT ![v] = NewVolume(p, d, TRUE)]])
    BY <1>4
  <2>8. PICK cell : cell = NewVolume(p, d, TRUE)
    OBVIOUS
  <2>10. PICK r : r = [groups |-> groups, volume |-> [volume EXCEPT ![v] = cell]]
    OBVIOUS
  <2>2. r.groups = groups /\ r.volume = [volume EXCEPT ![v] = cell]
    BY <2>10
  <2>11. cell \in Cell /\ cell.live /\ cell.params = p /\ cell.unique /\ cell.refs = 0
    BY <2>8 DEF NewVolume, Cell
  <2>3. /\ r.volume \in [Volumes -> Cell] /\ r.volume[v] = cell
        /\ \A w \in Volumes : w # v => r.volume[w] = volume[w]
    BY <1>2, <2>2, <2>11
  <2>9. Books(r, Held \union {<<x, v>>}, Held, v, lost)
    <3>1. r.groups = Store.groups /\ \A w \in Volumes : w # v => r.volume[w] = Store.volume[w]
      BY <1>2, <2>2, <2>3
    <3>2. ~Store.volume[v].live
      BY <1>2, <2>1
    <3> QED
      BY <1>2, <2>3, <2>11, <3>1, <3>2, UniqueBooks
  <2>4. \A y \in Prims : held[y] # v
    BY <1>2, <2>1, VolumeAssumption
  <2>5. Hold(x, v, r)
    BY <2>1, <2>8, <2>10
  <2>6. ~manager => DOMAIN r.groups = {}
    BY <1>2, <2>2
  <2>7. \A w \in Volumes : \A y \in Prims :
          held[y] = w => r.volume[w].params = volume[w].params
    BY <2>3, <2>4
  <2> QED
    BY <1>1, <2>3, <2>4, <2>5, <2>6, <2>7, <2>9, <2>11, HoldStep
<1> QED
  BY <1>3, <1>4 DEF SetUniqueVolume

LEMMA SetStep ==
  ASSUME IInv, NEW x \in Prims, NEW p \in Params, NEW d \in Lods, SetVolume(x, p, d)
  PROVE  IInv'
<1>1. fault = "none" /\ ~HasShape(x, p, d)
  BY DEF SetVolume
<1>2. /\ Books(Store, Held, Held, NULL, lost) /\ Entries
      /\ held \in [Prims -> Ref] /\ numTEs \in [Prims -> Nat]
      /\ lost \in BOOLEAN /\ manager \in BOOLEAN
      /\ ~manager => DOMAIN groups = {}
      /\ Store.groups = groups /\ Store.volume = volume
      /\ volume \in [Volumes -> Cell]
      /\ \A y \in Prims : \A w \in Volumes : <<y, w>> \in Held <=> held[y] = w
      /\ \A y \in Prims : held[y] # NULL =>
           held[y] \in Volumes /\ volume[held[y]].refs # 0 /\ volume[held[y]].live
  BY <1>1, StoreFacts
<1>3. CASE ~manager /\ Crash("unset")
  <2>1. fault' = "unset" /\ UNCHANGED <<manager, groups, volume, held, numTEs, lost>>
    BY <1>3 DEF Crash
  <2>2. Store' = Store /\ Held' = Held /\ (Entries' <=> Entries)
    BY <2>1 DEF Store, Held, Pairs, Entries
  <2>3. Books(Store, Held, Held, NULL, lost)'
    BY <1>2, <2>1, <2>2
  <2> QED
    BY <1>2, <2>1, <2>2, <2>3 DEF IInv
<1>4. ASSUME manager, NEW v \in Volumes, ~volume[v].live,
             LET s == RefVolume(p, d, v, Store)
             IN  Hold(x, s.result, [groups |-> s.groups, volume |-> s.volume])
      PROVE  IInv'
  <2>1. PICK r : r = RefVolume(p, d, v, Store)
    OBVIOUS
  <2>2. Hold(x, r.result, [groups |-> r.groups, volume |-> r.volume])
    BY <1>4, <2>1
  <2>3. PICK w : w = r.result
    OBVIOUS
  <2>4. held[x] # w /\ <<x, w>> \notin Held
    <3>1. w = IF GroupOf(p, Store).lods[d] = NULL THEN v ELSE GroupOf(p, Store).lods[d]
      BY <2>1, <2>3 DEF RefVolume
    <3>2. CASE GroupOf(p, Store).lods[d] = NULL
      <4>1. w = v
        BY <3>1, <3>2
      <4> QED
        BY <1>2, <1>4, <4>1, VolumeAssumption
    <3>3. CASE GroupOf(p, Store).lods[d] # NULL
      <4>1. p \in DOMAIN Store.groups /\ GroupOf(p, Store) = Store.groups[p]
        <5>1. StoreType(Store) /\ ManagerCounts(Store, Held, lost)
          BY <1>2 DEF Books
        <5> QED
          BY <3>3, <5>1, GroupOfFacts
      <4>0. AllInPlace(Store)
        BY <1>2, SlotFacts DEF Books
      <4>2. w \in Volumes /\ volume[w].params = p /\ volume[w].lod = d
        BY <3>1, <3>3, <4>1, <4>0 DEF AllInPlace, InPlace, Store
      <4>3. held[x] # w
        BY <1>1, <4>2, VolumeAssumption DEF HasShape
      <4> QED
        BY <1>2, <4>2, <4>3
    <3> QED
      BY <3>2, <3>3
  <2>15. Referred(r, p, d, Store, Held, x, w, lost)
    <3>1. ~Store.volume[v].live /\ <<x, r.result>> \notin Held
      BY <1>2, <1>4, <2>3, <2>4
    <3> QED
      BY <1>2, <2>1, <2>3, <3>1, RefVolumeBooks
  <2>5. /\ Books(r, Held \union {<<x, w>>}, Held, NULL, lost)
        /\ w \in Volumes /\ r.volume[w].live /\ ~r.volume[w].unique /\ r.volume[w].params = p
    BY <2>15 DEF Referred
  <2>6. \A u \in Volumes : volume[u].refs # 0 => r.volume[u] = volume[u]
    BY <1>2, <2>15 DEF Referred
  <2>7. PICK s : s = [groups |-> r.groups, volume |-> r.volume]
    OBVIOUS
  <2>8. s.groups = r.groups /\ s.volume = r.volume
    BY <2>7
  <2>9. Books(s, Held \union {<<x, w>>}, Held, NULL, lost)
    BY <2>5, <2>8, SameBooks
  <2>10. Hold(x, w, s)
    BY <2>2, <2>3, <2>7
  <2>11. s.volume[w].live /\ ~s.volume[w].unique /\ s.volume[w].params \in Params
    BY <2>5, <2>8
  <2>12. \A u \in Volumes : \A y \in Prims :
           held[y] = u => s.volume[u].params = volume[u].params
    BY <1>2, <2>6, <2>8, VolumeAssumption
  <2>13. ~manager => DOMAIN s.groups = {}
    BY <1>4
  <2>14. w \in Volumes /\ NULL \in {NULL, w}
    BY <2>5
  <2> QED
    BY <1>1, <2>4, <2>9, <2>10, <2>11, <2>12, <2>13, <2>14, HoldStep
<1> QED
  BY <1>3, <1>4 DEF SetVolume

LEMMA DestroyStep ==
  ASSUME IInv, NEW x \in Prims, Destroy(x)
  PROVE  IInv'
<1>1. fault = "none" /\ held[x] # NULL
  BY DEF Destroy
<1>2. /\ Books(Store, Held, Held, NULL, lost) /\ Entries
      /\ held \in [Prims -> Ref] /\ numTEs \in [Prims -> Nat]
      /\ lost \in BOOLEAN /\ manager \in BOOLEAN
      /\ ~manager => DOMAIN groups = {}
      /\ Store.groups = groups /\ Store.volume = volume
      /\ volume \in [Volumes -> Cell]
      /\ \A y \in Prims : \A w \in Volumes : <<y, w>> \in Held <=> held[y] = w
      /\ \A y \in Prims : held[y] # NULL =>
           held[y] \in Volumes /\ volume[held[y]].refs # 0 /\ volume[held[y]].live
  BY <1>1, StoreFacts
<1>3. CASE NoManagerFor(held[x])
  <2>1. Crash("orphan")
    BY <1>3 DEF Destroy
  <2> QED
    BY <1>1, <1>3, <2>1, OrphanStep
<1>4. CASE ~NoManagerFor(held[x])
  <2>1. PICK old \in Volumes : old = held[x]
    BY <1>1, <1>2
  <2>2. PICK t : t = UnrefVolume(old, Store)
    OBVIOUS
  <2>3. /\ groups' = t.groups /\ volume' = Unref(t.volume, {old})
        /\ held' = [held EXCEPT ![x] = NULL] /\ numTEs' = [numTEs EXCEPT ![x] = 0]
        /\ UNCHANGED <<manager, lost, fault>>
    BY <1>4, <2>1, <2>2 DEF Destroy
  <2>4. <<x, old>> \in Held
    BY <1>2, <2>1
  <2>5. PICK N : N = Held \ {<<x, old>>}
    OBVIOUS
  <2>6. Books(t, N, Held, NULL, lost)
    BY <1>2, <2>2, <2>4, <2>5, UnrefVolumeBooks
  <2>16. \A w \in Volumes : t.volume[w].refs # 0 => t.volume[w].params = volume[w].params
    <3>1. Kept(Store, t)
      BY <1>2, <2>2, <2>4, UnrefVolumeBooks
    <3> QED
      BY <1>2, <3>1 DEF Kept
  <2>17. DOMAIN t.groups \subseteq DOMAIN groups
    BY <1>2, <2>2, <2>4, <2>5, UnrefVolumeBooks
  <2>7. \A y \in Prims : <<y, old>> \in N => y # x /\ <<y, old>> \in Held
    BY <2>5
  <2>8. PICK u : u = [groups |-> t.groups, volume |-> Unref(t.volume, {old})]
    OBVIOUS
  <2>9. u.groups = t.groups /\ u.volume = Unref(t.volume, {old}) /\ u = Store'
    BY <2>3, <2>8 DEF Store
  <2>10. Books(u, N, N, NULL, lost) /\ LetGo(t, u, old)
    BY <2>4, <2>5, <2>6, <2>7, <2>9, LetGoBooks
  <2>18. \A w \in Volumes : u.volume[w].refs # 0 => u.volume[w].params = t.volume[w].params
    BY <2>10, Zenon DEF LetGo
  <2>11. Held' = N
    <3>1. \A y \in Prims, w \in Volumes : <<y, w>> \in Held' <=> <<y, w>> \in N
      <4>1. NULL \notin Volumes
        BY VolumeAssumption
      <4>2. \A y \in Prims, w \in Volumes : <<y, w>> \in Held' <=> held'[y] = w
        BY DEF Held, Pairs
      <4>3. \A y \in Prims : held'[y] = IF y = x THEN NULL ELSE held[y]
        BY <1>2, <2>3
      <4>4. \A y \in Prims, w \in Volumes : <<y, w>> \in N <=> <<y, w>> \in Held /\ y # x
        <5> SUFFICES ASSUME NEW y \in Prims, NEW w \in Volumes
                     PROVE  <<y, w>> \in N <=> <<y, w>> \in Held /\ y # x
          OBVIOUS
        <5>1. <<y, w>> \in Held <=> held[y] = w
          BY <1>2
        <5>2. <<y, w>> \in N <=> <<y, w>> \in Held /\ ~(y = x /\ w = old)
          BY <2>5
        <5> QED
          BY <2>1, <5>1, <5>2
      <4> QED
        BY <1>2, <4>1, <4>2, <4>3, <4>4
    <3>2. Held' \in SUBSET (Prims \X Volumes) /\ N \in SUBSET (Prims \X Volumes)
      BY <2>5 DEF Held, Pairs
    <3> QED
      BY <3>1, <3>2, SamePairs
  <2>12. Books(Store, Held, Held, NULL, lost)'
    BY <2>3, <2>9, <2>10, <2>11
  <2>13. held' \in [Prims -> Ref] /\ numTEs' \in [Prims -> Nat]
    BY <1>2, <2>3 DEF Ref
  <2>14. Entries'
    <3> SUFFICES ASSUME NEW y \in Prims, held'[y] # NULL
                 PROVE  numTEs'[y] = Cardinality(Faces[volume'[held'[y]].params])
      BY DEF Entries
    <3>1. y # x /\ held'[y] = held[y] /\ numTEs'[y] = numTEs[y] /\ held[y] \in Volumes
      BY <1>2, <2>3
    <3>2. <<y, held[y]>> \in N /\ <<y, held[y]>> \in Held
      BY <1>2, <2>5, <3>1
    <3>3. u.volume[held[y]].refs # 0
      BY <2>10, <3>1, <3>2, PointedIsThere
    <3>4. t.volume[held[y]].refs # 0
      BY <2>6, <3>1, <3>2, PointedIsThere
    <3>5. volume'[held[y]].params = volume[held[y]].params
      BY <2>3, <2>9, <2>16, <2>18, <3>1, <3>3, <3>4
    <3> QED
      BY <1>2, <3>1, <3>5 DEF Entries
  <2>15. ~manager' => DOMAIN groups' = {}
    BY <1>2, <2>3, <2>17
  <2> QED
    BY <1>1, <1>2, <2>3, <2>12, <2>13, <2>14, <2>15 DEF IInv
<1> QED
  BY <1>3, <1>4

LEMMA CleanupStep ==
  ASSUME IInv, CleanupVolumeManager
  PROVE  IInv'
<1>1. fault = "none" /\ manager
  BY DEF CleanupVolumeManager
<1>2. /\ Books(Store, Held, Held, NULL, lost) /\ Entries
      /\ held \in [Prims -> Ref] /\ numTEs \in [Prims -> Nat]
      /\ lost \in BOOLEAN
      /\ Store.groups = groups /\ Store.volume = volume
      /\ volume \in [Volumes -> Cell]
      /\ \A y \in Prims : \A w \in Volumes : <<y, w>> \in Held <=> held[y] = w
      /\ \A y \in Prims : held[y] # NULL => held[y] \in Volumes
  BY <1>1, StoreFacts
<1>3. /\ StoreType(Store) /\ Filed(Store) /\ ManagerCounts(Store, Held, lost)
      /\ Managed(Store, Held, lost) /\ PointerCounts(Store, Held, NULL)
  BY <1>2 DEF Books
<1>4. PICK S : S = UNION {Targets(groups[p]) : p \in DOMAIN groups}
  OBVIOUS
<1>5. /\ groups' = <<>> /\ volume' = Unref(volume, S) /\ manager' = FALSE
      /\ lost' = (lost \/ \E p \in DOMAIN groups : groups[p].refs # 0)
      /\ UNCHANGED <<held, numTEs, fault>>
  BY <1>4 DEF CleanupVolumeManager
<1>6. PICK t : t = [groups |-> groups', volume |-> volume']
  OBVIOUS
<1>7. t = Store' /\ t.groups = groups' /\ t.volume = volume'
  BY <1>6 DEF Store
<1>8. DOMAIN t.groups = {} /\ DOMAIN groups' = {}
  BY <1>5, <1>7
<1>9. \A v \in Volumes : ~InSlot(t.groups, v)
  BY <1>8 DEF InSlot
<1>10. S \subseteq Volumes /\ \A v \in Volumes : v \in S <=> InSlot(Store.groups, v)
  <2>1. \A p \in DOMAIN groups : \A d \in Lods : groups[p].lods[d] \in Ref
    BY <1>2, <1>3 DEF StoreType, Group
  <2>2. S \subseteq Volumes
    BY <1>4, <2>1 DEF Targets, Ref
  <2>3. \A v \in Volumes : v # NULL
    BY VolumeAssumption
  <2>4. \A v \in Volumes : v \in S <=> InSlot(groups, v)
    BY <1>4, <2>3 DEF Targets, InSlot
  <2> QED
    BY <1>2, <2>2, <2>4
<1>11. /\ StoreType(t) /\ Filed(t) /\ PointerCounts(t, Held, NULL)
       /\ \A v \in Volumes :
            /\ v \notin S => t.volume[v] = Store.volume[v]
            /\ v \in S /\ t.volume[v].refs = 0 => ~t.volume[v].unique
            /\ t.volume[v].refs # 0 => /\ t.volume[v].params = Store.volume[v].params
                                       /\ t.volume[v].lod = Store.volume[v].lod
                                       /\ t.volume[v].unique = Store.volume[v].unique
  <2>1. t.volume = Unref(Store.volume, S)
    BY <1>2, <1>5, <1>7
  <2>2. DOMAIN t.groups \subseteq DOMAIN Store.groups
    BY <1>8
  <2>3. \A q \in DOMAIN t.groups : t.groups[q] \in Group
    BY <1>8
  <2>4. \A q \in DOMAIN t.groups : \A e \in Lods :
          t.groups[q].lods[e] # NULL => t.groups[q].lods[e] = Store.groups[q].lods[e]
    BY <1>8
  <2>5. \A v \in Volumes : v \in S <=> InSlot(Store.groups, v) /\ ~InSlot(t.groups, v)
    BY <1>9, <1>10
  <2> QED
    BY <1>3, <1>10, <2>1, <2>2, <2>3, <2>4, <2>5, LevelsLetGo
<1>12. ManagerCounts(t, Held, lost')
  BY <1>8 DEF ManagerCounts
<1>13. Managed(t, Held, lost')
  <2> SUFFICES ASSUME ~lost', NEW y \in Prims, NEW w \in Volumes,
                      <<y, w>> \in Held, ~t.volume[w].unique
               PROVE  FALSE
    BY DEF Managed
  <2>1. ~lost /\ DOMAIN groups = {}
    BY <1>2, <1>3, <1>5 DEF ManagerCounts
  <2>2. w \notin S
    BY <1>2, <1>10, <2>1 DEF InSlot
  <2>3. ~Store.volume[w].unique
    BY <1>11, <2>2
  <2>4. Store.volume[w].params \in DOMAIN Store.groups
    BY <1>3, <2>1, <2>3 DEF Managed
  <2> QED
    BY <1>2, <2>1, <2>4
<1>14. Held' = Held
  BY <1>5 DEF Held, Pairs
<1>15. Books(t, Held, Held, NULL, lost')
  BY <1>11, <1>12, <1>13 DEF Books
<1>16. Books(Store, Held, Held, NULL, lost)'
  BY <1>7, <1>14, <1>15
<1>17. Entries'
  <2> SUFFICES ASSUME NEW y \in Prims, held[y] # NULL
               PROVE  numTEs[y] = Cardinality(Faces[volume'[held[y]].params])
    BY <1>5 DEF Entries
  <2>1. held[y] \in Volumes /\ <<y, held[y]>> \in Held
    BY <1>2
  <2>2. t.volume[held[y]].refs # 0
    BY <1>15, <2>1, PointedIsThere
  <2>3. volume'[held[y]].params = volume[held[y]].params
    BY <1>2, <1>7, <1>11, <2>1, <2>2
  <2> QED
    BY <1>2, <2>3 DEF Entries
<1> QED
  BY <1>1, <1>2, <1>5, <1>8, <1>16, <1>17 DEF IInv

LEMMA ManagerStep ==
  ASSUME IInv, SetVolumeManager \/ UNCHANGED vars
  PROVE  IInv'
<1>1. UNCHANGED <<groups, volume, held, numTEs, lost, fault>>
      /\ (manager' = TRUE \/ manager' = manager)
  BY DEF SetVolumeManager, vars
<1>2. Store' = Store /\ Held' = Held /\ (Entries' <=> Entries)
  BY <1>1 DEF Store, Held, Pairs, Entries
<1>3. Books(Store, Held, Held, NULL, lost)' <=> Books(Store, Held, Held, NULL, lost)
  BY <1>1, <1>2
<1> QED
  BY <1>1, <1>2, <1>3 DEF IInv

LEMMA InitIInv ==
  ASSUME Init
  PROVE  IInv
<1>1. Store.groups = <<>> /\ Store.volume = [v \in Volumes |-> Free]
  BY DEF Init, Store
<1>2. DOMAIN Store.groups = {} /\ DOMAIN groups = {}
  BY <1>1 DEF Init
<1>3. Free \in Cell /\ Free.refs = 0 /\ Free.live = FALSE
  BY DEF Free, Cell
<1>4. StoreType(Store) /\ Filed(Store) /\ ManagerCounts(Store, Held, lost)
  BY <1>1, <1>2, <1>3 DEF StoreType, Filed, ManagerCounts
<1>5. NULL \notin Volumes
  BY VolumeAssumption
<1>6. \A y \in Prims, w \in Volumes : <<y, w>> \notin Held
  BY <1>5 DEF Init, Held, Pairs
<1>7. Managed(Store, Held, lost)
  BY <1>6 DEF Managed
<1>8. PointerCounts(Store, Held, NULL)
  <2>1. ASSUME NEW v \in Volumes
        PROVE  /\ Store.volume[v].refs = Cardinality(Of(Held, v))
                                         + IF InSlot(Store.groups, v) THEN 1 ELSE 0
               /\ Store.volume[v].live <=> Store.volume[v].refs # 0 \/ v = NULL
               /\ v = NULL => Store.volume[v].refs = 0
    <3>1. Of(Held, v) = {}
      BY <1>6 DEF Of
    <3>2. Cardinality(Of(Held, v)) = 0
      BY <3>1, FS_EmptySet
    <3>3. ~InSlot(Store.groups, v)
      BY <1>2 DEF InSlot
    <3>4. Store.volume[v].refs = 0 /\ Store.volume[v].live = FALSE
      BY <1>1, <1>3
    <3> QED
      BY <1>5, <3>2, <3>3, <3>4
  <2> QED
    BY <2>1 DEF PointerCounts
<1>9. Books(Store, Held, Held, NULL, lost)
  BY <1>4, <1>7, <1>8 DEF Books
<1>10. Entries /\ held \in [Prims -> Ref] /\ numTEs \in [Prims -> Nat]
  BY DEF Init, Entries, Ref
<1> QED
  BY <1>2, <1>9, <1>10 DEF Init, IInv

\* The counts and the pointers are right in every state, up to the first fault.
THEOREM Invariance == Spec => []IInv
<1>1. Init => IInv
  BY InitIInv
<1>2. IInv /\ [Next]_vars => IInv'
  <2> SUFFICES ASSUME IInv, [Next]_vars PROVE IInv'
    OBVIOUS
  <2>1. ASSUME NEW x \in Prims, NEW p \in Params, NEW d \in Lods, SetVolume(x, p, d)
        PROVE  IInv'
    BY <2>1, SetStep
  <2>2. ASSUME NEW x \in Prims, NEW p \in Params, NEW d \in Lods, SetUniqueVolume(x, p, d)
        PROVE  IInv'
    BY <2>2, UniqueStep
  <2>3. ASSUME NEW x \in Prims, Destroy(x) PROVE IInv'
    BY <2>3, DestroyStep
  <2>4. CASE CleanupVolumeManager
    BY <2>4, CleanupStep
  <2>5. CASE SetVolumeManager
    BY <2>5, ManagerStep
  <2>6. CASE UNCHANGED vars
    BY <2>6, ManagerStep
  <2> QED
    BY <2>1, <2>2, <2>3, <2>4, <2>5, <2>6 DEF Next
<1> QED
  BY <1>1, <1>2, PTL DEF Spec

(***************************************************************************)
(* What the runs check.                                                    *)
(***************************************************************************)

\* Each level counts who holds its volume, and each group whom its levels count.
LEMMA CountsFollow ==
  ASSUME IInv
  PROVE  CountsMatchHolders
<1> SUFFICES ASSUME fault = "none", NEW p \in DOMAIN groups
             PROVE  /\ \A d \in Lods :
                         LET v == groups[p].lods[d]
                         IN  groups[p].lodRefs[d] = IF v = NULL THEN 0 ELSE Cardinality(Holders(v))
                    /\ ~lost => groups[p].refs = Cardinality({x \in Prims :
                         \E d \in Lods : groups[p].lods[d] # NULL /\ held[x] = groups[p].lods[d]})
  BY DEF CountsMatchHolders
<1>1. /\ Books(Store, Held, Held, NULL, lost)
      /\ Store.groups = groups /\ Store.volume = volume
      /\ \A y \in Prims : \A w \in Volumes : <<y, w>> \in Held <=> held[y] = w
  BY StoreFacts
<1>2. /\ Filed(Store) /\ StoreType(Store)
      /\ LevelCounts(Held, groups[p]) /\ GroupCount(Held, groups[p], lost)
  BY <1>1 DEF Books, ManagerCounts
<1>3. \A d \in Lods : groups[p].lods[d] # NULL => groups[p].lods[d] \in Volumes
  BY <1>1, <1>2 DEF StoreType, Group, Ref
<1>4. ASSUME NEW d \in Lods, groups[p].lods[d] # NULL
      PROVE  Of(Held, groups[p].lods[d]) = Holders(groups[p].lods[d])
  BY <1>1, <1>3, <1>4 DEF Of, Holders
<1>5. ASSUME ~lost
      PROVE  groups[p].refs = Cardinality({x \in Prims :
               \E d \in Lods : groups[p].lods[d] # NULL /\ held[x] = groups[p].lods[d]})
  <2> DEFINE B == {x \in Prims :
               \E d \in Lods : groups[p].lods[d] # NULL /\ held[x] = groups[p].lods[d]}
             C == Counted(Held, groups[p])
             f == [x \in B |-> <<x, volume[held[x]].lod>>]
  <2>1. \A x \in Prims, d \in Lods :
          <<x, d>> \in C <=> groups[p].lods[d] # NULL /\ held[x] = groups[p].lods[d]
    <3> SUFFICES ASSUME NEW x \in Prims, NEW d \in Lods
                 PROVE  <<x, d>> \in C <=> /\ groups[p].lods[d] # NULL
                                           /\ held[x] = groups[p].lods[d]
      OBVIOUS
    <3>1. <<x, d>> \in C <=> groups[p].lods[d] # NULL /\ <<x, groups[p].lods[d]>> \in Held
      BY DEF Counted
    <3> QED
      BY <1>1, <1>3, <3>1
  <2>2. \A d \in Lods : groups[p].lods[d] # NULL => volume[groups[p].lods[d]].lod = d
    BY <1>1, <1>2 DEF Filed
  <2>3. C \subseteq Prims \X Lods
    BY DEF Counted
  <2> HIDE DEF C
  <2>4. \A x \in B : f[x] \in C /\ f[x] = <<x, volume[held[x]].lod>>
    BY <2>1, <2>2
  <2>5. \A c \in C : c[1] \in B /\ f[c[1]] = c
    <3>1. ASSUME NEW x \in Prims, NEW d \in Lods, <<x, d>> \in C
          PROVE  x \in B /\ f[x] = <<x, d>>
      BY <2>1, <2>2, <3>1
    <3>2. \A c \in C : c[1] \in Prims /\ c[2] \in Lods /\ c = <<c[1], c[2]>>
      BY <2>3
    <3> HIDE DEF f, B
    <3> QED
      BY <3>1, <3>2
  <2>6. \A x, y \in B : f[x] = f[y] => x = y
    BY <2>4
  <2>7. f \in [B -> C] /\ DOMAIN f = B
    BY <2>4
  <2> HIDE DEF f, B
  <2>8. f \in Bijection(B, C)
    BY <2>5, <2>6, <2>7 DEF Bijection, Injection, Surjection, IsInjective
  <2>9. IsFiniteSet(B)
    <3>1. B \in SUBSET Prims
      BY DEF B
    <3> QED
      BY <3>1, VolumeAssumption, FS_Subset
  <2>10. Cardinality(C) = Cardinality(B)
    BY <2>8, <2>9, FS_Bijection DEF ExistsBijection
  <2>11. groups[p].refs = Cardinality(C)
    BY <1>2, <1>5 DEF GroupCount, C
  <2> QED
    BY <2>10, <2>11 DEF B
<1> QED
  BY <1>2, <1>4, <1>5 DEF LevelCounts

\* A volume has as many pointers as it has holders and slots.
LEMMA PointersFollow ==
  ASSUME IInv
  PROVE  PointersMatchHolders
<1> SUFFICES ASSUME fault = "none", NEW v \in Volumes
             PROVE  /\ volume[v].refs = Cardinality(Holders(v)) + Cardinality(Slots(v))
                    /\ volume[v].live <=> volume[v].refs # 0
  BY DEF PointersMatchHolders
<1>1. /\ Books(Store, Held, Held, NULL, lost)
      /\ Store.groups = groups /\ Store.volume = volume
      /\ \A y \in Prims : \A w \in Volumes : <<y, w>> \in Held <=> held[y] = w
  BY StoreFacts
<1>2. v # NULL
  BY VolumeAssumption
<1>3. /\ volume[v].refs = Cardinality(Of(Held, v)) + IF InSlot(groups, v) THEN 1 ELSE 0
      /\ volume[v].live <=> volume[v].refs # 0
  BY <1>1, <1>2 DEF Books, PointerCounts
<1>4. Of(Held, v) = Holders(v)
  BY <1>1 DEF Of, Holders
<1>5. Cardinality(Slots(v)) = IF InSlot(groups, v) THEN 1 ELSE 0
  <2>1. CASE InSlot(groups, v)
    <3>1. PICK p \in DOMAIN groups, d \in Lods : groups[p].lods[d] = v
      BY <2>1 DEF InSlot
    <3>2. \A q \in DOMAIN groups : \A e \in Lods :
            groups[q].lods[e] = v => volume[v].params = q /\ volume[v].lod = e
      BY <1>1, <1>2 DEF Books, Filed
    <3>3. \A s \in (DOMAIN groups) \X Lods : groups[s[1]].lods[s[2]] = v <=> s = <<p, d>>
      BY <3>1, <3>2
    <3>4. Slots(v) = {<<p, d>>}
      BY <3>1, <3>3 DEF Slots
    <3> QED
      BY <2>1, <3>4, FS_Singleton
  <2>2. CASE ~InSlot(groups, v)
    <3>1. Slots(v) = {}
      BY <2>2 DEF Slots, InSlot
    <3> QED
      BY <2>2, <3>1, FS_EmptySet
  <2> QED
    BY <2>1, <2>2
<1> QED
  BY <1>3, <1>4, <1>5

LEMMA ShapesShare ==
  ASSUME IInv
  PROVE  EqualShapesShare
<1> SUFFICES ASSUME ~lost, NEW x \in Prims, NEW y \in Prims,
                    held[x] # NULL, held[y] # NULL,
                    ~volume[held[x]].unique, ~volume[held[y]].unique,
                    volume[held[x]].params = volume[held[y]].params,
                    volume[held[x]].lod = volume[held[y]].lod
             PROVE  held[x] = held[y]
  BY DEF EqualShapesShare
<1>1. Managed(Store, Held, lost) /\ held \in [Prims -> Ref]
  BY DEF IInv, Books
<1>2. \A z \in Prims : held[z] # NULL => held[z] \in Volumes /\ <<z, held[z]>> \in Held
  BY <1>1 DEF Held, Pairs, Ref
<1>3. Store.groups = groups /\ Store.volume = volume
  BY DEF Store
<1>4. \A z \in Prims : held[z] # NULL /\ ~volume[held[z]].unique =>
        groups[volume[held[z]].params].lods[volume[held[z]].lod] = held[z]
  BY <1>1, <1>2, <1>3 DEF Managed
<1> QED
  BY <1>4

LEMMA NothingPoints ==
  ASSUME PointersMatchHolders, fault = "none", NEW v \in Volumes, Holders(v) = {}, Slots(v) = {}
  PROVE  ~volume[v].live
<1>1. Cardinality({}) = 0
  BY FS_EmptySet
<1> QED
  BY <1>1 DEF PointersMatchHolders

LEMMA AllGone ==
  ASSUME IInv
  PROVE  NothingLeaks
<1> SUFFICES ASSUME fault = "none", \A x \in Prims : held[x] = NULL
             PROVE  DOMAIN groups = {} /\ \A v \in Volumes : ~volume[v].live
  BY DEF NothingLeaks
<1>1. /\ Books(Store, Held, Held, NULL, lost)
      /\ Store.groups = groups /\ Store.volume = volume
      /\ \A y \in Prims : \A w \in Volumes : <<y, w>> \in Held <=> held[y] = w
  BY StoreFacts
<1>2. \A y, w : <<y, w>> \notin Held
  BY VolumeAssumption DEF Held, Pairs
<1>3. ASSUME NEW p \in DOMAIN groups PROVE FALSE
  <2>1. /\ groups[p].refs \in Nat /\ groups[p].refs # 0
        /\ groups[p].refs <= Cardinality(Counted(Held, groups[p]))
    BY <1>1 DEF Books, StoreType, Group, ManagerCounts, GroupCount
  <2>2. Counted(Held, groups[p]) = {}
    BY <1>2 DEF Counted
  <2>3. Cardinality(Counted(Held, groups[p])) = 0
    BY <2>2, FS_EmptySet
  <2> QED
    BY <2>1, <2>3
<1>4. ASSUME NEW v \in Volumes PROVE ~volume[v].live
  <2>1. Holders(v) = {} /\ Slots(v) = {}
    BY <1>3, VolumeAssumption DEF Holders, Slots
  <2>2. PointersMatchHolders
    BY PointersFollow
  <2> QED
    BY <2>1, <2>2, NothingPoints
<1> QED
  BY <1>3, <1>4

\* LLVolumeLODGroup's counts are what the primitives hold, while no cleanup has
\* failed; each level's count even after.
THEOREM CountsAlwaysMatch == Spec => []CountsMatchHolders
BY Invariance, CountsFollow, PTL

\* LLPointer deletes a volume with the last pointer, never before or after.
THEOREM PointersAlwaysMatch == Spec => []PointersMatchHolders
BY Invariance, PointersFollow, PTL

\* refVolume gives primitives of one shape one volume.
THEOREM ShapesAlwaysShare == Spec => []EqualShapesShare
BY Invariance, ShapesShare, PTL

\* ~LLPrimitive and unrefVolume leave nothing behind.
THEOREM NothingEverLeaks == Spec => []NothingLeaks
BY Invariance, AllGone, PTL

\* setVolume keeps one texture entry for each face.
THEOREM EntriesAlwaysFit == Spec => []EveryFaceHasEntry
<1>1. IInv => EveryFaceHasEntry
  BY DEF IInv, Entries, EveryFaceHasEntry
<1> QED
  BY <1>1, Invariance, PTL

\* A freed volume or a missing manager is met only after cleanup() has said FALSE.
THEOREM FaultsAlwaysTold == Spec => []FaultsWereTold
<1>1. IInv => FaultsWereTold
  BY DEF IInv, FaultsWereTold
<1> QED
  BY <1>1, Invariance, PTL

(***************************************************************************)
(* Every primitive is a transform.  For any set of transforms, also an     *)
(* infinite one: setParent closes no loop but that of a transform with     *)
(* itself, and no walk is endless without one.                             *)
(***************************************************************************)
\* The inductive invariant.
TreeInv == XformTypeOK /\ OnlySelfLoops /\ EndlessOnlyBySelf

\* A walk meets its first transform, and stays among those it meets.
LEMMA MetFacts ==
  ASSUME XformTypeOK, NEW x \in Xforms
  PROVE  x \in Met(x) /\ Met(x) \subseteq Xforms /\ Closed(Met(x), parent)
<1>1. x \in Met(x) /\ Met(x) \subseteq Xforms
  BY DEF Met
<1>2. ASSUME NEW y \in Met(x), parent[y] # NoXform PROVE parent[y] \in Met(x)
  <2>1. y \in Xforms /\ parent[y] \in Xforms
    BY <1>2 DEF Met, XformTypeOK
  <2>2. ASSUME NEW S \in SUBSET Xforms, x \in S, Closed(S, parent) PROVE parent[y] \in S
    <3>1. y \in S
      BY <2>2 DEF Met
    <3> QED
      BY <1>2, <2>2, <3>1 DEF Closed
  <2> QED
    BY <2>1, <2>2 DEF Met
<1> QED
  BY <1>1, <1>2 DEF Closed

\* A walk that does not end has met a transform that is its own parent.
LEMMA EndlessMeetsSelf ==
  ASSUME TreeInv, NEW x \in Xforms \union {NoXform}, ~Ends(x)
  PROVE  \E y \in Xforms : parent[y] = y
<1>1. x \in Xforms /\ \A y \in Met(x) : parent[y] # NoXform
  BY DEF Ends
<1>2. x \in Met(x) /\ Met(x) \subseteq Xforms /\ Closed(Met(x), parent)
  BY <1>1, MetFacts DEF TreeInv
<1>3. \A y \in Met(x) : parent[y] \in Met(x)
  BY <1>1, <1>2 DEF Closed
<1>4. \E y \in Met(x) : parent[y] = y
  BY <1>2, <1>3 DEF TreeInv, OnlySelfLoops
<1> QED
  BY <1>2, <1>4

LEMMA ParentOfType ==
  ASSUME XformTypeOK, NEW p \in Xforms \union {NoXform}
  PROVE  ParentOf(p) \in Xforms \union {NoXform}
BY DEF ParentOf, XformTypeOK

\* A loop that the new parent would close runs through the walk of setParent.
LEMMA AcceptStep ==
  ASSUME TreeInv, NEW x \in Xforms, NEW p \in Xforms \union {NoXform}, Accept(x, p)
  PROVE  OnlySelfLoops'
<1>1. parent' = [parent EXCEPT ![x] = p] /\ x \notin Above(p)
  BY DEF Accept
<1>2. \A y \in Xforms : parent'[y] = IF y = x THEN p ELSE parent[y]
  BY <1>1 DEF TreeInv, XformTypeOK
<1> SUFFICES ASSUME NEW S \in SUBSET Xforms, S # {}, \A y \in S : parent'[y] \in S
             PROVE  \E y \in S : parent'[y] = y
  BY DEF OnlySelfLoops
<1>3. CASE x \notin S
  <2>1. \A y \in S : parent'[y] = parent[y]
    BY <1>2, <1>3
  <2>2. \E y \in S : parent[y] = y
    BY <2>1 DEF TreeInv, OnlySelfLoops
  <2> QED
    BY <2>1, <2>2
<1>4. CASE x \in S /\ p = x
  BY <1>2, <1>4
<1>5. CASE x \in S /\ p # x
  <2>1. p \in S /\ p \in Xforms
    BY <1>2, <1>5
  <2> DEFINE q == parent[p]
             T == S \intersect Met(q)
  <2>2. q \in S /\ q \in Xforms /\ q # NoXform
    BY <1>2, <1>5, <2>1, XformAssumption
  <2>3. Above(p) = Met(q)
    BY <2>1, <2>2, XformAssumption DEF Above, ParentOf
  <2>4. q \in Met(q) /\ Closed(Met(q), parent)
    BY <2>2, MetFacts DEF TreeInv
  <2>5. T \in SUBSET Xforms /\ q \in T
    BY <2>2, <2>4
  <2>6. ASSUME NEW y \in T PROVE parent'[y] = parent[y] /\ parent[y] \in T
    <3>1. y # x /\ y \in Xforms
      BY <1>1, <2>3
    <3>2. parent'[y] = parent[y] /\ parent[y] \in S /\ parent[y] # NoXform
      BY <1>2, <3>1, XformAssumption
    <3>3. parent[y] \in Met(q)
      BY <2>4, <3>2 DEF Closed
    <3> QED
      BY <3>2, <3>3
  <2> HIDE DEF T
  <2>7. \E y \in T : parent[y] = y
    BY <2>5, <2>6 DEF TreeInv, OnlySelfLoops
  <2> QED
    BY <2>6, <2>7 DEF T
<1> QED
  BY <1>3, <1>4, <1>5

LEMMA InitTreeInv == XformInit => TreeInv
BY XformAssumption DEF XformInit, TreeInv, XformTypeOK, OnlySelfLoops, EndlessOnlyBySelf

LEMMA StepTreeInv == TreeInv /\ [XformNext]_xformVars => TreeInv'
<1> SUFFICES ASSUME TreeInv, [XformNext]_xformVars PROVE TreeInv'
  OBVIOUS
<1>1. ASSUME NEW x \in Xforms, NEW p \in Xforms \union {NoXform}, Refuse(x, p) PROVE TreeInv'
  BY <1>1 DEF Refuse, TreeInv, XformTypeOK, OnlySelfLoops, EndlessOnlyBySelf
<1>2. ASSUME NEW x \in Xforms, NEW p \in Xforms \union {NoXform}, Accept(x, p) PROVE TreeInv'
  <2>1. XformTypeOK' /\ walk' = "ended"
    BY <1>2 DEF Accept, TreeInv, XformTypeOK
  <2>2. OnlySelfLoops'
    BY <1>2, AcceptStep
  <2> QED
    BY <2>1, <2>2 DEF TreeInv, EndlessOnlyBySelf
<1>3. ASSUME NEW x \in Xforms, NEW p \in Xforms \union {NoXform}, NeverReturn(x, p) PROVE TreeInv'
  <2>1. \E y \in Xforms : parent[y] = y
    BY <1>3, ParentOfType, EndlessMeetsSelf DEF NeverReturn, TreeInv
  <2> QED
    BY <1>3, <2>1 DEF NeverReturn, TreeInv, XformTypeOK, OnlySelfLoops,
                      EndlessOnlyBySelf
<1>4. ASSUME NEW x \in Xforms, GetRoot(x) PROVE TreeInv'
  <2>1. walk' = "endless" => \E y \in Xforms : parent[y] = y
    BY <1>4, EndlessMeetsSelf DEF GetRoot
  <2> QED
    BY <1>4, <2>1 DEF GetRoot, TreeInv, XformTypeOK, OnlySelfLoops, EndlessOnlyBySelf
<1>5. CASE UNCHANGED xformVars
  BY <1>5 DEF xformVars, TreeInv, XformTypeOK, OnlySelfLoops, EndlessOnlyBySelf
<1> QED
  BY <1>1, <1>2, <1>3, <1>4, <1>5 DEF XformNext, SetParent

\* Loops: whatever parents are set in whatever order, a loop has one transform
\* (LLXform::setParent refuses every other).
THEOREM LoopsAreSelfLoops == XformSpec => []OnlySelfLoops
<1>1. TreeInv => OnlySelfLoops
  BY DEF TreeInv
<1> QED
  BY <1>1, InitTreeInv, StepTreeInv, PTL DEF XformSpec

\* Walks: getRoot and setParent return unless a transform is its own parent.
THEOREM WalksEnd == XformSpec => []EndlessOnlyBySelf
<1>1. TreeInv => EndlessOnlyBySelf
  BY DEF TreeInv
<1> QED
  BY <1>1, InitTreeInv, StepTreeInv, PTL DEF XformSpec
=============================================================================

------------------------------ MODULE VolumeMgr ------------------------------
(***************************************************************************)
(* The native renderer's shared volumes: llvolumemgr.cpp, the counted      *)
(* pointers of llmemory.h, and how LLPrimitive uses both.                  *)
(*                                                                         *)
(* A volume is counted twice.  LLPointer counts the pointers to it and     *)
(* deletes it with the last.  The manager counts, per group of equal       *)
(* parameters and per level of detail, the calls of refVolume that are not *)
(* yet undone by unrefVolume.  Only if the second count never falls below  *)
(* what the primitives hold does the first keep every volume alive that a  *)
(* caller of refVolume has in a plain pointer.                             *)
(***************************************************************************)
EXTENDS Naturals, FiniteSets

CONSTANTS
  Prims,    \* primitives; one that is destroyed may be constructed again
  Params,   \* LLVolumeParams, as far as they compare equal
  Lods,     \* the levels of detail of a group
  Faces,    \* mFaceMask of a volume with these parameters, at every level
  Volumes,  \* heap cells for LLVolume
  NULL

ASSUME VolumeAssumption ==
  /\ NULL \notin Volumes
  /\ IsFiniteSet(Prims) /\ IsFiniteSet(Lods)
  /\ Faces \in [Params -> SUBSET (0 .. 8)]

VARIABLES
  manager,  \* LLPrimitive::sVolumeManager is not null
  groups,   \* mVolumeLODGroups: from the parameters that have a group
  volume,   \* the heap
  held,     \* mVolumep of each primitive
  numTEs,   \* mNumTEs of each primitive, the length of its texture list
  lost,     \* history: cleanup() has returned FALSE
  fault     \* what the program has run into

vars == <<manager, groups, volume, held, numTEs, lost, fault>>

Ref == Volumes \union {NULL}

\* A cell that is not allocated.
Free == [live |-> FALSE, params |-> NULL, lod |-> NULL, unique |-> FALSE, refs |-> 0]

\* Made by new LLVolume; no pointer counts it yet.
NewVolume(p, d, unique) ==
  [live |-> TRUE, params |-> p, lod |-> d, unique |-> unique, refs |-> 0]

NewGroup == [refs |-> 0, lodRefs |-> [d \in Lods |-> 0], lods |-> [d \in Lods |-> NULL]]

Init ==
  /\ manager = TRUE
  /\ groups = <<>>
  /\ volume = [v \in Volumes |-> Free]
  /\ held = [x \in Prims |-> NULL]
  /\ numTEs = [x \in Prims |-> 0]
  /\ lost = FALSE
  /\ fault = "none"

(***************************************************************************)
(* LLRefCount and LLPointer.                                               *)
(***************************************************************************)

\* Mutant of Unref: the last pointer does not delete.
UnrefKeeps(heap, S) ==
  [v \in Volumes |-> IF v \in S THEN [heap[v] EXCEPT !.refs = @ - 1] ELSE heap[v]]

\* One pointer to each of the cells S goes away; the last one deletes.
Unref(heap, S) ==
  [v \in Volumes |->
     IF v \notin S THEN heap[v]
     ELSE IF heap[v].refs = 1 THEN Free ELSE [heap[v] EXCEPT !.refs = @ - 1]]

\* Pointer assignment: the old target is let go first.
Assign(heap, old, new) ==
  LET left == Unref(heap, {old} \ {NULL})
  IN  [left EXCEPT ![new].refs = @ + 1]

(***************************************************************************)
(* LLVolumeMgr.  Each operator maps a store, the groups and the heap, to    *)
(* the next one.                                                           *)
(***************************************************************************)

Store == [groups |-> groups, volume |-> volume]

Targets(g) == {g.lods[d] : d \in Lods} \ {NULL}

Without(p, gs) == [q \in DOMAIN gs \ {p} |-> gs[q]]

With(p, g, gs) == [q \in DOMAIN gs \union {p} |-> IF q = p THEN g ELSE gs[q]]

GroupOf(p, s) == IF p \in DOMAIN s.groups THEN s.groups[p] ELSE NewGroup

\* Mutant of RefVolume: the group's volume is replaced by a new one.
RefAnew(p, d, fresh, s) ==
  LET g == GroupOf(p, s) IN
  [groups |-> With(p, [refs |-> g.refs + 1,
                       lodRefs |-> [g.lodRefs EXCEPT ![d] = @ + 1],
                       lods |-> [g.lods EXCEPT ![d] = fresh]], s.groups),
   volume |-> [Unref(s.volume, {g.lods[d]} \ {NULL}) EXCEPT
                 ![fresh] = [NewVolume(p, d, FALSE) EXCEPT !.refs = 1]],
   result |-> fresh]

\* refVolume and refLOD: the group is made when it is not there, and so is the
\* volume, in the cell fresh; v is what they return.
RefVolume(p, d, fresh, s) ==
  LET g == GroupOf(p, s)
      isNew == g.lods[d] = NULL
      v == IF isNew THEN fresh ELSE g.lods[d]
  IN  [groups |-> With(p, [refs |-> g.refs + 1,
                           lodRefs |-> [g.lodRefs EXCEPT ![d] = @ + 1],
                           lods |-> [g.lods EXCEPT ![d] = v]], s.groups),
       volume |-> IF isNew
                  THEN [s.volume EXCEPT ![v] = [NewVolume(p, d, FALSE) EXCEPT !.refs = 1]]
                  ELSE s.volume,
       result |-> v]

\* Mutant of DerefLOD: every level of the group loses one.
DerefAllLods(v, g, s) ==
  LET gone == {d \in Lods : g.lods[d] # NULL /\ g.lodRefs[d] = 1}
  IN  [group |-> [refs |-> g.refs - 1,
                  lodRefs |-> [d \in Lods |-> IF g.lodRefs[d] > 0 THEN g.lodRefs[d] - 1 ELSE 0],
                  lods |-> [d \in Lods |-> IF d \in gone THEN NULL ELSE g.lods[d]]],
       volume |-> Unref(s.volume, {g.lods[d] : d \in gone})]

\* derefLOD: mRefs goes down also when no level of the group holds v.
DerefLOD(v, g, s) ==
  LET at == {d \in Lods : g.lods[d] = v}
      gone == {d \in at : g.lodRefs[d] = 1}
  IN  [group |-> [refs |-> g.refs - 1,
                  lodRefs |-> [d \in Lods |-> IF d \in at THEN g.lodRefs[d] - 1 ELSE g.lodRefs[d]],
                  lods |-> [d \in Lods |-> IF d \in gone THEN NULL ELSE g.lods[d]]],
       volume |-> IF gone = {} THEN s.volume ELSE Unref(s.volume, {v})]

\* unrefVolume: a unique volume is not managed, and one whose group is not
\* there is let be.  The group goes with its last reference, and its pointers
\* with it.
UnrefVolume(v, s) ==
  LET p == s.volume[v].params
      after == DerefLOD(v, s.groups[p], s)
  IN  IF s.volume[v].unique \/ p \notin DOMAIN s.groups THEN s
      ELSE IF after.group.refs = 0
           THEN [groups |-> Without(p, s.groups),
                 volume |-> Unref(after.volume, Targets(after.group))]
           ELSE [groups |-> With(p, after.group, s.groups), volume |-> after.volume]

\* sVolumeManager->unrefVolume(v) with no manager: of a unique volume it returns
\* before it looks at the manager, of another it does not come back.
NoManagerFor(v) == ~manager /\ ~volume[v].unique

(***************************************************************************)
(* LLPrimitive.                                                            *)
(***************************************************************************)

HasShape(x, p, d) ==
  IF held[x] = NULL THEN FALSE
  ELSE volume[held[x]].params = p /\ volume[held[x]].lod = d

Crash(kind) ==
  /\ fault' = kind
  /\ UNCHANGED <<manager, groups, volume, held, numTEs, lost>>

\* Mutant of TextureEntries: only the first volume sizes the list.
TextureEntriesOnce(x, p) == IF held[x] = NULL THEN Cardinality(Faces[p]) ELSE numTEs[x]

\* What setVolume leaves in mNumTEs: the list is sized for the first volume, and
\* again when the mask of the new one differs from that of the old.
TextureEntries(x, p) ==
  IF held[x] = NULL \/ Faces[volume[held[x]].params] # Faces[p]
  THEN Cardinality(Faces[p]) ELSE numTEs[x]

\* Mutant of Hold: the old volume is let go without telling the manager.
HoldOnly(x, v, s) ==
  /\ groups' = s.groups
  /\ volume' = Assign(s.volume, held[x], v)
  /\ held' = [held EXCEPT ![x] = v]
  /\ numTEs' = [numTEs EXCEPT ![x] = TextureEntries(x, s.volume[v].params)]
  /\ UNCHANGED <<manager, lost, fault>>

\* The second half of setVolume: v, found in the store s, is in a plain pointer
\* while the old volume is given back; then it is assigned to mVolumep.
Hold(x, v, s) ==
  LET old == held[x]
      after == IF old = NULL THEN s ELSE UnrefVolume(old, s)
  IN  IF ~after.volume[v].live
      THEN /\ fault' = "freed"
           /\ groups' = after.groups
           /\ volume' = after.volume
           /\ UNCHANGED <<manager, held, numTEs, lost>>
      ELSE /\ groups' = after.groups
           /\ volume' = Assign(after.volume, old, v)
           /\ held' = [held EXCEPT ![x] = v]
           /\ numTEs' = [numTEs EXCEPT ![x] = TextureEntries(x, after.volume[v].params)]
           /\ UNCHANGED <<manager, lost, fault>>

\* setVolume(p, d, TRUE): a shape that is there already is kept, shared or not.
SetUniqueVolume(x, p, d) ==
  /\ fault = "none"
  /\ ~HasShape(x, p, d)
  /\ \/ /\ held[x] # NULL
        /\ NoManagerFor(held[x])
        /\ Crash("orphan")
     \/ /\ held[x] # NULL => ~NoManagerFor(held[x])
        /\ \E v \in Volumes :
             /\ ~volume[v].live
             /\ Hold(x, v, [groups |-> groups,
                            volume |-> [volume EXCEPT ![v] = NewVolume(p, d, TRUE)]])

\* setVolume(p, d, FALSE).  That refVolume returns the volume the primitive
\* holds (lines 941 to 945) cannot be: it would have the shape asked for.
SetVolume(x, p, d) ==
  /\ fault = "none"
  /\ ~HasShape(x, p, d)
  /\ \/ ~manager /\ Crash("unset")
     \/ /\ manager
        /\ \E v \in Volumes :
             /\ ~volume[v].live
             /\ LET s == RefVolume(p, d, v, Store)
                IN  Hold(x, s.result, [groups |-> s.groups, volume |-> s.volume])

\* ~LLPrimitive.
Destroy(x) ==
  /\ fault = "none"
  /\ held[x] # NULL
  /\ IF NoManagerFor(held[x]) THEN Crash("orphan")
     ELSE LET after == UnrefVolume(held[x], Store) IN
          /\ groups' = after.groups
          /\ volume' = Unref(after.volume, {held[x]})
          /\ held' = [held EXCEPT ![x] = NULL]
          /\ numTEs' = [numTEs EXCEPT ![x] = 0]
          /\ UNCHANGED <<manager, lost, fault>>

\* Mutant of CleanupVolumeManager: it never tells of what is left.
CleanupQuietly ==
  /\ fault = "none" /\ manager
  /\ manager' = FALSE
  /\ volume' = Unref(volume, UNION {Targets(groups[p]) : p \in DOMAIN groups})
  /\ groups' = <<>>
  /\ UNCHANGED <<held, numTEs, lost, fault>>

\* cleanupVolumeManager: cleanup() empties and deletes every group, and tells
\* whether one still had references; then the manager is deleted.
CleanupVolumeManager ==
  /\ fault = "none" /\ manager
  /\ manager' = FALSE
  /\ volume' = Unref(volume, UNION {Targets(groups[p]) : p \in DOMAIN groups})
  /\ groups' = <<>>
  /\ lost' = (lost \/ \E p \in DOMAIN groups : groups[p].refs # 0)
  /\ UNCHANGED <<held, numTEs, fault>>

\* setVolumeManager(new LLVolumeMgr): where there is a manager already, the
\* (disabled) assertion rules it out.
SetVolumeManager ==
  /\ fault = "none" /\ ~manager
  /\ manager' = TRUE
  /\ UNCHANGED <<groups, volume, held, numTEs, lost, fault>>

Next ==
  \/ \E x \in Prims, p \in Params, d \in Lods : SetVolume(x, p, d) \/ SetUniqueVolume(x, p, d)
  \/ \E x \in Prims : Destroy(x)
  \/ CleanupVolumeManager
  \/ SetVolumeManager

Spec == Init /\ [][Next]_vars

(***************************************************************************)
(* Properties.                                                             *)
(***************************************************************************)

Holders(v) == {x \in Prims : held[x] = v}

Slots(v) == {s \in (DOMAIN groups) \X Lods : groups[s[1]].lods[s[2]] = v}

\* While no cleanup has failed the manager's counts are what the primitives
\* hold: a level counts the primitives that hold its volume, a group all that
\* hold one with its parameters.  A failed cleanup leaves primitives that a
\* later group's mRefs is then reduced for, never its levels.
CountsMatchHolders ==
  fault = "none" =>
    \A p \in DOMAIN groups :
      /\ \A d \in Lods :
           LET v == groups[p].lods[d]
           IN  groups[p].lodRefs[d] = IF v = NULL THEN 0 ELSE Cardinality(Holders(v))
      /\ ~lost => groups[p].refs = Cardinality({x \in Prims :
                     \E d \in Lods : groups[p].lods[d] # NULL /\ held[x] = groups[p].lods[d]})

\* A volume is alive as long as a primitive or a group points to it, and no
\* longer: what LLPointer is for.
PointersMatchHolders ==
  fault = "none" =>
    \A v \in Volumes :
      /\ volume[v].refs = Cardinality(Holders(v)) + Cardinality(Slots(v))
      /\ volume[v].live <=> volume[v].refs # 0

\* Primitives of one shape share one volume, which is what the manager is for,
\* unless they asked for a volume of their own or a cleanup has failed.
EqualShapesShare ==
  ~lost =>
    \A x, y \in Prims :
      /\ held[x] # NULL /\ held[y] # NULL
      /\ ~volume[held[x]].unique /\ ~volume[held[y]].unique
      /\ volume[held[x]].params = volume[held[y]].params
      /\ volume[held[x]].lod = volume[held[y]].lod
      => held[x] = held[y]

\* When the last primitive has let go, every group and every volume is gone,
\* whatever cleanups there were in between.
NothingLeaks ==
  fault = "none" /\ (\A x \in Prims : held[x] = NULL) =>
    DOMAIN groups = {} /\ \A v \in Volumes : ~volume[v].live

\* A primitive has one texture entry for each face of its volume, through every
\* change of shape, level of detail and sharing, whatever it held in between: the
\* entry of a face is found by the number of the face.
EveryFaceHasEntry ==
  fault = "none" =>
    \A x \in Prims :
      held[x] # NULL => numTEs[x] = Cardinality(Faces[volume[held[x]].params])

\* The program runs into a volume that was freed, or a primitive without its
\* manager, only if a cleanup has said FALSE before.
FaultsWereTold == fault \in {"freed", "orphan"} => lost

\* llvolumemgr.cpp:96: the volume that refVolume returned goes away only after
\* everything that holds it, and the group, are gone.  setVolume keeps it in a
\* plain pointer while it gives its old volume back.
ReturnedVolumeStays == fault # "freed"
=============================================================================

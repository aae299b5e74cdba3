-------------------------------- MODULE Xform --------------------------------
(***************************************************************************)
(* xform.h, xform.cpp: the parent pointers of LLXform.  setParent walks up *)
(* from the new parent to see whether it would close a loop; getRoot walks *)
(* up until there is no parent.  The walk of setParent begins above the    *)
(* new parent, so that it does not see a transform made its own parent.    *)
(***************************************************************************)
CONSTANTS Xforms, NoXform

ASSUME XformAssumption == NoXform \notin Xforms

VARIABLES
  parent,  \* mParent
  walk     \* what the last walk came to

xformVars == <<parent, walk>>

XformInit ==
  /\ parent = [x \in Xforms |-> NoXform]
  /\ walk = "none"

\* A set that a walk, once in it, does not leave but to the null pointer.
Closed(S, up) == \A x \in S : up[x] \in S \union {NoXform}

\* The transforms a walk that begins at x meets.
Met(x) == {y \in Xforms : \A S \in SUBSET Xforms : x \in S /\ Closed(S, parent) => y \in S}

\* Such a walk comes to the null pointer.
Ends(x) == IF x = NoXform THEN TRUE ELSE \E y \in Met(x) : parent[y] = NoXform

ParentOf(p) == IF p = NoXform THEN NoXform ELSE parent[p]

\* Mutant of Above: the walk looks at one transform.
AboveOnce(p) == {ParentOf(p)} \ {NoXform}

\* What the walk of setParent compares with this: the new parent's parents.
Above(p) == IF ParentOf(p) = NoXform THEN {} ELSE Met(ParentOf(p))

\* setParent(p): the walk ends at x, at the null pointer, or not at all.
Refuse(x, p) ==
  /\ x \in Above(p)
  /\ walk' = "loop"
  /\ UNCHANGED parent

Accept(x, p) ==
  /\ x \notin Above(p)
  /\ Ends(ParentOf(p))
  /\ parent' = [parent EXCEPT ![x] = p]
  /\ walk' = "ended"

NeverReturn(x, p) ==
  /\ x \notin Above(p)
  /\ ~Ends(ParentOf(p))
  /\ walk' = "endless"
  /\ UNCHANGED parent

SetParent(x, p) ==
  /\ walk # "endless"
  /\ p # parent[x]
  /\ Refuse(x, p) \/ Accept(x, p) \/ NeverReturn(x, p)

GetRoot(x) ==
  /\ walk # "endless"
  /\ walk' = IF Ends(x) THEN "ended" ELSE "endless"
  /\ UNCHANGED parent

XformNext ==
  \/ \E x \in Xforms, p \in Xforms \union {NoXform} : SetParent(x, p)
  \/ \E x \in Xforms : GetRoot(x)

XformSpec == XformInit /\ [][XformNext]_xformVars

(***************************************************************************)
(* Properties.                                                             *)
(***************************************************************************)

XformTypeOK ==
  /\ parent \in [Xforms -> Xforms \union {NoXform}]
  /\ walk \in {"none", "ended", "loop", "endless"}

\* setParent is to make sure that no loop is created (xform.h:162).  It lets
\* through no loop of two or more: transforms whose parents are all among them
\* have one among them that is its own parent.
OnlySelfLoops ==
  \A S \in SUBSET Xforms :
    S # {} /\ (\A x \in S : parent[x] \in S) => \E x \in S : parent[x] = x

\* A walk, of getRoot or of setParent, does not end only when a transform is
\* its own parent.
EndlessOnlyBySelf == walk = "endless" => \E x \in Xforms : parent[x] = x
=============================================================================

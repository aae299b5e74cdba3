------------------------------- MODULE MCXform -------------------------------
(* Small instances of Xform for TLC. *)
EXTENDS Xform, TLC

Symmetry == Permutations(Xforms)
=============================================================================

---------------------------- MODULE MCVolumeMgr ----------------------------
(* Small instances of VolumeMgr for TLC. *)
EXTENDS VolumeMgr, TLC

CONSTANTS pA, pB

MCParams == {pA, pB}

\* A box, and a cylinder with a hole.
MCFaces == pA :> {0, 1, 5, 6, 7, 8} @@ pB :> {0, 1, 2, 5}

Symmetry == Permutations(Prims) \union Permutations(Lods)
=============================================================================

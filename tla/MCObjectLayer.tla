---------------------------- MODULE MCObjectLayer ----------------------------
(* Small instances of ObjectLayer for TLC. *)
EXTENDS ObjectLayer, TLC

CellsAndRequests == Permutations(Bitmaps) \union Permutations(Requests)
=============================================================================

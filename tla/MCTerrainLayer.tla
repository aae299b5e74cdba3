--------------------------- MODULE MCTerrainLayer ---------------------------
(* Small instances of TerrainLayer for TLC. *)
EXTENDS TerrainLayer

\* No box, or each that is wider than one region: those drawn wrong in the two
\* builds of TerrainPicture, and those two machines have no memory for.
NoneOrWide == {{}, {box \in SUBSET Scenes : Cardinality(box) > 1}}
=============================================================================

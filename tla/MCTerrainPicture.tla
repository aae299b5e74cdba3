-------------------------- MODULE MCTerrainPicture --------------------------
(* Small instances of TerrainPicture for TLC. *)
EXTENDS TerrainPicture

MCPlaces == (1000..1002) \X (1000..1001)

\* Memory for the picture of two regions, and for the largest.
MCLimits == {2 * Side * Side, 10 * Side * Side}
=============================================================================

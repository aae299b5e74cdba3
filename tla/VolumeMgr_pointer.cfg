CONSTANTS
  Prims = {x1, x2, x3}
  pA = pA
  pB = pB
  Params <- MCParams
  Faces <- MCFaces
  Lods = {lod0, lod1, lod2}
  Volumes = {v1, v2, v3, v4}
  NULL = NULL
SPECIFICATION Spec
SYMMETRY Symmetry
CHECK_DEADLOCK FALSE
INVARIANTS ReturnedVolumeStays

CONSTANTS
  Details <- MCDetails
  Shapes <- MCShapes
  MaxVolumes = 2
  MaxFailures = 2
  NULL = NULL
SPECIFICATION Spec
CHECK_DEADLOCK FALSE
INVARIANTS FaceOfLiveVolume

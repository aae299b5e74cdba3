CONSTANTS
  Xforms = {x1, x2, x3, x4}
  NoXform = NoXform
SPECIFICATION XformSpec
CHECK_DEADLOCK FALSE
INVARIANTS OnlySelfLoops

CONSTANTS
  Scenes = {s1, s2}
  Marks = {s1, s2}
  Bitmaps = {b1, b2, b3, b4, b5}
  Requests = {r1, r2}
  NULL = NULL
  HomeBox = {s1}
  Fragile = {s2}
SPECIFICATION Spec
SYMMETRY CellsAndRequests
INVARIANTS TypeOK NeverHalfBuilt QuietRequestIsRight UndisturbedDrawAlone NoBitmapLeak
PROPERTY KeepsPromise

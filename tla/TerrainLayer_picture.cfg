CONSTANTS
  Scenes = {s1, s2}
  Marks = {s1, s2}
  Bitmaps = {b1, b2, b3, b4}
  Requests = {r1}
  NULL = NULL
  Builds <- NoneOrWide
  Machines <- NoneOrWide
SPECIFICATION FairSpec
INVARIANTS QuietRequestIsRight NeverBoxless NoDisposedAtRest
PROPERTIES KeepsPromise CatchesUp

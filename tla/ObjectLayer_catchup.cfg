CONSTANTS
  Scenes = {s1, s2, s3}
  Marks = {s1, s2, s3}
  Bitmaps = {b1, b2, b3, b4, b5}
  Requests = {r1, r2}
  NULL = NULL
  HomeBox = {s1}
  Fragile = {}
SPECIFICATION GrowSpec
PROPERTIES CatchesUp RequestsEnd

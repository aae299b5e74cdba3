CONSTANTS
  Scenes = {s1, s2}
  Marks = {a1}
  Bitmaps = {b1, b2, b3}
  Requests = {r1}
  FeatureRequests = {f1}
  NULL = NULL
  Nowhere = Nowhere
SPECIFICATION FairSpec
INVARIANTS QuietRequestIsServed SurvivesQuietScan PictureIsTheList
PROPERTIES KeepsPromise CatchesUp

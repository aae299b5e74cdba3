CONSTANTS
  Http = {h1, h2}
  Queries <- AllQueries
  Configs <- SomeConfigs
  MostLayers = 2
  NULL = NULL
SPECIFICATION FairSpec
INVARIANTS RegisteredWhole MapIsWhole ErrorHasCause
PROPERTIES RequestsEnd

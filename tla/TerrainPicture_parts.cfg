CONSTANTS
  Places <- MCPlaces
  Builds = {TRUE, FALSE}
  Limits <- MCLimits
  NULL = NULL
SPECIFICATION Spec
INVARIANTS PartsLikeGrid FailureHasCause RequestsMeet

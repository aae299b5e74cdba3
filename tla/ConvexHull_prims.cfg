CONSTANT Prims <- MCPrims
CONSTANT Errors <- MCErrors
CONSTANT Slacks <- MCSlacks
SPECIFICATION Spec
CHECK_DEADLOCK FALSE
INVARIANTS PolygonIsHull ThrowsOnlyFlat
PROPERTY CallEnds

SPECIFICATION PlansSpec
CONSTANTS
  Builds = {"b1", "b2"}
  Packs = {"create"}
  MaxLineage = 2
  MaxEpoch = 2
  MaxUpsets = 2
INVARIANT FailedLeftDrawing
CHECK_DEADLOCK FALSE

SPECIFICATION FairSpec
CONSTANTS
  plate = plate
  dimension = dimension
  audit = audit
  Writes = {plate, dimension}
  Reviewed = {dimension, audit}
  ReadsOf <- MCReadsOf
  Handlers = {"loop", "agent", "client"}
  NoRun = NoRun
  Casts <- MCCasts
  MaxRestart = 1
INVARIANTS
  NeverRedispatched
  SucceededMeansCommitted
PROPERTIES
  StartedWriteNotCancelled
  SuccessIsReported
CHECK_DEADLOCK FALSE

SPECIFICATION Spec
CONSTANTS
  plate = plate
  dimension = dimension
  audit = audit
  Writes = {plate, dimension}
  Reviewed = {dimension, audit}
  ReadsOf <- MCReadsOf
  Handlers = {"loop", "agent", "client"}
  NoRun = NoRun
  Casts <- MCCasts
  MaxRestart = 1
PROPERTY CancelSparesWrites
CHECK_DEADLOCK FALSE

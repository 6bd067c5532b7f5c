SPECIFICATION RecordsSpec
CONSTANTS
  Observes = {o1}
  Validates = {v1}
  Previews = {p1}
  Commits = {}
  Rollbacks = {r1}
  Deadlines = {o1}
  Unverified = {}
  Unproven = {o1, v1}
  NoJob = NoJob
  MaxSession = 2
  MaxRestart = 1
  QueueSize = 1
  Edits = {e1}
  MaxChanges = 3
  MaxSeeds = 2
  RollbackJobs = {r2, r3}
  Plans = {p1}
  PlanOf <- MCPlanOf
  MaxStopped = 1
ACTION_CONSTRAINT Casts
SYMMETRY MCRollbacks
INVARIANTS
  AcknowledgedMeansRecorded
  NothingForgottenAlone
  ActiveWriteHoldsLock
  PreviewedIsCommitted
  UnknownHasCase
PROPERTIES
  RollbackRestores
CHECK_DEADLOCK FALSE

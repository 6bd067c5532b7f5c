SPECIFICATION Spec
CONSTANTS
  Observes = {}
  Validates = {}
  Previews = {}
  Commits = {c1}
  Rollbacks = {}
  Deadlines = {c1}
  Unverified = {}
  Unproven = {}
  NoJob = NoJob
  MaxSession = 1
  MaxRestart = 0
  QueueSize = 1
INVARIANTS
  FailedMeansUntouched
CHECK_DEADLOCK FALSE

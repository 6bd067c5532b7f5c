SPECIFICATION Spec
CONSTANTS
  Observes = {}
  Validates = {}
  Previews = {}
  Commits = {c1}
  Rollbacks = {}
  Deadlines = {}
  Unverified = {}
  Unproven = {}
  NoJob = NoJob
  MaxSession = 2
  MaxRestart = 1
  QueueSize = 1
INVARIANTS
  UnknownStaysUnknown
CHECK_DEADLOCK FALSE

SPECIFICATION Spec
CONSTANTS
  Observes = {}
  Validates = {}
  Previews = {}
  Commits = {c1}
  Rollbacks = {}
  Deadlines = {}
  Unverified = {}
  Unproven = {}
  NoJob = NoJob
  MaxSession = 2
  MaxRestart = 0
  QueueSize = 1
INVARIANTS
  NothingForgotten
CHECK_DEADLOCK FALSE

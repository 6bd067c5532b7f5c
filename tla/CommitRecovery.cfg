SPECIFICATION FairSpec
CONSTANTS
  Observes = {}
  Validates = {}
  Previews = {}
  Commits = {c1}
  Rollbacks = {}
  Deadlines = {c1}
  Unverified = {}
  Unproven = {}
  NoJob = NoJob
  MaxSession = 2
  MaxRestart = 1
  QueueSize = 1
INVARIANTS
  TypeOK
  AtMostOneExecution
  SucceededMeansDone
  FailedCommitExplained
PROPERTIES
  TerminalIsFinal
  UnknownIsNeverRetried
  LedgerOnlyGrows
  ImplementsOutcome
  InFlightIsLeft
  DeadlineSettles
CHECK_DEADLOCK FALSE

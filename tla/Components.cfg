SPECIFICATION Spec
CONSTANTS
  Sessions = {x1, x2}
  MaxIdentity = 2
  Hellos = {h1, h2}
  Handlers = {x1, x2, c1}
  MaxOutages = 1
  Commits = {c1}
  Lookups = {l1}
  PromptStart = TRUE
  MaxStops = 1
  Kinds = {modified, erased}
  Retained = 2
  PageSizes <- MCPages
  MaxEvents = 7
  Clients = {"agent", "server"}
  IpcRequests = {"first", "second"}
  ClientOf <- MCClientOf
  RetryOf <- MCRetryOf
  Documents = {x1, x2}
  MaxMoves = 2
  Programs = {g1}
  RequestKeys = {h1, h2}
  Pins = {x1, x2}
  MaxJobs = 3
  MaxRevision = 2
  Builds = {"b1", "b2"}
  Packs = {"create"}
  MaxLineage = 2
  MaxEpoch = 2
  MaxUpsets = 2
  PlanLimit = 1
  LastPlan = 2
  ToolCalls = {"t1", "t2", "t3"}
  Drawings = {"d1", "d2"}
  LastRevision = 2
  MaxUserSteps = 1
  MaxOperations = 3
  EntityBudget = 2
  RecordLimit = 4
  HostFrame = 4
  MaxMeddling = 1
  SceneKeys = {c1}
  Snapshots = {h1, h2}
  ItemCount = 3
  PageLimits <- MCPages
  AuditLimit = 2
  SelectionLimit = 3
  MaxScenes = 3
  MaxConfigs = 1
SYMMETRY MCSymmetry
INVARIANTS
  RevokedIsOut
  ActiveCanSign
  ShownAsConnected
  AnswerIsForItsRequest
  RefusedIsUntouched
  NoSilentGap
  RequestRunsOnce
  ExecutedAsPrepared
  ProgramRunsOnce
  CommittedAsSealed
  DrawnAgainOnlyAfterSilence
  DrawnAsApproved
  PreviewTellsCommit
  CommittedIsConfirmed
  ReadersSeeTheScene
PROPERTIES
  KeyKeepsItsScene
CHECK_DEADLOCK FALSE

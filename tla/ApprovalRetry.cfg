SPECIFICATION FairSpec
CONSTANTS
  c1 = c1
  s1 = s1
  s2 = s2
  r1 = r1
  one = one
  plan = plan
  undo = undo
  Programs = {c1}
  Sealed = {s1, s2}
  Rollbacks = {r1}
  Subjects = {one, plan, undo}
  SubjectOf <- MCSubjectOf
  NoKey = NoKey
  Scenarios = {{c1}}
  MaxSession = 2
  MaxLoad = 2
  MaxRestart = 1
PROPERTY RetryFindsConsent
CHECK_DEADLOCK FALSE

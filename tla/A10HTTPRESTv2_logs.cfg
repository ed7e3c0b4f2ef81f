SPECIFICATION Spec
CONSTANTS
  Unparsable = Unparsable
  None = None
  c1 = c1
  c2 = c2
  c3 = c3
  m1 = m1
  m2 = m2
  Pcrs = {0, 4, 10}
  Measurements = {m1, m2}
  Starts <- LogStarts
  FirstStart <- LogFirst
  Banks = {"sha1", "sha256"}
  Scheme <- MCScheme
  UnsafeMode = TRUE
  Files <- LogFiles
  Key = "key"
  Calls = {c1, c2, c3}
  Policies <- LogPolicies
  Additional <- LogAdditional
  Foreign <- LogForeign
  Relay = FALSE
  MaxEvents = 2
  Extensions = {}
  Unreadable = {}
  ExpectedValues = {}
  RefStates <- LogRefStates
  RuntimePolicies <- LogRuntimePolicies
INVARIANTS IMAIsSound MeasuredBootIsSound IMANoFalseAlarm
CHECK_DEADLOCK FALSE

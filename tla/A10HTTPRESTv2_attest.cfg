SPECIFICATION Spec
CONSTANTS
  Unparsable = Unparsable
  None = None
  c1 = c1
  c2 = c2
  c3 = c3
  m1 = m1
  m2 = m2
  Pcrs = {0, 1}
  Measurements = {m1}
  Starts <- MCStarts
  FirstStart <- MCFirst
  Banks = {"sha1", "sha256"}
  Scheme <- MCScheme
  UnsafeMode = FALSE
  Files = {}
  Key = "key"
  Calls = {c1, c2}
  Policies <- MCPolicies
  Additional <- MCAdditional
  Foreign <- MCForeign
  Relay = TRUE
  MaxEvents = 2
  Extensions <- MCExtensions
  Unreadable = {0, 1}
  ExpectedValues <- MCExpectedValues
  RefStates = {}
  RuntimePolicies = {}
SYMMETRY Symmetry
INVARIANTS TypeOK AttestationIsSound PCRsClaimMatchesQuote NoFalseAlarm
CHECK_DEADLOCK FALSE

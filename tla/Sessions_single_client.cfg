SPECIFICATION Spec
CONSTANTS
  Handlers = {h1, h2, h3}
  Sids = {s1, s2}
  Cids = {c1}
  Rids = {r1}
  NoId = NoId
  SessionUpdateLogging = TRUE
  SingleClient = TRUE
  Faults = TRUE
  LogLoss = FALSE
SYMMETRY Symmetry
INVARIANTS AcknowledgedAppendsKept CloseIsFinal ClosedOnce AuditTrail
PROPERTY ImplementsContract
CHECK_DEADLOCK FALSE

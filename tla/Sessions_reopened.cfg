SPECIFICATION Spec
CONSTANTS
  Handlers = {h1, h2}
  Sids = {s1}
  Cids = {c1}
  Rids = {r1}
  NoId = NoId
  SessionUpdateLogging = FALSE
  SingleClient = FALSE
  Faults = FALSE
  LogLoss = FALSE
INVARIANT CloseIsFinal
CHECK_DEADLOCK FALSE

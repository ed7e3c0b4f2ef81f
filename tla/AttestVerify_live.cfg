SPECIFICATION FairSpecAll
CONSTANTS
  Handlers = {h1, h2}
  Sids = {s1}
  Cids = {c1}
  Rids = {r1, r2, r3}
  h1 = h1
  h2 = h2
  NoId = NoId
  SessionUpdateLogging = FALSE
  SingleClient = FALSE
  Faults = FALSE
  LogLoss = FALSE
  Rules = {quote}
  NoRule = NoRule
  NeedsEV = {quote}
  MaxRules <- UpToTwoRules
  Panics = TRUE
INVARIANT WebSessionComplete
PROPERTIES CloseTakesEffect WebClosesSession
CHECK_DEADLOCK FALSE

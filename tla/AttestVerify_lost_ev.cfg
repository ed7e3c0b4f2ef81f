SPECIFICATION SpecAll
CONSTANTS
  Handlers = {h1}
  Sids = {s1}
  Cids = {c1}
  Rids = {r1}
  h1 = h1
  h2 = h2
  NoId = NoId
  SessionUpdateLogging = FALSE
  SingleClient = FALSE
  Faults = FALSE
  LogLoss = FALSE
  Rules = {nullrule, quote}
  NoRule = NoRule
  NeedsEV = {quote}
  MaxRules <- OneRule
  Panics = TRUE
INVARIANT ExpectedValueRecorded
CHECK_DEADLOCK FALSE

SPECIFICATION SpecAll
CONSTANTS
  Handlers = {h1, h2}
  Sids = {s1}
  Cids = {c1, c2}
  Rids = {r1}
  h1 = h1
  h2 = h2
  NoId = NoId
  SessionUpdateLogging = FALSE
  SingleClient = FALSE
  Faults = TRUE
  LogLoss = FALSE
  Rules = {quote}
  NoRule = NoRule
  NeedsEV = {quote}
  MaxRules <- OneRule
  Panics = TRUE
SYMMETRY Symmetry
INVARIANTS TypeOKAll AcceptedClaimsListed ResultsReferToClaims
CHECK_DEADLOCK FALSE

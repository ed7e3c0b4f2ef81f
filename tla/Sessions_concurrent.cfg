SPECIFICATION Spec
CONSTANTS
  Handlers = {h1, h2, h3}
  Sids = {s1, s2}
  Cids = {c1, c2}
  Rids = {r1}
  NoId = NoId
  SessionUpdateLogging = TRUE
  SingleClient = FALSE
  Faults = TRUE
  LogLoss = TRUE
SYMMETRY Symmetry
INVARIANTS TypeOK ListsRefer SignatureMatches EntriesComeFromRequests
CHECK_DEADLOCK FALSE

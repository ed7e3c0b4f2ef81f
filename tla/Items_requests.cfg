SPECIFICATION Spec
CONSTANTS
  Handlers = {h1, h2, h3}
  Eids = {e1}
  Pids = {p1}
  Vids = {v1}
  Contents = {a}
  Objects = {o1, e1}
  Absent = Absent
  Faults = TRUE
SYMMETRY Symmetry
INVARIANTS TypeOK DeleteIsFinal DeletedOnce AuditTrail
CHECK_DEADLOCK FALSE

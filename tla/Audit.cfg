SPECIFICATION Spec
CONSTANTS
  p1 = p1  p2 = p2  p3 = p3
  Process = {p1, p2, p3}
  MaxRecords = 5
  MaxCrashes = 1
SYMMETRY Perms
INVARIANTS AuditTypeOK TrailIsComplete LogIsRecord
PROPERTY TrailOnlyGrows
CHECK_DEADLOCK FALSE

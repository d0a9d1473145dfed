SPECIFICATION Spec
CONSTANTS
  p1 = p1  p2 = p2  p3 = p3
  Process = {p1, p2}
  MaxRecords = 3
  MaxCrashes = 0
SYMMETRY Perms
INVARIANT LogReadable
CHECK_DEADLOCK FALSE

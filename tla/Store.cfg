SPECIFICATION Spec
CONSTANTS
  p1 = p1  p2 = p2
  Process = {p1, p2}
  MaxPackages = 3
  MaxLists = 2
  MaxCrashes = 1
SYMMETRY Perms
INVARIANTS StoreTypeOK PrintedIdsCanBeGot ListIsComplete
CHECK_DEADLOCK FALSE

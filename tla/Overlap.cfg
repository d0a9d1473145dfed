SPECIFICATION PreparedSpec
CONSTANTS
  p1 = p1  p2 = p2  ali = ali  sara = sara  hr = hr  sec = sec  dept = dept  clr = clr
  Process = {p1, p2}
  User = {ali, sara}
  Authority = {hr, sec}
  Prefix = {"department", "clearance"}
  Attribute = {dept, clr}
  Command <- EntitledCommands
  MaxCommands = 5
  MaxCrashes = 1
SYMMETRY Perms
INVARIANTS TypeOK OpenedByEntitled EffectsRecorded RecordsAreTrue
CHECK_DEADLOCK FALSE

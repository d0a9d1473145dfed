SPECIFICATION SerialSpec
CONSTANTS
  p1 = p1  p2 = p2  ali = ali  sara = sara  hr = hr  sec = sec  dept = dept  clr = clr
  Process = {p1, p2}
  User = {ali}
  Authority = {hr}
  Prefix = {"department", "clearance"}
  Attribute = {dept, clr}
  Command <- CoreCommands
  MaxCommands = 5
  MaxCrashes = 0
SYMMETRY Perms
PROPERTY MintedUnderCurrentEpoch
CHECK_DEADLOCK FALSE

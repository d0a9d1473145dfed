SPECIFICATION FairSerialSpec
CONSTANTS
  p1 = p1  p2 = p2  ali = ali  sara = sara  hr = hr  sec = sec  dept = dept  clr = clr
  Process = {p1}
  User = {ali}
  Authority = {hr}
  Prefix = {"department", "clearance"}
  Attribute = {dept, clr}
  Command <- SerialCommands
  MaxCommands = 6
  MaxCrashes = 1
INVARIANTS DecryptsIfSatisfied NamesStayKnown RevocationBites RevokedUserGetsNoKey
  AcknowledgedRevocationsHold UninterruptedGrantsHold
PROPERTIES KeepsPromise GrantsArrive EffectsGetRecorded
CHECK_DEADLOCK FALSE

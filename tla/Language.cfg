SPECIFICATION Spec
CONSTANTS
  Authority = {hr, sec}
  Controls <- ControlTexts
  Request <- Requests
  ClaimList <- ClaimLists
  MaxNumber = 3
  MaxRequests = 4
  Keyword = {"AND", "or"}
  Attributes <- FourAttributes
  MaxWords = 7
  MaxDepth = 14
  Piece <- Strings
  Name <- StringTexts
INVARIANTS PolicyMeansItsText FlatFormAgrees NumericThresholds ControlIsExclusive WrittenAlikeMatch
CHECK_DEADLOCK FALSE

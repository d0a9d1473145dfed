SPECIFICATION Spec
CONSTANTS
  Authority = {hr, sec}
  Controls <- ControlTexts
  Request <- Requests
  ClaimList <- ClaimLists
  MaxNumber = 3
  MaxRequests = 4
  Keyword = {"AND", "or"}
  Attributes <- OneAttribute
  MaxWords = 1
  MaxDepth = 8
  Piece <- Strings
  Name <- StringTexts
INVARIANT QuotingIsIncidental
CHECK_DEADLOCK FALSE

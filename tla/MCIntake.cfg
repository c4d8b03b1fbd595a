SPECIFICATION FairSpec
CONSTANTS
  Extractions = {x1}
  Requests = {r1, r2, r3}
  Lines <- MCLines
  Prices = {600}
  Pricings <- MCPricings
  NoAmount = NoAmount
INVARIANTS
  ConfirmationSticks
  CostFollowsHistory
  ReviewFlagged
PROPERTIES
  ExtractionSettles
CHECK_DEADLOCK FALSE

SPECIFICATION Spec
CONSTANTS
  north = north
  south = south
  sku = sku
  Stores = {north, south}
  NoStore = NoStore
  Tags = {1}
  Bulk = {2, 3, 4}
  Skus = {sku}
  SkuOf <- MCSkuOf
  Variants = {"blue", "red"}
  VariantOf <- MCTwoVariants
  Home <- MCHome
  Places = {"shelf", "depot"}
  Transfers = {A}
  MaxLines = 2
  MaxQty = 3
  Client = {}
INVARIANTS OpenIffOutstanding NoCancelAfterReception ReceivedWithinDispatched TransitMatchesLedger
CHECK_DEADLOCK FALSE

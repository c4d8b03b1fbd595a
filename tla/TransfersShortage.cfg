SPECIFICATION Spec
CONSTANTS
  north = north
  south = south
  sku = sku
  Stores = {north, south}
  NoStore = NoStore
  Tags = {1}
  Bulk = {2, 3}
  Skus = {sku}
  SkuOf <- MCSkuOf
  Variants = {"blue", "red"}
  VariantOf <- MCOneVariant
  Home <- MCHome
  Places = {"shelf"}
  Transfers = {A, B}
  MaxLines = 2
  MaxQty = 2
  Client = {}
SYMMETRY MCSymmetry
INVARIANTS ReceivedWithinDispatched
CHECK_DEADLOCK FALSE

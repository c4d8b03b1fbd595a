SPECIFICATION Spec
CONSTANTS
  s1 = s1
  s2 = s2
  r1 = r1
  r2 = r2
  Sales = {s1, s2}
  Items = {1, 2, 3, 4}
  Tags = {2}
  NoTag = 0
  Advances = {a1}
  a1 = a1
  NoAdvance = NoAdvance
  Drafts = {d1}
  d1 = d1
  Requests = {r1, r2, r3}
  r3 = r3
  Payloads <- MCPayloads
  MaxLines = 2
  MaxQty = 2
  MaxBack = 2
  MaxUpdates = 2
SYMMETRY Symmetric
INVARIANTS AdvanceSpentOnce GuardedCheckoutOnce ReturnsWithinSale StockCoversSales
CHECK_DEADLOCK FALSE

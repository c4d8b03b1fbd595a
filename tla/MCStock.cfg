SPECIFICATION Spec
CONSTANTS
  Items = {i1, i2}
  Epcs = {e1, e2}
  NoEpc = NoEpc
  Issues = {"DAMAGED"}
  Requests = {r1, r2, r3}
SYMMETRY Symmetric
INVARIANTS
  TagOnOneItem
  SavedLineKeepsItem
  AssignmentBacked
  SoldStaysSold
CHECK_DEADLOCK FALSE

CONSTANTS
  r1 = r1
  r2 = r2
  r3 = r3
  k1 = k1
  p1 = p1
  p2 = p2
  Nobody = Nobody
  Requests = {r1, r2, r3}
  Keys = {k1}
  Payloads = {p1, p2}
  Faults = {"wipe"}
  MaxWipes = 1
SPECIFICATION FairSpec
PROPERTIES EveryRequestAnswered NoRowStaysInProgress
CHECK_DEADLOCK FALSE

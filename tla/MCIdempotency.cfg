CONSTANTS
  r1 = r1
  r2 = r2
  r3 = r3
  k1 = k1
  k2 = k2
  p1 = p1
  p2 = p2
  Nobody = Nobody
  Requests = {r1, r2, r3}
  Keys = {k1, k2}
  Payloads = {p1, p2}
  Faults = {"crash", "db", "wipe"}
  MaxWipes = 1
SPECIFICATION Spec
SYMMETRY RequestSymmetry
INVARIANTS AtMostOneEffect ReplayIsFaithful
PROPERTIES RowLifecycle EffectUnderOpenRow ImplementsAtMostOnce
CHECK_DEADLOCK FALSE

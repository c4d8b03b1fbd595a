SPECIFICATION FairSpec
CONSTANTS
  Tenant = tenant
  Stores = {s1, s2}
  Writers = {w1}
  Jobs = {j1, j2}
INVARIANTS
  LeftoversOverlapped
  AuditTellsOutcome
  OneAtATime
PROPERTIES
  LockReleased
CHECK_DEADLOCK FALSE

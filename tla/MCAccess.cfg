SPECIFICATION Spec
CONSTANTS
  Users = {"ann"}
  Root = "root"
  Perms = {"USER_MANAGE", "AUDIT_VIEW"}
  USER_MANAGE = "USER_MANAGE"
  Targets <- MCTargets
  Defaults <- MCDefaults
  Requests = {r1, r2}
  Keep = Keep
  MaxTokens = 1
SYMMETRY Symmetric
INVARIANTS
  GrantsWithinCeiling
  DenyIsFinal
  OverridesFollowUser
PROPERTIES
  DenyLeavesOnRequest
CHECK_DEADLOCK FALSE

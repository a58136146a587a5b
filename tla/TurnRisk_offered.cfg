SPECIFICATION Spec
CONSTANTS
  None = None
  l1 = l1
  l2 = l2
  Lots = {l1}
  Hours = {0, 25, 49, 71}
  Late = 30
  LotRules <- EarlyRules
  Statuses = {"present", "not_found"}
INVARIANT ExpiredIsNotOffered
CHECK_DEADLOCK FALSE

SPECIFICATION Spec
CONSTANTS
  None = None
  l1 = l1
  l2 = l2
  Lots = {l1}
  Hours = {0, 25, 49, 71}
  Late = 30
  LotRules <- MCLotRules
  Statuses = {"present", "not_found"}
PROPERTY RiskStaysCharged
CHECK_DEADLOCK FALSE

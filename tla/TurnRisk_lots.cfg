SPECIFICATION Spec
CONSTANTS
  None = None
  l1 = l1
  l2 = l2
  Lots = {l1, l2}
  Hours = {0, 25, 49, 71}
  Late = 30
  LotRules <- MCLotRules
  Statuses = {"present", "not_found"}
SYMMETRY Symmetry
INVARIANTS
  CentreIsNotLaxer
  MarkdownStopsAtExpiry
PROPERTIES
  RiskOnlyRises
  PackageMatchesRisk
CHECK_DEADLOCK FALSE

SPECIFICATION Spec
CONSTANTS
  Limits <- Budgets
  HasTimeout = TRUE
  MaxFanout = 18
  MaxDiscovery = 3
CHECK_DEADLOCK FALSE
INVARIANT LimitsAlwaysSurface

SPECIFICATION FairSpec
CONSTANTS
  Limits <- Budgets
  HasTimeout = TRUE
  MaxFanout = 18
  MaxDiscovery = 3
CHECK_DEADLOCK FALSE
INVARIANT TypeInvariant
INVARIANT BudgetIsExact
INVARIANT LimitsSurface
INVARIANT StatusNamesItsCause
INVARIANT FailuresAreCounted
PROPERTY RequestEnds

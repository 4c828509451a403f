SPECIFICATION Spec
CONSTANTS
  Requests = {o1, o2}
  Keys = {1}
  Profiles <- Values
  Bounds <- OneBound
  MaxReports = 2
SYMMETRY Symmetry
CHECK_DEADLOCK FALSE
INVARIANTS
  TypeInvariant
  EveryRequestIsCounted
  ReportsNeverGoBack
  ReportsAreNearlyConsistent

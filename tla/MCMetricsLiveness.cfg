SPECIFICATION FairSpec
CONSTANTS
  Requests = {o1, o2}
  Keys = {1}
  Profiles <- Values
  Bounds <- OneBound
  MaxReports = 1
CHECK_DEADLOCK FALSE
PROPERTY ObservationsEnd

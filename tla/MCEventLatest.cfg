SPECIFICATION Spec
CONSTANTS
  Pods = {"p", "q"}
  Explained = "p"
  Statuses <- MCStatuses
  Kinds <- MCSchedulerKinds
  Limit = 2
  MaxTime = 2
  MaxEvents = 3
  None = None
CHECK_DEADLOCK FALSE
INVARIANTS
  PodLatestIsNewest

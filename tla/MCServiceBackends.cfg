SPECIFICATION Spec
CONSTANTS
  Pods = {1, 2}
  IPs = {a, b}
  MaxEndpoints = 2
  None = None
SYMMETRY Symmetry
CHECK_DEADLOCK FALSE
INVARIANTS
  TypeInvariant
  ViewsAgree
  SilenceMeansHealthy
  PodsAreFound

SPECIFICATION Spec
CONSTANTS
  Pods = {p1, p2}
  Owners = {o1, o2, other}
  Known = {o1, o2}
SYMMETRY Symmetry
CHECK_DEADLOCK FALSE
INVARIANTS
  TypeInvariant
  OneReadPerEdge
  NothingDangles
  CalmWalkIsExact

SPECIFICATION Spec
CONSTANTS
  Sessions = {s1, s2}
  Posts = {p1, p2}
  QueueCap = 1
  NoSession = NoSession
SYMMETRY Symmetry
INVARIANTS
  TypeInvariant
  RejectedOnlyAfterClose
  NoDuplicateOrStray
  NothingLostWhileConnected
  CancellationStaysInside
  AnsweredAfterAck
PROPERTIES
  TimeoutOnlyWhenFull
  ImplementsResponseStream
CHECK_DEADLOCK FALSE

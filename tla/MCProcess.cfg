SPECIFICATION FairSpec
CONSTANTS
  None = None
  Conns = {c1, c2, c3}
  MaxLines = 3
  ErrCap = 1
  Arguments <- MCArguments
  Numbers = {"25", "-1"}
  Invalid = {"svg", "-1s", "-1"}
CHECK_DEADLOCK FALSE
INVARIANTS
  TypeInvariant
  ArgumentsReadAsMeant
  CleanShutdown
  OneReplyPerLine
PROPERTIES
  CancelEndsCall

SPECIFICATION FairSpec
CONSTANTS
  Sessions = {s1}
  Posts = {p1, p2}
  QueueCap = 1
  NoSession = NoSession
PROPERTIES
  EveryPostEnds
  LostConnectionFreesSession
  ReadingClientIsServed
CHECK_DEADLOCK FALSE

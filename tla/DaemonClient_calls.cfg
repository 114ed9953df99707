SPECIFICATION FairSpec
CONSTANTS
  r1 = r1
  r2 = r2
  Requests = {r1, r2}
  MaxConns = 2
PROPERTIES
  EachCallOnce
  EveryCallEnds
CHECK_DEADLOCK FALSE

SPECIFICATION FairSpec
CONSTANTS
  MaxOut = 3
  MaxConns = 3
  MaxTime = 2
  QueueMax = 2
  RingMax = 2
  ReadMax = 1
INVARIANTS
  TypeOK
  OutputInOrder
  ReadInOrder
  SkippedShareMillisecond
PROPERTIES
  QueueDrains
CHECK_DEADLOCK FALSE

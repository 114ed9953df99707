SPECIFICATION Spec
CONSTANTS
  c1 = c1
  c2 = c2
  Cbs = {c1, c2}
  Torn = Torn
  MaxDaemons = 2
  MaxEntries = 1
INVARIANTS
  HistoryKnowsLive
  FileFollows
PROPERTIES
  OnlyEvictionForgets
CHECK_DEADLOCK FALSE

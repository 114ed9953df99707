SPECIFICATION FairSpec
CONSTANTS
  c1 = c1
  c2 = c2
  c3 = c3
  NoCb = NoCb
  Cbs = {c1, c2, c3}
  Readers = {c1}
  MaxDaemons = 2
INVARIANTS
  HolderOwnsLock
  SecretAgreed
PROPERTIES
  StarterEnds
  StaleLockYields
  DaemonComesUp
CHECK_DEADLOCK FALSE

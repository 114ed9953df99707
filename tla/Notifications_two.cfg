SPECIFICATION Spec
CONSTANTS
  m1 = m1
  m2 = m2
  s1 = s1
  NoClient = NoClient
  Clients = {m1, m2}
  Sessions = {s1}
  MaxConns = 3
  MaxTasks = 2
  MaxLives = 2
  MaxQueue = 2
SYMMETRY Alike
INVARIANTS
  RunningWatcherIsTracked
  DeathSettlesTasks
  BirthsHaveDeaths
  NewestIsQueued
CHECK_DEADLOCK FALSE

SPECIFICATION AloneSpec
CONSTANTS
  NoCb = NoCb
  Cbs = {p1, p2, p3}
  MaxConns = 3
  MissLimit = 1
  MaxSuffix = 4
  LabelAt <- SameLabel
  WrongSecret = {p2}
  BadLabel = {p3}
INVARIANTS
  MissedPongsAccounted
PROPERTIES
  HealthySessionSurvives
  GoneCbIsBuried
  SilentPeerIsBuried
  RunningCbReattaches
  RefusedLetGo
CHECK_DEADLOCK FALSE

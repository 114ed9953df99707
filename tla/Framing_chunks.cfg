SPECIFICATION Spec
CONSTANTS
  Readers = {"own", "newest", "twice"}
  MaxConns = 2
  MaxFrames = 4
  Header = 2
  FirstCap = 1
  Cap = 2
INVARIANTS
  WholeFramesAreHandled
  OnlyWhatWasSent
  RefusesForAReason
CHECK_DEADLOCK FALSE

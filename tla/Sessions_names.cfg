SPECIFICATION Spec
CONSTANTS
  NoCb = NoCb
  Cbs = {p1, p2}
  MaxConns = 3
  MissLimit = 0
  MaxSuffix = 3
  LabelAt <- SameLabel
  WrongSecret = {}
  BadLabel = {}
SYMMETRY Twins
INVARIANTS
  LabelsUnambiguous
  LiveSessionHasPipe
  OpenConnFeedsItsSession
  LiveSessionReachable
  RecordAgreesWithRegistry
PROPERTIES
  DirectoryKept
CHECK_DEADLOCK FALSE

SPECIFICATION Spec
CONSTANTS
  r1 = r1
  blank = blank
  prompt = prompt
  Requests = {r1}
  Screens = {blank, prompt}
  Matching = {prompt}
  Needs = {0, 4}
  Default = 2
  Cap = 3
  Poll = 2
  Throttle = 2
  Lag = 1
  TickMs = 1
  MinSilent = 1
  Stable = 2
  Timeout = 2
  Horizon = 5
INVARIANTS
  NoPauseMissed
  AnsweredInTime
  
PROPERTIES
  WrittenInSilence
  TimeoutMeansMoving

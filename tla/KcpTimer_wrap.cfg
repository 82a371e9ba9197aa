SPECIFICATION Spec
CONSTANTS
  Word = 128
  Interval = 2
  SlapLimit = 4
  RtoDef = 4
  RtoMin = 3
  RtoMax = 5
  FastResend = 1
  FastLimit = 1
  ProbeInit = 2
  ProbeLimit = 3
  Starts = {121, 124}
  Late = {0, 1, 5}
  MaxAge = 3
  MaxClock = 135
  MaxSegs = 2
  MaxXmit = 3
INVARIANTS
  TypeOK
  AlwaysFlushes
  Punctual
  FastLimited
  RtoInRange
  ProbePunctual
PROPERTIES
  RetransmitsInTime
CHECK_DEADLOCK FALSE

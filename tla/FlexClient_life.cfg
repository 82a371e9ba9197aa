SPECIFICATION LiveSpec
CONSTANTS
  MaxFwds = 3
  StartFails = TRUE
  AcceptFails = TRUE
INVARIANTS
  RunningIsOpen
PROPERTIES
  EndsStopped
  Reaped
CHECK_DEADLOCK FALSE

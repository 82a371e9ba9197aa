SPECIFICATION Spec
CONSTANTS
  a1 = a1
  Addrs = {a1}
  MaxFwds = 1
  MaxData = 1
  StartFails = FALSE
  OpenFails = FALSE
  ConnectFails = TRUE
  ReceiveFails = FALSE
  None = None
INVARIANTS
  DestructorAssert
CHECK_DEADLOCK FALSE

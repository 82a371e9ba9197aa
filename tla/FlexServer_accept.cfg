SPECIFICATION Spec
CONSTANTS
  a1 = a1
  Addrs = {a1}
  MaxFwds = 1
  MaxData = 1
  StartFails = TRUE
  OpenFails = FALSE
  ConnectFails = FALSE
  ReceiveFails = FALSE
  None = None
INVARIANTS
  Serving
CHECK_DEADLOCK FALSE

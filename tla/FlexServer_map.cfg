SPECIFICATION LiveSpec
CONSTANTS
  a1 = a1
  a2 = a2
  Addrs = {a1, a2}
  MaxFwds = 3
  MaxData = 3
  StartFails = TRUE
  OpenFails = TRUE
  ConnectFails = TRUE
  ReceiveFails = TRUE
  None = None
INVARIANTS
  TypeOK
  MapExact
  MapAsserts
  RunningIsOpen
  KcpReady
PROPERTIES
  Reaped
  IdleReaped
CHECK_DEADLOCK FALSE

SPECIFICATION Spec
CONSTANTS
  Client = Client
  Server = Server
  Overhead = 1
  Mss = 3
  WndRcv = 3
  CfgSndWnd = 2
  CfgRcvWnd = 1
  Reads = {1, 4}
  RecvBuf = 4
  MaxSegs <- At_3_0
  MaxAcks = 2
  MaxDue = 2
  NetCap <- At_2_2
  Again = {TRUE}
INVARIANTS
  IndInv
  InOrder
  AckedIsHeld
  FullQueueReadable
PROPERTIES
  Monotone
  StreamSpec

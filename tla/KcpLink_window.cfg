SPECIFICATION Spec
CONSTANTS
  Client = Client
  Server = Server
  Overhead = 1
  Mss = 5
  WndRcv = 2
  CfgSndWnd = 2
  CfgRcvWnd = 2
  Reads = {1}
  RecvBuf = 1
  MaxSegs <- At_5_0
  MaxAcks = 2
  MaxDue = 0
  NetCap <- At_2_1
  Again = {TRUE}
INVARIANTS
  TypeOK
  RcvWindow
  SndWindow
  NoOverrun
  RoomInv

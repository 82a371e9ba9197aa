SPECIFICATION LiveSpec
CONSTANTS
  Client = Client
  Server = Server
  Overhead = 1
  Mss = 5
  WndRcv = 2
  CfgSndWnd = 2
  CfgRcvWnd = 2
  Reads = {1}
  RecvBuf = 1
  MaxSegs <- At_3_0
  MaxAcks = 2
  MaxDue = 2
  NetCap <- At_1_1
  Again = {FALSE}
PROPERTIES
  Delivered
  WindowReopens

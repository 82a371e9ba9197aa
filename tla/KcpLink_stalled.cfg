SPECIFICATION StalledSpec
CONSTANTS
  Client = Client
  Server = Server
  Overhead = 1
  Mss = 5
  WndRcv = 2
  CfgSndWnd = 1
  CfgRcvWnd = 2
  Reads = {1}
  RecvBuf = 1
  MaxSegs <- At_1_1
  MaxAcks = 1
  MaxDue = 1
  NetCap <- At_1_1
  Again = {FALSE}
PROPERTY
  BackFlows

SPECIFICATION LiveSpec
CONSTANTS
  Client = Client
  Server = Server
  Overhead = 1
  Mss = 5
  WndRcv = 2
  CfgSndWnd = 1
  CfgRcvWnd = 2
  MaxUp = 2
  MaxDown = 0
  MaxGen = 2
  MaxDue = 1
  MaxAcks = 1
  NetCap = 1
  Again = {FALSE}
  Closes = {Client, Server}
INVARIANTS
  UpIsPrefix
PROPERTIES
  ServerEnds
  FlowsUntilStopped
CHECK_DEADLOCK FALSE

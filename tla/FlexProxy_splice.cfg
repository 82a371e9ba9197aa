SPECIFICATION QuietSpec
CONSTANTS
  Client = Client
  Server = Server
  Overhead = 1
  Mss = 1
  WndRcv = 2
  CfgSndWnd = 2
  CfgRcvWnd = 2
  MaxUp = 2
  MaxDown = 2
  MaxGen = 2
  MaxDue = 0
  MaxAcks = 1
  NetCap = 1
  Again = {FALSE}
  Closes = {}
INVARIANTS
  OneConnection
CHECK_DEADLOCK FALSE

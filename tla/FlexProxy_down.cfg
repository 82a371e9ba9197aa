SPECIFICATION Spec
CONSTANTS
  Client = Client
  Server = Server
  Overhead = 1
  Mss = 1
  WndRcv = 2
  CfgSndWnd = 2
  CfgRcvWnd = 2
  MaxUp = 1
  MaxDown = 2
  MaxGen = 2
  MaxDue = 1
  MaxAcks = 1
  NetCap = 1
  Again = {TRUE}
  Closes = {Server}
INVARIANTS
  PositionKept
  PlacesInv
CHECK_DEADLOCK FALSE

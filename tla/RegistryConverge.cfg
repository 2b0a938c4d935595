SPECIFICATION FairSpec
CONSTANTS
  Row0 = Row0
  Chat = Chat
  NoHost = NoHost
  Keys = {Chat}
  WriteKeys = {Chat}
  Fields = {"f"}
  Values = {"v"}
  Null = "null"
  Unset = "unset"
  NumDevices = 2
  MaxCounter = 9
  DeviceRow <- NoHosts
  Times = {1}
  HasTransport = FALSE
  Lossy = FALSE
  Clearing = FALSE
  MaxWrites = 2
  MaxDrops = 1
  MaxCrashes = 0
  MaxAlarms = 1
  MaxResets = 0
INVARIANTS
  NoGhostRows
PROPERTIES
  NoFlicker
  Converges
CHECK_DEADLOCK FALSE

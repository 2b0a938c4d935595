SPECIFICATION FairSpec
CONSTANTS
  Row0 = Row0
  Chat = Chat
  NoHost = NoHost
  Keys = {Chat}
  WriteKeys = {Chat}
  Fields = {"f"}
  Values = {"v"}
  Null = "null"
  Unset = "unset"
  NumDevices = 1
  MaxCounter = 9
  DeviceRow <- NoHosts
  Times = {1}
  HasTransport = TRUE
  Lossy = FALSE
  Clearing = FALSE
  MaxWrites = 2
  MaxDrops = 0
  MaxCrashes = 0
  MaxAlarms = 0
  MaxResets = 0
PROPERTIES
  Converges
CHECK_DEADLOCK FALSE

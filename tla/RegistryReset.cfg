SPECIFICATION FairSpec
CONSTANTS
  Row0 = Row0
  Chat = Chat
  NoHost = NoHost
  Keys = {Chat, Row0}
  WriteKeys = {Chat, Row0}
  Fields = {"f"}
  Values = {"v"}
  Null = "null"
  Unset = "unset"
  NumDevices = 1
  MaxCounter = 9
  DeviceRow <- OneHost
  Times = {1}
  HasTransport = FALSE
  Lossy = FALSE
  Clearing = FALSE
  MaxWrites = 2
  MaxDrops = 0
  MaxCrashes = 0
  MaxAlarms = 0
  MaxResets = 1
PROPERTIES
  Converges
CHECK_DEADLOCK FALSE

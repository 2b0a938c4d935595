SPECIFICATION Spec
CONSTANTS
  Row0 = Row0
  Chat = Chat
  NoHost = NoHost
  Keys = {Row0}
  WriteKeys = {Row0}
  Fields = {"f"}
  Values = {"v"}
  Null = "null"
  Unset = "unset"
  NumDevices = 1
  MaxCounter = 9
  DeviceRow <- OneHost
  Times = {1}
  HasTransport = TRUE
  Lossy = FALSE
  Clearing = FALSE
  MaxWrites = 1
  MaxDrops = 1
  MaxCrashes = 1
  MaxAlarms = 0
  MaxResets = 0
INVARIANTS
  InFlightCarried
CHECK_DEADLOCK FALSE

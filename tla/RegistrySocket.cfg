SPECIFICATION Spec
CONSTANTS
  Row0 = Row0
  Chat = Chat
  NoHost = NoHost
  Keys = {Row0, Chat}
  WriteKeys = {Row0, Chat}
  Fields = {"f"}
  Values = {"v"}
  Null = "null"
  Unset = "unset"
  NumDevices = 2
  MaxCounter = 9
  DeviceRow <- NoHosts
  Times = {1}
  HasTransport = FALSE
  Lossy = TRUE
  Clearing = FALSE
  MaxWrites = 2
  MaxDrops = 1
  MaxCrashes = 0
  MaxAlarms = 0
  MaxResets = 0
INVARIANTS
  TypeOK
  CursorComplete
  AckedHeld
SYMMETRY RowSymmetry
CHECK_DEADLOCK FALSE

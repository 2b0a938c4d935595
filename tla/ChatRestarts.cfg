SPECIFICATION Spec
CONSTANTS
  Devices = {"a", "b"}
  Host = "none"
  Transport = {}
  Threshold = 1
  PageRows = 2
  MaxRepairs = 3
  Writers = {"a", "b"}
  Woken = {}
  Mortal = {"a"}
  Posters = {"b"}
  Faults = {"crash"}
  MaxWrites = 2
  MaxBig = 1
  MaxWakes = 0
  MaxFaults = 1
INVARIANTS
  ChatTypeOK
  ReconnectComplete
  RestartComplete
  CatchUpInv
PROPERTIES
  RefinesLog
CHECK_DEADLOCK FALSE

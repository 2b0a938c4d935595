SPECIFICATION Spec
CONSTANTS
  Devices = {"a", "b"}
  Host = "a"
  Transport = {"b"}
  Threshold = 1
  PageRows = 2
  MaxRepairs = 3
  Writers = {"a"}
  Woken = {"b"}
  Mortal = {"b"}
  Posters = {}
  Faults = {"crash", "post"}
  MaxWrites = 1
  MaxBig = 1
  MaxWakes = 1
  MaxFaults = 1
INVARIANTS
  TicketFresh
PROPERTIES
  RefinesLog
CHECK_DEADLOCK FALSE

SPECIFICATION FairSpec
CONSTANTS
  Devices = {"a", "b"}
  Host = "none"
  Transport = {"b"}
  Threshold = 1
  PageRows = 2
  MaxRepairs = 3
  Writers = {"b"}
  Woken = {"a"}
  Mortal = {}
  Posters = {}
  Faults = {"drop", "quota", "reset"}
  MaxWrites = 1
  MaxBig = 0
  MaxWakes = 1
  MaxFaults = 1
INVARIANTS
  TicketFresh

  
CHECK_DEADLOCK FALSE

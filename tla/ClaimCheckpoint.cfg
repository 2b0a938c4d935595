SPECIFICATION Spec
CONSTANTS
  Devices = {"a", "b"}
  Host = "a"
  Transport = {}
  Threshold = 0
  PageRows = 2
  MaxRepairs = 3
  Writers = {"a", "b"}
  Woken = {}
  Mortal = {}
  Posters = {"a", "b"}
  Faults = {}
  MaxWrites = 3
  MaxBig = 0
  MaxWakes = 0
  MaxFaults = 1
INVARIANTS
  CheckpointCovers
CHECK_DEADLOCK FALSE

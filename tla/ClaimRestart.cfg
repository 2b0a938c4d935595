SPECIFICATION Spec
CONSTANTS
  w1 = w1
  w2 = w2
  NoWorker = NoWorker
  t1 = t1
  Workers = {w1, w2}
  Threads = {t1}
  Kinds = {"start", "steer", "respond", "cleanup", "title"}
  NumEffects = 2
  MaxAttempts = 2
  MaxLapses = 0
  MaxErrors = 0
  MaxCrashes = 1
PROPERTIES
  RestartReleases
CHECK_DEADLOCK FALSE

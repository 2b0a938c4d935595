SPECIFICATION Spec
CONSTANTS
  w1 = w1
  w2 = w2
  NoWorker = NoWorker
  t1 = t1
  Workers = {w1, w2}
  Threads = {t1}
  Kinds = {"start", "steer", "respond", "cleanup", "title"}
  NumEffects = 2
  MaxAttempts = 2
  MaxLapses = 1
  MaxErrors = 1
  MaxCrashes = 1
INVARIANTS
  OutboxTypeOK
  LaneExclusive
  Fifo
  NoBlindReplay
  LiveClaim
SYMMETRY WorkerSymmetry
CHECK_DEADLOCK FALSE

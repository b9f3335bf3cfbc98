CONSTANTS
  Procs = {p1}
  Orphans = {o1, o2}
  Requests = {q1}
  NoRun = NoRun
  Doors = {"runs", "chat", "ws"}
  MaxAttempts = 2
  Batch = 3
  Durable = TRUE
  MaxCrashes = 1
  MaxFaults = 1
  MaxStalls = 1
SPECIFICATION Spec
INVARIANTS TypeOK FailedMeansExhausted ExecutedRunIsLeased QueuedHasDelivery
SYMMETRY RunSymmetry
CHECK_DEADLOCK FALSE

\* Two runs left queued and one submitted on the socket, the fallback queue, two restarts: no call to the store fails.
CONSTANTS
  Procs = {p1}
  Orphans = {o1, o2}
  Requests = {q1}
  NoRun = NoRun
  Doors = {"ws"}
  MaxAttempts = 2
  Batch = 3
  Durable = FALSE
  MaxCrashes = 2
  MaxFaults = 0
  MaxStalls = 0
SPECIFICATION FairSpec
PROPERTIES OrphansFinish KeepsContract

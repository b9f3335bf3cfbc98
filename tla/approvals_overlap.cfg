\* One call, an approval and a denial at the same time.
CONSTANTS
  Runs = {r1}
  Calls = {c1}
  Decisions = {d1, d2}
  Tools = {"create_file"}
  UsedModes = {"confirm_each"}
  MaxFaults = 0
  MaxCrashes = 0
SPECIFICATION Spec
INVARIANTS DeniedIsNotExecuted
CHECK_DEADLOCK FALSE

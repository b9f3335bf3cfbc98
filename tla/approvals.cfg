\* Two calls on two runs, two decision requests that may overlap, one raising call, one restart.
CONSTANTS
  Runs = {r1, r2}
  Calls = {c1, c2}
  Decisions = {d1, d2}
  Tools = {"read_file", "create_file", "raw_shell"}
  UsedModes = {"confirm_each", "smart_development"}
  MaxFaults = 1
  MaxCrashes = 1
SPECIFICATION Spec
INVARIANTS TypeOK ExecutedIsAuthorised GrantsGoBackToApprovals ApprovedIsCarriedOut
SYMMETRY ApprovalSymmetry
CHECK_DEADLOCK FALSE

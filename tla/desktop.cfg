CONSTANTS
  Calls = {c1, c2}
  Workspaces = {w1}
  None = None
  MaxRequests = 2
  MaxStarts = 2
SPECIFICATION FairSpec
CHECK_DEADLOCK FALSE
INVARIANTS TypeOK NoDeadEnd PairedIsConfigured
PROPERTIES AuthorizationSettles

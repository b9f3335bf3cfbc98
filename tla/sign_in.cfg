CONSTANTS
  Attempts = {a1, a2}
  Accounts = {u1, u2}
  Callbacks = {c1, c2}
  Claims = {k1, k2}
  Pairings = {p1}
  Registrations = {r1, r2}
  None = None
SPECIFICATION Spec
SYMMETRY Symmetry
CHECK_DEADLOCK FALSE
INVARIANTS TypeOK DesktopSignsInTheDesktop OneSessionPerRequest SessionsAreOfTheirUser SignedInIsSetUp DevicesFollowOwners

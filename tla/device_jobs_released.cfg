\* One job whose lease runs out before it is executed.
CONSTANTS
  Jobs = {j1}
  Syncs = {s1, s2}
  NoSync = NoSync
  ClaimLimit = 1
  Sizes = {"fits"}
  MaxLeases = 2
  MaxLost = 0
SPECIFICATION Spec
INVARIANT ResultsAreStored

\* Two jobs, two leases each, two overlapping sync requests, and something lost once.
CONSTANTS
  Jobs = {j1, j2}
  Syncs = {s1, s2}
  NoSync = NoSync
  ClaimLimit = 1
  Sizes = {"fits","cut"}
  MaxLeases = 2
  MaxLost = 1
SPECIFICATION FairSpec
INVARIANTS TypeOK LeasesAreDeliveredOnce AcknowledgedIsSettled
PROPERTIES KeepsJobContract JobsEnd

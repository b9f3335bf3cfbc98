\* One cloud event and two of the device on one entity; one request, answer or runtime lost.
CONSTANTS
  Entities = {x}
  CloudEvents = {w1}
  DeviceEvents = {e1, e2}
  Syncs = {s1, s2}
  NoSync = none
  PendingLimit = 2
  PageLimit = 2
  MaxLost = 1
SPECIFICATION FairSpec
INVARIANTS TypeOK ReceivedUpToCursor ConflictsAreExplicit
PROPERTIES KeepsLogContract PendingIsSettled

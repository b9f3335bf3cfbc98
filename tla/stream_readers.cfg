\* The task, a tool call served by another process, and a reader that loses its connection twice.
CONSTANTS
  Task = task
  Calls = {far}
  Remote = {far}
  Readers = {reader}
  Browsers = {}
  MaxDrops = 2
SPECIFICATION FairSpec
INVARIANTS TypeOK ReceivedInOrder NoLostWakeup
PROPERTIES ReadersCatchUp

CONSTANTS
  Requests = {r1, r2, r3}
  MaxPending = 2
  MaxRestarts = 1
  MaxStarts = 2
  MaxGeneration = 2
SPECIFICATION FairSpec
INVARIANTS
  NoOrphanWorker
  OneStartPerGeneration
PROPERTIES
  OkIsCurrent
  RequestsSettle
CHECK_DEADLOCK FALSE

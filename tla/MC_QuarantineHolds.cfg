CONSTANTS
  Requests = {r1}
  MaxPending = 1
  MaxRestarts = 1
  MaxStarts = 2
  MaxGeneration = 3
SPECIFICATION Spec
PROPERTIES
  QuarantineHolds
CHECK_DEADLOCK FALSE

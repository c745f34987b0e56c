CONSTANTS
  Requests = {r1, r2}
  Documents = {d}
  Versions = {v1, v2}
  Payloads = {p1}
  Operations = {op}
  NoOperation = NoOperation
  NoCommand = NoCommand
  Commands <- MCCommands
  MaxPending = 2
  MaxDocuments = 1
  MaxRecords = 1
  MaxCancelled = 1
  MaxGeneration = 2
SPECIFICATION HostSpec
INVARIANTS
  IInv
  AtMostOnce
  CommandNamesContent
PROPERTIES
  StaleWasOvertaken
  CancelledNeverRuns
  RequestsAnswered
CHECK_DEADLOCK FALSE

CONSTANTS
  first = first
  second = second
  p1 = p1
  p2 = p2
  q1 = q1
  r1 = r1
  r2 = r2
  None = None
  Requests = {r1, r2}
  KeyOf <- MCKeyOf
  Keys = {first, second}
  Net48 = {first}
  Procs = {p1, q1}
  ProcessLimit = 1
  StopReasons = {"idle", "manualStop"}
SPECIFICATION FairSpec
INVARIANTS ProcessBudget ShutdownLeavesNoProcess
PROPERTIES BudgetSparesUsers CallsSettle
CHECK_DEADLOCK FALSE

CONSTANTS
  first = first
  second = second
  p1 = p1
  p2 = p2
  q1 = q1
  r1 = r1
  r2 = r2
  None = None
  Requests = {r1, r2}
  KeyOf <- MCKeyOf
  Keys = {first, second}
  Net48 = {first, second}
  Procs = {p1, p2, q1}
  ProcessLimit = 2
  StopReasons = {}
SPECIFICATION Spec
INVARIANTS NoProcessIsLost OneNet48ProcessPerKey BlockedUntilExit
SYMMETRY SymmetryOfAll
CHECK_DEADLOCK FALSE

CONSTANTS
  Edits = {e1, e2}
  Steps = {s1}
  Workers = {w1}
  MaxGenerations = 3
SPECIFICATION Spec
INVARIANTS
  ReadyMeansQuiet
  FreezeHasAWayBack
PROPERTIES
  RefusalRestoresAdmission
  PreparationAnswers
CHECK_DEADLOCK FALSE

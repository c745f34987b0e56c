CONSTANT MaxRuns = 3
SPECIFICATION Spec
INVARIANTS
  HalvesAgree
  SavedSourceKept
  RefusedIsAbsent
PROPERTIES
  OutcomeIsFinal

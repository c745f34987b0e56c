\* Two images of one form, five gestures; VS Code keeps three edits, the history two.
CONSTANTS
  Text = {a, b}
  Id = {e1, e2, e3, e4, e5}
  NoImage = none
  NoEdit = e0
  Limit = 2
  MaxStack = 3
  MaxGestures = 5
SPECIFICATION Spec
CHECK_DEADLOCK FALSE
SYMMETRY Images
INVARIANTS
  CursorMatchesUnlessStrayed
  StepsFindTheirUnits
  CleanHistoryIsSaved
  NoChangeIsForgotten

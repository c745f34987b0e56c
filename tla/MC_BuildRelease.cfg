CONSTANTS
  Forms = {f1}
  Workers = {w1}
  Home <- MCHome
  Builds = {b1}
  Commands = {c1}
  Tasks = {t1}
  None = None
  MaxWaits = 1
  MaxWrites = 2
SPECIFICATION FairSpec
INVARIANTS
  DepthIsOwed
  LiveOnlyWhenReleased
PROPERTIES
  NoRenderDuringABuild
  PreviewsComeBack
CHECK_DEADLOCK FALSE

CONSTANT N = 3
SPECIFICATION Spec
INVARIANTS
  WriteAhead
  ManualHasCause
  AnswerIsDurable
PROPERTIES
  NoForeignOverwrite
  RestoresOnlyReceipted
  ImplementsAtomicUpdate
  Settles

SPECIFICATION Spec
CONSTANTS
  SignalName = {"signal"}
  MaxSignals = 2
  MaxTimeouts = 2
  MayCancel = FALSE
  MayFail = FALSE
  Answers <- MCAnswers
  MaxEvents = 18
CHECK_DEADLOCK FALSE
INVARIANTS
  TypeOK
  NeverRaises
  ReturnsBatch
  ReplaysTheAnswered
  NothingLost

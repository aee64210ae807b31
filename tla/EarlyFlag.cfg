SPECIFICATION Spec
CONSTANTS
  SignalName = {"signal"}
  MaxSignals = 1
  MaxTimeouts = 0
  MayCancel = FALSE
  MayFail = FALSE
  MayQuery = FALSE
  Workflow <- EarlyFlagPrograms
CHECK_DEADLOCK FALSE
INVARIANTS
  NeverRaises

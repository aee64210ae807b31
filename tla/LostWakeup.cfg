SPECIFICATION FairSpec
CONSTANTS
  SignalName = {"signal"}
  MaxSignals = 1
  MaxTimeouts = 0
  MayCancel = FALSE
  MayFail = FALSE
  MayQuery = FALSE
  Workflow <- WaitingPrograms
CHECK_DEADLOCK FALSE
PROPERTIES
  Completes

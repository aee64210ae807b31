SPECIFICATION Spec
CONSTANTS
  SignalName = {"signal"}
  MaxSignals = 1
  MaxTimeouts = 1
  MayCancel = TRUE
  MayFail = FALSE
  MayQuery = FALSE
  Workflow <- DurablePrograms
CHECK_DEADLOCK FALSE
INVARIANTS
  ScheduledOnce
  ResultsAreRecorded
  PendingIsAwaited
PROPERTIES
  DurableSpec

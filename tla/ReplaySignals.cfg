SPECIFICATION Spec
CONSTANTS
  SignalName = {"signal"}
  MaxSignals = 1
  MaxTimeouts = 1
  MayCancel = FALSE
  MayFail = FALSE
  MayQuery = FALSE
  Workflow <- SignalPrograms
CHECK_DEADLOCK FALSE
INVARIANTS
  NeverRaises
  DecisionsMatchHistory
  Resumes

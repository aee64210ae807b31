SPECIFICATION FairSpec
CONSTANTS
  SignalName = {"signal"}
  MaxSignals = 0
  MaxTimeouts = 1
  MayCancel = TRUE
  MayFail = TRUE
  MayQuery = TRUE
  Workflow <- EndingPrograms
CHECK_DEADLOCK FALSE
INVARIANTS
  TypeOK
  NeverRaises
  ResultsAreRecorded
  Resumes
PROPERTIES
  Completes

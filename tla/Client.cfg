SPECIFICATION FairSpec
CONSTANTS
  Conn = {c}
  Request <- ClientRequest
  Answer <- ClientAnswer
  Harmless <- ReadOnly
  NoRequest = NoRequest
  Importable = {"AppError", "ActivityTaskTimeoutException"}
  TakesArgs = {"AppError"}
  WorkflowMethod <- MCWorkflowMethod
  Implementation <- MCImplementation
  OtherEnds = {"timed out"}
  ServiceError = {"entityNotExistError"}
  MaxStarts = 2
  MaxSignals = 1
CHECK_DEADLOCK FALSE
INVARIANTS
  TypeOK
  StartsAreKnown
  OwnOutcome
  CauseIsShown
  RunsTheMethods
PROPERTIES
  WaitReturns

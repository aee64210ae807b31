SPECIFICATION FairSpec
CONSTANTS
  Activity = {a}
  Thread = {t}
  Client = {c}
  Conn = {t}
  Request <- ActivityRequest
  Answer <- ActivityAnswer
  Harmless <- Heartbeats
  NoRequest = NoRequest
  NoTask = NoTask
  Scheduled <- MCScheduled
  ServiceError = {"entityNotExistError", "clientVersionNotSupportedError"}
  ActivitiesClass = "Greetings"
  Methods <- MCMethods
  MaxAttempts = 2
  MaxFaults = 1
CHECK_DEADLOCK FALSE
INVARIANTS
  TypeOK
  OwnAnswer
  ClosedForCause
  LostForCause
  RunsTheActivity
PROPERTIES
  ThreadGoesOn

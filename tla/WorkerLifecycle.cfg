SPECIFICATION FairSpec
CONSTANTS
  Kinds = {"activity", "decision"}
  MaxStarts = 2
  StopModes = {"foreground", "background"}
  RestartsAfter = {"foreground"}
  MayRefuse = TRUE
  MayBreak = TRUE
CHECK_DEADLOCK FALSE
INVARIANTS
  TypeOK
  StopMeansStopped
PROPERTIES
  ThreadsEnd

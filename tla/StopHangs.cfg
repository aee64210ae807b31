SPECIFICATION FairSpec
CONSTANTS
  Kinds = {"activity"}
  MaxStarts = 1
  StopModes = {"foreground"}
  RestartsAfter = {}
  MayRefuse = TRUE
  MayBreak = FALSE
CHECK_DEADLOCK FALSE
PROPERTIES
  StopEnds

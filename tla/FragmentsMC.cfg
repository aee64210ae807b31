SPECIFICATION Spec
CONSTANTS
  MaxFrame = 12
  InitialSize = 4
  ContinueSize = 2
  Message <- MCMessage
INVARIANTS
  TypeOK
  NothingLeft
  Reassembles

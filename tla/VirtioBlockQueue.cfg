SPECIFICATION FairBlockSpec
CONSTANTS
  Size = 3
  IndexMod = 6
  Deferred = TRUE
  Last = 7
CHECK_DEADLOCK FALSE
INVARIANTS
  TypeOK
  BuffersAccountedFor
  InOrder
PROPERTIES
  RequestsComplete

SPECIFICATION Spec
CONSTANTS
  Size = 2
  IndexMod = 4
  Deferred = FALSE
  Last = 5
CHECK_DEADLOCK FALSE
INVARIANTS
  BuffersAccountedFor

SPECIFICATION LinuxSpec
CONSTANTS
  RingSize = 2
  Burst = 2
  TtySize = 2
  Chunk = 2
  InSize = 1
  OutSize = 1
  Attempts = 2
  MaxFailures = 2
  LineSize = 8
  MaxArgs = 3
  MaxEnv = 2
  Descriptors <- MCDescriptors
  Typical <- MCTypical
  Programs <- MCPrograms
INVARIANTS
  LinuxTypeOK
  InputInOrder
  NothingHidden
  RunsTheCommand
PROPERTIES
  TypedArrives
  ShellExitNoticed
  BootEnds
CHECK_DEADLOCK FALSE

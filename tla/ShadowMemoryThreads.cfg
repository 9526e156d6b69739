SPECIFICATION Spec
CONSTANTS
  m1 = m1
  m2 = m2
  t1 = t1
  t2 = t2
  file1 = file1
  file2 = file2
  f1 = f1
  f2 = f2
  f3 = f3
  Mm <- OneMm
  Task <- TwoTasks
  MmOf <- SameMm
  PageCount = 2
  WindowPages = 2
  StackEntryPages = 1
  Frame <- OwnFrames
  FileFrame <- NoFilePage
  VmaAt <- TwoAnonymous
  UserValue = {"text"}
  Pc <- First
  Sp <- Second
  None = None
CHECK_DEADLOCK FALSE
INVARIANTS
  SegmentsMatchPtes

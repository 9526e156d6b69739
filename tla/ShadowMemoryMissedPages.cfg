SPECIFICATION Spec
CONSTANTS
  m1 = m1
  m2 = m2
  t1 = t1
  t2 = t2
  file1 = file1
  file2 = file2
  f1 = f1
  f2 = f2
  f3 = f3
  Mm <- OneMm
  Task <- OneTask
  MmOf <- SameMm
  PageCount = 6
  WindowPages = 2
  StackEntryPages = 1
  Frame <- ProgramFrames
  FileFrame <- TextPage
  VmaAt <- TextStackHeap
  UserValue = {"text"}
  Pc <- First
  Sp <- Third
  None = None
CHECK_DEADLOCK FALSE
INVARIANTS
  MissedPagesFault

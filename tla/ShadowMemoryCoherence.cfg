SPECIFICATION Spec
CONSTANTS
  m1 = m1
  m2 = m2
  t1 = t1
  t2 = t2
  file1 = file1
  file2 = file2
  f1 = f1
  f2 = f2
  f3 = f3
  Mm <- TwoMm
  Task <- TwoTasks
  MmOf <- OwnMm
  PageCount = 2
  WindowPages = 1
  StackEntryPages = 1
  Frame <- TwoFileFrames
  FileFrame <- TwoFilePages
  VmaAt <- TextThenFile
  UserValue = {"zero", "text"}
  Pc <- First
  Sp <- Second
  None = None
CHECK_DEADLOCK FALSE
SYMMETRY Symmetry
INVARIANTS
  TypeOK
  KernelSeesUserStores
  UserSeesFrames
  FramesStayUntranslated
PROPERTIES
  ImplementsPagedMemory

SPECIFICATION Spec
CONSTANTS
  idle = idle
  t1 = t1
  t2 = t2
  tls1 = tls1
  tls2 = tls2
  Task <- TwoTasks
  Idle = idle
  Tls <- TwoTls
  NoTls = NoTls
  Host = Host
  BadTls = BadTls
  None = None
SYMMETRY Symmetry
INVARIANTS
  TypeOK
  IInv
  UserActiveOnlyInUserCode
  RedirectOnlyFromSpin
  EntersOnOwnStack
PROPERTIES
  OddTlsOnlyFromClone
  ImplementsTaskExecution

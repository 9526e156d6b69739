SPECIFICATION FairSpec
CONSTANTS
  idle = idle
  t1 = t1
  t2 = t2
  tls1 = tls1
  tls2 = tls2
  Task <- OneTask
  Idle = idle
  Tls <- OneTls
  NoTls = NoTls
  Host = Host
  BadTls = BadTls
  None = None
PROPERTIES
  ResumeReachesUser
  PreemptedWhenDeliverable

SPECIFICATION FairSpec
CONSTANTS
  Sig <- MCSig
  SaRestart <- MCSaRestart
  UserValue <- MCUserValue
  Segv = "b"
  Gates <- MCGates
  LongResult <- MCLongResult
  Low <- MCLow
  MaxFrames = 1
  Masks <- MCMasks
  Period = 1
  Lateness = 1
INVARIANTS
  TypeOK
  RestartsOwnCall
PROPERTIES
  ImplementsInterruptibleCalls
  SignalsArrive
  EventsAreHandled
  SleepersWake

CONSTANTS
  Task = {t1, t2, t3}
  Msecs <- MCMsecs
  MSPERTICK = 20
  Word = 256
SPECIFICATION FairSpec
INVARIANTS TimeTypeOK DeltaEncoding NeverEarly
PROPERTIES ImplementsTimers WaitsEnd

SPECIFICATION FairSpec
CONSTANT Threads = {t1, t2, t3, t4, t5, t6}
INVARIANTS
  TypeOK
  OneToken
  NoLostWakeup
PROPERTIES
  IsMutex
  EveryWaiterEnters

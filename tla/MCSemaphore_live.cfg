CONSTANTS
  Threads = {t1, t2, t3, t4, t5}
  Limit = 2
SPECIFICATION FairSpec
INVARIANTS TypeOK HoldersBounded NoLostWakeup
PROPERTIES WaitersSignalled

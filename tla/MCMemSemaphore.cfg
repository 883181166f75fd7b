\* Four threads, the capacity moving in 1 .. 3, epsilon greedy.
SPECIFICATION FairSpec
CONSTANTS
  Threads = {t1, t2, t3, t4}
  MaxCap = 3
  InitCap = 1
  CtlDelay = 0
  Budget = 0
  MaxTsc = 1
  Policy = "eg"
INVARIANT TypeOK
INVARIANT HoldersCounted
INVARIANT NoStrandedWaiters
INVARIANT WaitersConsistent
INVARIANT QueueDelayCoversAll
PROPERTY GrantWithinCap
PROPERTY FifoService
PROPERTY WaitersServed

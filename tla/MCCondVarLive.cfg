\* Two threads; progress.
SPECIFICATION FairSpec
CONSTANTS
  Threads = {t1, t2}
  NoThread = NoThread
PROPERTY MutexServed
PROPERTY WokenReturns
CHECK_DEADLOCK FALSE

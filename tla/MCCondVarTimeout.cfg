\* A timer that fires before its thread waits.
SPECIFICATION Spec
CONSTANTS
  Threads = {t1, t2}
  NoThread = NoThread
INVARIANT TimeoutNotLost
CHECK_DEADLOCK FALSE

\* Three threads, both kinds of wait, signals and broadcasts.
SPECIFICATION Spec
CONSTANTS
  Threads = {t1, t2, t3}
  NoThread = NoThread
SYMMETRY Symmetry
INVARIANT TypeOK
INVARIANT MutualExclusion
INVARIANT HeldByOne
INVARIANT MutexWaitersKnown
INVARIANT OneWayOut
INVARIANT ArgumentAlive
INVARIANT CvOldestIsFirst
PROPERTY ImplementsLock
CHECK_DEADLOCK FALSE

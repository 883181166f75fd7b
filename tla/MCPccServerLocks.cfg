\* A drained session closes while the controller looks for one to wake.
SPECIFICATION Spec
CONSTANTS
  Sessions = {s1, s2}
  NoSession = NoSession
  Window = 2
  MaxCores = 1
  MaxPool = 2
  QLen = 1
  Closing = TRUE
  Aqm = FALSE
  Drops = FALSE
  Expires = TRUE
  DsCredits = {0}
  Debug = FALSE
  MaxCalls = 8
  MaxLate = 1
SYMMETRY Symmetry
INVARIANT NoLockCycle
CHECK_DEADLOCK FALSE

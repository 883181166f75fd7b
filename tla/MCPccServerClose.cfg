\* Sessions close while they may be drained; asserts are compiled out.
SPECIFICATION Spec
CONSTANTS
  Sessions = {s1, s2}
  NoSession = NoSession
  Window = 2
  MaxCores = 1
  MaxPool = 2
  QLen = 1
  Closing = TRUE
  Aqm = FALSE
  Drops = FALSE
  Expires = TRUE
  DsCredits = {0}
  Debug = FALSE
  MaxCalls = 2
  MaxLate = 1
SYMMETRY Symmetry
INVARIANT TypeOK
INVARIANT DivisorPositive
INVARIANT SenderNotLost
INVARIANT PendingCounted
INVARIANT DrainedCoherent
INVARIANT PendingAccounted
CHECK_DEADLOCK FALSE

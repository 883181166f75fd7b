\* Two sessions, requests are dropped.
SPECIFICATION Spec
CONSTANTS
  Sessions = {s1, s2}
  NoSession = NoSession
  Window = 2
  MaxCores = 1
  MaxPool = 2
  QLen = 1
  Closing = FALSE
  Aqm = TRUE
  Drops = TRUE
  Expires = TRUE
  DsCredits = {0}
  Debug = FALSE
  MaxCalls = 8
  MaxLate = 1
SYMMETRY Symmetry
INVARIANT NeverStalls
CHECK_DEADLOCK FALSE

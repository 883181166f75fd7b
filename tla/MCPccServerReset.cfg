\* The asserts of the last session to close.
SPECIFICATION Spec
CONSTANTS
  Sessions = {s1, s2}
  NoSession = NoSession
  Window = 2
  MaxCores = 1
  MaxPool = 2
  QLen = 1
  Closing = TRUE
  Aqm = FALSE
  Drops = FALSE
  Expires = TRUE
  DsCredits = {0}
  Debug = TRUE
  MaxCalls = 1
  MaxLate = 1
SYMMETRY Symmetry
INVARIANT CreditsReturned
CHECK_DEADLOCK FALSE

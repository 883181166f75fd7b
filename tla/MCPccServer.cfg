\* Two sessions share two credits on one core; the receiver drops requests, and
\* handlers report the credit of a downstream server.
SPECIFICATION Spec
CONSTANTS
  Sessions = {s1, s2}
  NoSession = NoSession
  Window = 3
  MaxCores = 1
  MaxPool = 2
  QLen = 1
  Closing = FALSE
  Aqm = TRUE
  Drops = FALSE
  Expires = FALSE
  DsCredits = {1}
  Debug = FALSE
  MaxCalls = 2
  MaxLate = 1
SYMMETRY Symmetry
INVARIANT DrainedCoherent
INVARIANT CreditsAccounted
CHECK_DEADLOCK FALSE

\* BUG_ON(s->credit > 0) of wakeup_drained_session.
SPECIFICATION Spec
CONSTANTS
  Sessions = {s1, s2}
  NoSession = NoSession
  Window = 3
  MaxCores = 1
  MaxPool = 2
  QLen = 1
  Closing = FALSE
  Aqm = FALSE
  Drops = TRUE
  Expires = TRUE
  DsCredits = {0}
  Debug = FALSE
  MaxCalls = 8
  MaxLate = 1
SYMMETRY Symmetry
INVARIANT NeverWokenWithCredit
CHECK_DEADLOCK FALSE

\* Two requests, sessions that come and go, down to none; deadband.
SPECIFICATION Spec
CONSTANTS
  Requests = {r1, r2}
  MaxCores = 2
  MinSess = 0
  MaxSess = 2
  WindowSize = 2
  PerturbCb = TRUE
  Strict = FALSE
  CompDirs = {"plus", "minus", "stay"}
  MaxCount = 1
SYMMETRY Symmetry
INVARIANT TypeOK
INVARIANT PoolServesCores
INVARIANT DecidesFromKnownPool
INVARIANT ExperimentsInOrder

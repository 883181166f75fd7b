\* Answers to requests of an earlier round.
SPECIFICATION Spec
CONSTANTS
  Requests = {r1, r2}
  MaxCores = 1
  MinSess = 2
  MaxSess = 2
  WindowSize = 2
  PerturbCb = TRUE
  Strict = FALSE
  CompDirs = {"plus", "minus"}
  MaxCount = 2
SYMMETRY Symmetry
INVARIANT AnswersAreItsOwn

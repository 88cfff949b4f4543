SPECIFICATION Spec
CONSTANTS
  Steps = {1}
  Jobs = {2}
  After <- NoAfter
  Paths = {"a", "b"}
  Owners = {"big"}
  Outsiders = {}
  Online = {"big"}
  Scope0 <- ScopesAB
  Owner0 <- OwnersAll
  MaxConcurrent = 2
  May = {}
  None = None
  Runners = {g1, g2}
  Schedulers = {s1}
  Assigners = {}
  Scopers = {}
  Stoppers = {}
  Firers = {}
  Gates = {}
  Starters = {}
SYMMETRY RunnerSymmetry
INVARIANTS NoOverlap

SPECIFICATION FairSpec
CONSTANTS
  Steps = {1}
  Jobs = {2}
  After <- NoAfter
  Paths = {"a", "b"}
  Owners = {"big"}
  Outsiders = {}
  Online = {"big"}
  Scope0 <- ScopesAB
  Owner0 <- OwnersAll
  MaxConcurrent = 1
  May = {"ask", "crash", "panic"}
  None = None
  Runners = {g1}
  Schedulers = {}
  Assigners = {a1}
  Scopers = {}
  Stoppers = {}
  Firers = {}
  Gates = {t1}
  Starters = {}
PROPERTIES AssignReturns 

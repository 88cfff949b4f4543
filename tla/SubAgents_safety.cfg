SPECIFICATION MCSpec
CONSTANTS
  Steps = {1, 2}
  Jobs = {3, 4}
  After <- NoAfter
  Paths = {"a", "b"}
  Owners = {"big", "small"}
  Outsiders = {}
  Online = {"big"}
  Scope0 <- ScopesAB
  Owner0 <- OwnersAll
  MaxConcurrent = 2
  May = {"ask", "stop", "panic", "crash", "edit"}
  None = None
  Runners = {g1, g2}
  Schedulers = {s1}
  Assigners = {a1}
  Scopers = {c1}
  Stoppers = {z1}
  Firers = {f1}
  Gates = {t1}
  Starters = {u1}
SYMMETRY RunnerSymmetry
INVARIANTS TypeOK Reservations Capped MarksMatch NoOverlapOfSteps NoneForgottenUnstopped StoppedIsQuiet HeldIsFree NoOrphanJob
PROPERTIES NoLiveJobClosed

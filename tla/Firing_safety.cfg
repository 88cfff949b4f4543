SPECIFICATION MCSpec
CONSTANTS
  Sessions = {a, b}
  Confirming = {a}
  Recurring = {r}
  Timers = {t}
  Texts = {x, y, z}
  None = None
  Home <- HomeA
  Every <- Every1
  At <- At1
  Begun = {}
  Frequent = {z}
  PauseAfter = 1
  MaxActive = 1
  May = {"crash", "edit", "delete", "offline", "switch", "drop", "esc", "withdraw", "pause", "cancel", "resume", "run", "fail"}
  End = 2
  MaxGen = 1
  MaxLines = 1
INVARIANTS TypeOK RunsOnce
PROPERTIES EventKept 

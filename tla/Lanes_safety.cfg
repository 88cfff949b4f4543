SPECIFICATION FairSpec
CONSTANTS
  Primaries = {p1, p2}
  Subs = {s1, s2}
INVARIANTS TypeOK NoLostWakeup
PROPERTIES PrimaryFirst CancelReturns PrimaryServed

SPECIFICATION MCSpec
CONSTANTS
  ta = ta
  tb = tb
  Terminals = {ta, tb}
  NoCall = NoCall
  Situations <- MCSituations
  MaxKeys = 2
  MaxSize = 2
INVARIANT NoDrift

SPECIFICATION MCSpec
CONSTANTS
  sessA = sessA
  sessB = sessB
  t1 = t1
  s1 = s1
  t2 = t2
  s2 = s2
  t3 = t3
  s3 = s3
  None = None
  Sessions = {sessA, sessB}
  Texts <- MCTexts
  MaxFile = 3
  Bounds <- MCBounds
INVARIANT NothingLost CutLasts SavedOrDirty
SYMMETRY Twins
CHECK_DEADLOCK FALSE
CONSTANT Situations = {1, 2, 3, 4, 5, 6, 7}

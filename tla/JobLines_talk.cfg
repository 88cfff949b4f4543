SPECIFICATION Spec
CONSTANTS
  Jobs = {1}
  Texts = {q1, q2}
  MaxAsks = 2
  EventCap = 2
  Limit = 2
  Repliers = {"main", "operator"}
  None = None
SYMMETRY TextSymmetry
INVARIANTS TypeOK HandedOnce NoDeafWait
PROPERTIES NoticeRead AnswersItsAsk

SPECIFICATION MCSpec
CONSTANTS
  Models = {"a", "b"}
  Conf <- MCConf
  Own <- MCOwn
  Default = 1
  MaxSize = 2
  Situations <- MCSituations
  MaxGen = 3
  MaxRetries = 1
  MaxMeddle = 1
  None = None
INVARIANTS WireSettles TypeOK
PROPERTIES AnswerRules WaitsOut WaitEnds
CHECK_DEADLOCK FALSE

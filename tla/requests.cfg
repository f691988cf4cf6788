SPECIFICATION FairSpec
CONSTANTS
  Keys = {7}
  MaxJudgings = 1
  MaxTd = 2
  MaxConnections = 1
  MaxPushes = 1
  MaxNow = 6
  TicksPerSecond = 2
  kUniqueReqMinInterval = 1
INVARIANTS
  TypeOK
  WaitingIsTimed
  OpenResultsKept
  FinalOnce
PROPERTIES
  EveryFinalHanded
CHECK_DEADLOCK FALSE

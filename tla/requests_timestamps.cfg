SPECIFICATION Spec
CONSTANTS
  Keys = {7}
  MaxJudgings = 1
  MaxTd = 2
  MaxConnections = 1
  MaxPushes = 0
  MaxNow = 5
  TicksPerSecond = 2
  kUniqueReqMinInterval = 1
INVARIANTS
  TimedIsWaiting
CHECK_DEADLOCK FALSE

SPECIFICATION Spec
CONSTANTS
  Problems <- AllProblems
  Usages <- MCUsages
  Outputs <- MCOutputs
  Summaries <- MCSummaries
  Nothing = Nothing
  Unit = 2
  FullPoints = 4
  kMax = 6
  MulNum = 3
  MulDen = 2
  kCpuMargin = 3
  kWallMargin = 6
  kMaxRSS = 10
  kRSSLimitMargin = 2
  kMaxOutput = 4
INVARIANTS
  SentinelUnreachable
  TleMeansTime
  StagesShareLimit
  SkipSparesPassing
PROPERTIES
  VerdictsCovered
CHECK_DEADLOCK FALSE

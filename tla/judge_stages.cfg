SPECIFICATION Spec
CONSTANTS
  Submissions <- AllSubmissions
  MaxPush = 2
  kMaxParallel = 2
  max_queue = 0
  CompileOutcomes = {"ok", "fail", "limit"}
  ExecuteVerdicts = {0, 3}
  JudgeVerdicts = {0, 1, 2}
  SummaryVerdicts = {1}
INVARIANTS
  TypeOK
  ReadyTasksQueued
  SummaryIsLast
  StagesInOrder
  ProgramReady
  StageInputExists
  TdResultsInBounds
  IdleMeansDone
  UnjudgedMeansGroupFailed
  AcceptedMeansAllAccepted
PROPERTIES
  NoStaleReport
CONSTRAINT OneKind
CHECK_DEADLOCK FALSE

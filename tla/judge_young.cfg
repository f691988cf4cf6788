SPECIFICATION Spec
CONSTANTS
  Submissions <- YoungServerSubmissions
  MaxPush = 3
  kMaxParallel = 1
  max_queue = 0
  CompileOutcomes = {"ok"}
  ExecuteVerdicts = {0}
  JudgeVerdicts = {1}
  SummaryVerdicts = {}
PROPERTIES
  NoStaleReport
CHECK_DEADLOCK FALSE

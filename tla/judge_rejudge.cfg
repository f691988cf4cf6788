SPECIFICATION FairSpec
CONSTANTS
  Submissions <- RejudgedSubmissions
  MaxPush = 3
  kMaxParallel = 1
  max_queue = 2
  CompileOutcomes = {"ok", "error"}
  ExecuteVerdicts = {0}
  JudgeVerdicts = {1}
  SummaryVerdicts = {0, 2}
INVARIANTS
  OneJudgingPerSubmission
PROPERTIES
  EveryPushAnswered
  ImplementsService
CHECK_DEADLOCK FALSE

SPECIFICATION FairSpec
CONSTANTS
  Subs = {11, 12, 13}
  kMaxQueue = 2
  waiting_to_queued = TRUE
  MaxLost = 1
INVARIANTS
  TypeOK
  QueueBounded
  AssignedIsAccounted
PROPERTIES
  EverySubmissionJudged

SPECIFICATION FairSpec
CONSTANTS
  Uids = {50001, 50002, 50003}
  Cpus = {0, 1}
  Fds = {3, 4, 5, 6}
  kMaxParallel = 3
  MaxTasks = 4
  MaxFailures = 3
INVARIANTS
  SandboxesApart
  UidAvailable
  HandlesKnown
PROPERTIES
  EveryTaskReturned
CHECK_DEADLOCK FALSE

SPECIFICATION Spec
CONSTANTS
  None = None
  Ids = {1, 2}
  MaxEdits = 4
  MaxMessages = 3
  MaxInterrupts = 1
INVARIANTS
  TypeOK
  AcceptedIsStored
  RetryRepairs
  ScoringPair

SPECIFICATION Spec
CONSTANTS
  None = None
  Ids = {1, 2}
  MaxEdits = 3
  MaxMessages = 3
  MaxInterrupts = 0
INVARIANTS
  NotDownloadedIsThere

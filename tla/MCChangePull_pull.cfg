SPECIFICATION FairSpec
CONSTANTS
  n1 = n1
  n2 = n2
  None = None
  Notes = {n1, n2}
  MaxSyncChanges = 2
  PageLimit = 1
  MaxWrites = 3
  MaxEdits = 1
  MaxRestores = 1
  MaxFailures = 1
INVARIANTS
  CursorCovered
PROPERTIES
  GuardedNotesKept
  NeverBackwards
  Converges
CHECK_DEADLOCK FALSE

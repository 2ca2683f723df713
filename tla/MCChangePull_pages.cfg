SPECIFICATION Spec
CONSTANTS
  n1 = n1
  n2 = n2
  None = None
  Notes = {n1, n2}
  MaxSyncChanges = 4
  PageLimit = 2
  MaxWrites = 4
  MaxEdits = 0
  MaxRestores = 0
  MaxFailures = 0
INVARIANTS
  CommittedBeforeCursor
SYMMETRY NoteSymmetry
CHECK_DEADLOCK FALSE

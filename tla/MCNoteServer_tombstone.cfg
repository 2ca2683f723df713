SPECIFICATION Spec
CONSTANTS
  n1 = n1
  n2 = n2
  c1 = c1
  c2 = c2
  d1 = d1
  d2 = d2
  Absent = Absent
  Direct = Direct
  Notes = {n1, n2}
  Devices = {d1}
  Bodies = {c1, c2}
  Drafts <- TombstoneDrafts
  MaxSyncChanges = 1
  MaxAcknowledgements = 4
  QuarantineAfter = 3
  MaxIssued = 4
  MaxDirect = 0
  MaxRollbacks = 0
  MaxFaults = 0
  MaxCrashes = 0
INVARIANTS
  DeletedNoteConflicts
CHECK_DEADLOCK FALSE

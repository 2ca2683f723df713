SPECIFICATION Spec
CONSTANTS
  n1 = n1
  n2 = n2
  c1 = c1
  c2 = c2
  d1 = d1
  d2 = d2
  Absent = Absent
  Direct = Direct
  Notes = {n1, n2}
  Devices = {d1}
  Bodies = {c1, c2}
  Drafts <- TwoNoteDrafts
  MaxSyncChanges = 2
  MaxAcknowledgements = 4
  QuarantineAfter = 2
  MaxIssued = 3
  MaxDirect = 1
  MaxRollbacks = 0
  MaxFaults = 2
  MaxCrashes = 2
INVARIANTS
  ContentDurable
  OneFileOperationPerNote
  FeedAgreesWithRows
  PinOrderTotal
  ReadsReturnTheirRevision
CHECK_DEADLOCK FALSE

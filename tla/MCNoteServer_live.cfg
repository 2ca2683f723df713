SPECIFICATION FairSpec
CONSTANTS
  n1 = n1
  n2 = n2
  c1 = c1
  c2 = c2
  d1 = d1
  d2 = d2
  Absent = Absent
  Direct = Direct
  Notes = {n1}
  Devices = {d1, d2}
  Bodies = {c1, c2}
  Drafts <- ReviveDrafts
  MaxSyncChanges = 2
  MaxAcknowledgements = 1
  QuarantineAfter = 2
  MaxIssued = 2
  MaxDirect = 0
  MaxRollbacks = 0
  MaxFaults = 1
  MaxCrashes = 1
PROPERTIES
  QueuesDrain

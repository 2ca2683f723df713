SPECIFICATION Spec
CONSTANTS
  n1 = n1
  n2 = n2
  c1 = c1
  c2 = c2
  d1 = d1
  d2 = d2
  Absent = Absent
  Direct = Direct
  Notes = {n1}
  Devices = {d1, d2}
  Bodies = {c1, c2}
  Drafts <- OneNoteDrafts
  MaxSyncChanges = 4
  MaxAcknowledgements = 1
  QuarantineAfter = 2
  MaxIssued = 3
  MaxDirect = 0
  MaxRollbacks = 1
  MaxFaults = 0
  MaxCrashes = 1
INVARIANTS
  ExactlyOnce
  AcknowledgementsTrue
  NoForkedRevision
PROPERTIES
  ImplementsContract
SYMMETRY DeviceSymmetry
CHECK_DEADLOCK FALSE

SPECIFICATION Spec
CONSTANTS
  n1 = n1
  c1 = c1
  Absent = Absent
  Notes = {n1, c1}
  MainNotes = {n1}
  Edits <- TypedAndRemote
  BatchLimit = 2
  MaxTyped = 2
  MaxRemote = 2
  Budgets <- OfflineBudgets
INVARIANTS
  TypeOK
  QueueOrdered
  ResultsMatchQueue
  LocalEditsKept
  RemoteEditsKept
  PendingHasWork
  SettledIsServer
PROPERTIES
  SentStaysAsItWas
  Converges
CHECK_DEADLOCK FALSE

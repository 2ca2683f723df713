SPECIFICATION Spec
CONSTANTS
  t1 = t1
  t2 = t2
  Tabs = {t1, t2}
  Absent = Absent
  MaxEdits = 1
  Budgets <- MCBudgets
CHECK_DEADLOCK FALSE
INVARIANT
  SignInStands

SPECIFICATION FairSpec
CONSTANTS
  Devices = {"d1", "d2"}
  Stored = {"none", "d1"}
  MaxQueue = 1
  MaxRows = 2
  NightGap = 1
  MaxClients = 2
  Budgets <- MCBudgets
INVARIANTS TypeOK InOrder HonestPage
PROPERTIES ServedOnce
CHECK_DEADLOCK FALSE

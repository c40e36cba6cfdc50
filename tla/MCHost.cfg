SPECIFICATION Spec
CONSTANTS
  Modes = {"virtual", "physical"}
  WifiCommands = {"config"}
  Budgets <- MCBudgets
  MaxConns = 2
  QueueCap = 1
  RxCap = 1
INVARIANTS KindOfSlot BytesOfThisThread
PROPERTIES AckOfTheApply SwitchSucceedsOnNewSession ApplyEnds SwitchEnds
CHECK_DEADLOCK FALSE

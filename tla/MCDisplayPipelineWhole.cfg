CONSTANTS
  Areas = {1, 2, 3}
  Redrawn = {2}
  QueueSlots = 2
  FrameIdMod = 2
  DisplayBudgets <- MCNoTrouble
SPECIFICATION Spec
INVARIANT CommittedIsWhole
CHECK_DEADLOCK FALSE

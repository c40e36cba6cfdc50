CONSTANTS
  Areas = {1, 2, 3}
  Redrawn = {2}
  QueueSlots = 2
  FrameIdMod = 2
  DisplayBudgets <- MCOneTrouble
SPECIFICATION Spec
INVARIANT ResyncsAfterGiveUp
CHECK_DEADLOCK FALSE

CONSTANTS
  InputQueueCap = 2
  KeyQueueCap = 1
  HoldReads = 2
  MaxActs = 2
  MaxInputFaults = 0
SPECIFICATION InputSpec
INVARIANT MouseFollows
CHECK_DEADLOCK FALSE

CONSTANTS
  SeqSpace = 8
  MaxWire = 2
  MaxSends = 2
  MaxRequests = 2
  MaxStreams = 0
  MaxTroubles = 3
SPECIFICATION Spec
INVARIANT AcksOfThisSession
CHECK_DEADLOCK FALSE

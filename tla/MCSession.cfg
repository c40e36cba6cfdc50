CONSTANTS
  SeqSpace = 8
  MaxWire = 2
  MaxSends = 2
  MaxRequests = 1
  MaxStreams = 1
  MaxTroubles = 2
SPECIFICATION FairSpec
PROPERTIES SessionRecovers RequestsEnd
CHECK_DEADLOCK FALSE

CONSTANTS
  Areas = {1, 2}
  Redrawn = {1, 2}
  QueueSlots = 1
  FrameIdMod = 2
  DisplayBudgets <- MCDisplayBudgets
  PreviewIds = 8
  MaxSnapshots = 9
  MaxPreviewSessions = 2
  MaxPreviewLosses = 1
  MaxPreviewWire = 2
  InputQueueCap = 2
  KeyQueueCap = 1
  HoldReads = 2
  MaxActs = 4
  MaxInputFaults = 1
  LinkFrameIds = 8
  SeqSpace = 3
  MaxMessageParts = 2
  MaxFrames = 2
  MaxRects = 1
  MaxParts = 2
  MaxControl = 1
  MaxSessions = 1
  MaxFaults = 3
  MaxWire = 3
  ScanRecords = 3
  DefaultRecords = 2
  PictureBytes = 4
  Width = 320
  Height = 240
  Inputs <- MCInputs
  Surveys <- MCSurveys
SPECIFICATION PartsSpec
INVARIANTS WholeWithoutRaces ChainUnbroken Converges NewestIsShown DeviceFollows ClickIsSeen QuietWhenDown PeerReadsWhatWasMeant ScanReportIsTrue
PROPERTIES DeliversFinishedFrames UntouchedFrameCommits
CONSTRAINT NoRaceYet
CHECK_DEADLOCK FALSE

CONSTANTS
  GenMod = 2
  MaxEvents = 2
  MaxCommands = 2
  MaxEndings = 1
  MaxTroubles = 1
  MaxReinit = 2
  MaxCycles = 2
  MaxScenes = 1
  MaxPauses = 1
  MaxStarts = 1
  OledBudgets <- MCOledBudgets
SPECIFICATION PartsSpec
INVARIANTS ScanIsOneThing GenerationAgrees ScansProtected PhaseTellsStation OneTransferAfterPause SceneSurvivesScan
PROPERTIES DisplayComesBack ConnectingEnds OledComesBack
CHECK_DEADLOCK FALSE

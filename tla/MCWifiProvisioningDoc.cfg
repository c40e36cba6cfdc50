CONSTANTS
  GenMod = 2
  MaxEvents = 2
  MaxCommands = 2
  MaxEndings = 1
  MaxTroubles = 1
SPECIFICATION Spec
INVARIANT DeferredIsApplied

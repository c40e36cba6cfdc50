CONSTANTS
  Types = {"uart", "tcp"}
  SyncTypes = {"uart"}
  InitialType = "uart"
  Senders = {s1}
  MaxTransports = 3
  MaxBuffered = 4
  MaxAutoReconnect = 1
  MaxStaDrops = 2
  MaxStaEvents = 2
  MaxPeerDrops = 1
  MaxTcpFaults = 1
  UartSenders = {s1, s2}
  MaxUartFaults = 2
  MaxClients = 2
  MaxSendFails = 2
  PortSenders = {s1, s2}
  MaxPortFaults = 2
  WizardBudgets <- MCWizardBudgets
SPECIFICATION PartsSpec
INVARIANTS GateHolderIsSafe JoinsWithoutGate EndsOldSession NothingFromClosed ClosedTasksGone DriverOutlivesUsers LossIsNoticed ConnectedIsRead WaitIsWatched DoneIsEarned
PROPERTIES SilentAfterShutdown StationIsRetried
CHECK_DEADLOCK FALSE

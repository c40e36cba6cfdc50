\* tcp_transport.cpp:160-162, 186-189 against the code.
CONSTANTS
  MaxAutoReconnect = 1
  MaxStaDrops = 0
  MaxStaEvents = 1
  MaxPeerDrops = 0
  MaxTcpFaults = 0
SPECIFICATION TcpSpec
INVARIANT CloseJoinsTasks
CHECK_DEADLOCK FALSE

---------------------------- MODULE HostTcpTransport ---------------------------
(* pc/src/host_tcp_transport.cpp and SerialWorker::runLoopTcp: the host listens,   *)
(* accepts one device, adopts the transport made of its socket, and pumps until    *)
(* the link is lost.  The worker thread and the transport's RX thread share the    *)
(* transport; the user stops the worker.                                           *)
EXTENDS Naturals

CONSTANTS MaxClients,    \* bound: devices that connect
          MaxSendFails   \* bound: accepts and sends that fail

ASSUME HostTcpBounds == {MaxClients, MaxSendFails} \subseteq Nat

VARIABLES
  hWorker,      \* the worker thread: accept, announce, look, adopt, settle, pump, fatal,
                \* call, close, join, tell, done
  hRx,          \* the RX thread: none, top, select, drop, tell, call
  hConnected, hSock,   \* connected_, sock_ (open or not)
  hState,       \* state_ of the transport
  hCallbacks,   \* its callbacks are set
  transportState,      \* transportState_ of the worker
  hPeer,        \* the device is at the other end
  hStop,        \* stop_, which cancels the listener too
  hMissed,      \* a state callback began while the manager was buffering states
  hClients, hFails

hLink == <<hConnected, hSock, hState, hCallbacks, hPeer>>
hVars == <<hWorker, hRx, hLink, transportState, hStop, hMissed, hClients, hFails>>

HostTcpInit ==
  /\ hWorker = "accept" /\ hRx = "none" /\ hConnected = FALSE /\ hSock = FALSE
  /\ hState = "disconnected" /\ hCallbacks = FALSE /\ transportState = "disconnected"
  /\ hPeer = FALSE /\ hStop = FALSE /\ hMissed = FALSE /\ hClients = 0 /\ hFails = 0

Worker(from, to) == hWorker = from /\ hWorker' = to /\ UNCHANGED <<hStop, hClients, hFails>>
hRest == <<hStop, hClients, hFails>>

\* acceptOne() and attach(): the RX thread runs before Connected is stored.
Accepts ==
  /\ hWorker = "accept" /\ ~hStop /\ hClients < MaxClients /\ hClients' = hClients + 1
  /\ hWorker' = "announce" /\ hRx' = "top" /\ hConnected' = TRUE /\ hSock' = TRUE
  /\ hState' = "disconnected" /\ hCallbacks' = FALSE /\ hPeer' = TRUE /\ hMissed' = FALSE
  /\ UNCHANGED <<transportState, hStop, hFails>>
AcceptFails ==
  /\ hWorker = "accept" /\ hFails < MaxSendFails /\ hFails' = hFails + 1
  /\ UNCHANGED <<hWorker, hRx, hLink, transportState, hStop, hMissed, hClients>>
AcceptCancelled ==
  /\ hStop /\ Worker("accept", "done") /\ UNCHANGED <<hRx, hLink, transportState, hMissed>>
Announces ==
  /\ Worker("announce", "look") /\ hState' = "connected"
  /\ UNCHANGED <<hRx, hConnected, hSock, hCallbacks, transportState, hPeer, hMissed>>

\* adopt() looks, and attaches the callbacks later; the worker looks once more.
AdoptLooks ==
  /\ Worker("look", IF hConnected THEN "adopt" ELSE "close")
  /\ UNCHANGED <<hRx, hLink, transportState, hMissed>>
AdoptAttaches ==
  /\ Worker("adopt", "settle") /\ hCallbacks' = TRUE
  /\ UNCHANGED <<hRx, hConnected, hSock, hState, transportState, hPeer, hMissed>>
\* Mutant of Settles: an adopted transport is taken for connected.
SettlesConnected ==
  /\ Worker("settle", "pump") /\ transportState' = "connected"
  /\ UNCHANGED <<hRx, hLink, hMissed>>
Settles ==
  /\ Worker("settle", "pump")
  /\ transportState' = IF hConnected THEN "connected" ELSE "disconnected"
  /\ UNCHANGED <<hRx, hLink, hMissed>>

\* pumpLoop() ends when the link is lost, or when the user stops the worker.
PumpEnds ==
  /\ hStop \/ transportState # "connected"
  /\ Worker("pump", "close") /\ UNCHANGED <<hRx, hLink, transportState, hMissed>>
SendFatal ==
  /\ hWorker = "pump" /\ hConnected /\ hFails < MaxSendFails /\ hFails' = hFails + 1
  /\ hConnected' = FALSE /\ hWorker' = "fatal"
  /\ UNCHANGED <<hRx, hSock, hState, hCallbacks, transportState, hPeer, hStop, hMissed, hClients>>

\* setState(Disconnected): under the lock, and its callback after it; nothing is told twice.
SetsDisconnected == hState' = "disconnected"
NeedsCall == hState # "disconnected" /\ hCallbacks
FatalTells ==
  /\ Worker("fatal", IF NeedsCall THEN "call" ELSE "pump") /\ SetsDisconnected
  /\ UNCHANGED <<hRx, hConnected, hSock, hCallbacks, transportState, hPeer, hMissed>>
FatalCalls ==
  /\ Worker("call", "pump") /\ transportState' = "disconnected"
  /\ UNCHANGED <<hRx, hLink, hMissed>>

\* close() of the transport: the worker joins the RX thread.
Closes ==
  /\ Worker("close", "join") /\ hConnected' = FALSE /\ hSock' = FALSE
  /\ UNCHANGED <<hRx, hState, hCallbacks, transportState, hPeer, hMissed>>
Joins ==
  /\ hRx = "none" /\ Worker("join", "tell")
  /\ UNCHANGED <<hRx, hLink, transportState, hMissed>>
TellsClosed ==
  /\ Worker("tell", IF hStop THEN "done" ELSE "accept") /\ SetsDisconnected
  /\ transportState' = IF NeedsCall THEN "disconnected" ELSE transportState
  /\ UNCHANGED <<hRx, hConnected, hSock, hCallbacks, hPeer, hMissed>>

\* rxLoop(); close() sets stop_ with the socket.
Rx(from, to) == hRx = from /\ hRx' = to /\ UNCHANGED <<hWorker, hRest>>
HostRxTurns ==
  /\ Rx("top", IF hWorker \in {"join", "tell"} THEN "none"
               ELSE IF hConnected /\ hSock THEN "select" ELSE "top")
  /\ UNCHANGED <<hLink, transportState, hMissed>>
RxReceives ==
  /\ hPeer /\ hSock /\ Rx("select", "top") /\ UNCHANGED <<hLink, transportState, hMissed>>
RxFinds ==
  /\ ~(hPeer /\ hSock) /\ Rx("select", "drop") /\ UNCHANGED <<hLink, transportState, hMissed>>
RxDrops ==
  /\ Rx("drop", "tell") /\ hConnected' = FALSE
  /\ UNCHANGED <<hSock, hState, hCallbacks, transportState, hPeer, hMissed>>
RxTells ==
  /\ Rx("tell", IF NeedsCall THEN "call" ELSE "top") /\ SetsDisconnected
  /\ hMissed' = (hWorker \in {"adopt", "settle"})
  /\ UNCHANGED <<hConnected, hSock, hCallbacks, transportState, hPeer>>
\* A report that began while the manager buffered may stay in the buffer.
RxCalls ==
  /\ Rx("call", "top")
  /\ transportState' \in {"disconnected"} \cup (IF hMissed THEN {transportState} ELSE {})
  /\ UNCHANGED <<hLink, hMissed>>

PeerHangsUp ==
  /\ hPeer /\ hPeer' = FALSE
  /\ UNCHANGED <<hWorker, hRx, hConnected, hSock, hState, hCallbacks, transportState, hMissed, hRest>>
StopsWorker ==
  /\ ~hStop /\ hStop' = TRUE
  /\ UNCHANGED <<hWorker, hRx, hLink, transportState, hMissed, hClients, hFails>>

HostTcpNext ==
  \/ Accepts \/ AcceptFails \/ AcceptCancelled \/ Announces \/ AdoptLooks \/ AdoptAttaches
  \/ Settles \/ PumpEnds \/ SendFatal \/ FatalTells \/ FatalCalls \/ Closes \/ Joins
  \/ TellsClosed
  \/ HostRxTurns \/ RxReceives \/ RxFinds \/ RxDrops \/ RxTells \/ RxCalls
  \/ PeerHangsUp \/ StopsWorker

HostTcpSpec == HostTcpInit /\ [][HostTcpNext]_hVars

-----------------------------------------------------------------------------
\* The worker pumps a link that is lost only while somebody is about to tell it so,
\* whenever the device hung up after it was accepted.
LossIsNoticed ==
  hWorker = "pump" /\ transportState = "connected" /\ ~hConnected => hRx \in {"tell", "call"}

================================================================================

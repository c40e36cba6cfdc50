---------------------------- MODULE HostUartTransport --------------------------
(* pc/src/serial_transport.cpp: one transport from open() to close(), with its RX  *)
(* thread and the threads that send; what the worker does when the port is lost.   *)
EXTENDS Naturals

CONSTANTS PortSenders,     \* threads that send
          MaxPortFaults    \* bound: calls of the system that fail

ASSUME PortBounds == MaxPortFaults \in Nat /\ {"free", "manager"} \cap PortSenders = {}

VARIABLES
  pManager,          \* open() and close(): new, configure, announce, thread, open, join,
                     \* lock, tell, closed, failed
  pHandle,           \* the port is open in the system
  pOpened, pStop,    \* opened_ (with handle_), stopRequested_
  pRx,               \* the RX thread: none, top, read
  pSend,             \* holder of sendMutex_, and what it does: write, fail
  pState, pFaults

pVars == <<pManager, pHandle, pOpened, pStop, pRx, pSend, pState, pFaults>>

Free == [who |-> "free", does |-> "none"]
PortInit ==
  /\ pManager = "new" /\ pHandle = FALSE /\ pOpened = FALSE /\ pStop = FALSE
  /\ pRx = "none" /\ pSend = Free /\ pState = "disconnected" /\ pFaults = 0

PortStep(from, to) == pManager = from /\ pManager' = to
PortFault == pFaults < MaxPortFaults /\ pFaults' = pFaults + 1

PortOpens ==
  /\ PortStep("new", "configure") /\ pHandle' = TRUE /\ pState' = "connecting"
  /\ UNCHANGED <<pOpened, pStop, pRx, pSend, pFaults>>
\* The port cannot be opened or set up.
PortOpenFails ==
  /\ pManager \in {"new", "configure"} /\ PortFault /\ pManager' = "failed"
  /\ pHandle' = FALSE /\ pState' = "error" /\ UNCHANGED <<pOpened, pStop, pRx, pSend>>
PortConfigured ==
  /\ PortStep("configure", "announce") /\ pOpened' = TRUE /\ pStop' = FALSE
  /\ UNCHANGED <<pHandle, pRx, pSend, pState, pFaults>>
PortAnnounces ==
  /\ PortStep("announce", "thread") /\ pState' = "connected"
  /\ UNCHANGED <<pHandle, pOpened, pStop, pRx, pSend, pFaults>>
PortStartsThread ==
  /\ PortStep("thread", "open") /\ pRx' = "top"
  /\ UNCHANGED <<pHandle, pOpened, pStop, pSend, pState, pFaults>>
\* No thread: the handle is taken back under sendMutex_.
PortThreadFails ==
  /\ pSend = Free /\ PortStep("thread", "failed") /\ PortFault
  /\ pHandle' = FALSE /\ pOpened' = FALSE /\ pStop' = TRUE /\ pState' = "error"
  /\ UNCHANGED <<pRx, pSend>>

\* The worker closes, be the port lost or not: it joins the thread, and only then takes
\* the handle away under sendMutex_.
PortStops ==
  /\ PortStep("open", "join") /\ pStop' = TRUE
  /\ UNCHANGED <<pHandle, pOpened, pRx, pSend, pState, pFaults>>
PortJoins ==
  /\ pRx = "none" /\ PortStep("join", "lock")
  /\ UNCHANGED <<pHandle, pOpened, pStop, pRx, pSend, pState, pFaults>>
PortCloses ==
  /\ pSend = Free /\ PortStep("lock", "tell") /\ pOpened' = FALSE /\ pHandle' = FALSE
  /\ UNCHANGED <<pStop, pRx, pSend, pState, pFaults>>
PortTellsClosed ==
  /\ PortStep("tell", "closed") /\ pState' = "disconnected"
  /\ UNCHANGED <<pHandle, pOpened, pStop, pRx, pSend, pFaults>>

\* rxLoop().
PortRxTurns ==
  /\ pRx = "top" /\ pRx' = IF pStop THEN "none" ELSE "read"
  /\ UNCHANGED <<pManager, pHandle, pOpened, pStop, pSend, pState, pFaults>>
PortReads ==
  /\ pRx = "read" /\ pRx' = "top"
  /\ UNCHANGED <<pManager, pHandle, pOpened, pStop, pSend, pState, pFaults>>
\* Mutant of PortReadFails: the thread ends without a word.
PortReadFailsSilently ==
  /\ pRx = "read" /\ pRx' = "none" /\ PortFault
  /\ UNCHANGED <<pManager, pHandle, pOpened, pStop, pSend, pState>>
PortReadFails ==
  /\ pRx = "read" /\ pRx' = "none" /\ PortFault /\ pState' = "error"
  /\ UNCHANGED <<pManager, pHandle, pOpened, pStop, pSend>>

\* send() holds sendMutex_ over the writes, and over the report of a failure.
PortSendBegins(s) ==
  /\ pSend = Free /\ pOpened /\ pState = "connected"
  /\ pSend' = [who |-> s, does |-> "write"]
  /\ UNCHANGED <<pManager, pHandle, pOpened, pStop, pRx, pState, pFaults>>
PortSendEnds ==
  /\ pSend.does = "write" /\ pSend' = Free
  /\ UNCHANGED <<pManager, pHandle, pOpened, pStop, pRx, pState, pFaults>>
PortSendFails ==
  /\ pSend.does = "write" /\ PortFault /\ pSend' = [pSend EXCEPT !.does = "fail"]
  /\ UNCHANGED <<pManager, pHandle, pOpened, pStop, pRx, pState>>
PortTellsError ==
  /\ pSend.does = "fail" /\ pSend' = Free /\ pState' = "error"
  /\ UNCHANGED <<pManager, pHandle, pOpened, pStop, pRx, pFaults>>

PortNext ==
  \/ PortOpens \/ PortOpenFails \/ PortConfigured \/ PortAnnounces \/ PortStartsThread
  \/ PortThreadFails \/ PortStops \/ PortJoins \/ PortCloses \/ PortTellsClosed
  \/ PortRxTurns \/ PortReads \/ PortReadFails
  \/ \E s \in PortSenders : PortSendBegins(s)
  \/ PortSendEnds \/ PortSendFails \/ PortTellsError

-----------------------------------------------------------------------------
\* A port the worker takes for connected is read: a thread that ends with an error is told
\* after Connected, also when it fails at once (serial_transport.cpp:156-158).
PortConnectedIsRead == pManager = "open" /\ pState = "connected" => pRx # "none"

================================================================================

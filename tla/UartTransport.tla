----------------------------- MODULE UartTransport -----------------------------
(* esp32/components/espview/src/uart_transport.cpp: one transport from open() to   *)
(* close(), with its RX task and the threads that send.                            *)
EXTENDS Naturals

CONSTANTS UartSenders,     \* threads that send
          MaxUartFaults    \* bound: calls of the driver or of the system that fail

ASSUME UartBounds == MaxUartFaults \in Nat /\ {"free", "manager"} \cap UartSenders = {}

VARIABLES
  uManager,          \* open() and close(): new, install, task, publish, announce, open,
                     \* stop, join, delete, tell, closed
  uDriver,           \* the driver is installed
  uMutex,            \* holder of driverMutex_
  uOpened, uRunning, \* opened_, rxRunning_
  uRx, uTask,        \* where the RX task is, and rxTask_ (set or not)
  uNotified, uDone,  \* the task's notification, rxFinished_
  uState, uLeaked, uFaults

uVars == <<uManager, uDriver, uMutex, uOpened, uRunning, uRx, uTask, uNotified, uDone,
           uState, uLeaked, uFaults>>

UartInit ==
  /\ uManager = "new" /\ uDriver = FALSE /\ uMutex = "free" /\ uOpened = FALSE
  /\ uRunning = FALSE /\ uRx = "none" /\ uTask = FALSE /\ uNotified = FALSE
  /\ uDone = FALSE /\ uState = "disconnected" /\ uLeaked = FALSE /\ uFaults = 0

uRest == <<uOpened, uRunning, uNotified, uDone, uLeaked>>
UartStep(from, to) == uManager = from /\ uManager' = to
UartFault == uFaults < MaxUartFaults /\ uFaults' = uFaults + 1

UartOpens ==
  /\ uMutex = "free" /\ UartStep("new", "install")
  /\ uMutex' = "manager" /\ uState' = "connecting"
  /\ UNCHANGED <<uDriver, uRx, uTask, uFaults, uRest>>
UartInstalls ==
  /\ UartStep("install", "task") /\ uDriver' = TRUE /\ uRunning' = TRUE
  /\ UNCHANGED <<uMutex, uRx, uTask, uState, uFaults, uOpened, uNotified, uDone, uLeaked>>
\* A step fails, and all is taken back.
UartOpenFails ==
  /\ uManager \in {"install", "task"} /\ UartFault /\ uManager' = "closed"
  /\ uDriver' = FALSE /\ uRunning' = FALSE /\ uMutex' = "free" /\ uState' = "error"
  /\ UNCHANGED <<uRx, uTask, uOpened, uNotified, uDone, uLeaked>>
UartCreatesTask ==
  /\ UartStep("task", "publish") /\ uRx' = "top" /\ uTask' = TRUE
  /\ UNCHANGED <<uDriver, uMutex, uState, uFaults, uRest>>
\* The mutex is released before Connected is told: the callback sends HELLO.
UartPublishes ==
  /\ UartStep("publish", "announce") /\ uOpened' = TRUE /\ uMutex' = "free"
  /\ UNCHANGED <<uDriver, uRx, uTask, uState, uFaults, uRunning, uNotified, uDone, uLeaked>>
UartAnnounces ==
  /\ UartStep("announce", "open") /\ uState' = "connected"
  /\ UNCHANGED <<uDriver, uMutex, uRx, uTask, uFaults, uRest>>

\* close() waits for a send, then for the RX task.
UartStops ==
  /\ uMutex = "free" /\ UartStep("open", "stop")
  /\ uMutex' = "manager" /\ uOpened' = FALSE /\ uRunning' = FALSE
  /\ UNCHANGED <<uDriver, uRx, uTask, uState, uFaults, uNotified, uDone, uLeaked>>
UartNotifies ==
  /\ UartStep("stop", IF uTask THEN "join" ELSE "delete") /\ uNotified' = uTask
  /\ UNCHANGED <<uDriver, uMutex, uRx, uTask, uState, uFaults, uOpened, uRunning, uDone,
                 uLeaked>>
UartJoins ==
  /\ uDone /\ UartStep("join", "delete") /\ uDone' = FALSE
  /\ UNCHANGED <<uDriver, uMutex, uRx, uTask, uState, uFaults, uOpened, uRunning, uNotified,
                 uLeaked>>
\* Mutant of UartJoinTimesOut: the driver is deleted although the task did not end.
UartJoinGivesUp ==
  /\ ~uDone /\ UartStep("join", "delete")
  /\ UNCHANGED <<uDriver, uMutex, uRx, uTask, uState, uFaults, uRest>>
\* The task does not end in time: all it uses is kept.
UartJoinTimesOut ==
  /\ ~uDone /\ UartStep("join", "closed")
  /\ uLeaked' = TRUE /\ uState' = "error" /\ uMutex' = "free"
  /\ UNCHANGED <<uDriver, uRx, uTask, uFaults, uOpened, uRunning, uNotified, uDone>>
UartDeletes ==
  /\ UartStep("delete", "tell") /\ uDriver' = FALSE /\ uTask' = FALSE /\ uMutex' = "free"
  /\ UNCHANGED <<uRx, uState, uFaults, uRest>>
UartTellsClosed ==
  /\ UartStep("tell", "closed") /\ uState' = "disconnected"
  /\ UNCHANGED <<uDriver, uMutex, uRx, uTask, uFaults, uRest>>

\* rxTaskLoop().
uManaged == <<uManager, uDriver, uMutex, uOpened, uRunning, uLeaked>>
UartRxTurns ==
  /\ uRx = "top" /\ uRx' = IF uNotified \/ ~uRunning THEN "unlink" ELSE "read"
  /\ uNotified' = FALSE /\ UNCHANGED <<uManaged, uTask, uDone, uState, uFaults>>
UartReads ==
  /\ uRx = "read" /\ uRx' = "top" /\ UNCHANGED <<uManaged, uTask, uNotified, uDone, uState, uFaults>>
UartReadFails ==
  /\ uRx = "read" /\ uRx' = "unlink" /\ UartFault /\ uState' = "error"
  /\ UNCHANGED <<uManaged, uTask, uNotified, uDone>>
UartRxUnlinks ==
  /\ uRx = "unlink" /\ uRx' = "give" /\ uTask' = FALSE
  /\ UNCHANGED <<uManaged, uNotified, uDone, uState, uFaults>>
UartRxGives ==
  /\ uRx = "give" /\ uRx' = "none" /\ uDone' = TRUE
  /\ UNCHANGED <<uManaged, uTask, uNotified, uState, uFaults>>

\* send() holds the mutex over the write.
UartSendBegins(s) ==
  /\ uMutex = "free" /\ uOpened /\ uState = "connected" /\ uMutex' = s
  /\ UNCHANGED <<uManager, uDriver, uRx, uTask, uState, uFaults, uRest>>
UartSendEnds(s) ==
  /\ uMutex = s /\ uMutex' = "free"
  /\ UNCHANGED <<uManager, uDriver, uRx, uTask, uState, uFaults, uRest>>

UartNext ==
  \/ UartOpens \/ UartInstalls \/ UartOpenFails \/ UartCreatesTask \/ UartPublishes
  \/ UartAnnounces \/ UartStops \/ UartNotifies \/ UartJoins \/ UartJoinTimesOut
  \/ UartDeletes \/ UartTellsClosed
  \/ UartRxTurns \/ UartReads \/ UartReadFails \/ UartRxUnlinks \/ UartRxGives
  \/ \E s \in UartSenders : UartSendBegins(s) \/ UartSendEnds(s)

UartSpec == UartInit /\ [][UartNext]_uVars

-----------------------------------------------------------------------------
\* The driver is there for whoever reads or writes: the RX task between its look at
\* rxRunning_ and the end of its read, and a thread that sends.
DriverOutlivesUsers == uRx = "read" \/ uMutex \in UartSenders => uDriver

================================================================================

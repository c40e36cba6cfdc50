----------------------------- MODULE HostWorker -----------------------------
(* SerialWorker (pc/src/serial_worker.cpp): the host's worker thread, which opens *)
(* the link, pumps the session and sends the window's requests, and the signals  *)
(* it queues for the window.  Status `Connecting' only changes labels and is left *)
(* out, as are statistics, diagnostics, PARTIAL frames and the pictures          *)
(* themselves.  The session's own protocol is module Session; here the endpoint  *)
(* is its state and its one slot for an unanswered request                       *)
(* (ProtocolEndpoint::pendingAck_).                                              *)
EXTENDS Naturals, Sequences, FiniteSets, BoundedQueue

CONSTANTS Modes,         \* the display modes the user may ask for
          WifiCommands,  \* the Wi-Fi commands the wizard may ask for
          Budgets,       \* bounds, one of them for a behaviour: <<requests of the user,
                         \* worker threads started, signals queued for the window>>
          MaxConns,      \* bound: sessions established by a HELLO
          QueueCap,      \* capacity of the request queues (8 and 4 in the code)
          RxCap          \* capacity of the receive buffer, in messages

ASSUME HostBounds ==
  /\ Modes \subseteq {"virtual", "physical", "mirror"} /\ "virtual" \in Modes
  /\ WifiCommands \subseteq {"scan", "config", "clear"}
  /\ Budgets \subseteq Nat \X Nat \X Nat
  /\ {MaxConns, QueueCap, RxCap} \subseteq Nat

VARIABLES
  kind,       \* kind_ of the worker and currentCfg_ of the window: "uart" or "tcp"
  sessionId,  \* sessionId_: the number of the worker thread
  pc,         \* where the worker thread is: starting, bind, open, pump, ending, none
  conn,       \* number of sessions established so far
  link,       \* transportState_: "up" or "down"
  ep,         \* the endpoint's session: "down" or "up"
  rxBuf,      \* rxBuf_: messages received and not yet decoded
  modeQ,      \* displayModeQueue_
  wifiQ,      \* wifiQueue_
  slot,       \* pendingAck_ of the endpoint
  ackKind,    \* pendingAckKind_
  sent,       \* number of requests sent so far
  toGui,      \* signals queued for the window's event loop
  budget      \* the bound of this behaviour, which no action changes

workerVars == <<kind, sessionId, pc, conn, link, ep, rxBuf, modeQ, wifiQ, slot,
                ackKind, sent, toGui>>

Kinds == {"uart", "tcp"}
\* A request is `carried' when it was asked for before the present session began.
NoRequest == [id |-> 0, kind |-> "none", mode |-> "none", carried |-> FALSE]
Request(k, m, c) == [id |-> sent + 1, kind |-> k, mode |-> m, carried |-> c # conn]

StatusOf(sid, s) == [k |-> "status", sid |-> sid, what |-> s]
Status(s) == StatusOf(sessionId, s)
Frame == [k |-> "frame", sid |-> sessionId]
Ack(ok, r) == [k |-> "ack", ok |-> ok, mode |-> r.mode, carried |-> r.carried]
Asked == sent + Len(modeQ) + Len(wifiQ)
InBudget(requests, sessions) == requests <= budget[1] /\ sessions <= budget[2]
Room(n) == Len(toGui) + n <= budget[3]

WorkerInit ==
  /\ kind = "uart" /\ sessionId = 0 /\ pc = "starting" /\ conn = 0
  /\ link = "down" /\ ep = "down" /\ rxBuf = <<>> /\ modeQ = <<>> /\ wifiQ = <<>>
  /\ slot = NoRequest /\ ackKind = "none" /\ sent = 0 /\ toGui = <<>>
  /\ budget \in Budgets

\* The thread enters runLoop and takes its number.
EnterLoop ==
  /\ pc = "starting" /\ sessionId' = sessionId + 1
  /\ pc' = IF kind = "tcp" THEN "bind" ELSE "open"
  /\ UNCHANGED <<kind, conn, link, ep, rxBuf, modeQ, wifiQ, slot, ackKind, sent, toGui>>

\* runLoopTcp binds its port.  A port it cannot bind is reported, and the thread ends.
Bind ==
  /\ pc = "bind" /\ pc' = "open"
  /\ UNCHANGED <<kind, sessionId, conn, link, ep, rxBuf, modeQ, wifiQ, slot, ackKind, sent,
                 toGui>>

BindFails ==
  /\ pc = "bind" /\ Room(1) /\ pc' = "ending"
  /\ toGui' = Append(toGui, Status("Error"))
  /\ UNCHANGED <<kind, sessionId, conn, link, ep, rxBuf, modeQ, wifiQ, slot, ackKind, sent>>

ThreadEnds ==
  /\ pc = "ending" /\ Room(1) /\ pc' = "none"
  /\ toGui' = Append(toGui, Status("Disconnected"))
  /\ UNCHANGED <<kind, sessionId, conn, link, ep, rxBuf, modeQ, wifiQ, slot, ackKind, sent>>

\* The open of the port, or the accept and adopt of a client.  When it fails, Error
\* is reported and the worker tries again after a pause.
Opens ==
  /\ pc = "open" /\ link' = "up" /\ pc' = "pump"
  /\ UNCHANGED <<kind, sessionId, conn, ep, rxBuf, modeQ, wifiQ, slot, ackKind, sent, toGui>>

OpenFails ==
  /\ pc = "open" /\ Room(1) /\ toGui' = Append(toGui, Status("Error"))
  /\ UNCHANGED <<kind, sessionId, pc, conn, link, ep, rxBuf, modeQ, wifiQ, slot, ackKind,
                 sent>>

\* The receive thread: a message of the device (`id' and `ok' are those of an ACK),
\* and the loss of the link.  What rxBuf holds by then stays there.
Receive(what, id, ok) ==
  /\ link = "up"
  /\ rxBuf' = PushNewest(rxBuf, [what |-> what, id |-> id, ok |-> ok, sid |-> sessionId], RxCap)
  /\ UNCHANGED <<kind, sessionId, pc, conn, link, ep, modeQ, wifiQ, slot, ackKind, sent,
                 toGui>>

LinkDrops ==
  /\ link = "up" /\ link' = "down"
  /\ UNCHANGED <<kind, sessionId, pc, conn, ep, rxBuf, modeQ, wifiQ, slot, ackKind, sent,
                 toGui>>

\* onAck and onAckTimeout: the signal is chosen by ackKind, which is cleared.
Answered(ok) ==
  /\ slot' = NoRequest /\ ackKind' = "none"
  /\ toGui' = IF ackKind = "mode" THEN Append(toGui, Ack(ok, slot)) ELSE toGui

\* handleAck: an ACK that is not of the request in the slot is ignored.
TakeAck(m) ==
  IF slot # NoRequest /\ m.id = slot.id THEN Answered(m.ok)
  ELSE UNCHANGED <<slot, ackKind, toGui>>

\* One message of drainAndTick.  A dead session hears nothing but a HELLO.
Decode ==
  /\ pc = "pump" /\ rxBuf # <<>> /\ Room(1)
  /\ rxBuf' = Tail(rxBuf)
  /\ LET m == Head(rxBuf) IN
     \/ /\ m.what = "hello" /\ ep = "down" /\ conn < MaxConns
        /\ ep' = "up" /\ conn' = conn + 1
        /\ toGui' = Append(toGui, Status("Connected"))
        /\ UNCHANGED <<slot, ackKind>>
     \/ /\ (m.what = "hello") <=> (ep = "up")
        /\ UNCHANGED <<conn, ep, slot, ackKind, toGui>>
     \/ /\ m.what = "full" /\ ep = "up"
        /\ toGui' = Append(toGui, Frame)
        /\ UNCHANGED <<conn, ep, slot, ackKind>>
     \/ /\ m.what = "caps" /\ ep = "up"
        /\ toGui' = Append(toGui, [k |-> "caps"])
        /\ UNCHANGED <<conn, ep, slot, ackKind>>
     \/ m.what = "ack" /\ ep = "up" /\ TakeAck(m) /\ UNCHANGED <<conn, ep>>
  /\ UNCHANGED <<kind, sessionId, pc, link, modeQ, wifiQ, sent>>

\* Mutant of PeerSilent: the unanswered request outlives the session.
PeerSilentKeepsRequest ==
  /\ pc = "pump" /\ ep = "up" /\ Room(1)
  /\ ep' = "down" /\ slot' = slot
  /\ toGui' = Append(toGui, Status("Error"))
  /\ UNCHANGED <<kind, sessionId, pc, conn, link, rxBuf, modeQ, wifiQ, ackKind, sent>>
\* tick: the peer is silent for too long, and failSession reports an error.
PeerSilent ==
  /\ pc = "pump" /\ ep = "up" /\ Room(1)
  /\ ep' = "down" /\ slot' = NoRequest
  /\ toGui' = Append(toGui, Status("Error"))
  /\ UNCHANGED <<kind, sessionId, pc, conn, link, rxBuf, modeQ, wifiQ, ackKind, sent>>

\* tick: a request is sent again while it is unanswered (module Session), and
\* given up after the last retry.
GiveUp ==
  /\ pc = "pump" /\ slot # NoRequest /\ Room(1)
  /\ Answered(FALSE)
  /\ UNCHANGED <<kind, sessionId, pc, conn, link, ep, rxBuf, modeQ, wifiQ, sent>>

\* pumpLoop returns: the loss is reported and the session forgotten.
NoticeLoss ==
  /\ pc = "pump" /\ link = "down" /\ Room(1)
  /\ ep' = "down" /\ slot' = NoRequest /\ pc' = "open"
  /\ toGui' = Append(toGui, Status("Disconnected"))
  /\ UNCHANGED <<kind, sessionId, conn, link, rxBuf, modeQ, wifiQ, ackKind, sent>>

\* afterSend: the slot holds the newest request, and ackKind what it asks for.
Register(r) ==
  /\ sent' = sent + 1 /\ slot' = r

\* Mutant of SendMode: the SET_MODE does not register the kind of its answer.
SendModeUnregistered ==
  /\ pc = "pump" /\ modeQ # <<>>
  /\ modeQ' = Tail(modeQ)
  /\ IF ep = "up"
     THEN /\ Register(Request("mode", Head(modeQ).mode, Head(modeQ).conn))
          /\ UNCHANGED ackKind
     ELSE UNCHANGED <<slot, ackKind, sent>>
  /\ UNCHANGED <<kind, sessionId, pc, conn, link, ep, rxBuf, wifiQ, toGui>>
\* drainDisplayModeQueue: without a session the mode is dropped and nobody told.
SendMode ==
  /\ pc = "pump" /\ modeQ # <<>>
  /\ modeQ' = Tail(modeQ)
  /\ IF ep = "up"
     THEN /\ Register(Request("mode", Head(modeQ).mode, Head(modeQ).conn))
          /\ ackKind' = "mode"
     ELSE UNCHANGED <<slot, ackKind, sent>>
  /\ UNCHANGED <<kind, sessionId, pc, conn, link, ep, rxBuf, wifiQ, toGui>>

\* drainWifiQueue: the same, and credentials only go over the UART.
SendWifi ==
  /\ pc = "pump" /\ wifiQ # <<>>
  /\ wifiQ' = Tail(wifiQ)
  /\ IF ep = "up" /\ (Head(wifiQ) = "config" => kind = "uart")
     THEN /\ Register(Request(Head(wifiQ), "none", conn))
          /\ ackKind' = Head(wifiQ)
     ELSE UNCHANGED <<slot, ackKind, sent>>
  /\ UNCHANGED <<kind, sessionId, pc, conn, link, ep, rxBuf, modeQ, toGui>>

\* What stop() and join leave: the thread's teardown, and its last signal.
Stopped == IF pc = "none" THEN toGui ELSE Append(toGui, Status("Disconnected"))

\* Mutant of SwitchTransport: the old link's bytes are kept.
SwitchTransportKeepsBytes(k) ==
  /\ pc # "starting"
  /\ toGui' = Stopped /\ kind' = k /\ pc' = "starting" /\ link' = "down" /\ ep' = "down"
  /\ modeQ' = <<>> /\ wifiQ' = <<>> /\ slot' = NoRequest
  /\ UNCHANGED <<sessionId, conn, rxBuf, ackKind, sent>>
\* switchTransport, on the window's thread: stop and join, clear what the old
\* session left, start.  pendingAckKind_ is left as it is.
SwitchTransport(k) ==
  /\ pc # "starting"
  /\ toGui' = Stopped /\ kind' = k /\ pc' = "starting" /\ link' = "down" /\ ep' = "down"
  /\ rxBuf' = <<>> /\ modeQ' = <<>> /\ wifiQ' = <<>> /\ slot' = NoRequest
  /\ UNCHANGED <<sessionId, conn, ackKind, sent>>

WorkerRuns ==
  \/ EnterLoop \/ Bind \/ BindFails \/ ThreadEnds \/ Opens \/ OpenFails \/ Decode \/ GiveUp \/ NoticeLoss \/ SendMode \/ SendWifi

Surroundings ==
  \/ \E what \in {"hello", "caps", "full"} : Receive(what, 0, TRUE)
  \/ \E id \in 1..sent, ok \in BOOLEAN : Receive("ack", id, ok)
  \/ LinkDrops \/ PeerSilent

=============================================================================

------------------------------ MODULE HostProofs ------------------------------
(***************************************************************************)
(* The worker and the window of the host, for any number of requests,      *)
(* sessions, worker threads and signals, and queues of any length: nothing *)
(* of an old thread is taken for the present one's.                        *)
(***************************************************************************)
EXTENDS HostWindow, SequenceLemmas, SequenceTheorems, FiniteSetTheorems, TLAPS

Bytes == [what : {"hello", "caps", "full", "ack"}, id : Int, ok : BOOLEAN, sid : Nat]

\* A thread has a number as soon as it runs, and no link before.
ThreadNumbered ==
    /\ sessionId \in Nat
    /\ pc # "starting" => sessionId # 0
    /\ pc = "starting" => rxBuf = <<>> /\ link = "down"

RxTyped == rxBuf \in Seq(Bytes)

\* What is queued for the window, whatever its signals carry; a frame has the number of
\* the thread that decoded it.
FramesNumbered == \A i \in DOMAIN toGui : toGui[i].k = "frame" => toGui[i].sid # 0
SignalsOK == IsSeq(toGui) /\ FramesNumbered

\* From beginSwitch on the gate is open or follows the thread that the switch starts, unless
\* a Connected of the old one was taken in between.
GateOfSwitch ==
    /\ dwell # <<>> /\ ~misled => session = 0
    /\ awaitFull /\ ~misled => session = 0 \/ (session = sessionId /\ pc # "starting")

HostInv ==
    ThreadNumbered /\ RxTyped /\ BytesOfThisThread /\ SignalsOK /\ GateOfSwitch /\ KindOfSlot

-----------------------------------------------------------------------------
(* The signals queued for the window.                                      *)

\* A signal that is no frame, or a frame of a numbered thread, may be queued.
LEMMA SignalQueued ==
    ASSUME SignalsOK, NEW e, e.k = "frame" => e.sid # 0, toGui' = Append(toGui, e)
    PROVE  SignalsOK'
BY AppendKeeps DEF SignalsOK, FramesNumbered

LEMMA SignalTaken ==
    ASSUME SignalsOK, toGui # <<>>, toGui' = Tail(toGui)
    PROVE  SignalsOK'
BY TailKeeps DEF SignalsOK, FramesNumbered

LEMMA SignalsKept == ASSUME SignalsOK, UNCHANGED toGui PROVE SignalsOK'
BY DEF SignalsOK, FramesNumbered

-----------------------------------------------------------------------------
(* Initially, and at each step.                                            *)

LEMMA HostInitial == Init => HostInv
<1> SUFFICES ASSUME Init PROVE HostInv
    OBVIOUS
<1>1. IsSeq(<<>>)
  <2>1. <<>> \in Seq({}) OBVIOUS
  <2> QED BY <2>1 DEF IsSeq
<1> QED
    BY <1>1 DEF Init, WorkerInit, HostInv, ThreadNumbered, RxTyped, BytesOfThisThread, SignalsOK,
       FramesNumbered, GateOfSwitch, KindOfSlot

LEMMA ReceivePreserves ==
    ASSUME HostInv, UNCHANGED windowVars,
           NEW what \in {"hello", "caps", "full", "ack"}, NEW id \in Int, NEW ok \in BOOLEAN,
           Receive(what, id, ok)
    PROVE  HostInv'
<1> DEFINE m == [what |-> what, id |-> id, ok |-> ok, sid |-> sessionId]
<1>1. SignalsOK' BY SignalsKept DEF Receive, HostInv
<1>2. GateOfSwitch' /\ KindOfSlot' BY DEF Receive, HostInv, GateOfSwitch, KindOfSlot, windowVars
<1>3. pc # "starting" /\ m \in Bytes BY DEF Receive, HostInv, ThreadNumbered, Bytes
<1>4. rxBuf' = rxBuf \/ rxBuf' = Append(rxBuf, m) BY DEF Receive, PushNewest
<1>5. RxTyped' BY <1>3, <1>4 DEF HostInv, RxTyped
<1>6. BytesOfThisThread'
    BY <1>3, <1>4 DEF Receive, HostInv, RxTyped, BytesOfThisThread
<1>7. ThreadNumbered' BY <1>3 DEF Receive, HostInv, ThreadNumbered
<1> QED BY <1>1, <1>2, <1>5, <1>6, <1>7 DEF HostInv

\* A message less in the receive buffer leaves those of this session.
LEMMA RxTaken ==
    ASSUME RxTyped, BytesOfThisThread, rxBuf # <<>>, rxBuf' = Tail(rxBuf), UNCHANGED sessionId
    PROVE  RxTyped' /\ BytesOfThisThread'
BY DEF RxTyped, BytesOfThisThread

LEMMA DecodePreserves == ASSUME HostInv, UNCHANGED windowVars, Decode PROVE HostInv'
<1>1. RxTyped' /\ BytesOfThisThread' BY RxTaken DEF Decode, HostInv
<1>2. ThreadNumbered' BY DEF Decode, HostInv, ThreadNumbered
<1>3. GateOfSwitch' BY DEF Decode, HostInv, GateOfSwitch, windowVars
<1>4. \/ UNCHANGED toGui
      \/ \E e \in {Status("Connected"), Frame, [k |-> "caps"], Ack(TRUE, slot), Ack(FALSE, slot)} :
            toGui' = Append(toGui, e)
  <2>1. Head(rxBuf) \in Bytes BY DEF Decode, HostInv, RxTyped
  <2>2. Head(rxBuf).ok \in BOOLEAN BY <2>1 DEF Bytes
  <2> QED BY <2>2 DEF Decode, TakeAck, Answered
<1>5. sessionId # 0 BY DEF Decode, HostInv, ThreadNumbered
<1>6. SignalsOK'
  <2>1. CASE UNCHANGED toGui BY <2>1, SignalsKept DEF HostInv
  <2>2. CASE toGui' = Append(toGui, Status("Connected"))
      BY <2>2, SignalQueued DEF HostInv, Status, StatusOf
  <2>3. CASE toGui' = Append(toGui, Frame) BY <2>3, <1>5, SignalQueued DEF HostInv, Frame
  <2>4. CASE toGui' = Append(toGui, [k |-> "caps"]) BY <2>4, SignalQueued DEF HostInv
  <2>5. CASE \E ok \in BOOLEAN : toGui' = Append(toGui, Ack(ok, slot))
    <3>1. PICK ok \in BOOLEAN : toGui' = Append(toGui, Ack(ok, slot)) BY <2>5
    <3> QED BY <3>1, SignalQueued DEF HostInv, Ack
  <2> QED BY <1>4, <2>1, <2>2, <2>3, <2>4, <2>5
<1>7. KindOfSlot' BY DEF Decode, TakeAck, Answered, HostInv, KindOfSlot
<1> QED BY <1>1, <1>2, <1>3, <1>6, <1>7 DEF HostInv

LEMMA WorkerPreserves ==
    ASSUME HostInv, UNCHANGED windowVars, WorkerRuns \/ LinkDrops \/ PeerSilent
    PROVE  HostInv'
<1> DEFINE Others == ThreadNumbered /\ RxTyped /\ BytesOfThisThread /\ GateOfSwitch /\ KindOfSlot
<1> USE DEF windowVars
<1>1. CASE EnterLoop
  <2>1. SignalsOK' BY <1>1, SignalsKept DEF EnterLoop, HostInv
  <2>2. Others'
      BY <1>1 DEF EnterLoop, HostInv, ThreadNumbered, RxTyped, BytesOfThisThread, GateOfSwitch,
                  KindOfSlot
  <2> QED BY <2>1, <2>2 DEF HostInv
<1>2. CASE Bind
  <2>1. SignalsOK' BY <1>2, SignalsKept DEF Bind, HostInv
  <2>2. Others'
      BY <1>2 DEF Bind, HostInv, ThreadNumbered, RxTyped, BytesOfThisThread, GateOfSwitch,
                  KindOfSlot
  <2> QED BY <2>1, <2>2 DEF HostInv
<1>3. CASE Opens
  <2>1. SignalsOK' BY <1>3, SignalsKept DEF Opens, HostInv
  <2>2. Others'
      BY <1>3 DEF Opens, HostInv, ThreadNumbered, RxTyped, BytesOfThisThread, GateOfSwitch,
                  KindOfSlot
  <2> QED BY <2>1, <2>2 DEF HostInv
<1>4. CASE LinkDrops
  <2>1. SignalsOK' BY <1>4, SignalsKept DEF LinkDrops, HostInv
  <2>2. Others'
      BY <1>4 DEF LinkDrops, HostInv, ThreadNumbered, RxTyped, BytesOfThisThread, GateOfSwitch,
                  KindOfSlot
  <2> QED BY <2>1, <2>2 DEF HostInv
<1>5. CASE SendMode
  <2>1. SignalsOK' BY <1>5, SignalsKept DEF SendMode, HostInv
  <2>2. Others'
      BY <1>5 DEF SendMode, HostInv, ThreadNumbered, RxTyped, BytesOfThisThread, GateOfSwitch,
                  KindOfSlot, Register, Request
  <2> QED BY <2>1, <2>2 DEF HostInv
<1>6. CASE SendWifi
  <2>1. SignalsOK' BY <1>6, SignalsKept DEF SendWifi, HostInv
  <2>2. Others'
      BY <1>6 DEF SendWifi, HostInv, ThreadNumbered, RxTyped, BytesOfThisThread, GateOfSwitch,
                  KindOfSlot, Register, Request
  <2> QED BY <2>1, <2>2 DEF HostInv
<1>7. CASE BindFails
  <2>1. SignalsOK' BY <1>7, SignalQueued DEF BindFails, HostInv, Status, StatusOf
  <2>2. Others'
      BY <1>7 DEF BindFails, HostInv, ThreadNumbered, RxTyped, BytesOfThisThread, GateOfSwitch,
                  KindOfSlot
  <2> QED BY <2>1, <2>2 DEF HostInv
<1>8. CASE ThreadEnds
  <2>1. SignalsOK' BY <1>8, SignalQueued DEF ThreadEnds, HostInv, Status, StatusOf
  <2>2. Others'
      BY <1>8 DEF ThreadEnds, HostInv, ThreadNumbered, RxTyped, BytesOfThisThread, GateOfSwitch,
                  KindOfSlot
  <2> QED BY <2>1, <2>2 DEF HostInv
<1>9. CASE OpenFails
  <2>1. SignalsOK' BY <1>9, SignalQueued DEF OpenFails, HostInv, Status, StatusOf
  <2>2. Others'
      BY <1>9 DEF OpenFails, HostInv, ThreadNumbered, RxTyped, BytesOfThisThread, GateOfSwitch,
                  KindOfSlot
  <2> QED BY <2>1, <2>2 DEF HostInv
<1>10. CASE NoticeLoss
  <2>1. SignalsOK' BY <1>10, SignalQueued DEF NoticeLoss, HostInv, Status, StatusOf
  <2>2. Others'
      BY <1>10 DEF NoticeLoss, HostInv, ThreadNumbered, RxTyped, BytesOfThisThread, GateOfSwitch,
                  KindOfSlot
  <2> QED BY <2>1, <2>2 DEF HostInv
<1>11. CASE PeerSilent
  <2>1. SignalsOK' BY <1>11, SignalQueued DEF PeerSilent, HostInv, Status, StatusOf
  <2>2. Others'
      BY <1>11 DEF PeerSilent, HostInv, ThreadNumbered, RxTyped, BytesOfThisThread, GateOfSwitch,
                  KindOfSlot
  <2> QED BY <2>1, <2>2 DEF HostInv
<1>12. CASE GiveUp
  <2>1. SignalsOK'
    <3>1. CASE UNCHANGED toGui BY <3>1, SignalsKept DEF HostInv
    <3>2. CASE toGui' = Append(toGui, Ack(FALSE, slot)) BY <3>2, SignalQueued DEF HostInv, Ack
    <3> QED BY <1>12, <3>1, <3>2 DEF GiveUp, Answered
  <2>2. Others'
      BY <1>12 DEF GiveUp, Answered, HostInv, ThreadNumbered, RxTyped, BytesOfThisThread,
                  GateOfSwitch, KindOfSlot
  <2> QED BY <2>1, <2>2 DEF HostInv
<1> QED
    BY <1>1, <1>2, <1>3, <1>4, <1>5, <1>6, <1>7, <1>8, <1>9, <1>10, <1>11, <1>12, DecodePreserves
    DEF WorkerRuns

\* The steps of the window that leave the worker and the gate of a switch alone.
LEMMA SignalHandled ==
    ASSUME HostInv, WorkerKeeps, UNCHANGED <<sessionId, pc, rxBuf, link, slot, ackKind>>, SignalsOK',
           GateOfSwitch'
    PROVE  HostInv'
BY DEF HostInv, ThreadNumbered, RxTyped, BytesOfThisThread, KindOfSlot

LEMMA WindowPreserves ==
    ASSUME HostInv, User \/ TakeSignal \/ Watchdogs
    PROVE  HostInv'
<1> USE DEF GateOfSwitch
<1>1. CASE OnStatusConnected
  <2>1. SignalsOK' BY <1>1, SignalTaken DEF OnStatusConnected, HostInv, Takes
  <2>2. GateOfSwitch' BY <1>1 DEF OnStatusConnected, WorkerKeeps, HostInv, Takes, Stale
  <2> QED BY <1>1, <2>1, <2>2, SignalHandled DEF OnStatusConnected, WorkerKeeps
<1>2. CASE OnStatusLost
  <2>1. SignalsOK' BY <1>2, SignalTaken DEF OnStatusLost, HostInv, Takes
  <2>2. GateOfSwitch' BY <1>2 DEF OnStatusLost, WorkerKeeps, HostInv, Takes
  <2> QED BY <1>2, <2>1, <2>2, SignalHandled DEF OnStatusLost, WorkerKeeps
<1>3. CASE DropStale
  <2>1. SignalsOK' BY <1>3, SignalTaken DEF DropStale, HostInv, Takes
  <2>2. GateOfSwitch' BY <1>3 DEF DropStale, WorkerKeeps, HostInv, Takes, windowVars
  <2> QED BY <1>3, <2>1, <2>2, SignalHandled DEF DropStale, WorkerKeeps
<1>4. CASE OnFrameReady
  <2>1. SignalsOK' BY <1>4, SignalTaken DEF OnFrameReady, HostInv, Takes
  <2>2. GateOfSwitch' BY <1>4 DEF OnFrameReady, WorkerKeeps, HostInv, Takes
  <2> QED BY <1>4, <2>1, <2>2, SignalHandled DEF OnFrameReady, WorkerKeeps
<1>5. CASE OnCapabilities
  <2>1. SignalsOK' BY <1>5, SignalTaken DEF OnCapabilities, HostInv, Takes
  <2>2. GateOfSwitch' BY <1>5 DEF OnCapabilities, WorkerKeeps, HostInv, Takes
  <2> QED BY <1>5, <2>1, <2>2, SignalHandled DEF OnCapabilities, WorkerKeeps
<1>6. CASE OnDisplayModeAck
  <2>1. SignalsOK' BY <1>6, SignalTaken DEF OnDisplayModeAck, HostInv, Takes
  <2>2. GateOfSwitch' BY <1>6 DEF OnDisplayModeAck, WorkerKeeps, HostInv, Takes
  <2> QED BY <1>6, <2>1, <2>2, SignalHandled DEF OnDisplayModeAck, WorkerKeeps
<1>7. CASE ModeAckTimeout
  <2>1. SignalsOK' BY <1>7, SignalsKept DEF ModeAckTimeout, HostInv
  <2>2. GateOfSwitch' BY <1>7 DEF ModeAckTimeout, WorkerKeeps, HostInv
  <2> QED BY <1>7, <2>1, <2>2, SignalHandled DEF ModeAckTimeout, WorkerKeeps
<1>8. CASE ModeFullTimeout
  <2>1. SignalsOK' BY <1>8, SignalsKept DEF ModeFullTimeout, HostInv
  <2>2. GateOfSwitch' BY <1>8 DEF ModeFullTimeout, WorkerKeeps, HostInv
  <2> QED BY <1>8, <2>1, <2>2, SignalHandled DEF ModeFullTimeout, WorkerKeeps
<1>9. CASE SwitchTimeout
  <2>1. SignalsOK' BY <1>9, SignalsKept DEF SwitchTimeout, HostInv
  <2>2. GateOfSwitch' BY <1>9 DEF SwitchTimeout, WorkerKeeps, HostInv, AbortSwitch
  <2> QED BY <1>9, <2>1, <2>2, SignalHandled DEF SwitchTimeout, WorkerKeeps
<1>10. ASSUME NEW m \in Modes, SelectAndApply(m) PROVE HostInv'
  <2>1. SignalsOK' BY <1>10, SignalsKept DEF SelectAndApply, HostInv
  <2>2. GateOfSwitch' BY <1>10 DEF SelectAndApply, WorkerKeeps, HostInv, windowVars
  <2> QED BY <1>10, <2>1, <2>2, SignalHandled DEF SelectAndApply, WorkerKeeps
<1>11. ASSUME NEW c \in WifiCommands, AskWifi(c) PROVE HostInv'
  <2>1. SignalsOK' BY <1>11, SignalsKept DEF AskWifi, HostInv
  <2>2. GateOfSwitch' BY <1>11 DEF AskWifi, WorkerKeeps, HostInv, windowVars
  <2> QED
      BY <1>11, <2>1, <2>2 DEF AskWifi, HostInv, ThreadNumbered, RxTyped, BytesOfThisThread, KindOfSlot
<1>12. ASSUME NEW k \in Kinds, ApplyTransport(k) PROVE HostInv'
  <2>1. SignalsOK' BY <1>12, SignalsKept DEF ApplyTransport, HostInv
  <2>2. GateOfSwitch' BY <1>12 DEF ApplyTransport, WorkerKeeps, HostInv, windowVars
  <2> QED BY <1>12, <2>1, <2>2, SignalHandled DEF ApplyTransport, WorkerKeeps
<1> QED
    BY <1>1, <1>2, <1>3, <1>4, <1>5, <1>6, <1>7, <1>8, <1>9, <1>10, <1>11, <1>12
    DEF User, TakeSignal, Watchdogs

LEMMA SwitchPreserves == ASSUME HostInv, BeginSwitchEnds PROVE HostInv'
<1>1. PICK k : SwitchTransport(k) BY DEF BeginSwitchEnds
<1>2. SignalsOK'
  <2>1. CASE UNCHANGED toGui BY <2>1, SignalsKept DEF HostInv
  <2>2. CASE toGui' = Append(toGui, Status("Disconnected"))
      BY <2>2, SignalQueued DEF HostInv, Status, StatusOf
  <2> QED BY <1>1, <2>1, <2>2 DEF SwitchTransport, Stopped
<1>3. RxTyped' /\ BytesOfThisThread' /\ ThreadNumbered' /\ KindOfSlot'
    BY <1>1 DEF SwitchTransport, HostInv, RxTyped, BytesOfThisThread, ThreadNumbered, KindOfSlot
<1>4. GateOfSwitch' BY <1>1 DEF BeginSwitchEnds, SwitchTransport, HostInv, GateOfSwitch
<1> QED BY <1>2, <1>3, <1>4 DEF HostInv

LEMMA HostPreserved ==
    HostInv /\ [Next /\ UNCHANGED budget]_<<vars, budget>> => HostInv'
<1> SUFFICES ASSUME HostInv, [Next /\ UNCHANGED budget]_<<vars, budget>> PROVE HostInv'
    OBVIOUS
<1>1. CASE UNCHANGED vars
      BY <1>1 DEF vars, workerVars, windowVars, HostInv, ThreadNumbered, RxTyped,
                  BytesOfThisThread, SignalsOK, FramesNumbered, GateOfSwitch, KindOfSlot
<1>2. CASE Surroundings /\ UNCHANGED windowVars
  <2>1. ASSUME NEW what \in {"hello", "caps", "full"}, Receive(what, 0, TRUE) PROVE HostInv'
    <3>1. what \in {"hello", "caps", "full", "ack"} /\ 0 \in Int /\ TRUE \in BOOLEAN OBVIOUS
    <3> HIDE DEF HostInv
    <3> QED BY <1>2, <2>1, <3>1, ReceivePreserves
  <2>2. ASSUME NEW id \in 1..sent, NEW ok \in BOOLEAN, Receive("ack", id, ok) PROVE HostInv'
      BY <1>2, <2>2, ReceivePreserves
  <2> QED BY <1>2, <2>1, <2>2, WorkerPreserves DEF Surroundings
<1>3. CASE WorkerRuns /\ UNCHANGED windowVars BY <1>3, WorkerPreserves
<1> QED BY <1>1, <1>2, <1>3, WindowPreserves, SwitchPreserves DEF Next

-----------------------------------------------------------------------------
(* The properties.                                                         *)

LEMMA HostInvariant == Spec => []HostInv
<1> QED BY HostInitial, HostPreserved, PTL DEF Spec

\* No byte of an old worker thread is left for the sessions of a new one
\* (SerialWorker::switchTransport).  Of a link that comes back within one thread it says
\* nothing: the code keeps the bytes then.
THEOREM OldBytesGone == Spec => []BytesOfThisThread
<1>1. HostInv => BytesOfThisThread BY DEF HostInv
<1> QED BY <1>1, HostInvariant, PTL

\* An answer is reported as one to the request that waits in the slot
\* (pendingAckKind_ of SerialWorker).
THEOREM AnswersNamed == Spec => []KindOfSlot
<1>1. HostInv => KindOfSlot BY DEF HostInv
<1> QED BY <1>1, HostInvariant, PTL

\* A switch ends in success on a frame of the thread it started (MainWindow::beginSwitch,
\* onFrameReady, onStatusChanged).
THEOREM SwitchEndsOnNewThread == Spec => SwitchSucceedsOnNewSession
<1>1. HostInv /\ OnFrameReady /\ awaitFull /\ ~awaitFull' => signal.sid = sessionId \/ misled
  <2> SUFFICES ASSUME HostInv, OnFrameReady, awaitFull, ~awaitFull', ~misled
               PROVE  signal.sid = sessionId
      OBVIOUS
  <2>1. signal.sid = session BY DEF OnFrameReady, FramePasses
  <2>2. signal.sid # 0
      BY TailKeeps DEF OnFrameReady, Takes, HostInv, SignalsOK, FramesNumbered, signal
  <2> QED BY <2>1, <2>2 DEF HostInv, GateOfSwitch
<1> QED BY <1>1, HostInvariant, PTL DEF SwitchSucceedsOnNewSession

-----------------------------------------------------------------------------
(* Every Apply gets its own acknowledgement.                               *)

IsUp(e) == e.k = "status" /\ e.what = "Connected"
IsLoss(e) == e.k = "status" /\ e.what # "Connected"

\* A request is live, in the queue, in the slot or as its acknowledgement, if it was made in
\* the session it is or will be sent in.
QueuedLive(i) == ep = "up" /\ modeQ[i].conn = conn
SlotLive == slot.kind = "mode" /\ ~slot.carried
AckLive(i) == toGui[i].k = "ack" /\ ~toGui[i].carried
NoAckLive == \A i \in DOMAIN toGui : ~AckLive(i)
NoneLive == (\A i \in DOMAIN modeQ : ~QueuedLive(i)) /\ ~SlotLive /\ NoAckLive

\* The selector's model has its fields, and what an answer, a loss, a session and an Apply
\* make of the Apply in flight.
UiFields == {"selected", "applied", "sent", "available", "connected", "switching", "fullPending",
             "applyEnabled", "waiting", "interrupted"}
UiShape(s) == DOMAIN s = UiFields
SameApply(r, s) == UiShape(r) /\ (r.switching <=> s.switching) /\ r.sent = s.sent
NoApply(r) == UiShape(r) /\ ~r.switching

SessionShape ==
    /\ IsSeq(modeQ) /\ conn \in Nat /\ ep \in {"up", "down"}
    /\ ep = "up" => pc = "pump"
    /\ ep = "down" => slot = NoRequest
    /\ \A i \in DOMAIN modeQ : modeQ[i].conn \in Int /\ modeQ[i].conn <= conn
    /\ UiShape(ui) /\ (ui.applyEnabled => ~ui.switching)

\* The window has taken all that was told of the session before a live request was made.
NoStatus == \A i \in DOMAIN toGui : toGui[i].k # "status"
StatusOrder ==
    /\ ep = "up" => \A i \in DOMAIN toGui : IsLoss(toGui[i]) =>
                       \E j \in DOMAIN toGui : j > i /\ IsUp(toGui[j])
    /\ \A i \in DOMAIN modeQ : QueuedLive(i) => NoStatus
    /\ SlotLive => NoStatus
    /\ \A i \in DOMAIN toGui : AckLive(i) => \A j \in 1..i : toGui[j].k # "status"

\* One request at most is live, and it is that of the Apply in flight.
OneLive ==
    /\ \A i \in DOMAIN modeQ : QueuedLive(i) =>
          /\ ui.switching /\ modeQ[i].mode = ui.sent /\ ~SlotLive /\ NoAckLive
          /\ \A j \in DOMAIN modeQ : QueuedLive(j) => j = i
    /\ SlotLive => ui.switching /\ slot.mode = ui.sent /\ NoAckLive
    /\ \A i \in DOMAIN toGui : AckLive(i) =>
          /\ ui.switching /\ toGui[i].mode = ui.sent
          /\ \A j \in DOMAIN toGui : AckLive(j) => j = i

AnswersInv == SessionShape /\ StatusOrder /\ (~shifted => OneLive)

-----------------------------------------------------------------------------
(* The selector's model.                                                   *)

LEMMA UiAck ==
    ASSUME NEW s, UiShape(s), s.switching, NEW ok
    PROVE  /\ NoApply(OnAck(s, ok))
           /\ ok => OnAck(s, ok).applied = s.sent
<1>1. PICK v : v = (ok /\ ExpectsFull(s.sent)) OBVIOUS
<1>2. PICK a : a = IF ok THEN s.sent ELSE s.applied OBVIOUS
<1>3. PICK b : b = IF ok THEN s.selected ELSE s.applied OBVIOUS
<1>4. PICK r : r = [s EXCEPT !.interrupted = FALSE, !.switching = FALSE, !.applyEnabled = TRUE,
                 !.applied = a, !.fullPending = v, !.selected = b] OBVIOUS
<1>5. UiShape(r) /\ ~r.switching /\ r.applied = a BY <1>4 DEF UiShape, UiFields
<1>6. OnAck(s, ok) = r BY <1>1, <1>2, <1>3, <1>4, Zenon DEF OnAck
<1>7. ok => a = s.sent BY <1>2
<1> QED BY <1>5, <1>6, <1>7 DEF NoApply

LEMMA UiLost ==
    ASSUME NEW s, UiShape(s)
    PROVE  NoApply(OnPhysicalAvailable(OnDisconnected(s), FALSE))
<1>1. PICK r : r = OnDisconnected(s) OBVIOUS
<1>2. UiShape(r) /\ ~r.switching BY <1>1 DEF UiShape, UiFields, OnDisconnected
<1>3. PICK b : b = IF ~FALSE /\ RequiresPhysical(r.selected) THEN "virtual" ELSE r.selected OBVIOUS
<1>4. PICK t : t = [r EXCEPT !.available = FALSE, !.selected = b] OBVIOUS
<1>5. NoApply(t) BY <1>2, <1>4 DEF NoApply, UiShape, UiFields
<1>6. OnPhysicalAvailable(r, FALSE) = t BY <1>3, <1>4, Zenon DEF OnPhysicalAvailable
<1> QED BY <1>1, <1>5, <1>6

LEMMA UiPanel ==
    ASSUME NEW s, UiShape(s)
    PROVE  /\ SameApply(OnPhysicalAvailable(s, TRUE), s)
           /\ OnPhysicalAvailable(s, TRUE).applyEnabled <=> s.applyEnabled
<1>3. PICK b : b = IF ~TRUE /\ RequiresPhysical(s.selected) THEN "virtual" ELSE s.selected OBVIOUS
<1>4. PICK t : t = [s EXCEPT !.available = TRUE, !.selected = b] OBVIOUS
<1>5. SameApply(t, s) /\ (t.applyEnabled <=> s.applyEnabled)
  BY <1>4 DEF SameApply, UiShape, UiFields
<1>6. OnPhysicalAvailable(s, TRUE) = t BY <1>3, <1>4, Zenon DEF OnPhysicalAvailable
<1> QED BY <1>5, <1>6

LEMMA UiConnected ==
    ASSUME NEW s, UiShape(s)
    PROVE  NoApply(OnConnected(s))
<1>1. PICK v : v = ExpectsFull(s.applied) OBVIOUS
<1>2. PICK r : r = [s EXCEPT !.interrupted = FALSE, !.connected = TRUE, !.waiting = FALSE,
            !.fullPending = v, !.switching = FALSE, !.applyEnabled = TRUE] OBVIOUS
<1>3. NoApply(r) BY <1>2 DEF NoApply, UiShape, UiFields
<1>4. OnConnected(s) = r BY <1>1, <1>2, Zenon DEF OnConnected
<1> QED BY <1>3, <1>4

LEMMA UiStart ==
    ASSUME NEW s, UiShape(s)
    PROVE  LET r == OnSwitchStart(s) IN
           UiShape(r) /\ r.switching /\ ~r.applyEnabled /\ r.sent = s.selected
BY DEF OnSwitchStart, UiShape, UiFields

LEMMA UiFull ==
    ASSUME NEW s, UiShape(s), ~s.switching
    PROVE  SameApply(OnFullCommit(s), s) /\ SameApply(OnFullTimeout(s), s)
BY DEF OnFullCommit, OnFullTimeout, SameApply, UiShape, UiFields

\* An Apply goes out only when none is in flight, and else leaves it alone.
LEMMA UiApply ==
    ASSUME NEW s, UiShape(s), NEW m
    PROVE  LET t == SetSelectedMode(s, m)
               r == ApplyRequested(t) IN
           /\ UiShape(r)
           /\ ApplyGoesOut(t) => s.applyEnabled /\ r.switching /\ ~r.applyEnabled /\ r.sent = m
           /\ ~ApplyGoesOut(t) => SameApply(r, s) /\ (r.applyEnabled <=> s.applyEnabled)
<1>1. PICK t : t = SetSelectedMode(s, m) OBVIOUS
<1>2. SameApply(t, s) /\ (t.applyEnabled <=> s.applyEnabled) /\ t.selected = m
  BY <1>1 DEF SetSelectedMode, SameApply, UiShape, UiFields
<1>3. CASE ApplyGoesOut(t)
  <2>1. ApplyRequested(t) = OnSwitchStart(t) /\ s.applyEnabled
    BY <1>2, <1>3 DEF ApplyRequested, ApplyGoesOut
  <2> QED BY <1>1, <1>2, <1>3, <2>1, UiStart DEF SameApply
<1>4. CASE ~ApplyGoesOut(t)
  <2>1. PICK u : u = [t EXCEPT !.waiting = TRUE] OBVIOUS
  <2>2. SameApply(u, s) /\ (u.applyEnabled <=> s.applyEnabled)
    BY <1>2, <2>1 DEF SameApply, UiShape, UiFields
  <2>3. ApplyRequested(t) = u \/ ApplyRequested(t) = t
    BY <1>4, <2>1, Zenon DEF ApplyRequested
  <2> QED BY <1>1, <1>2, <1>4, <2>2, <2>3 DEF SameApply
<1> QED BY <1>3, <1>4

-----------------------------------------------------------------------------
(* Answers and sessions.                                                   *)

LEMMA AnswersInitial == Init => AnswersInv
<1> SUFFICES ASSUME Init PROVE AnswersInv OBVIOUS
<1>1. /\ IsSeq(modeQ) /\ Len(modeQ) = 0 /\ IsSeq(toGui) /\ Len(toGui) = 0
  BY NothingIsSeq DEF Init, WorkerInit
<1>2. DOMAIN modeQ = {} /\ DOMAIN toGui = {} BY <1>1, SeqIndices
<1> QED
  BY <1>1, <1>2 DEF Init, WorkerInit, UiInit, AnswersInv, SessionShape, StatusOrder, OneLive,
     NoStatus, SlotLive, NoAckLive, NoRequest, UiShape, UiFields

\* The window knows of a session at most as many as there were, and of all of them if no
\* Connected waits.
LEMMA Knowing ==
    ASSUME NEW q, IsSeq(q), conn \in Nat
    PROVE  /\ Known(q) \in Int /\ Known(q) <= conn
           /\ Known(q) = conn => \A i \in DOMAIN q : ~IsUp(q[i])
<1> DEFINE C == {i \in DOMAIN q : q[i].k = "status" /\ q[i].what = "Connected"}
<1>1. Len(q) \in Nat /\ DOMAIN q = 1..Len(q) BY SeqIndices
<1>2. IsFiniteSet(1..Len(q)) BY <1>1, FS_Interval
<1>3. IsFiniteSet(C) BY <1>1, <1>2, FS_Subset
<1>4. Cardinality(C) \in Nat /\ (Cardinality(C) = 0 => C = {})
  BY <1>3, FS_CardinalityType, FS_EmptySet
<1>5. Known(q) = conn - Cardinality(C) BY DEF Known
<1>6. C = {} => \A i \in DOMAIN q : ~IsUp(q[i]) BY DEF IsUp
<1> HIDE DEF C
<1> QED BY <1>4, <1>5, <1>6

LEMMA Pushed ==
    ASSUME NEW q, IsSeq(q), NEW v, NEW r, r = PushLatest(q, v, QueueCap)
    PROVE  /\ IsSeq(r)
           /\ \A i \in DOMAIN r : \/ i = Len(r) /\ r[i] = v
                                  \/ \E j \in DOMAIN q : r[i] = q[j]
<1>1. CASE r = q BY <1>1
<1>2. CASE r = Append(q, v)
  <2>1. /\ IsSeq(r) /\ Len(r) = Len(q) + 1 /\ DOMAIN r = DOMAIN q \cup {Len(q) + 1}
        /\ \A i \in DOMAIN q : r[i] = q[i]
        /\ r[Len(q) + 1] = v
    BY <1>2, AppendKeeps
  <2> QED BY <2>1
<1>3. CASE q # <<>> /\ r = Append(Tail(q), v)
  <2>1. PICK t : t = Tail(q) OBVIOUS
  <2>2. IsSeq(t) /\ \A i \in DOMAIN t : i + 1 \in DOMAIN q /\ t[i] = q[i + 1]
    BY <1>3, <2>1, TailKeeps
  <2>3. /\ IsSeq(r) /\ Len(r) = Len(t) + 1 /\ DOMAIN r = DOMAIN t \cup {Len(t) + 1}
        /\ \A i \in DOMAIN t : r[i] = t[i]
        /\ r[Len(t) + 1] = v
    BY <1>3, <2>1, <2>2, AppendKeeps
  <2>4. \A i \in DOMAIN t : \E j \in DOMAIN q : r[i] = q[j] BY <2>2, <2>3
  <2> QED BY <2>3, <2>4
<1>4. q = <<>> => Len(q) = 0 BY NonEmpty
<1>5. QueueCap \in Nat BY HostBounds
<1> QED BY <1>1, <1>2, <1>3, <1>4, <1>5 DEF PushLatest

\* A status that waits at the head, or none at all of the session: no request is live.
LEMMA StatusFirst ==
    ASSUME AnswersInv, SignalsOK, toGui # <<>>, Head(toGui).k = "status"
    PROVE  NoneLive
<1>1. 1 \in DOMAIN toGui /\ toGui[1].k = "status" BY TailKeeps DEF SignalsOK
<1>2. \A i \in DOMAIN toGui : i \in Nat /\ i >= 1 BY SeqIndices DEF SignalsOK
<1>3. \A i \in DOMAIN toGui : 1 \in 1..i BY <1>2
<1> QED BY <1>1, <1>3 DEF AnswersInv, StatusOrder, NoStatus, NoneLive, NoAckLive

LEMMA NothingLive == NoneLive => OneLive
BY DEF NoneLive, OneLive, NoAckLive

\* The worker.
LEMMA SessionLost ==
    ASSUME AnswersInv, SignalsOK, ep' = "down", slot' = NoRequest, UNCHANGED <<conn, ui, shifted>>,
           modeQ' = modeQ \/ modeQ' = <<>>,
           NEW e, e.k = "status", toGui' = toGui \/ toGui' = Append(toGui, e)
    PROVE  AnswersInv'
<1> USE DEF AnswersInv
<1>1. Len(toGui) \in Nat /\ DOMAIN toGui = 1..Len(toGui) BY SeqIndices DEF SignalsOK
<1>2. /\ DOMAIN toGui \subseteq DOMAIN toGui'
      /\ \A i \in DOMAIN toGui : toGui'[i] = toGui[i]
      /\ \A i \in DOMAIN toGui' \ DOMAIN toGui : toGui'[i].k = "status"
  BY AppendKeeps DEF SignalsOK
<1>3. \A i \in DOMAIN toGui' : AckLive(i)' => i \in DOMAIN toGui /\ AckLive(i)
  BY <1>2 DEF AckLive
<1>4. \A i \in DOMAIN toGui : 1..i \subseteq DOMAIN toGui BY <1>1
<1>5. \A i \in DOMAIN modeQ' : ~QueuedLive(i)' BY DEF QueuedLive
<1>6. ~SlotLive' BY DEF SlotLive, NoRequest
<1>7. SessionShape'
  <2>1. CASE modeQ' = modeQ BY <2>1 DEF SessionShape
  <2>2. CASE modeQ' = <<>>
    <3>1. IsSeq(modeQ') /\ DOMAIN modeQ' = {} BY <2>2, NothingIsSeq, SeqIndices
    <3> QED BY <3>1 DEF SessionShape
  <2> QED BY <2>1, <2>2
<1>8. StatusOrder'
  <2>1. ASSUME NEW i \in DOMAIN toGui', AckLive(i)' PROVE \A j \in 1..i : toGui'[j].k # "status"
    BY <1>2, <1>3, <1>4, <2>1 DEF StatusOrder
  <2>2. ep' # "up" OBVIOUS
  <2> QED BY <1>5, <1>6, <2>1, <2>2 DEF StatusOrder
<1>9. ~shifted' => OneLive'
  <2> SUFFICES ASSUME ~shifted PROVE OneLive' OBVIOUS
  <2>1. ASSUME NEW i \in DOMAIN toGui', AckLive(i)'
        PROVE  /\ ui'.switching /\ toGui'[i].mode = ui'.sent
               /\ \A j \in DOMAIN toGui' : AckLive(j)' => j = i
    BY <1>2, <1>3, <2>1 DEF OneLive
  <2> QED BY <1>5, <1>6, <2>1 DEF OneLive
<1> QED BY <1>7, <1>8, <1>9

\* A signal that is neither status nor acknowledgement.
LEMMA OtherSignal ==
    ASSUME AnswersInv, SignalsOK, UNCHANGED <<ep, slot, conn, ui, shifted, modeQ, pc>>,
           NEW e, e.k \notin {"status", "ack"}, toGui' = Append(toGui, e)
    PROVE  AnswersInv'
<1> USE DEF AnswersInv
<1>1. Len(toGui) \in Nat /\ DOMAIN toGui = 1..Len(toGui) BY SeqIndices DEF SignalsOK
<1>2. /\ DOMAIN toGui' = DOMAIN toGui \cup {Len(toGui) + 1}
      /\ \A i \in DOMAIN toGui : toGui'[i] = toGui[i]
      /\ toGui'[Len(toGui) + 1].k \notin {"status", "ack"}
  BY AppendKeeps DEF SignalsOK
<1>3. \A i \in DOMAIN toGui' : AckLive(i)' <=> i \in DOMAIN toGui /\ AckLive(i)
  BY <1>1, <1>2 DEF AckLive
<1>4. \A i \in DOMAIN toGui : 1..i \subseteq DOMAIN toGui BY <1>1
<1>5. /\ NoStatus' <=> NoStatus
      /\ NoAckLive' <=> NoAckLive
  BY <1>1, <1>2, <1>3 DEF NoStatus, NoAckLive
<1>6. /\ \A i : QueuedLive(i)' <=> QueuedLive(i)
      /\ SlotLive' <=> SlotLive
  BY DEF QueuedLive, SlotLive
<1>7. SessionShape' BY DEF SessionShape
<1>8. StatusOrder'
  <2>1. ASSUME NEW i \in DOMAIN toGui', AckLive(i)' PROVE \A j \in 1..i : toGui'[j].k # "status"
    BY <1>2, <1>3, <1>4, <2>1 DEF StatusOrder
  <2>2. ASSUME ep' = "up", NEW i \in DOMAIN toGui', IsLoss(toGui'[i])
        PROVE  \E j \in DOMAIN toGui' : j > i /\ IsUp(toGui'[j])
    <3>1. i \in DOMAIN toGui /\ IsLoss(toGui[i]) BY <1>2, <2>2 DEF IsLoss
    <3>2. PICK j \in DOMAIN toGui : j > i /\ IsUp(toGui[j]) BY <2>2, <3>1 DEF StatusOrder
    <3> QED BY <1>2, <3>2
  <2> QED BY <1>5, <1>6, <2>1, <2>2 DEF StatusOrder
<1>9. ~shifted' => OneLive'
  <2> SUFFICES ASSUME ~shifted PROVE OneLive' OBVIOUS
  <2>1. ASSUME NEW i \in DOMAIN toGui', AckLive(i)'
        PROVE  /\ ui'.switching /\ toGui'[i].mode = ui'.sent
               /\ \A j \in DOMAIN toGui' : AckLive(j)' => j = i
    BY <1>2, <1>3, <2>1 DEF OneLive
  <2> QED BY <1>5, <1>6, <2>1 DEF OneLive
<1> QED BY <1>7, <1>8, <1>9

\* A new session: what is queued was asked for before it.
LEMMA SessionBegins ==
    ASSUME AnswersInv, SignalsOK, UNCHANGED <<slot, ui, shifted, modeQ, pc>>, pc = "pump",
           ep = "down", ep' = "up", conn' = conn + 1,
           NEW e, IsUp(e), e.k = "status", toGui' = Append(toGui, e)
    PROVE  AnswersInv'
<1> USE DEF AnswersInv
<1>1. Len(toGui) \in Nat /\ DOMAIN toGui = 1..Len(toGui) BY SeqIndices DEF SignalsOK
<1>2. /\ DOMAIN toGui' = DOMAIN toGui \cup {Len(toGui) + 1}
      /\ \A i \in DOMAIN toGui : toGui'[i] = toGui[i]
      /\ toGui'[Len(toGui) + 1] = e
  BY AppendKeeps DEF SignalsOK
<1>3. \A i \in DOMAIN toGui' : AckLive(i)' => i \in DOMAIN toGui /\ AckLive(i)
  BY <1>1, <1>2 DEF AckLive
<1>4. \A i \in DOMAIN toGui : 1..i \subseteq DOMAIN toGui BY <1>1
<1>5. SessionShape' /\ slot = NoRequest BY DEF SessionShape
<1>6. \A i \in DOMAIN modeQ' : ~QueuedLive(i)' BY DEF QueuedLive, SessionShape
<1>7. ~SlotLive' BY <1>5 DEF SlotLive, NoRequest
<1>8. StatusOrder'
  <2>1. ASSUME NEW i \in DOMAIN toGui', AckLive(i)' PROVE \A j \in 1..i : toGui'[j].k # "status"
    BY <1>2, <1>3, <1>4, <2>1 DEF StatusOrder
  <2>2. ASSUME NEW i \in DOMAIN toGui', IsLoss(toGui'[i])
        PROVE  \E j \in DOMAIN toGui' : j > i /\ IsUp(toGui'[j])
    <3>1. i \in DOMAIN toGui BY <1>2, <2>2 DEF IsLoss, IsUp
    <3> QED BY <1>1, <1>2, <3>1
  <2> QED BY <1>6, <1>7, <2>1, <2>2 DEF StatusOrder
<1>9. ~shifted' => OneLive'
  <2> SUFFICES ASSUME ~shifted PROVE OneLive' OBVIOUS
  <2>1. ASSUME NEW i \in DOMAIN toGui', AckLive(i)'
        PROVE  /\ ui'.switching /\ toGui'[i].mode = ui'.sent
               /\ \A j \in DOMAIN toGui' : AckLive(j)' => j = i
    BY <1>2, <1>3, <2>1 DEF OneLive
  <2> QED BY <1>6, <1>7, <2>1 DEF OneLive
<1> QED BY <1>5, <1>8, <1>9

\* The request in the slot is answered.
LEMMA AnswerKeeps ==
    ASSUME AnswersInv, HostInv, UNCHANGED <<ep, conn, ui, shifted, modeQ, pc>>, slot # NoRequest,
           NEW ok, Answered(ok)
    PROVE  AnswersInv'
<1> USE DEF AnswersInv
<1>1. SignalsOK /\ KindOfSlot BY DEF HostInv
<1>2. Len(toGui) \in Nat /\ DOMAIN toGui = 1..Len(toGui) BY <1>1, SeqIndices DEF SignalsOK
<1>3. SessionShape' BY DEF Answered, SessionShape
<1>4. ~SlotLive' BY DEF Answered, SlotLive, NoRequest
<1>5. \A i : QueuedLive(i)' <=> QueuedLive(i) BY DEF QueuedLive
<1>6. CASE ackKind # "mode"
  <2>1. UNCHANGED toGui BY <1>6 DEF Answered
  <2>2. /\ \A i : AckLive(i)' <=> AckLive(i)
        /\ NoStatus' <=> NoStatus
        /\ NoAckLive' <=> NoAckLive
    BY <2>1 DEF AckLive, NoStatus, NoAckLive
  <2>3. StatusOrder' BY <1>4, <1>5, <2>1, <2>2 DEF StatusOrder
  <2>4. ~shifted' => OneLive' BY <1>4, <1>5, <2>1, <2>2 DEF OneLive
  <2> QED BY <1>3, <2>3, <2>4
<1>7. CASE ackKind = "mode"
  <2>1. slot.kind = "mode" BY <1>1, <1>7 DEF KindOfSlot
  <2>2. PICK e : e = Ack(ok, slot) OBVIOUS
  <2>3. e.k = "ack" /\ e.mode = slot.mode /\ (e.carried <=> slot.carried) BY <2>2 DEF Ack
  <2>4. toGui' = Append(toGui, e) BY <1>7, <2>2 DEF Answered
  <2>0. PICK n : n = Len(toGui) + 1 OBVIOUS
  <2>5. /\ n \in Nat /\ n \notin DOMAIN toGui
        /\ DOMAIN toGui' = DOMAIN toGui \cup {n}
        /\ \A i \in DOMAIN toGui : toGui'[i] = toGui[i]
        /\ toGui'[n] = e
    BY <1>1, <1>2, <2>0, <2>4, AppendKeeps DEF SignalsOK
  <2>6. (\A i \in DOMAIN toGui : AckLive(i)' <=> AckLive(i)) /\ (AckLive(n)' <=> SlotLive)
    <3>1. \A i \in DOMAIN toGui : AckLive(i)' <=> AckLive(i) BY <2>5 DEF AckLive
    <3>2. toGui'[n].k = "ack" /\ (toGui'[n].carried <=> slot.carried) BY <2>3, <2>5
    <3>3. AckLive(n)' <=> SlotLive BY <2>1, <3>2 DEF AckLive, SlotLive
    <3> QED BY <3>1, <3>3
  <2>7. NoStatus' <=> NoStatus BY <1>2, <2>3, <2>5 DEF NoStatus
  <2>8. StatusOrder'
    <3>1. ASSUME NEW i \in DOMAIN toGui', AckLive(i)' PROVE \A j \in 1..i : toGui'[j].k # "status"
      <4>1. CASE i \in DOMAIN toGui
        <5>1. 1..i \subseteq DOMAIN toGui BY <1>2, <4>1
        <5> QED BY <2>5, <2>6, <3>1, <4>1, <5>1 DEF StatusOrder
      <4>2. CASE i = n
        <5>1. NoStatus' BY <2>6, <2>7, <3>1, <4>2 DEF StatusOrder
        <5>2. 1..i = DOMAIN toGui' BY <1>2, <2>0, <2>5, <4>2
        <5> QED BY <5>1, <5>2 DEF NoStatus
      <4> QED BY <2>5, <4>1, <4>2
    <3>2. ASSUME ep' = "up", NEW i \in DOMAIN toGui', IsLoss(toGui'[i])
          PROVE  \E j \in DOMAIN toGui' : j > i /\ IsUp(toGui'[j])
      <4>1. i \in DOMAIN toGui /\ IsLoss(toGui[i]) BY <2>3, <2>5, <3>2 DEF IsLoss
      <4>2. PICK j \in DOMAIN toGui : j > i /\ IsUp(toGui[j]) BY <3>2, <4>1 DEF StatusOrder
      <4> QED BY <2>5, <4>2
    <3> QED BY <1>4, <1>5, <2>7, <3>1, <3>2 DEF StatusOrder
  <2>9. ~shifted' => OneLive'
    <3> SUFFICES ASSUME ~shifted PROVE OneLive' OBVIOUS
    <3>1. OneLive OBVIOUS
    <3>2. ASSUME NEW i \in DOMAIN modeQ', QueuedLive(i)'
          PROVE  /\ ui'.switching /\ modeQ'[i].mode = ui'.sent /\ NoAckLive'
                 /\ \A j \in DOMAIN modeQ' : QueuedLive(j)' => j = i
      <4>1. /\ ui.switching /\ modeQ[i].mode = ui.sent /\ ~SlotLive /\ NoAckLive
            /\ \A j \in DOMAIN modeQ : QueuedLive(j) => j = i
        BY <1>5, <3>1, <3>2 DEF OneLive
      <4> QED BY <1>5, <2>5, <2>6, <4>1 DEF NoAckLive
    <3>3. ASSUME NEW i \in DOMAIN toGui', AckLive(i)'
          PROVE  /\ ui'.switching /\ toGui'[i].mode = ui'.sent
                 /\ \A j \in DOMAIN toGui' : AckLive(j)' => j = i
      <4>1. CASE i \in DOMAIN toGui
        <5>1. AckLive(i) BY <2>6, <3>3, <4>1
        <5>2. ~SlotLive BY <3>1, <4>1, <5>1 DEF OneLive, NoAckLive
        <5> QED BY <2>5, <2>6, <3>1, <4>1, <5>1, <5>2 DEF OneLive
      <4>2. CASE i = n
        <5>1. SlotLive BY <2>6, <3>3, <4>2
        <5>2. NoAckLive /\ ui.switching /\ slot.mode = ui.sent BY <3>1, <5>1 DEF OneLive
        <5> QED BY <2>3, <2>5, <2>6, <4>2, <5>2 DEF NoAckLive
      <4> QED BY <2>5, <3>3, <4>1, <4>2
    <3> QED BY <1>4, <3>2, <3>3 DEF OneLive
  <2> QED BY <1>3, <2>8, <2>9
<1> QED BY <1>6, <1>7

\* Nothing that concerns a request moves.
LEMMA AnswersSame ==
    ASSUME AnswersInv, UNCHANGED <<ep, slot, conn, shifted, modeQ, toGui>>, ep = "up" => pc' = "pump",
           SameApply(ui', ui), ui'.applyEnabled => ~ui'.switching
    PROVE  AnswersInv'
<1> USE DEF AnswersInv
<1>1. /\ \A i : QueuedLive(i)' <=> QueuedLive(i)
      /\ \A i : AckLive(i)' <=> AckLive(i)
      /\ (SlotLive' <=> SlotLive) /\ (NoStatus' <=> NoStatus) /\ (NoAckLive' <=> NoAckLive)
  BY DEF QueuedLive, AckLive, SlotLive, NoStatus, NoAckLive
<1>2. (ui'.switching <=> ui.switching) /\ ui'.sent = ui.sent /\ UiShape(ui') BY DEF SameApply
<1>3. SessionShape' BY <1>2 DEF SessionShape, UiShape
<1>4. StatusOrder' BY <1>1 DEF StatusOrder
<1>5. ~shifted' => OneLive' BY <1>1, <1>2 DEF OneLive
<1> QED BY <1>3, <1>4, <1>5

LEMMA UiKept == ASSUME AnswersInv, UNCHANGED ui
                PROVE SameApply(ui', ui) /\ (ui'.applyEnabled => ~ui'.switching)
BY DEF AnswersInv, SessionShape, SameApply, UiShape

\* A SET_MODE leaves the queue for the slot, or for nowhere.
LEMMA SendModeKeeps == ASSUME AnswersInv, UNCHANGED windowVars, SendMode PROVE AnswersInv'
<1> USE DEF AnswersInv
<1>1. IsSeq(modeQ) /\ modeQ # <<>> /\ modeQ' = Tail(modeQ) BY DEF SendMode, SessionShape
<1>2. /\ IsSeq(modeQ') /\ Head(modeQ) = modeQ[1] /\ 1 \in DOMAIN modeQ
      /\ \A i \in DOMAIN modeQ' : i + 1 \in DOMAIN modeQ /\ modeQ'[i] = modeQ[i + 1]
  BY <1>1, TailKeeps
<1>3. \A i \in DOMAIN modeQ' : i \in Nat /\ i >= 1 BY <1>2, SeqIndices
<1>4. UNCHANGED <<ep, conn, pc, toGui, ui, shifted>> BY DEF SendMode, windowVars
<1>5. \A i \in DOMAIN modeQ' : QueuedLive(i)' => ep = "up" /\ modeQ[i + 1].conn = conn
  BY <1>2, <1>4 DEF QueuedLive
<1>6. \A i \in DOMAIN modeQ' : QueuedLive(i)' => QueuedLive(i + 1) BY <1>5 DEF QueuedLive
<1>7. /\ \A i : AckLive(i)' <=> AckLive(i)
      /\ (NoStatus' <=> NoStatus) /\ (NoAckLive' <=> NoAckLive)
  BY <1>4 DEF AckLive, NoStatus, NoAckLive
<1>8. SlotLive' => ep = "up" /\ QueuedLive(1) /\ slot'.mode = modeQ[1].mode
  <2>1. CASE ep = "up"
    <3>1. PICK r : r = Request("mode", modeQ[1].mode, modeQ[1].conn) OBVIOUS
    <3>2. r.mode = modeQ[1].mode /\ (r.carried <=> modeQ[1].conn # conn) BY <3>1 DEF Request
    <3>3. slot' = r BY <1>2, <2>1, <3>1 DEF SendMode, Register
    <3> QED BY <2>1, <3>2, <3>3 DEF SlotLive, QueuedLive
  <2>2. CASE ep # "up"
    <3>1. slot' = NoRequest BY <2>2 DEF SendMode, SessionShape
    <3> QED BY <3>1 DEF SlotLive, NoRequest
  <2> QED BY <2>1, <2>2
<1>9. SessionShape'
  <2>1. ep = "down" => slot' = NoRequest BY DEF SendMode, SessionShape
  <2>2. \A i \in DOMAIN modeQ' : modeQ'[i].conn \in Int /\ modeQ'[i].conn <= conn'
    BY <1>2, <1>4 DEF SessionShape
  <2> QED BY <1>2, <1>4, <2>1, <2>2 DEF SessionShape, UiShape
<1>10. StatusOrder' BY <1>2, <1>4, <1>6, <1>7, <1>8 DEF StatusOrder
<1>11. ~shifted' => OneLive'
  <2> SUFFICES ASSUME ~shifted PROVE OneLive' BY <1>4
  <2>1. ASSUME NEW i \in DOMAIN modeQ', QueuedLive(i)'
        PROVE  /\ ui'.switching /\ modeQ'[i].mode = ui'.sent /\ ~SlotLive' /\ NoAckLive'
               /\ \A j \in DOMAIN modeQ' : QueuedLive(j)' => j = i
    <3>1. i + 1 \in DOMAIN modeQ /\ QueuedLive(i + 1) /\ i + 1 # 1 /\ i \in Nat
      BY <1>2, <1>3, <1>6, <2>1
    <3>2. PICK n : n = i + 1 OBVIOUS
    <3>3. /\ ui.switching /\ modeQ[n].mode = ui.sent /\ ~SlotLive /\ NoAckLive
          /\ \A j \in DOMAIN modeQ : QueuedLive(j) => j = n
      BY <3>1, <3>2 DEF OneLive
    <3>4. ~SlotLive' BY <1>2, <1>8, <3>1, <3>2, <3>3
    <3>5. ASSUME NEW j \in DOMAIN modeQ', QueuedLive(j)' PROVE j = i
      BY <1>2, <1>3, <1>6, <2>1, <3>2, <3>3, <3>5
    <3> QED BY <1>2, <1>4, <1>7, <2>1, <3>2, <3>3, <3>4, <3>5
  <2>2. SlotLive' => ui'.switching /\ slot'.mode = ui'.sent /\ NoAckLive'
    BY <1>2, <1>4, <1>7, <1>8 DEF OneLive
  <2>3. ASSUME NEW i \in DOMAIN toGui', AckLive(i)'
        PROVE  /\ ui'.switching /\ toGui'[i].mode = ui'.sent
               /\ \A j \in DOMAIN toGui' : AckLive(j)' => j = i
    BY <1>4, <1>7, <2>3 DEF OneLive
  <2> QED BY <2>1, <2>2, <2>3 DEF OneLive
<1> QED BY <1>9, <1>10, <1>11

\* A Wi-Fi request takes the slot.
LEMMA SendWifiKeeps ==
    ASSUME AnswersInv, wifiQ \in Seq(WifiCommands), UNCHANGED windowVars, SendWifi
    PROVE  AnswersInv'
<1> USE DEF AnswersInv
<1>1. UNCHANGED <<ep, conn, pc, toGui, modeQ, ui, shifted>> BY DEF SendWifi, windowVars
<1>2. slot' = slot \/ (ep = "up" /\ slot' = Request(Head(wifiQ), "none", conn))
  BY DEF SendWifi, Register
<1>3. Head(wifiQ) \in WifiCommands BY DEF SendWifi
<1>4. Head(wifiQ) # "mode" BY <1>3, HostBounds
<1>5. SlotLive' => SlotLive /\ slot' = slot BY <1>2, <1>4 DEF SlotLive, Request
<1>6. /\ \A i : QueuedLive(i)' <=> QueuedLive(i)
      /\ \A i : AckLive(i)' <=> AckLive(i)
      /\ (NoStatus' <=> NoStatus) /\ (NoAckLive' <=> NoAckLive)
  BY <1>1 DEF QueuedLive, AckLive, NoStatus, NoAckLive
<1>7. ep' = "down" => slot' = NoRequest BY <1>1, <1>2 DEF SessionShape
<1>8. SessionShape' BY <1>1, <1>7 DEF SessionShape, UiShape
<1>9. StatusOrder' BY <1>1, <1>5, <1>6 DEF StatusOrder
<1>10. ~shifted' => OneLive' BY <1>1, <1>5, <1>6 DEF OneLive
<1> QED BY <1>8, <1>9, <1>10

LEMMA DecodeKeeps == ASSUME AnswersInv, HostInv, UNCHANGED windowVars, Decode PROVE AnswersInv'
<1>1. SignalsOK BY DEF HostInv
<1>2. UNCHANGED <<pc, modeQ, ui, shifted>> /\ pc = "pump" BY DEF Decode, windowVars
<1>3. PICK m : m = Head(rxBuf) OBVIOUS
<1>4. CASE /\ ep = "down" /\ ep' = "up" /\ conn' = conn + 1
           /\ toGui' = Append(toGui, Status("Connected")) /\ UNCHANGED slot
  <2>1. PICK e : e = Status("Connected") OBVIOUS
  <2>2. e.k = "status" /\ IsUp(e) BY <2>1 DEF Status, StatusOf, IsUp
  <2> QED BY <1>1, <1>2, <1>4, <2>1, <2>2, SessionBegins
<1>5. CASE UNCHANGED <<conn, ep, slot, toGui>> BY <1>2, <1>5, UiKept, AnswersSame
<1>6. CASE UNCHANGED <<conn, ep, slot>> /\ toGui' = Append(toGui, Frame)
  <2>1. PICK e : e = Frame OBVIOUS
  <2>2. e.k \notin {"status", "ack"} BY <2>1 DEF Frame
  <2> QED BY <1>1, <1>2, <1>6, <2>1, <2>2, OtherSignal
<1>7. CASE UNCHANGED <<conn, ep, slot>> /\ toGui' = Append(toGui, [k |-> "caps"])
  <2>1. PICK e : e = [k |-> "caps"] OBVIOUS
  <2>2. e.k \notin {"status", "ack"} BY <2>1
  <2> QED BY <1>1, <1>2, <1>7, <2>1, <2>2, OtherSignal
<1>8. CASE UNCHANGED <<conn, ep>> /\ slot # NoRequest /\ Answered(m.ok)
  BY <1>2, <1>8, AnswerKeeps
<1> QED BY <1>3, <1>4, <1>5, <1>6, <1>7, <1>8 DEF Decode, TakeAck

\* Steps that end the session, or find none.
LEMMA NoSession == ASSUME AnswersInv, pc # "pump" PROVE ep = "down" /\ slot = NoRequest
BY DEF AnswersInv, SessionShape

LEMMA LossKeeps ==
    ASSUME AnswersInv, HostInv, UNCHANGED windowVars,
           BindFails \/ ThreadEnds \/ OpenFails \/ NoticeLoss \/ PeerSilent
    PROVE  AnswersInv'
<1>1. SignalsOK BY DEF HostInv
<1>2. PICK e : /\ e \in {Status("Error"), Status("Disconnected")}
               /\ toGui' = Append(toGui, e)
  BY DEF BindFails, ThreadEnds, OpenFails, NoticeLoss, PeerSilent
<1>3. e.k = "status" BY <1>2 DEF Status, StatusOf
<1>4. ep' = "down" /\ slot' = NoRequest
  BY NoSession DEF BindFails, ThreadEnds, OpenFails, NoticeLoss, PeerSilent
<1>5. UNCHANGED <<conn, modeQ, ui, shifted>>
  BY DEF BindFails, ThreadEnds, OpenFails, NoticeLoss, PeerSilent, windowVars
<1> QED BY <1>1, <1>2, <1>3, <1>4, <1>5, SessionLost

LEMMA SwitchKeeps == ASSUME AnswersInv, HostInv, BeginSwitchEnds PROVE AnswersInv'
<1>1. SignalsOK BY DEF HostInv
<1>2. PICK k : SwitchTransport(k) BY DEF BeginSwitchEnds
<1>3. PICK e : e = Status("Disconnected") OBVIOUS
<1>4. e.k = "status" BY <1>3 DEF Status, StatusOf
<1>5. /\ ep' = "down" /\ slot' = NoRequest /\ modeQ' = <<>>
      /\ UNCHANGED <<conn, ui, shifted>>
      /\ toGui' = toGui \/ toGui' = Append(toGui, e)
  BY <1>2, <1>3 DEF BeginSwitchEnds, SwitchTransport, Stopped
<1> QED BY <1>1, <1>4, <1>5, SessionLost

LEMMA WorkerKeepsAnswers ==
    ASSUME AnswersInv, HostInv, wifiQ \in Seq(WifiCommands), UNCHANGED windowVars,
           WorkerRuns \/ Surroundings
    PROVE  AnswersInv'
<1>1. UNCHANGED <<ui, shifted>> BY DEF windowVars
<1>2. ASSUME EnterLoop \/ Bind \/ Opens \/ LinkDrops \/ \E w, i, b : Receive(w, i, b)
      PROVE  AnswersInv'
  <2>1. UNCHANGED <<ep, slot, conn, modeQ, toGui>>
    BY <1>2 DEF EnterLoop, Bind, Opens, LinkDrops, Receive
  <2>2. ep = "up" => pc' = "pump"
    BY <1>2, NoSession DEF EnterLoop, Bind, Opens, LinkDrops, Receive
  <2> QED BY <1>1, <2>1, <2>2, UiKept, AnswersSame
<1>3. CASE GiveUp BY <1>1, <1>3, AnswerKeeps DEF GiveUp
<1>4. CASE Surroundings BY <1>2, <1>4, LossKeeps DEF Surroundings
<1> QED BY <1>2, <1>3, <1>4, DecodeKeeps, LossKeeps, SendModeKeeps, SendWifiKeeps DEF WorkerRuns

-----------------------------------------------------------------------------
(* Answers and the window.                                                 *)

\* The window takes the first signal.
LEMMA LossesAnswered ==
    ASSUME StatusOrder, SignalsOK, toGui # <<>>, toGui' = Tail(toGui), ep = "up",
           NEW i \in DOMAIN toGui', IsLoss(toGui'[i])
    PROVE  \E j \in DOMAIN toGui' : j > i /\ IsUp(toGui'[j])
<1>1. /\ IsSeq(toGui') /\ Len(toGui') = Len(toGui) - 1
      /\ \A n \in DOMAIN toGui' : n + 1 \in DOMAIN toGui /\ toGui'[n] = toGui[n + 1]
  BY TailKeeps DEF SignalsOK
<1>2. /\ DOMAIN toGui = 1..Len(toGui) /\ Len(toGui) \in Nat
      /\ DOMAIN toGui' = 1..Len(toGui')
  BY <1>1, SeqIndices DEF SignalsOK
<1>3. i + 1 \in DOMAIN toGui /\ IsLoss(toGui[i + 1]) /\ i \in 1..Len(toGui') BY <1>1, <1>2
<1>4. PICK j \in DOMAIN toGui : j > i + 1 /\ IsUp(toGui[j]) BY <1>3 DEF StatusOrder
<1>5. PICK n : n = j - 1 OBVIOUS
<1>6. n \in DOMAIN toGui' /\ n > i /\ n + 1 = j BY <1>1, <1>2, <1>3, <1>4, <1>5
<1> QED BY <1>1, <1>4, <1>6

LEMMA HeadTaken ==
    ASSUME AnswersInv, SignalsOK, toGui # <<>>, toGui' = Tail(toGui),
           UNCHANGED <<ep, slot, conn, modeQ>>
    PROVE  /\ StatusOrder'
           /\ NoneLive => NoneLive'
           /\ OneLive /\ SameApply(ui', ui) => OneLive'
<1> USE DEF AnswersInv
<1>1. /\ IsSeq(toGui') /\ Head(toGui) = toGui[1] /\ 1 \in DOMAIN toGui
      /\ \A i \in DOMAIN toGui' : i + 1 \in DOMAIN toGui /\ toGui'[i] = toGui[i + 1]
  BY TailKeeps DEF SignalsOK
<1>2. \A i \in DOMAIN toGui' : i \in Nat /\ i >= 1 BY <1>1, SeqIndices
<1>6. \A i \in DOMAIN toGui' : AckLive(i)' => AckLive(i + 1)
  <2> SUFFICES ASSUME NEW i \in DOMAIN toGui', AckLive(i)' PROVE AckLive(i + 1)
      OBVIOUS
  <2>1. toGui'[i].k = "ack" /\ ~toGui'[i].carried BY DEF AckLive
  <2> QED BY <1>1, <2>1 DEF AckLive
<1>7. /\ \A i : QueuedLive(i)' <=> QueuedLive(i)
      /\ SlotLive' <=> SlotLive
      /\ NoStatus => NoStatus'
      /\ NoAckLive => NoAckLive'
  BY <1>1, <1>6 DEF QueuedLive, SlotLive, NoStatus, NoAckLive
<1>8. StatusOrder'
  <2>1. ASSUME ep' = "up", NEW i \in DOMAIN toGui', IsLoss(toGui'[i])
        PROVE  \E j \in DOMAIN toGui' : j > i /\ IsUp(toGui'[j])
    BY <2>1, LossesAnswered
  <2>2. ASSUME NEW i \in DOMAIN toGui', AckLive(i)', NEW j \in 1..i PROVE toGui'[j].k # "status"
    <3>1. i + 1 \in DOMAIN toGui /\ AckLive(i + 1) /\ i \in Nat BY <1>1, <1>2, <1>6, <2>2
    <3>2. j + 1 \in 1..(i + 1) BY <3>1
    <3>3. toGui[j + 1].k # "status" BY <3>1, <3>2 DEF StatusOrder
    <3>4. j \in DOMAIN toGui'
      <4>1. DOMAIN toGui' = 1..Len(toGui') /\ Len(toGui') \in Nat BY <1>1, SeqIndices
      <4> QED BY <4>1
    <3> QED BY <1>1, <3>3, <3>4
  <2> QED BY <1>7, <2>1, <2>2 DEF StatusOrder
<1>9. NoneLive => NoneLive' BY <1>7 DEF NoneLive
<1>10. ASSUME OneLive, SameApply(ui', ui) PROVE OneLive'
  <2>1. (ui'.switching <=> ui.switching) /\ ui'.sent = ui.sent BY <1>10 DEF SameApply
  <2>2. ASSUME NEW i \in DOMAIN toGui', AckLive(i)'
        PROVE  /\ ui'.switching /\ toGui'[i].mode = ui'.sent
               /\ \A j \in DOMAIN toGui' : AckLive(j)' => j = i
    <3>1. i + 1 \in DOMAIN toGui /\ AckLive(i + 1) /\ i \in Nat BY <1>1, <1>2, <1>6, <2>2
    <3>2. PICK n : n = i + 1 OBVIOUS
    <3>3. /\ ui.switching /\ toGui[n].mode = ui.sent
          /\ \A j \in DOMAIN toGui : AckLive(j) => j = n
      BY <1>10, <3>1, <3>2 DEF OneLive
    <3>4. ASSUME NEW j \in DOMAIN toGui', AckLive(j)' PROVE j = i
      <4>1. j + 1 \in DOMAIN toGui /\ AckLive(j + 1) /\ j \in Nat BY <1>1, <1>2, <1>6, <3>4
      <4> QED BY <3>1, <3>2, <3>3, <4>1
    <3> QED BY <1>1, <2>1, <3>2, <3>3, <3>4
  <2> QED BY <1>7, <1>10, <2>1, <2>2 DEF OneLive
<1> QED BY <1>8, <1>9, <1>10

\* The window asks for a mode.  The request is live only if the window knows of the session
\* that runs, and then no status waits for the window.
LEMMA RequestMade ==
    ASSUME SessionShape, IsSeq(toGui'), UNCHANGED <<ep, slot, conn>>,
           NEW m, modeQ' = QueueMode(modeQ, m, toGui'),
           ep = "up" => \A i \in DOMAIN toGui' : IsLoss(toGui'[i]) =>
                           \E j \in DOMAIN toGui' : j > i /\ IsUp(toGui'[j])
    PROVE  /\ IsSeq(modeQ')
           /\ \A i \in DOMAIN modeQ' : modeQ'[i].conn \in Int /\ modeQ'[i].conn <= conn
           /\ \A i \in DOMAIN modeQ' : QueuedLive(i)' =>
                 \/ \E j \in DOMAIN modeQ : QueuedLive(j)
                 \/ i = Len(modeQ') /\ modeQ'[i].mode = m /\ NoStatus'
<1>1. PICK v : v = [mode |-> m, conn |-> Known(toGui')] OBVIOUS
<1>2. modeQ' = PushLatest(modeQ, v, QueueCap) BY <1>1 DEF QueueMode
<1>3. /\ IsSeq(modeQ')
      /\ \A i \in DOMAIN modeQ' : \/ i = Len(modeQ') /\ modeQ'[i] = v
                                  \/ \E j \in DOMAIN modeQ : modeQ'[i] = modeQ[j]
  BY <1>2, Pushed DEF SessionShape
<1>4. v.mode = m /\ v.conn = Known(toGui') BY <1>1
<1>5. conn \in Nat BY DEF SessionShape
<1>6. /\ v.conn \in Int /\ v.conn <= conn
      /\ v.conn = conn => \A i \in DOMAIN toGui' : ~IsUp(toGui'[i])
  BY <1>4, <1>5, Knowing
<1>7. ASSUME NEW i \in DOMAIN modeQ' PROVE modeQ'[i].conn \in Int /\ modeQ'[i].conn <= conn
  BY <1>3, <1>6 DEF SessionShape
<1>8. ASSUME NEW i \in DOMAIN modeQ', QueuedLive(i)'
      PROVE  \/ \E j \in DOMAIN modeQ : QueuedLive(j)
             \/ i = Len(modeQ') /\ modeQ'[i].mode = m /\ NoStatus'
  <2>1. ep = "up" /\ modeQ'[i].conn = conn BY <1>8 DEF QueuedLive
  <2>2. CASE \E j \in DOMAIN modeQ : modeQ'[i] = modeQ[j] BY <2>1, <2>2 DEF QueuedLive
  <2>3. CASE i = Len(modeQ') /\ modeQ'[i] = v
    <3>1. \A n \in DOMAIN toGui' : ~IsUp(toGui'[n]) BY <1>6, <2>1, <2>3
    <3>2. \A n \in DOMAIN toGui' : ~IsLoss(toGui'[n]) BY <2>1, <3>1
    <3>3. NoStatus' BY <3>1, <3>2 DEF NoStatus, IsUp, IsLoss
    <3> QED BY <1>4, <2>3, <3>3
  <2> QED BY <1>3, <2>2, <2>3
<1> QED BY <1>3, <1>7, <1>8

\* The only live request is the one just queued.
LEMMA OnlyTheNewest ==
    ASSUME NoneLive, UNCHANGED slot, NoAckLive', ui'.switching,
           NEW n, \A i \in DOMAIN modeQ' : QueuedLive(i)' => i = n /\ modeQ'[i].mode = ui'.sent
    PROVE  OneLive'
<1>1. ~SlotLive' BY DEF NoneLive, SlotLive
<1> QED BY <1>1 DEF OneLive, NoAckLive

\* Without an Apply in flight no request is live.
LEMMA IdleIsClear == ASSUME OneLive, ~ui.switching PROVE NoneLive
BY DEF OneLive, NoneLive, NoAckLive

LEMMA StatusConnectedKeeps == ASSUME AnswersInv, HostInv, OnStatusConnected PROVE AnswersInv'
<1>1. SignalsOK BY DEF HostInv
<1>2. /\ toGui # <<>> /\ Head(toGui).k = "status" /\ toGui' = Tail(toGui)
      /\ UNCHANGED <<ep, slot, conn, pc>> /\ shifted' = FALSE
  BY DEF OnStatusConnected, Takes, WorkerKeeps
<1>3. NoneLive BY <1>1, <1>2, StatusFirst
<1>4. SessionShape /\ UiShape(ui) /\ IsSeq(toGui')
  BY <1>1, <1>2, TailKeeps DEF AnswersInv, SessionShape, SignalsOK
<1>5. PICK s : s = OnConnected(ui) OBVIOUS
<1>6. NoApply(s) BY <1>4, <1>5, UiConnected
<1>7. CASE ui' = s /\ UNCHANGED modeQ
  <2>1. StatusOrder' /\ NoneLive' BY <1>1, <1>2, <1>3, <1>7, HeadTaken
  <2>2. OneLive' BY <2>1 DEF NoneLive, OneLive, NoAckLive
  <2>3. SessionShape' BY <1>2, <1>4, <1>6, <1>7 DEF SessionShape, UiShape, NoApply
  <2> QED BY <2>1, <2>2, <2>3 DEF AnswersInv
<1>8. CASE ui' = OnSwitchStart(s) /\ modeQ' = QueueMode(modeQ, s.selected, toGui')
  <2>1. UiShape(ui') /\ ui'.switching /\ ~ui'.applyEnabled /\ ui'.sent = s.selected
    BY <1>6, <1>8, UiStart DEF NoApply
  <2>2. /\ \A i \in DOMAIN toGui' : i + 1 \in DOMAIN toGui /\ toGui'[i] = toGui[i + 1]
    BY <1>1, <1>2, TailKeeps DEF SignalsOK
  <2>3. NoAckLive' BY <1>3, <2>2 DEF NoneLive, NoAckLive, AckLive
  <2>4. ASSUME ep = "up", NEW i \in DOMAIN toGui', IsLoss(toGui'[i])
        PROVE  \E j \in DOMAIN toGui' : j > i /\ IsUp(toGui'[j])
    BY <1>1, <1>2, <2>4, LossesAnswered DEF AnswersInv
  <2>5. /\ IsSeq(modeQ')
        /\ \A i \in DOMAIN modeQ' : modeQ'[i].conn \in Int /\ modeQ'[i].conn <= conn
        /\ \A i \in DOMAIN modeQ' : QueuedLive(i)' =>
              \/ \E j \in DOMAIN modeQ : QueuedLive(j)
              \/ i = Len(modeQ') /\ modeQ'[i].mode = s.selected /\ NoStatus'
    BY <1>2, <1>4, <1>8, <2>4, RequestMade
  <2>6. \A i \in DOMAIN modeQ' : QueuedLive(i)' =>
              i = Len(modeQ') /\ modeQ'[i].mode = ui'.sent /\ NoStatus'
    BY <1>3, <2>1, <2>5 DEF NoneLive
  <2>7. PICK n : n = Len(modeQ') OBVIOUS
  <2>12. \A i \in DOMAIN modeQ' : QueuedLive(i)' => i = n /\ modeQ'[i].mode = ui'.sent
    BY <2>6, <2>7
  <2>8. OneLive' BY <1>2, <1>3, <2>1, <2>3, <2>12, OnlyTheNewest
  <2>9. ~SlotLive' BY <1>2, <1>3 DEF NoneLive, SlotLive
  <2>10. StatusOrder' BY <1>2, <2>3, <2>4, <2>6, <2>9 DEF StatusOrder, NoAckLive
  <2>11. SessionShape' BY <1>2, <1>4, <2>1, <2>5 DEF SessionShape
  <2> QED BY <2>8, <2>10, <2>11 DEF AnswersInv
<1> QED BY <1>2, <1>5, <1>7, <1>8 DEF OnStatusConnected

\* A signal that leaves the Apply in flight alone.
LEMMA SignalLeavesApply ==
    ASSUME AnswersInv, HostInv, toGui # <<>>, toGui' = Tail(toGui), WorkerKeeps,
           UNCHANGED <<modeQ, shifted>>, SameApply(ui', ui), ui'.applyEnabled => ~ui'.switching
    PROVE  AnswersInv'
<1>1. UNCHANGED <<ep, slot, conn, pc>> BY DEF WorkerKeeps
<1>2. SignalsOK BY DEF HostInv
<1>3. StatusOrder' /\ (OneLive => OneLive') BY <1>1, <1>2, HeadTaken
<1>4. SessionShape' BY <1>1 DEF AnswersInv, SessionShape, SameApply
<1> QED BY <1>3, <1>4 DEF AnswersInv

LEMMA StatusLostKeeps == ASSUME AnswersInv, HostInv, OnStatusLost PROVE AnswersInv'
<1>1. SignalsOK BY DEF HostInv
<1>2. /\ toGui # <<>> /\ Head(toGui).k = "status" /\ toGui' = Tail(toGui)
      /\ UNCHANGED <<ep, slot, conn, pc, modeQ, shifted>>
      /\ ui' = OnPhysicalAvailable(OnDisconnected(ui), FALSE)
  BY DEF OnStatusLost, Takes, WorkerKeeps
<1>3. NoneLive BY <1>1, <1>2, StatusFirst
<1>4. StatusOrder' /\ NoneLive' BY <1>1, <1>2, <1>3, HeadTaken
<1>5. OneLive' BY <1>4 DEF NoneLive, OneLive, NoAckLive
<1>6. NoApply(ui') BY <1>2, UiLost DEF AnswersInv, SessionShape
<1>7. SessionShape' BY <1>2, <1>6 DEF AnswersInv, SessionShape, NoApply
<1> QED BY <1>4, <1>5, <1>7 DEF AnswersInv

\* The acknowledgement that is taken for that of an Apply is the only live request.
LEMMA AckTakenKeeps == ASSUME AnswersInv, HostInv, OnDisplayModeAck PROVE AnswersInv'
<1>1. SignalsOK BY DEF HostInv
<1>2. /\ toGui # <<>> /\ Head(toGui).k = "ack" /\ toGui' = Tail(toGui)
      /\ UNCHANGED <<ep, slot, conn, pc, modeQ>>
      /\ ui' = OnAck(ui, Head(toGui).ok)
  BY DEF OnDisplayModeAck, Takes, WorkerKeeps, signal
<1>3. CASE ~ui.switching
  <2>1. ui' = ui BY <1>2, <1>3 DEF OnAck
  <2>2. shifted' = shifted \/ (shifted' <=> shifted)
    BY <1>3 DEF OnDisplayModeAck
  <2>3. shifted' <=> shifted BY <2>2
  <2>4. SameApply(ui', ui) /\ (ui'.applyEnabled => ~ui'.switching) BY <2>1, UiKept
  <2>5. StatusOrder' /\ (OneLive => OneLive') BY <1>1, <1>2, <2>4, HeadTaken
  <2>6. SessionShape' BY <1>2, <2>4 DEF AnswersInv, SessionShape, SameApply
  <2> QED BY <2>3, <2>5, <2>6 DEF AnswersInv
<1>4. CASE ui.switching
  <2>1. UiShape(ui) BY DEF AnswersInv, SessionShape
  <2>2. NoApply(ui') BY <1>2, <1>4, <2>1, UiAck
  <2>3. SessionShape' BY <1>2, <2>2 DEF AnswersInv, SessionShape, NoApply
  <2>4. StatusOrder' BY <1>1, <1>2, HeadTaken
  <2>5. ASSUME ~shifted' PROVE OneLive'
    <3>1. ~shifted /\ ~Head(toGui).carried BY <1>4, <2>5 DEF OnDisplayModeAck, signal
    <3>2. OneLive BY <3>1 DEF AnswersInv
    <3>3. /\ 1 \in DOMAIN toGui /\ Head(toGui) = toGui[1] /\ IsSeq(toGui')
          /\ \A i \in DOMAIN toGui' : i + 1 \in DOMAIN toGui /\ toGui'[i] = toGui[i + 1]
      BY <1>1, <1>2, TailKeeps DEF SignalsOK
    <3>4. AckLive(1) BY <1>2, <3>1, <3>3 DEF AckLive
    <3>5. (\A i \in DOMAIN modeQ : ~QueuedLive(i)) /\ ~SlotLive
      BY <3>2, <3>3, <3>4 DEF OneLive, NoAckLive
    <3>6. \A i \in DOMAIN toGui : AckLive(i) => i = 1 BY <3>2, <3>3, <3>4 DEF OneLive
    <3>7. NoAckLive'
      <4> SUFFICES ASSUME NEW i \in DOMAIN toGui', AckLive(i)' PROVE FALSE BY DEF NoAckLive
      <4>1. i \in Nat /\ i >= 1 BY <3>3, SeqIndices
      <4>2. i + 1 \in DOMAIN toGui /\ AckLive(i + 1) BY <3>3 DEF AckLive
      <4> QED BY <3>6, <4>1, <4>2
    <3>8. ~SlotLive' /\ \A i \in DOMAIN modeQ' : ~QueuedLive(i)'
      BY <1>2, <3>5 DEF SlotLive, QueuedLive
    <3> QED BY <3>7, <3>8 DEF OneLive, NoAckLive
  <2> QED BY <2>3, <2>4, <2>5 DEF AnswersInv
<1> QED BY <1>3, <1>4

\* An Apply that goes out finds none in flight, so that none is live.
LEMMA ApplyKeeps ==
    ASSUME AnswersInv, HostInv, NEW m \in Modes, SelectAndApply(m)
    PROVE  AnswersInv'
<1>1. SignalsOK BY DEF HostInv
<1>2. UNCHANGED <<ep, slot, conn, pc, toGui, shifted>> BY DEF SelectAndApply, WorkerKeeps
<1>3. SessionShape /\ StatusOrder /\ UiShape(ui) /\ (ui.applyEnabled => ~ui.switching)
  BY DEF AnswersInv, SessionShape
<1>4. PICK t : t = SetSelectedMode(ui, m) OBVIOUS
<1>5. ui' = ApplyRequested(t) BY <1>4 DEF SelectAndApply
<1>6. CASE ~ApplyGoesOut(t)
  <2>1. UNCHANGED modeQ BY <1>4, <1>6 DEF SelectAndApply
  <2>2. SameApply(ui', ui) /\ (ui'.applyEnabled <=> ui.applyEnabled)
    BY <1>3, <1>4, <1>5, <1>6, UiApply
  <2>3. ui'.applyEnabled => ~ui'.switching BY <1>3, <2>2 DEF SameApply
  <2> QED BY <1>2, <1>3, <2>1, <2>2, <2>3, AnswersSame DEF SessionShape
<1>7. CASE ApplyGoesOut(t)
  <2>1. /\ UiShape(ui') /\ ~ui.switching
        /\ ui'.switching /\ ~ui'.applyEnabled /\ ui'.sent = m
    BY <1>3, <1>4, <1>5, <1>7, UiApply
  <2>2. modeQ' = QueueMode(modeQ, m, toGui') BY <1>2, <1>4, <1>7 DEF SelectAndApply
  <2>3. ep = "up" => \A i \in DOMAIN toGui' : IsLoss(toGui'[i]) =>
                        \E j \in DOMAIN toGui' : j > i /\ IsUp(toGui'[j])
    BY <1>2, <1>3 DEF StatusOrder
  <2>4. IsSeq(toGui') BY <1>1, <1>2 DEF SignalsOK
  <2>5. /\ IsSeq(modeQ')
        /\ \A i \in DOMAIN modeQ' : modeQ'[i].conn \in Int /\ modeQ'[i].conn <= conn
        /\ \A i \in DOMAIN modeQ' : QueuedLive(i)' =>
              \/ \E j \in DOMAIN modeQ : QueuedLive(j)
              \/ i = Len(modeQ') /\ modeQ'[i].mode = m /\ NoStatus'
    BY <1>2, <1>3, <2>2, <2>3, <2>4, RequestMade
  <2>6. /\ \A i : AckLive(i)' <=> AckLive(i)
        /\ (SlotLive' <=> SlotLive) /\ (NoStatus' <=> NoStatus) /\ (NoAckLive' <=> NoAckLive)
    BY <1>2 DEF AckLive, SlotLive, NoStatus, NoAckLive
  <2>7. StatusOrder' BY <1>2, <1>3, <2>3, <2>5, <2>6 DEF StatusOrder
  <2>8. SessionShape' BY <1>2, <1>3, <2>1, <2>5 DEF SessionShape
  <2>9. ASSUME ~shifted' PROVE OneLive'
    <3>1. NoneLive BY <1>2, <2>1, <2>9, IdleIsClear DEF AnswersInv
    <3>2. PICK n : n = Len(modeQ') OBVIOUS
    <3>3. NoAckLive' BY <2>6, <3>1 DEF NoneLive
    <3>4. \A i \in DOMAIN modeQ' : QueuedLive(i)' => i = n /\ modeQ'[i].mode = ui'.sent
      BY <2>1, <2>5, <3>1, <3>2 DEF NoneLive
    <3> QED BY <1>2, <2>1, <3>1, <3>3, <3>4, OnlyTheNewest
  <2> QED BY <2>7, <2>8, <2>9 DEF AnswersInv
<1> QED BY <1>6, <1>7

\* The watchdog of an answer fires when no answer is under way.
LEMMA AckTimeoutKeeps == ASSUME AnswersInv, HostInv, ModeAckTimeout PROVE AnswersInv'
<1>1. /\ UNCHANGED <<ep, slot, conn, pc, toGui, modeQ, shifted>>
      /\ ui.switching /\ ~AnswerUnderWay /\ ui' = OnAck(ui, FALSE)
  BY DEF ModeAckTimeout, WorkerKeeps
<1>2. IsSeq(modeQ) /\ UiShape(ui) /\ (ep = "up" => pc = "pump")
  BY DEF AnswersInv, SessionShape
<1>3. ep = "up" => DOMAIN modeQ = {}
  <2>1. ep = "up" => modeQ = <<>> BY <1>1, <1>2 DEF AnswerUnderWay
  <2>2. modeQ = <<>> => DOMAIN modeQ = {} BY <1>2, NonEmpty, SeqIndices
  <2> QED BY <2>1, <2>2
<1>4. /\ \A i \in DOMAIN modeQ' : ~QueuedLive(i)'
      /\ ~SlotLive' /\ NoAckLive'
  BY <1>1, <1>3 DEF QueuedLive, SlotLive, NoAckLive, AckLive, AnswerUnderWay
<1>5. OneLive' BY <1>4 DEF OneLive, NoAckLive
<1>6. NoApply(ui') BY <1>1, <1>2, UiAck
<1>7. SessionShape' BY <1>1, <1>6 DEF AnswersInv, SessionShape, NoApply
<1>8. StatusOrder'
  <2>1. StatusOrder BY DEF AnswersInv
  <2> QED BY <1>1, <1>4, <2>1 DEF StatusOrder, NoAckLive
<1> QED BY <1>5, <1>7, <1>8 DEF AnswersInv

LEMMA AnswersPreserved ==
    ASSUME AnswersInv, HostInv, wifiQ \in Seq(WifiCommands),
           [Next /\ UNCHANGED budget]_<<vars, budget>>
    PROVE  AnswersInv'
<1> USE DEF AnswersInv
<1>1. CASE UNCHANGED vars
  <2>1. /\ UNCHANGED <<ep, slot, conn, shifted, modeQ, toGui, pc, ui>>
        /\ ep = "up" => pc' = "pump"
    BY <1>1 DEF vars, workerVars, windowVars, SessionShape
  <2> QED BY <2>1, UiKept, AnswersSame
<1>2. SessionShape /\ UiShape(ui) BY DEF SessionShape
<1>3. CASE OnFrameReady
  <2>1. SameApply(ui', ui) /\ (ui'.applyEnabled => ~ui'.switching)
    <3>1. CASE ui' = ui BY <3>1, UiKept
    <3>2. CASE ~ui.switching /\ ui' = OnFullCommit(ui)
      BY <1>2, <3>2, UiFull DEF SameApply
    <3> QED BY <1>3, <3>1, <3>2 DEF OnFrameReady, FramePasses
  <2> QED BY <1>3, <2>1, SignalLeavesApply DEF OnFrameReady, Takes
<1>4. CASE OnCapabilities
  <2>1. SameApply(ui', ui) /\ (ui'.applyEnabled => ~ui'.switching)
    BY <1>2, <1>4, UiPanel DEF OnCapabilities, SameApply, SessionShape
  <2> QED BY <1>4, <2>1, SignalLeavesApply DEF OnCapabilities, Takes
<1>5. CASE DropStale
  <2>1. UNCHANGED <<ui, shifted, modeQ>> BY <1>5 DEF DropStale, windowVars
  <2> QED BY <1>5, <2>1, UiKept, SignalLeavesApply DEF DropStale, Takes
<1>6. ASSUME UNCHANGED <<ep, slot, conn, shifted, modeQ, toGui, pc>>,
             SameApply(ui', ui), ui'.applyEnabled => ~ui'.switching
      PROVE  AnswersInv'
  BY <1>2, <1>6, AnswersSame DEF SessionShape
<1>7. CASE ModeFullTimeout
  <2>1. SameApply(ui', ui) /\ (ui'.applyEnabled => ~ui'.switching)
    BY <1>2, <1>7, UiFull DEF ModeFullTimeout, SameApply
  <2> QED BY <1>6, <1>7, <2>1 DEF ModeFullTimeout, WorkerKeeps
<1>8. CASE SwitchTimeout
  <2>1. PICK b : b = ~ui.switching OBVIOUS
  <2>2. PICK r : r = [ui EXCEPT !.applyEnabled = b] OBVIOUS
  <2>3. SameApply(r, ui) /\ (r.applyEnabled => ~r.switching)
    BY <1>2, <2>1, <2>2 DEF SameApply, UiShape, UiFields
  <2>4. ui' = r
    <3>1. AbortSwitch(ui) BY <1>8 DEF SwitchTimeout
    <3> QED BY <2>1, <2>2, <3>1, Zenon DEF AbortSwitch
  <2> QED BY <1>6, <1>8, <2>3, <2>4 DEF SwitchTimeout, WorkerKeeps
<1>9. ASSUME NEW k \in Kinds, ApplyTransport(k) PROVE AnswersInv'
  <2>1. SameApply(ui', ui) /\ (ui'.applyEnabled => ~ui'.switching)
    BY <1>2, <1>9 DEF ApplyTransport, SameApply, UiShape, UiFields
  <2> QED BY <1>6, <1>9, <2>1 DEF ApplyTransport, WorkerKeeps
<1>10. ASSUME NEW c \in WifiCommands, AskWifi(c) PROVE AnswersInv'
  <2>1. UNCHANGED <<ep, slot, conn, shifted, modeQ, toGui, pc, ui>>
    BY <1>10 DEF AskWifi, windowVars
  <2> QED BY <1>6, <2>1, UiKept
<1>11. CASE User BY <1>9, <1>10, <1>11, ApplyKeeps DEF User
<1>12. CASE TakeSignal
  BY <1>3, <1>4, <1>5, <1>12, StatusConnectedKeeps, StatusLostKeeps, AckTakenKeeps DEF TakeSignal
<1>13. CASE Watchdogs BY <1>7, <1>8, <1>13, AckTimeoutKeeps DEF Watchdogs
<1> QED BY <1>1, <1>11, <1>12, <1>13, WorkerKeepsAnswers, SwitchKeeps DEF Next

\* What waits in the Wi-Fi queue is a Wi-Fi command.
WifiAsked == wifiQ \in Seq(WifiCommands)

LEMMA WifiAskedPreserved ==
    ASSUME WifiAsked, [Next /\ UNCHANGED budget]_<<vars, budget>> PROVE WifiAsked'
<1> USE DEF WifiAsked
<1>1. ASSUME wifiQ' \in {wifiQ, <<>>} \/ (wifiQ # <<>> /\ wifiQ' = Tail(wifiQ))
      PROVE  WifiAsked'
  <2>1. CASE wifiQ' = wifiQ BY <2>1
  <2>2. CASE wifiQ' = <<>>
    <3>1. <<>> \in Seq(WifiCommands) OBVIOUS
    <3> QED BY <2>2, <3>1, Zenon
  <2>3. CASE wifiQ # <<>> /\ wifiQ' = Tail(wifiQ) BY <2>3
  <2> QED BY <1>1, <2>1, <2>2, <2>3
<1>2. ASSUME NEW c \in WifiCommands, AskWifi(c) PROVE WifiAsked'
  <2>1. \/ wifiQ' = wifiQ
        \/ wifiQ' = Append(wifiQ, c)
        \/ wifiQ # <<>> /\ wifiQ' = Append(Tail(wifiQ), c)
    <3>1. QueueCap \in Nat BY HostBounds
    <3>2. wifiQ = <<>> => Len(wifiQ) = 0 OBVIOUS
    <3> QED BY <1>2, <3>1, <3>2 DEF AskWifi, PushLatest
  <2>2. CASE wifiQ' = wifiQ BY <2>2
  <2>3. CASE wifiQ' = Append(wifiQ, c) BY <1>2, <2>3
  <2>4. CASE wifiQ # <<>> /\ wifiQ' = Append(Tail(wifiQ), c)
    <3>1. PICK t : t = Tail(wifiQ) OBVIOUS
    <3>2. t \in Seq(WifiCommands) BY <2>4, <3>1
    <3> QED BY <1>2, <2>4, <3>1, <3>2
  <2> QED BY <2>1, <2>2, <2>3, <2>4
<1>3. CASE UNCHANGED vars BY <1>1, <1>3 DEF vars, workerVars
<1>4. CASE WorkerRuns
  <2>1. wifiQ' \in {wifiQ, <<>>} \/ (wifiQ # <<>> /\ wifiQ' = Tail(wifiQ))
    BY <1>4 DEF WorkerRuns, EnterLoop, Bind, BindFails, ThreadEnds, Opens, OpenFails, Decode,
       GiveUp, NoticeLoss, SendMode, SendWifi
  <2> QED BY <1>1, <2>1
<1>5. CASE Surroundings
  <2>1. UNCHANGED wifiQ BY <1>5 DEF Surroundings, Receive, LinkDrops, PeerSilent
  <2> QED BY <1>1, <2>1
<1>6. CASE TakeSignal \/ Watchdogs \/ (\E m \in Modes : SelectAndApply(m))
           \/ (\E k \in Kinds : ApplyTransport(k))
  <2>1. UNCHANGED wifiQ
    BY <1>6 DEF TakeSignal, Watchdogs, SelectAndApply, ApplyTransport, OnStatusConnected,
       OnStatusLost, DropStale, OnFrameReady, OnCapabilities, OnDisplayModeAck, ModeAckTimeout,
       ModeFullTimeout, SwitchTimeout, WorkerKeeps
  <2> QED BY <1>1, <2>1
<1>7. CASE BeginSwitchEnds
  <2>1. wifiQ' = <<>> BY <1>7 DEF BeginSwitchEnds, SwitchTransport
  <2> QED BY <1>1, <2>1
<1> QED BY <1>2, <1>3, <1>4, <1>5, <1>6, <1>7 DEF Next, User

LEMMA AnswersInvariant == Spec => []AnswersInv
<1>1. Init => AnswersInv /\ WifiAsked BY AnswersInitial DEF Init, WorkerInit, WifiAsked
<1>2. HostInv /\ AnswersInv /\ WifiAsked /\ [Next /\ UNCHANGED budget]_<<vars, budget>>
        => AnswersInv' /\ WifiAsked'
  BY AnswersPreserved, WifiAskedPreserved DEF WifiAsked
<1> QED BY <1>1, <1>2, HostInvariant, PTL DEF Spec

\* The answer that the window takes for its Apply is to the mode it records as applied, but
\* for the requests that were made before the session they were sent in (MainWindow's
\* slot of displayModeAck, DisplayUiState::onAck).
THEOREM ApplyGetsItsAnswer == Spec => AckOfTheApply
<1>1. AnswersInv /\ HostInv /\ OnDisplayModeAck /\ ui.switching /\ signal.ok
        => signal.mode = ui'.applied \/ signal.carried \/ shifted
  <2> SUFFICES ASSUME AnswersInv, HostInv, OnDisplayModeAck, ui.switching, signal.ok,
                      ~signal.carried, ~shifted
               PROVE  signal.mode = ui'.applied
      OBVIOUS
  <2>1. /\ toGui # <<>> /\ signal = Head(toGui) /\ signal.k = "ack" /\ ui' = OnAck(ui, signal.ok)
    BY DEF OnDisplayModeAck, Takes, signal
  <2>2. 1 \in DOMAIN toGui /\ signal = toGui[1] BY <2>1, TailKeeps DEF HostInv, SignalsOK
  <2>3. AckLive(1) BY <2>1, <2>2 DEF AckLive
  <2>4. signal.mode = ui.sent BY <2>2, <2>3 DEF AnswersInv, OneLive
  <2>5. ui'.applied = ui.sent BY <2>1, UiAck DEF AnswersInv, SessionShape
  <2> QED BY <2>4, <2>5
<1> QED BY <1>1, AnswersInvariant, HostInvariant, PTL DEF AckOfTheApply

=============================================================================

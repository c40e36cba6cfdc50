----------------------------- MODULE HostWindow -----------------------------
(* MainWindow (pc/src/main.cpp) with its display mode selector: what the window  *)
(* does with the worker's signals, with the user's clicks and with its two       *)
(* watchdogs.  It composes HostWorker, which it starts, stops and asks, and      *)
(* DisplayUiState, the model behind the selector.                                *)
EXTENDS HostWorker, DisplayUiState

VARIABLES
  ui,          \* the DisplayUiState of the mode selector
  session,     \* currentSessionId_; 0 lets every session's signals through
  switching,   \* switching_: a transport switch is under way
  awaitFull,   \* switchPendingFull_: ... and waits for a FULL frame
  failed,      \* lastSwitchFailed_
  dwell,       \* targets of the beginSwitch calls that sit in their event loop
  modeTimer,   \* modeWatchdog_ runs
  misled,      \* history: a Connected of a session that had ended was taken
  shifted      \* history: the answer to a request from before this session was taken
               \* for that of an Apply, whose own is still to come

windowVars == <<ui, session, switching, awaitFull, failed, dwell, modeTimer,
                misled, shifted>>
vars == <<workerVars, windowVars>>

Init ==
  /\ WorkerInit /\ ui = UiInit /\ session = 0 /\ switching = FALSE
  /\ awaitFull = FALSE /\ failed = FALSE /\ dwell = <<>>
  /\ modeTimer = FALSE /\ misled = FALSE /\ shifted = FALSE

\* The window's thread runs its event loop: the main one, or the one of beginSwitch.
InEventLoop == dwell # <<>> => dwell[Len(dwell)].loop
signal == Head(toGui)
Takes(k) == InEventLoop /\ toGui # <<>> /\ Head(toGui).k = k
Threads == sessionId + Len(dwell) + (IF pc = "starting" THEN 1 ELSE 0)
MayAsk == InEventLoop /\ InBudget(Asked + 1, Threads)

\* The gate of onStatusChanged.
Stale(sid) == session # 0 /\ sid # 0 /\ sid < session

\* The session the window knows of, while `signals' are still queued for it.
Known(signals) ==
  conn - Cardinality({i \in DOMAIN signals : signals[i].k = "status" /\ signals[i].what = "Connected"})
QueueMode(q, m, signals) ==
  PushLatest(q, [mode |-> m, conn |-> Known(signals)], QueueCap)

\* What the drains and the worker's own variables keep when the window moves.
WorkerKeeps == UNCHANGED <<kind, sessionId, pc, conn, link, ep, rxBuf, wifiQ, slot,
                           ackKind, sent>>

AbortSwitch(s) ==
  /\ switching' = FALSE /\ awaitFull' = FALSE /\ failed' = TRUE
  /\ ui' = [s EXCEPT !.applyEnabled = ~s.switching]

\* needsAutoSend: an Apply that waits or was interrupted, or a mode that a device
\* which restarted may have lost.
NeedsAutoSend(s) ==
  \/ (s.waiting \/ s.interrupted) /\ s.selected # s.applied
  \/ s.applied # "virtual"

\* onStatusChanged, Connected: the gate follows the worker's present session, and
\* a mode is sent again when needed.
OnStatusConnected ==
  /\ Takes("status") /\ signal.what = "Connected" /\ ~Stale(signal.sid)
  /\ toGui' = Tail(toGui) /\ session' = sessionId
  /\ misled' = (misled \/ signal.sid # sessionId \/ dwell # <<>> \/ pc = "starting")
  /\ shifted' = FALSE
  /\ LET s == OnConnected(ui) IN
     IF NeedsAutoSend(ui)
     THEN /\ ui' = OnSwitchStart(s) /\ modeQ' = QueueMode(modeQ, s.selected, Tail(toGui))
          /\ modeTimer' = TRUE
     ELSE ui' = s /\ UNCHANGED <<modeQ, modeTimer>>
  /\ WorkerKeeps
  /\ UNCHANGED <<switching, awaitFull, failed, dwell>>

\* onStatusChanged, Disconnected and Error: the capability is forgotten with the
\* session; an error during a switch aborts it.
OnStatusLost ==
  /\ Takes("status") /\ signal.what \in {"Disconnected", "Error"} /\ ~Stale(signal.sid)
  /\ toGui' = Tail(toGui)
  /\ IF signal.what = "Error" /\ switching
     THEN /\ switching' = FALSE /\ awaitFull' = FALSE /\ failed' = TRUE
     ELSE UNCHANGED <<switching, awaitFull, failed>>
  /\ ui' = OnPhysicalAvailable(OnDisconnected(ui), FALSE)
  /\ WorkerKeeps
  /\ UNCHANGED <<modeQ, session, dwell, modeTimer, misled, shifted>>

DropStale ==
  /\ Takes("status") /\ Stale(signal.sid) /\ toGui' = Tail(toGui)
  /\ WorkerKeeps /\ UNCHANGED <<modeQ, windowVars>>

\* Mutant of FramePasses: frames of any worker thread pass.
FramePassesAnySession(f) == ~ui.switching
\* onFrameReady: the session gate, the gate of an Apply in flight; a FULL frame
\* completes a transport switch.
FramePasses(f) == f.sid = session /\ ~ui.switching

OnFrameReady ==
  /\ Takes("frame") /\ toGui' = Tail(toGui)
  /\ IF FramePasses(signal)
     THEN /\ ui' = OnFullCommit(ui) /\ awaitFull' = FALSE
          /\ switching' = (switching /\ ~awaitFull)
     ELSE UNCHANGED <<ui, awaitFull, switching>>
  /\ WorkerKeeps
  /\ UNCHANGED <<modeQ, session, failed, dwell, modeTimer, misled, shifted>>

\* onCapabilitiesReceived, and the telemetry line that first reports a panel.
OnCapabilities ==
  /\ Takes("caps") /\ toGui' = Tail(toGui) /\ ui' = OnPhysicalAvailable(ui, TRUE)
  /\ WorkerKeeps
  /\ UNCHANGED <<modeQ, session, switching, awaitFull, failed, dwell, modeTimer,
                 misled, shifted>>

\* displayModeAck: the watchdog stops, and starts again for the FULL frame.
OnDisplayModeAck ==
  /\ Takes("ack") /\ toGui' = Tail(toGui)
  /\ ui' = OnAck(ui, signal.ok)
  /\ modeTimer' = (signal.ok /\ ui'.fullPending)
  /\ shifted' = (shifted \/ (ui.switching /\ signal.carried))
  /\ WorkerKeeps
  /\ UNCHANGED <<modeQ, session, switching, awaitFull, failed, dwell, misled>>

\* Mutant of SelectAndApply: the watchdog is not started.
SelectAndApplyUnwatched(m) ==
  /\ MayAsk /\ MaySelect(ui, m)
  /\ LET s == SetSelectedMode(ui, m) IN
     /\ ui' = ApplyRequested(s)
     /\ IF ApplyGoesOut(s)
        THEN /\ modeQ' = QueueMode(modeQ, m, toGui) /\ UNCHANGED modeTimer
        ELSE UNCHANGED <<modeQ, modeTimer>>
  /\ WorkerKeeps
  /\ UNCHANGED <<toGui, session, switching, awaitFull, failed, dwell, misled, shifted>>
\* The user selects a mode and presses Apply.
SelectAndApply(m) ==
  /\ MayAsk /\ MaySelect(ui, m)
  /\ LET s == SetSelectedMode(ui, m) IN
     /\ ui' = ApplyRequested(s)
     /\ IF ApplyGoesOut(s)
        THEN /\ modeQ' = QueueMode(modeQ, m, toGui) /\ modeTimer' = TRUE
        ELSE UNCHANGED <<modeQ, modeTimer>>
  /\ WorkerKeeps
  /\ UNCHANGED <<toGui, session, switching, awaitFull, failed, dwell, misled, shifted>>

\* The wizard asks for a scan, sends credentials or clears them.
AskWifi(c) ==
  /\ MayAsk /\ wifiQ' = PushLatest(wifiQ, c, QueueCap)
  /\ UNCHANGED <<kind, sessionId, pc, conn, link, ep, rxBuf, modeQ, slot, ackKind,
                 sent, toGui, windowVars>>

\* An answer to the Apply in flight may still come.
AnswerUnderWay ==
  \/ slot.kind = "mode"
  \/ pc = "pump" /\ modeQ # <<>>
  \/ \E i \in DOMAIN toGui : toGui[i].k \in {"ack", "status"}

\* onModeWatchdog, 10 s after the Apply: longer than the worker's retries take,
\* so that no answer is under way any more.
ModeAckTimeout ==
  /\ InEventLoop /\ modeTimer /\ ui.switching /\ ~AnswerUnderWay
  /\ ui' = OnAck(ui, FALSE) /\ modeTimer' = FALSE
  /\ WorkerKeeps
  /\ UNCHANGED <<toGui, modeQ, session, switching, awaitFull, failed, dwell,
                 misled, shifted>>

\* onModeWatchdog, 15 or 30 s after the answer; or nothing is left to wait for.
ModeFullTimeout ==
  /\ InEventLoop /\ modeTimer /\ ~ui.switching
  /\ ui' = OnFullTimeout(ui) /\ modeTimer' = FALSE
  /\ WorkerKeeps
  /\ UNCHANGED <<toGui, modeQ, session, switching, awaitFull, failed, dwell,
                 misled, shifted>>

\* onApplyTransport and beginSwitch up to the local event loop, which runs only
\* when the kind changes and the worker lives.
Alive == pc \notin {"none", "starting"}
ApplyTransport(k) ==
  /\ InEventLoop /\ ~switching /\ ~ui.switching
  /\ InBudget(Asked, Threads + 1)
  /\ failed \/ ~Alive \/ k # kind
  /\ switching' = TRUE /\ failed' = FALSE /\ ui' = [ui EXCEPT !.applyEnabled = FALSE]
  /\ session' = 0 /\ dwell' = Append(dwell, [kind |-> k, loop |-> Alive /\ k # kind])
  /\ misled' = (misled /\ dwell # <<>>)
  /\ WorkerKeeps /\ UNCHANGED <<toGui, modeQ, awaitFull, modeTimer, shifted>>

\* Mutant of BeginSwitchEnds: nothing waits for the FULL frame of the new link.
BeginSwitchEndsUnwatched ==
  /\ dwell # <<>> /\ SwitchTransport(dwell[Len(dwell)].kind)
  /\ awaitFull' = awaitFull
  /\ dwell' = SubSeq(dwell, 1, Len(dwell) - 1)
  /\ UNCHANGED <<ui, session, switching, failed, modeTimer, misled, shifted>>
\* The rest of beginSwitch: the innermost event loop ends first.
BeginSwitchEnds ==
  /\ dwell # <<>> /\ SwitchTransport(dwell[Len(dwell)].kind)
  /\ awaitFull' = TRUE
  /\ dwell' = SubSeq(dwell, 1, Len(dwell) - 1)
  /\ UNCHANGED <<ui, session, switching, failed, modeTimer, misled, shifted>>

\* onSwitchWatchdog: no FULL frame within 30 s.
SwitchTimeout ==
  /\ InEventLoop /\ awaitFull /\ AbortSwitch(ui)
  /\ WorkerKeeps
  /\ UNCHANGED <<toGui, modeQ, session, dwell, modeTimer, misled, shifted>>

User == \/ \E m \in Modes : SelectAndApply(m)
        \/ \E c \in WifiCommands : AskWifi(c)
        \/ \E k \in Kinds : ApplyTransport(k)
TakeSignal == \/ OnStatusConnected \/ OnStatusLost \/ DropStale \/ OnFrameReady
              \/ OnCapabilities \/ OnDisplayModeAck
Watchdogs == ModeAckTimeout \/ ModeFullTimeout \/ SwitchTimeout

Next == \/ (WorkerRuns \/ Surroundings) /\ UNCHANGED windowVars
        \/ User \/ TakeSignal \/ Watchdogs \/ BeginSwitchEnds

\* The event loop takes every signal and runs its timers; the worker's loop turns,
\* and gives a request up after its last retry.
Fairness ==
  /\ WF_vars(TakeSignal) /\ SF_vars(ModeAckTimeout) /\ WF_vars(ModeFullTimeout)
  /\ WF_vars(SwitchTimeout) /\ WF_vars(BeginSwitchEnds)
  /\ SF_vars(GiveUp /\ UNCHANGED windowVars)
  /\ WF_vars((EnterLoop \/ SendMode \/ SendWifi \/ NoticeLoss) /\ UNCHANGED windowVars)

Spec == Init /\ [][Next /\ UNCHANGED budget]_<<vars, budget>> /\ Fairness

-----------------------------------------------------------------------------
\* While a request waits for its answer, pendingAckKind_ is the kind of that request,
\* although one variable serves every kind and other requests went out before: an
\* answer or a timeout is reported as the one the user waits for.
KindOfSlot == slot # NoRequest => ackKind = slot.kind

\* After a switch of the transport nothing the old link received is left in rxBuf_ for
\* the new session to decode.  (A link that comes back within one worker thread does
\* find such bytes: only switchTransport clears the buffer.)
BytesOfThisThread == \A i \in DOMAIN rxBuf : rxBuf[i].sid = sessionId

\* The positive acknowledgement the window takes for its Apply in flight is that of the
\* mode it records as applied.  The acknowledgement names no mode and its Apply no
\* longer has an epoch of its own; the exception is a request that the user made, as far
\* as the window knew, before the session it was sent in: it waited in the worker's queue,
\* or the window had the end of the session still to take from its own.  Its answer is
\* taken for that of the Apply then, and the answers that follow in this session for
\* those of the next ones.
AckOfTheApply ==
  [][OnDisplayModeAck /\ ui.switching /\ signal.ok
       => signal.mode = ui'.applied \/ signal.carried \/ shifted]_vars

\* A switch of the transport is reported as done on a FULL frame of the worker thread
\* it started, unless the window took a Connected of the old one after beginSwitch had
\* opened the gate: that Connected sets the gate back to the old session.
SwitchSucceedsOnNewSession ==
  [][OnFrameReady /\ awaitFull /\ ~awaitFull'
       => signal.sid = sessionId \/ misled]_vars

\* The Apply button comes back: an Apply whose SET_MODE was dropped without a session,
\* overwritten in the one slot for answers, or lost with its link ends all the same.
ApplyEnds == ui.switching ~> ~ui.switching

\* A switch of the transport ends, in success, in an error or by its watchdog.
SwitchEnds == switching ~> ~switching

=============================================================================

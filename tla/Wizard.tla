-------------------------------- MODULE Wizard --------------------------------
(* The Wi-Fi wizard of the host: WifiWizardState (pc/src/wifi_wizard_state.cpp), *)
(* the dialog that drives it and its observer of the TCP handoff                 *)
(* (wifi_wizard_dialog.cpp), between a user, the worker's signals and a device.  *)
(* The host's transport is the UART one.                                         *)
EXTENDS Naturals, Sequences

CONSTANTS
  WizardBudgets  \* bounds, one of them for a behaviour: scans and configurations
                 \* asked for, errors of the link, connections accepted, dialogs

VARIABLES
  wz,        \* the dialog: its WifiWizardState, flags, watchdog and observer
  posted,    \* the observer's signals that the event loop has not taken yet
  uart,      \* the worker's status is Connected
  caps,      \* the worker holds capabilities, perhaps of an earlier session
  commands,  \* wifiQueue_ of the worker
  slot,      \* the request of the wizard that waits for its acknowledgement
  device,    \* how far the device is with the configuration it has
  scanSeq,   \* the number of the device's last scan
  results,   \* scans the device still reports
  used,      \* what a budget bounds: [asks, errors, clients, dialogs]
  loose,     \* history: why a wait may have lost its watchdog
  earned,    \* history: a frame came since the last Apply ...
  stray      \* history: ... at which a frame of an earlier one was still about

wizardVars == <<wz, posted, uart, caps, commands, slot, device, scanSeq, results,
                used, loose, earned, stray>>
linkVars == <<uart, caps, slot, device, scanSeq, results>>
historyVars == <<loose, earned, stray>>

Spend(what) ==
  /\ used' = [used EXCEPT ![what] = @ + 1]
  /\ \E b \in WizardBudgets : \A k \in DOMAIN used : used'[k] <= b[k]

EditSteps == <<"Init", "ConnectUart", "ReadCapabilities", "Scan", "SelectSsid",
               "Password", "TcpConfig">>
AsyncSteps == <<"Applying", "Connecting", "GotIp", "TcpConnected", "FullResync">>
Edit == {EditSteps[i] : i \in DOMAIN EditSteps}
Async == {AsyncSteps[i] : i \in DOMAIN AsyncSteps}
Early == {"Init", "ConnectUart", "ReadCapabilities", "Scan"}
PlaceOf(step) == CHOOSE i \in DOMAIN EditSteps : EditSteps[i] = step

Passwords == {"open", "short", "good"}
\* What the observer of a dialog may be doing, and what it has told.
NoObserver == [at |-> "none", shook |-> FALSE, framed |-> FALSE]

Fresh ==
  [step |-> "Init", retry |-> "Init", ssid |-> FALSE, pwd |-> "open",
   ip |-> FALSE, port |-> FALSE, shownPwd |-> "open", scanning |-> FALSE,
   pending |-> FALSE, seq |-> 0, entries |-> FALSE, armed |-> FALSE,
   frame |-> FALSE, watch |-> FALSE, observer |-> NoObserver]

WizardInit ==
  /\ wz = Fresh /\ posted = <<>> /\ uart = FALSE /\ caps = FALSE
  /\ commands = <<>> /\ slot = "none" /\ device = "idle" /\ scanSeq = 0
  /\ results = {} /\ used = [asks |-> 0, errors |-> 0, clients |-> 0, dialogs |-> 1]
  /\ loose = {} /\ earned = FALSE /\ stray = FALSE

-----------------------------------------------------------------------------
(* WifiWizardState *)

Editable(w) == w.step \in Edit \cup {"Error"}

\* validationError of the step, as far as the buttons allow it to differ.
Valid(w) ==
  /\ w.step = "SelectSsid" => w.ssid
  /\ w.step = "Password" => w.pwd # "short"
  /\ w.step = "TcpConfig" => w.ip /\ w.port

CanApply(w) == w.ssid /\ w.pwd # "short" /\ w.ip /\ w.port

StepNext(w) == [w EXCEPT !.step = EditSteps[PlaceOf(@) + 1]]
StepBack(w) == [w EXCEPT !.step = EditSteps[PlaceOf(@) - 1]]

\* cancel() and cancelApplying(): every input is forgotten.
Forgotten(w) ==
  [w EXCEPT !.step = "Init", !.retry = "Init", !.ssid = FALSE, !.pwd = "open",
            !.ip = FALSE, !.port = FALSE]

Retried(w) == [w EXCEPT !.step = w.retry]

\* The mark functions: each moves on from its own step only.
Mark(w, from, to) == IF w.step = from THEN [w EXCEPT !.step = to] ELSE w

MarkError(w) ==
  [w EXCEPT !.retry = IF w.step \in Early THEN w.step ELSE "TcpConfig",
            !.step = "Error"]

-----------------------------------------------------------------------------
(* What the handlers of the dialog have in common *)

Watched(w) == [w EXCEPT !.watch = TRUE]
Unwatched(w) == [w EXCEPT !.watch = FALSE]
Unobserved(w) == [w EXCEPT !.observer = NoObserver]

\* clearSecrets: the field is cleared, and an editable wizard is cancelled.
ClearSecrets(w) ==
  LET v == [w EXCEPT !.shownPwd = "open"]
  IN IF Editable(v) THEN Forgotten(v) ELSE v

\* refreshUi: the final steps stop the observer, by joining it.
Refresh(w) == IF w.step \in {"Done", "Error"} THEN Unobserved(w) ELSE w

\* How an operation is given up; most handlers stop the watchdog first.
GivenUp(w) == Refresh(ClearSecrets(MarkError(w)))
Fails(w) == GivenUp(Unwatched(w))

ScanForgotten(w) == [w EXCEPT !.scanning = FALSE, !.pending = FALSE]

\* Mutant of CompleteResync: the pending frame is not asked for.
CompleteResyncAtOnce(w) ==
  IF w.step \in {"TcpConnected", "FullResync"}
  THEN ClearSecrets(Unobserved(Unwatched(
         [w EXCEPT !.frame = FALSE, !.armed = FALSE, !.step = "Done"])))
  ELSE w
\* maybeCompleteResync
CompleteResync(w) ==
  IF w.frame /\ w.step \in {"TcpConnected", "FullResync"}
  THEN ClearSecrets(Unobserved(Unwatched(
         [w EXCEPT !.frame = FALSE, !.armed = FALSE, !.step = "Done"])))
  ELSE w

\* maybeAdvanceBootstrap: what is there already is not waited for.
AdvanceBootstrap(w) ==
  LET read == IF w.step = "ConnectUart" /\ uart THEN Watched(StepNext(w)) ELSE w
  IN IF read.step = "ReadCapabilities" /\ caps THEN Unwatched(StepNext(read)) ELSE read

\* enterBootstrapStep
EnterBootstrap(w) ==
  AdvanceBootstrap(IF w.step \in {"ConnectUart", "ReadCapabilities"}
                   THEN Watched(w) ELSE w)

-----------------------------------------------------------------------------
(* The user *)

UserMoves == UNCHANGED <<posted, linkVars, historyVars>>

\* The buttons that refreshUi offers on the page of the step.  Scan works again as soon
\* as the request is acknowledged, since the list is empty then.
Offered(w) ==
  {b \in {"back", "next", "apply", "retry", "scan"} :
     CASE b = "back" -> w.step \in Edit \ {"Init"}
       [] b = "next" -> w.step \in Edit \ {"TcpConfig"} /\ (w.step = "Scan" => w.ssid)
       [] b = "apply" -> w.step = "TcpConfig" /\ CanApply(w)
       [] b = "retry" -> w.step = "Error"
       [] b = "scan" -> w.step = "Scan" /\ ~w.scanning /\ (w.pending => ~w.entries)}

\* onNext, up to the configuration of the server.
PressNext ==
  /\ "next" \in Offered(wz) /\ Valid(wz)
  /\ LET w == StepNext(wz) IN
     wz' = CASE w.step \in {"ConnectUart", "ReadCapabilities"} -> EnterBootstrap(w)
             [] w.step = "Scan" -> Unwatched(w)
             [] OTHER -> w
  /\ loose' = IF wz.step = "Scan" /\ (wz.scanning \/ wz.pending)
              THEN loose \cup {"left"} ELSE loose
  /\ UNCHANGED <<posted, linkVars, earned, stray, commands, used>>

\* Mutant of PressBack: nobody watches over Step 1 and 2 when they wait again.
PressBackUnwatched ==
  /\ "back" \in Offered(wz)
  /\ LET w == StepBack(IF wz.step = "Scan" THEN ScanForgotten(wz) ELSE wz) IN
     wz' = Unwatched(w)
  /\ UserMoves /\ UNCHANGED <<commands, used>>
\* onBack: a scan is forgotten, and Step 1 and 2 wait again.
PressBack ==
  /\ "back" \in Offered(wz)
  /\ LET w == StepBack(IF wz.step = "Scan" THEN ScanForgotten(wz) ELSE wz) IN
     wz' = [w EXCEPT !.watch = w.step \in {"ConnectUart", "ReadCapabilities"}]
  /\ UserMoves /\ UNCHANGED <<commands, used>>

\* onScanClicked and startScan
PressScan ==
  /\ "scan" \in Offered(wz) /\ Spend("asks")
  /\ wz' = Watched([wz EXCEPT !.scanning = TRUE, !.pending = FALSE, !.entries = FALSE])
  /\ commands' = Append(commands, [k |-> "scan", pwd |-> "open"])
  /\ UserMoves

\* onScanListSelectionChanged and onSsidChanged
PickSsid ==
  /\ wz.step \in {"Scan", "SelectSsid"} /\ wz.entries
  /\ wz' = [wz EXCEPT !.ssid = TRUE]
  /\ UserMoves /\ UNCHANGED <<commands, used>>

\* onPasswordChanged, and onOpenNetworkToggled for the open network.
TypePassword(p) ==
  /\ wz.step = "Password" /\ wz' = [wz EXCEPT !.pwd = p, !.shownPwd = p]
  /\ UserMoves /\ UNCHANGED <<commands, used>>

\* onTcpIpEdited and onTcpPortChanged
TypeServer ==
  /\ wz.step = "TcpConfig"
  /\ \/ wz' = [wz EXCEPT !.ip = TRUE]
     \/ wz' = [wz EXCEPT !.port = TRUE]
  /\ UserMoves /\ UNCHANGED <<commands, used>>

\* beginApply
BeginApply(w) == [w EXCEPT !.step = "Applying"]

\* startHandoffListener: the old observer is joined; its port may be taken.
Listening(w) == [w EXCEPT !.observer = [NoObserver EXCEPT !.at = "listening"]]

\* applyConfig: the configuration is queued and the watchdog started before the observer
\* tries to listen; when it cannot, the watchdog is left to run out.
PressApply ==
  /\ "apply" \in Offered(wz) /\ Spend("asks")
  /\ LET w == BeginApply(wz)
         sent == ClearSecrets([w EXCEPT !.pwd = "open"])
     IN /\ commands' = Append(commands, [k |-> "config", pwd |-> w.pwd])
        /\ \/ wz' = Listening(Watched(sent))
           \/ wz' = GivenUp(Unobserved(Watched(sent)))
  /\ earned' = FALSE
  /\ stray' = (wz.frame \/ \E i \in DOMAIN posted : posted[i] = "frame")
  /\ UNCHANGED <<posted, linkVars, loose>>

\* onRetry
PressRetry ==
  /\ "retry" \in Offered(wz) /\ wz' = Retried(wz)
  /\ UserMoves /\ UNCHANGED <<commands, used>>

\* onCancel and closeEvent, and Close on the last page: an Apply is taken back.  The
\* user opens the wizard again, a new dialog over the same worker.
Reopen ==
  /\ Spend("dialogs")
  /\ commands' = IF wz.step \in Async THEN <<[k |-> "clear", pwd |-> "open"]>>
                                      ELSE commands
  /\ wz' = Fresh /\ posted' = <<>>
  /\ UNCHANGED <<linkVars, historyVars>>

-----------------------------------------------------------------------------
(* The worker and the device *)

DialogTakes == UNCHANGED <<posted, commands, used, earned, stray>>

\* A wait of the wizard that somebody must end.
Waiting(w) ==
  \/ w.step \in Async \cup {"ConnectUart", "ReadCapabilities"}
  \/ w.step = "Scan" /\ (w.scanning \/ w.pending)

\* onStatusChanged, Connected
LinkConnects ==
  /\ ~uart /\ uart' = TRUE
  /\ wz' = IF wz.step = "ConnectUart" THEN EnterBootstrap(StepNext(wz)) ELSE wz
  /\ DialogTakes /\ UNCHANGED <<caps, slot, device, scanSeq, results, loose>>

\* onStatusChanged, Error: the watchdog stops first, whatever the step.
LinkErrs ==
  /\ Spend("errors")
  /\ IF wz.step \in {"ConnectUart", "ReadCapabilities", "Applying"}
     THEN wz' = Fails(wz) /\ UNCHANGED loose
     ELSE /\ wz' = Unwatched(wz)
          /\ loose' = IF Waiting(wz) THEN loose \cup {"error"} ELSE loose
  /\ \/ uart' = FALSE /\ slot' = "none" /\ results' = {}
     \/ UNCHANGED <<uart, slot, results>>
  /\ UNCHANGED <<posted, commands, earned, stray, caps, device, scanSeq>>

\* onStatusChanged, Disconnected
LinkEnds ==
  /\ uart /\ Spend("errors")
  /\ uart' = FALSE /\ slot' = "none" /\ results' = {}
  /\ wz' = IF wz.step = "Applying" THEN Fails(wz) ELSE wz
  /\ UNCHANGED <<posted, commands, historyVars, caps, device, scanSeq>>

\* onCapabilitiesReceived; the worker keeps them for whoever asks later.
CapsArrive ==
  /\ uart /\ caps' = TRUE
  /\ wz' = IF wz.step = "ReadCapabilities" THEN Unwatched(StepNext(wz)) ELSE wz
  /\ DialogTakes /\ UNCHANGED <<uart, slot, device, scanSeq, results, loose>>

\* drainWifiQueue: everything is sent, or dropped without a session; one slot holds
\* the last request, and a CLEAR is a message of the type of a configuration.
DrainsWifi ==
  /\ commands # <<>> /\ commands' = <<>>
  /\ IF uart
     THEN LET last == commands[Len(commands)].k IN
          /\ slot' = last
          /\ device' \in {device, CASE last = "config" -> "linking"
                                    [] last = "clear" -> "idle"
                                    [] OTHER -> device}
     ELSE UNCHANGED <<slot, device>>
  /\ UNCHANGED <<wz, posted, used, historyVars, uart, caps, scanSeq, results>>

\* onWifiScanReqAck: a refusal is an error in every step, and keeps its page.
ScanAnswered(ok) ==
  /\ slot = "scan" /\ slot' = "none"
  /\ IF ok
     THEN /\ scanSeq' = scanSeq + 1 /\ results' = results \cup {scanSeq'}
          /\ wz' = [wz EXCEPT !.scanning = FALSE, !.pending = TRUE]
     ELSE /\ wz' = Refresh(MarkError(Unwatched(ScanForgotten(wz))))
          /\ UNCHANGED <<scanSeq, results>>
  /\ loose' = IF wz.scanning THEN loose ELSE loose \cup {"answer"}
  /\ DialogTakes /\ UNCHANGED <<uart, caps, device>>

\* onWifiScanResult: taken once, on the two pages that show it.
ScanReported ==
  \E n \in results :
    /\ results' = results \ {n}
    /\ wz' = IF wz.step \in {"Scan", "SelectSsid"} /\ wz.pending /\ n # wz.seq
             THEN [Unwatched(ScanForgotten(wz)) EXCEPT !.seq = n, !.entries = TRUE]
             ELSE wz
    /\ DialogTakes /\ UNCHANGED <<uart, caps, slot, device, scanSeq, loose>>

\* onWifiConfigAck, also of a CLEAR; a refusal leaves the watchdog running.
ConfigAnswered(ok) ==
  /\ slot \in {"config", "clear"} /\ slot' = "none"
  /\ wz' = IF ok THEN Mark(wz, "Applying", "Connecting")
                 ELSE GivenUp(wz)
  /\ loose' = IF wz.step = "Applying" THEN loose ELSE loose \cup {"answer"}
  /\ DialogTakes /\ UNCHANGED <<uart, caps, device, scanSeq, results>>

\* The TCP link stands: wait for its first frame, which may have come already.
TcpStands(w) ==
  IF w.step = "GotIp"
  THEN CompleteResync(Watched([w EXCEPT !.step = "TcpConnected", !.armed = TRUE]))
  ELSE w

\* onWifiStatus, for the phases it does not ignore.
StatusArrives ==
  /\ \/ device = "linking" /\ device' = "gotIp" /\ wz' = Mark(wz, "Connecting", "GotIp")
     \/ device = "gotIp" /\ device' = "tcp" /\ wz' = TcpStands(wz)
     \/ /\ device # "idle" /\ device' = "idle"
        /\ wz' = IF wz.step \in {"Connecting", "GotIp", "TcpConnected"}
                 THEN Fails(wz) ELSE wz
  /\ uart /\ DialogTakes /\ UNCHANGED <<uart, caps, slot, scanSeq, results, loose>>

\* The device goes on while nobody hears it.
DeviceMoves ==
  /\ \/ device = "linking" /\ device' = "gotIp"
     \/ device = "gotIp" /\ device' = "tcp"
  /\ UNCHANGED <<wz, posted, commands, used, historyVars, uart, caps, slot, scanSeq,
                 results>>

\* onFrameReady: a frame of the worker counts from TcpConnected on.
WorkerFrame ==
  /\ uart /\ wz.armed /\ wz.step \in {"TcpConnected", "FullResync"}
  /\ wz' = CompleteResync([wz EXCEPT !.frame = TRUE]) /\ earned' = TRUE
  /\ UNCHANGED <<posted, commands, used, linkVars, loose, stray>>

-----------------------------------------------------------------------------
(* TcpHandoffObserver, and what the dialog makes of its signals *)

ObserverMoves == UNCHANGED <<commands, linkVars, historyVars>>

\* runAccept
ObserverAccepts ==
  /\ wz.observer.at = "listening" /\ device \in {"gotIp", "tcp"}
  /\ Spend("clients")
  /\ wz' = [wz EXCEPT !.observer.at = "session"]
  /\ UNCHANGED posted /\ ObserverMoves

\* runSession: handshake and first frame are told once each, the end of the session
\* and of the connection every time.
Observes ==
  /\ wz.observer.at = "session"
  /\ \/ /\ ~wz.observer.shook /\ posted' = Append(posted, "handshake")
        /\ wz' = [wz EXCEPT !.observer.shook = TRUE]
     \/ /\ wz.observer.shook /\ ~wz.observer.framed /\ posted' = Append(posted, "frame")
        /\ wz' = [wz EXCEPT !.observer.framed = TRUE]
     \/ /\ posted' = Append(posted, "lost")
        /\ wz' = [wz EXCEPT !.observer.at = "over"]
  /\ UNCHANGED used /\ ObserverMoves

\* onTcpHandshakeConnected, onTcpFirstFrame and onTcpLinkLost
TakesPosted ==
  /\ posted # <<>> /\ posted' = Tail(posted)
  /\ wz' = CASE Head(posted) = "handshake" ->
                  Refresh(TcpStands(Mark(wz, "Connecting", "GotIp")))
             [] Head(posted) = "frame" -> Refresh(CompleteResync([wz EXCEPT !.frame = TRUE]))
             [] Head(posted) = "lost" -> IF wz.step \in Async THEN Fails(wz) ELSE wz
  /\ earned' = (earned \/ Head(posted) = "frame")
  /\ UNCHANGED <<commands, used, linkVars, loose, stray>>

\* onWatchdogTimeout: in a step that does not wait it only runs out.
TimerFires ==
  /\ wz.watch
  /\ wz' = IF Waiting(wz)
           THEN Fails(IF wz.step = "Scan" THEN ScanForgotten(wz) ELSE wz)
           ELSE Unwatched(wz)
  /\ UNCHANGED <<posted, commands, used, linkVars, historyVars>>

WizardNext ==
  \/ PressNext \/ PressBack \/ PressScan \/ PickSsid \/ TypeServer \/ PressApply
  \/ PressRetry \/ Reopen \/ (\E p \in Passwords : TypePassword(p))
  \/ LinkConnects \/ LinkErrs \/ LinkEnds \/ CapsArrive \/ DrainsWifi
  \/ (\E ok \in BOOLEAN : ScanAnswered(ok) \/ ConfigAnswered(ok))
  \/ ScanReported \/ StatusArrives \/ DeviceMoves \/ WorkerFrame
  \/ ObserverAccepts \/ Observes \/ TakesPosted \/ TimerFires

WizardSpec == WizardInit /\ [][WizardNext]_wizardVars

-----------------------------------------------------------------------------
\* Whenever the wizard waits for link, capabilities, scan or handoff its watchdog runs.
\* It does not after a link error that the wizard tolerates, an answer that comes
\* when nobody waits for it, or a scan that the user did not wait for.
WaitIsWatched == Waiting(wz) => wz.watch \/ loose # {}

\* The wizard is done only on a frame that came since its Apply, unless one of an
\* earlier observer was left over.
DoneIsEarned == wz.step = "Done" => earned \/ stray

\* A failure is shown: an Apply that ended without success leaves the wizard on its error
\* page, from which Retry goes back, unless the dialog was closed.
ErrorIsShown ==
  [][wz.step \in Async /\ wz'.step \notin Async
       => wz'.step \in {"Done", "Error"} \/ wz' = Fresh]_wizardVars
=============================================================================

--------------------------- MODULE WifiProvisioning --------------------------
(***************************************************************************)
(* esp32/components/espview/src/wifi_provisioning: scans and credentials   *)
(* for the Wi-Fi station, asked for over the session.                      *)
(*                                                                         *)
(* The session task's tick() is cut where it releases mutex_ or calls the  *)
(* driver; pc says what it does next.  The event task handles one event of *)
(* the driver at a time under the same mutex; the RX task only leaves a    *)
(* command or the note that the session ended.  main.cpp's TCP handoff     *)
(* runs in the session task after tick(); what the TCP link and its        *)
(* session do is left open.                                                *)
(*                                                                         *)
(* Of the driver the model keeps the station, whether it scans, and the    *)
(* queue of its events, which arrive later than what they tell.  `races'   *)
(* records what went through the windows the code leaves:                  *)
(*   "deferred"     an event put off during a scan was thrown away with it *)
(*   "reordered"    an address came after the disconnect put off with it   *)
(*   "unconfigured" the station came up without credentials in force       *)
(*   "overwritten"  a phase was set over what an event had just changed    *)
(*   "stale"        the end of an earlier scan was taken for the current's *)
(* Status reports and signal strength are left out.                        *)
(***************************************************************************)
EXTENDS Integers, Sequences, ScanTransaction

CONSTANTS
    GenMod,        \* values of scanGen_ (a byte)
    MaxEvents,     \* events of the driver that wait while the station or a scan goes on
    MaxCommands,   \* commands of the host
    MaxEndings,    \* sessions that end
    MaxTroubles    \* refusals of the driver and lost associations, together

ASSUME WifiAssumption ==
    /\ GenMod \in Nat /\ GenMod > 1
    /\ {MaxEvents, MaxCommands, MaxEndings, MaxTroubles} \subseteq Nat

Phases == {"Idle", "Scanning", "ConfigApplying", "WifiConnecting", "WifiConnected", "GotIp",
           "TcpConnecting", "TcpConnected", "Error", "Cleared"}
TcpWindow == {"GotIp", "TcpConnecting", "TcpConnected"}
Reasons == {"transient", "final"} \* errorCodeForReason: none, or kAuthFailed, kApNotFound
Nothing == [down |-> "no", gotIp |-> FALSE]

VARIABLES
    phase, prevPhase, configured, ip, connectStart, \* ip_, connectStartMs_: set or not
    scanActive, scanGen, scanDoneGen,
    scanDone,      \* scanDonePending_ with scanDoneFailed_: "no", "ok", "failed"
    deferred,      \* pendingDisconnect_ with its code, pendingGotIp_
    command, sessionDisconnectPending,
    tx,            \* scanTransaction_
    pc,            \* the session task
    reconnect,     \* doReconnect of the scan's end
    handoff, latched, \* g_handoff, g_handoffDisabled of main.cpp
    evPc,          \* the event task: "idle", or about to call esp_wifi_connect
    station,       \* "down", "linking", "associated", "ip"
    credentials,   \* the driver holds some
    scanning, events,
    races, commands, endings, troubles

linkRest == <<prevPhase, configured, ip, connectStart>>
linkVars == <<phase, linkRest>>
scanVars == <<scanActive, scanGen, scanDoneGen, scanDone, deferred>>
inboxVars == <<command, sessionDisconnectPending>>
handoffVars == <<handoff, latched>>
taskVars == <<tx, pc, reconnect, handoffVars>>
driverVars == <<station, credentials, scanning, events>>
boundVars == <<commands, endings, troubles>>
vars == <<linkVars, scanVars, inboxVars, taskVars, driverVars, boundVars, evPc, races>>

Init ==
    /\ phase = "Idle" /\ prevPhase = "Idle"
    /\ configured = FALSE /\ ip = FALSE /\ connectStart = FALSE
    /\ scanActive = FALSE /\ scanGen = 0 /\ scanDoneGen = 0 /\ scanDone = "no"
    /\ deferred = Nothing
    /\ command = "none" /\ sessionDisconnectPending = FALSE
    /\ tx = NoTransaction /\ pc = "idle" /\ reconnect = FALSE /\ evPc = "idle"
    /\ handoff = "idle" /\ latched = FALSE
    /\ station = "down" /\ credentials = FALSE /\ scanning = FALSE /\ events = <<>>
    /\ races = {} /\ commands = 0 /\ endings = 0 /\ troubles = 0

-----------------------------------------------------------------------------
(* The driver.                                                             *)

Event(what, how) == [what |-> what, how |-> how]

Trouble == troubles < MaxTroubles /\ troubles' = troubles + 1 /\ UNCHANGED <<commands, endings>>

\* A scan that is stopped reports that it ended, as failed.
StoppedScan == IF scanning THEN <<Event("scanDone", "failed")>> ELSE <<>>

\* esp_wifi_scan_stop
StopScan ==
    /\ scanning' = FALSE
    /\ events' = events \o StoppedScan
    /\ UNCHANGED <<station, credentials>>

\* esp_wifi_connect ends a scan; without credentials, or connected, it does nothing.
Connect ==
    IF station = "down" /\ credentials
    THEN /\ station' = "linking"
         /\ scanning' = FALSE
         /\ events' = events \o StoppedScan
         /\ UNCHANGED credentials
    ELSE UNCHANGED driverVars

\* esp_wifi_stop, set_config, start and connect: an association is left first.
Restart(to, held) ==
    /\ station' = to /\ credentials' = held /\ scanning' = FALSE
    /\ events' = events \o StoppedScan
                   \o IF station = "down" THEN <<>> ELSE <<Event("disconnected", "transient")>>

Reassociate == Restart("linking", TRUE)

\* One of the calls after esp_wifi_stop fails, before or after set_config.
ReassociateFails == \E held \in {credentials, TRUE} : Restart("down", held)

\* esp_wifi_disconnect and the empty configuration
Dissociate ==
    /\ station' = "down" /\ credentials' = FALSE
    /\ events' = events
                   \o IF station = "down" THEN <<>> ELSE <<Event("disconnected", "transient")>>
    /\ UNCHANGED scanning

StationStep(from, to, event) ==
    /\ station = from /\ Len(events) < MaxEvents
    /\ station' = to
    /\ events' = Append(events, Event(event, "ok"))
    /\ UNCHANGED <<credentials, scanning, linkVars, scanVars, inboxVars, taskVars, boundVars, evPc,
                   races>>

Associates == StationStep("linking", "associated", "connected")
GetsIp == StationStep("associated", "ip", "gotIp")

StationDrops == \E reason \in Reasons :
    /\ station # "down" /\ Len(events) < MaxEvents
    /\ Trouble
    /\ station' = "down"
    /\ events' = Append(events, Event("disconnected", reason))
    /\ UNCHANGED <<credentials, scanning, linkVars, scanVars, inboxVars, taskVars, evPc, races>>

\* A scan need not end: it is what the watchdog is for.
ScanEnds ==
    /\ scanning /\ Len(events) < MaxEvents
    /\ scanning' = FALSE
    /\ events' = Append(events, Event("scanDone", "ok"))
    /\ UNCHANGED <<station, credentials, linkVars, scanVars, inboxVars, taskVars, boundVars, evPc,
                   races>>

-----------------------------------------------------------------------------
(* The event task: handleEvent.                                            *)

Race(window, open) == races' = races \cup IF open THEN {window} ELSE {}
Dropped == Race("deferred", deferred # Nothing)

HandleEvent(what) ==
    /\ evPc = "idle" /\ events # <<>> /\ Head(events).what = what
    /\ events' = Tail(events)
    /\ UNCHANGED <<prevPhase, configured, scanActive, scanGen, inboxVars, taskVars, boundVars,
                   station, credentials, scanning>>

\* A scan that still runs did not send this.
OnScanDone ==
    /\ HandleEvent("scanDone")
    /\ scanDone' = IF scanActive THEN Head(events).how ELSE scanDone
    /\ scanDoneGen' = IF scanActive THEN scanGen ELSE scanDoneGen
    /\ Race("stale", scanActive /\ (scanning \/ pc = "scanStart"))
    /\ UNCHANGED <<phase, ip, connectStart, deferred, evPc>>

OnConnected ==
    /\ HandleEvent("connected")
    /\ phase' = IF scanActive THEN phase ELSE "WifiConnected"
    /\ Race("unconfigured", ~configured)
    /\ UNCHANGED <<ip, connectStart, scanDone, scanDoneGen, deferred, evPc>>

OnGotIp ==
    /\ HandleEvent("gotIp")
    /\ ip' = TRUE
    /\ phase' = IF scanActive THEN phase ELSE "GotIp"
    /\ deferred' = IF scanActive THEN [deferred EXCEPT !.gotIp = TRUE] ELSE deferred
    /\ races' = races \cup (IF ~configured THEN {"unconfigured"} ELSE {})
                     \cup (IF scanActive /\ deferred.down # "no" THEN {"reordered"} ELSE {})
    /\ UNCHANGED <<connectStart, scanDone, scanDoneGen, evPc>>

\* During a scan a lost association is only noted: connecting would end the scan.
DeferDisconnect ==
    /\ scanActive
    /\ HandleEvent("disconnected")
    /\ deferred' = [deferred EXCEPT !.down = Head(events).how]
    /\ UNCHANGED <<phase, ip, connectStart, scanDone, scanDoneGen, evPc, races>>

\* Mutant of IpAfterLoss: the address of the lost association is kept.
IpKept(again) == ip

\* A lost association that is not taken up again without credentials leaves it.
IpAfterLoss(again) == ip /\ again /\ ~configured

OnDisconnected ==
    /\ ~scanActive
    /\ HandleEvent("disconnected")
    /\ LET again == Head(events).how = "transient" IN
       /\ phase' = CASE ~again -> "Error"
                     [] again /\ configured -> "WifiConnecting"
                     [] OTHER -> phase
       /\ ip' = IpAfterLoss(again)
       /\ connectStart' = (connectStart \/ (again /\ configured))
       /\ evPc' = IF again /\ configured THEN "reconnect" ELSE "idle"
    /\ UNCHANGED <<scanDone, scanDoneGen, deferred, races>>

\* esp_wifi_connect, after mutex_ was released.
Reconnect ==
    /\ evPc = "reconnect"
    /\ evPc' = "idle"
    /\ Connect
    /\ UNCHANGED <<linkVars, scanVars, inboxVars, taskVars, boundVars, races>>

-----------------------------------------------------------------------------
(* The RX task.                                                            *)

\* requestScan, requestConfig, requestClear: one slot, the last command stays.
Request(what) ==
    /\ commands < MaxCommands
    /\ commands' = commands + 1
    /\ command' = what
    /\ UNCHANGED <<sessionDisconnectPending, linkVars, scanVars, taskVars, driverVars, endings,
                   troubles, evPc, races>>

\* Both parts at once: until the flag is seen, the scan goes on as before.
NotifySessionDisconnected ==
    /\ endings < MaxEndings
    /\ endings' = endings + 1
    /\ sessionDisconnectPending' = TRUE
    /\ UNCHANGED <<command, linkVars, scanVars, taskVars, driverVars, commands, troubles, evPc,
                   races>>

-----------------------------------------------------------------------------
(* The session task: tick().                                               *)

SessionTurn(from, to) ==
    /\ pc \in from
    /\ pc' = to
    /\ UNCHANGED <<boundVars, evPc>>

SessionStep(from, to) == SessionTurn(from, to) /\ UNCHANGED handoffVars

\* The same when the driver refuses.
RefusedStep(from, to) ==
    /\ pc \in from
    /\ pc' = to
    /\ Trouble
    /\ UNCHANGED <<evPc, handoffVars>>

\* Mutant of ForgetScan: the end that was already reported is kept.
ForgetKeepsEnd ==
    /\ scanActive' = FALSE /\ scanDone' = scanDone /\ deferred' = Nothing
    /\ scanGen' = (scanGen + 1) % GenMod
    /\ phase' = IF phase = "Scanning" THEN prevPhase ELSE phase
    /\ Dropped

\* Mutant of ForgetScan: the cancelled scan is still thought to run.
ForgetResultOnly ==
    /\ scanDone' = "no" /\ deferred' = Nothing
    /\ scanGen' = (scanGen + 1) % GenMod
    /\ phase' = IF phase = "Scanning" THEN prevPhase ELSE phase
    /\ Dropped
    /\ UNCHANGED scanActive

\* What a disconnect, a new configuration and the watchdog do to a scan under way.
ForgetScan ==
    /\ scanActive' = FALSE /\ scanDone' = "no" /\ deferred' = Nothing
    /\ scanGen' = (scanGen + 1) % GenMod
    /\ phase' = IF phase = "Scanning" THEN prevPhase ELSE phase
    /\ Dropped

TakeDisconnect ==
    /\ sessionDisconnectPending
    /\ SessionStep({"idle"}, "cancel")
    /\ sessionDisconnectPending' = FALSE
    /\ IF scanActive THEN ForgetScan
       ELSE UNCHANGED <<phase, scanActive, scanGen, scanDone, deferred, races>>
    /\ UNCHANGED <<linkRest, scanDoneGen, command, tx, reconnect, driverVars>>

\* Mutant of CancelScan: the driver is not told.
CancelUnstopped ==
    /\ SessionStep({"cancel"}, "consume")
    /\ tx' = IF tx.phase \in Resting THEN tx ELSE onDisconnect(tx)
    /\ UNCHANGED <<driverVars, linkVars, scanVars, inboxVars, reconnect, races>>

CancelScan ==
    /\ SessionStep({"cancel"}, "consume")
    /\ IF tx.phase \in Resting THEN UNCHANGED <<tx, driverVars>>
       ELSE StopScan /\ tx' = onDisconnect(tx)
    /\ UNCHANGED <<linkVars, scanVars, inboxVars, reconnect, races>>

\* Step 1: the end of the scan, if it is this scan's and it was not cancelled.
Handled == scanDone # "no" /\ scanDoneGen = scanGen /\ scanActive

TakeScanDone ==
    /\ pc = "idle" => ~sessionDisconnectPending
    /\ SessionStep({"idle", "consume"},
                   CASE ~Handled -> "command"
                     [] Handled /\ scanDone = "ok" -> "collect"
                     [] OTHER -> "scanFailed")
    /\ scanDone' = "no"
    /\ UNCHANGED <<linkVars, scanActive, scanGen, scanDoneGen, deferred, inboxVars, tx, reconnect,
                   driverVars, races>>

EndFailed ==
    /\ scanActive' = FALSE /\ deferred' = Nothing
    /\ phase' = "Error"
    /\ tx' = onScanDone(tx, FALSE)
    /\ Dropped
    /\ UNCHANGED <<linkRest, scanGen, scanDoneGen, scanDone, inboxVars, reconnect, driverVars>>

ScanFailed == SessionStep({"scanFailed"}, "command") /\ EndFailed

\* The records cannot be fetched, or not be held.
FetchFails == RefusedStep({"collect"}, "command") /\ EndFailed

Lost == deferred.down # "no"
LostForNow == deferred.down = "transient"

\* Mutant of PhaseAfterScan: an address put off hides the disconnect after it.
AddressFirst ==
    CASE deferred.gotIp -> "GotIp"
      [] ~deferred.gotIp /\ LostForNow -> "WifiConnecting"
      [] ~deferred.gotIp /\ Lost /\ ~LostForNow -> "Error"
      [] ~deferred.gotIp /\ ~Lost /\ phase = "Scanning" -> prevPhase
      [] OTHER -> phase

\* What was put off is applied: a lost association before an address.
PhaseAfterScan ==
    CASE LostForNow -> "WifiConnecting"
      [] Lost /\ ~LostForNow -> "Error"
      [] ~Lost /\ deferred.gotIp -> "GotIp"
      [] ~Lost /\ ~deferred.gotIp /\ phase = "Scanning" -> prevPhase
      [] OTHER -> phase

Collect ==
    /\ SessionStep({"collect"}, "finish")
    /\ scanActive' = FALSE /\ deferred' = Nothing
    /\ phase' = PhaseAfterScan
    /\ ip' = (ip /\ ~Lost)
    /\ connectStart' = (connectStart \/ LostForNow)
    /\ reconnect' = LostForNow
    /\ UNCHANGED <<prevPhase, configured, scanGen, scanDoneGen, scanDone, inboxVars, tx,
                   driverVars, races>>

FinishScan ==
    /\ SessionStep({"finish"}, "command")
    /\ tx' = onScanDone(tx, TRUE)
    /\ reconnect' = FALSE
    /\ IF reconnect THEN Connect ELSE UNCHANGED driverVars
    /\ UNCHANGED <<linkVars, scanVars, inboxVars, races>>

\* Step 3: the command.  A scan is begun only when none is under way; CONFIG and
\* CLEAR end the one that is.
Ends == [config |-> "configEnds", clear |-> "clearEnds"]
Stops == [config |-> "configStops", clear |-> "clearStops"]
ScanRunning == scanActive \/ tx.phase \notin Resting

TakeCommand ==
    /\ SessionStep({"command"},
                   CASE command = "scan" /\ tx.phase \in Resting -> "startScan"
                     [] command \in {"config", "clear"} /\ ScanRunning -> Ends[command]
                     [] command \in {"config", "clear"} /\ ~ScanRunning -> command
                     [] OTHER -> "timers")
    /\ command' = "none"
    /\ tx' = IF command = "scan" THEN begin(tx) ELSE tx
    /\ UNCHANGED <<linkVars, scanVars, sessionDisconnectPending, reconnect, driverVars, races>>

PhaseToReturnTo == IF phase \in {"Error", "Scanning"} THEN "Idle" ELSE phase

StartScan ==
    /\ SessionStep({"startScan"}, "scanStart")
    /\ prevPhase' = PhaseToReturnTo
    /\ phase' = "Scanning"
    /\ scanGen' = (scanGen + 1) % GenMod
    /\ scanActive' = TRUE /\ scanDone' = "no" /\ deferred' = Nothing
    /\ UNCHANGED <<configured, ip, connectStart, scanDoneGen, inboxVars, tx, reconnect, driverVars,
                   races>>

ScanStarts ==
    /\ SessionStep({"scanStart"}, "timers")
    /\ scanning' = TRUE
    /\ tx' = onScanStarted(tx, TRUE)
    /\ UNCHANGED <<station, credentials, events, linkVars, scanVars, inboxVars, reconnect, races>>

\* esp_wifi_scan_start refuses, or ensureWifiReady did before it.
ScanRefused ==
    /\ RefusedStep({"startScan", "scanStart"}, "refused")
    /\ scanActive' = FALSE
    /\ Dropped
    /\ UNCHANGED <<linkVars, scanGen, scanDoneGen, scanDone, deferred, inboxVars, tx, reconnect,
                   driverVars>>

ScanNotStarted ==
    /\ SessionStep({"refused"}, "timers")
    /\ phase' = "Error"
    /\ tx' = onScanStarted(tx, FALSE)
    /\ UNCHANGED <<linkRest, scanVars, inboxVars, reconnect, driverVars, races>>

EndScanFor(what) ==
    /\ SessionStep({Ends[what]}, Stops[what])
    /\ ForgetScan
    /\ UNCHANGED <<linkRest, scanDoneGen, inboxVars, tx, reconnect, driverVars>>

ScanStoppedFor(what) ==
    /\ SessionStep({Stops[what]}, what)
    /\ StopScan
    /\ tx' = onScanDone(tx, FALSE)
    /\ UNCHANGED <<linkVars, scanVars, inboxVars, reconnect, races>>

ApplyConfig ==
    /\ SessionStep({"config"}, "connect")
    /\ phase' = "ConfigApplying"
    /\ UNCHANGED <<linkRest, scanVars, inboxVars, tx, reconnect, driverVars, races>>

ConfigConnects ==
    /\ SessionStep({"connect"}, "configured")
    /\ Reassociate
    /\ UNCHANGED <<linkVars, scanVars, inboxVars, tx, reconnect, races>>

\* ensureWifiReady fails: setError.
ConfigRefused ==
    /\ RefusedStep({"config"}, "timers")
    /\ phase' = "Error"
    /\ UNCHANGED <<linkRest, scanVars, inboxVars, tx, reconnect, driverVars, races>>

\* A call of the driver fails, after esp_wifi_stop: setError.
ConfigFails ==
    /\ RefusedStep({"connect"}, "configFailed")
    /\ ReassociateFails
    /\ UNCHANGED <<linkVars, scanVars, inboxVars, tx, reconnect, races>>

ConfigError ==
    /\ SessionStep({"configFailed"}, "timers")
    /\ phase' = "Error"
    /\ UNCHANGED <<linkRest, scanVars, inboxVars, tx, reconnect, driverVars, races>>

Configured ==
    /\ SessionStep({"configured"}, "timers")
    /\ configured' = TRUE /\ connectStart' = TRUE
    /\ phase' = "WifiConnecting"
    /\ Race("overwritten", phase # "ConfigApplying")
    /\ UNCHANGED <<prevPhase, ip, scanVars, inboxVars, tx, reconnect, driverVars>>

ApplyClear ==
    /\ SessionStep({"clear"}, "dissociate")
    /\ configured' = FALSE /\ ip' = FALSE /\ connectStart' = FALSE
    /\ phase' = "Cleared"
    /\ UNCHANGED <<prevPhase, scanVars, inboxVars, tx, reconnect, driverVars, races>>

ClearDissociates ==
    /\ SessionStep({"dissociate"}, "timers")
    /\ Dissociate
    /\ UNCHANGED <<linkVars, scanVars, inboxVars, tx, reconnect, races>>

\* Step 4: no address within kDhcpTimeoutMs.
DhcpExpires ==
    /\ phase \in {"WifiConnecting", "WifiConnected"} /\ ~ip /\ connectStart
    /\ SessionStep({"timers"}, "watchdog")
    /\ phase' = "Error"
    /\ UNCHANGED <<linkRest, scanVars, inboxVars, tx, reconnect, driverVars, races>>

\* Step 6: the transaction's own tick, kScanTimeoutMs.
WatchdogWaits ==
    /\ SessionStep({"timers", "watchdog"}, "handoff")
    /\ tx' = anchor(tx)
    /\ UNCHANGED <<linkVars, scanVars, inboxVars, reconnect, driverVars, races>>

WatchdogFires ==
    /\ mayTimeOut(tx)
    /\ SessionStep({"timers", "watchdog"}, "watchdogStops")
    /\ tx' = onTimeout(tx)
    /\ UNCHANGED <<linkVars, scanVars, inboxVars, reconnect, driverVars, races>>

WatchdogStops ==
    /\ SessionStep({"watchdogStops"}, "handoff")
    /\ StopScan
    /\ IF scanActive THEN ForgetScan
       ELSE UNCHANGED <<phase, scanActive, scanGen, scanDone, deferred, races>>
    /\ UNCHANGED <<linkRest, scanDoneGen, inboxVars, tx, reconnect>>

-----------------------------------------------------------------------------
(* The session task: tickTcpHandoff of main.cpp, after each tick().  It     *)
(* looks at a snapshot of the phase and sets the phase later, whatever it  *)
(* is by then.                                                             *)

HandoffTurn(to) ==
    /\ SessionTurn({"handoff"}, to)
    /\ UNCHANGED <<linkVars, scanVars, inboxVars, tx, reconnect, driverVars, races>>

\* kIdle: the latch of an unreachable server opens with any phase before the address.
Unlatched == phase \notin TcpWindow \cup {"Error"}
HandoffIdles == \E to \in {"idle", "unreachable"} :
    /\ handoff = "idle"
    /\ to = "unreachable" => latched /\ phase \in TcpWindow
    /\ to = "idle" => latched \/ phase # "GotIp"
    /\ latched' = (latched /\ ~Unlatched)
    /\ HandoffTurn(to)
    /\ UNCHANGED handoff

\* beginTcpHandoff: without a server to connect to, or when switchTo fails, it is latched.
HandoffBegins ==
    /\ handoff = "idle" /\ ~latched /\ phase = "GotIp"
    /\ HandoffTurn("begin")
    /\ UNCHANGED handoffVars
NoServer ==
    /\ handoff = "idle" /\ ~latched /\ phase = "GotIp" /\ ~configured
    /\ latched' = TRUE
    /\ HandoffTurn("unreachable")
    /\ UNCHANGED handoff

\* kConnecting: the session is connected, whatever the phase says.
HandoffConnects ==
    /\ handoff = "connecting"
    /\ handoff' = "connected"
    /\ HandoffTurn("setConnected")
    /\ UNCHANGED latched

\* kConnected: the phase follows the link, within the TCP phases.
HandoffFollows == \E to \in {"setConnecting", "setConnected"} :
    /\ handoff = "connected" /\ phase \in TcpWindow
    /\ to = "setConnected" => phase # "TcpConnected"
    /\ HandoffTurn(to)
    /\ UNCHANGED handoffVars

HandoffWaits ==
    /\ handoff # "idle"
    /\ HandoffTurn("idle")
    /\ UNCHANGED handoffVars

\* abortTcpHandoff: the link did not come up in time.
HandoffAborts ==
    /\ handoff # "idle"
    /\ handoff' = "idle" /\ latched' = TRUE
    /\ HandoffTurn("unreachable")

SetTcpPhase(from, phaseToSet) ==
    /\ SessionStep({from}, "idle")
    /\ phase' = phaseToSet
    /\ Race("overwritten", phase \notin TcpWindow)
    /\ UNCHANGED <<linkRest, scanVars, inboxVars, tx, reconnect, driverVars>>

BeginTcp == \E ok \in BOOLEAN :
    /\ SessionTurn({"begin"}, IF ok THEN "idle" ELSE "unreachable")
    /\ phase' = "TcpConnecting"
    /\ handoff' = IF ok THEN "connecting" ELSE "idle"
    /\ latched' = ~ok
    /\ Race("overwritten", phase \notin TcpWindow)
    /\ UNCHANGED <<linkRest, scanVars, inboxVars, tx, reconnect, driverVars>>

SetServerUnreachable ==
    /\ SessionStep({"unreachable"}, "idle")
    /\ phase' = "Error"
    /\ UNCHANGED <<linkRest, scanVars, inboxVars, tx, reconnect, driverVars, races>>

-----------------------------------------------------------------------------
SessionTask ==
    \/ TakeDisconnect \/ CancelScan \/ TakeScanDone \/ ScanFailed \/ FetchFails \/ Collect
    \/ FinishScan
    \/ TakeCommand \/ StartScan \/ ScanStarts \/ ScanRefused \/ ScanNotStarted
    \/ \E what \in {"config", "clear"} : EndScanFor(what) \/ ScanStoppedFor(what)
    \/ ApplyConfig \/ ConfigRefused \/ ConfigConnects \/ ConfigFails \/ ConfigError
    \/ Configured \/ ApplyClear
    \/ ClearDissociates \/ DhcpExpires \/ WatchdogWaits \/ WatchdogFires \/ WatchdogStops
    \/ HandoffIdles \/ HandoffBegins \/ NoServer \/ HandoffConnects \/ HandoffFollows
    \/ HandoffWaits \/ HandoffAborts \/ BeginTcp \/ SetServerUnreachable
    \/ SetTcpPhase("setConnecting", "TcpConnecting") \/ SetTcpPhase("setConnected", "TcpConnected")

EventTask ==
    \/ OnScanDone \/ OnConnected \/ OnGotIp \/ DeferDisconnect \/ OnDisconnected \/ Reconnect

Next ==
    \/ SessionTask \/ EventTask
    \/ Associates \/ GetsIp \/ StationDrops \/ ScanEnds
    \/ \E what \in {"scan", "config", "clear"} : Request(what)
    \/ NotifySessionDisconnected

\* Both tasks loop, and the clock goes on: a timeout that stays due in turn after turn
\* fires.  The station and the scans need not get anywhere.
Fairness ==
    /\ WF_vars(SessionTask) /\ WF_vars(EventTask)
    /\ SF_vars(DhcpExpires) /\ SF_vars(WatchdogFires)

Spec == Init /\ [][Next]_vars
FairSpec == Spec /\ Fairness

-----------------------------------------------------------------------------
(* Properties.                                                             *)

LinkTyped ==
    /\ phase \in Phases /\ prevPhase \in Phases \ {"Error", "Scanning"}
    /\ configured \in BOOLEAN /\ ip \in BOOLEAN /\ connectStart \in BOOLEAN

ScanTyped ==
    /\ scanActive \in BOOLEAN /\ scanDone \in {"no", "ok", "failed"}
    /\ scanGen \in 0..(GenMod - 1) /\ scanDoneGen \in 0..(GenMod - 1)
    /\ deferred \in [down : {"no"} \cup Reasons, gotIp : BOOLEAN]

TaskTyped ==
    /\ tx \in Transactions /\ command \in {"none", "scan", "config", "clear"}
    /\ sessionDisconnectPending \in BOOLEAN /\ reconnect \in BOOLEAN

DriverTyped ==
    /\ station \in {"down", "linking", "associated", "ip"} /\ evPc \in {"idle", "reconnect"}
    /\ credentials \in BOOLEAN /\ scanning \in BOOLEAN

HandoffTyped == handoff \in {"idle", "connecting", "connected"} /\ latched \in BOOLEAN

TypeOK == LinkTyped /\ ScanTyped /\ TaskTyped /\ DriverTyped /\ HandoffTyped

\* Between ticks the flag, the phase and the transaction agree on whether a scan is
\* under way: no way it ends leaves one of them behind.
ScanIsOneThing ==
    pc = "idle" =>
        /\ scanActive <=> tx.phase = "DisplaySuspended"
        /\ tx.suspended <=> scanActive
        /\ phase = "Scanning" => scanActive

\* The generation recorded with the end of a scan is always the current one: scanActive_
\* alone tells late ends apart, the generation rejects nothing.
GenerationAgrees == scanDone # "no" => scanDoneGen = scanGen

\* "Never scan unprotected" (scan_transaction.h): while the driver scans, the OLED is
\* suspended.  Only the watchdog, which resumes it before it stops the scan, and the late
\* end of an earlier scan break it.
ScansProtected == scanning => tx.suspended \/ pc = "watchdogStops" \/ "stale" \in races

\* When nothing is under way, phase_ and ip_ say what the station and the handoff are,
\* unless an event went through one of the windows.
Rest ==
    /\ pc = "idle" /\ evPc = "idle" /\ events = <<>>
    /\ ~sessionDisconnectPending /\ ~scanActive
PhaseTellsStation ==
    Rest /\ races = {} =>
        /\ ip <=> station = "ip"
        /\ phase \in TcpWindow => station = "ip"
        /\ phase = "WifiConnected" => station = "associated"
        /\ station = "ip" => phase # "WifiConnecting"
        /\ phase \in TcpWindow \ {"GotIp"} => handoff # "idle"

\* wifi_provisioning.hpp: what is put off during a scan is applied when it ends.  (The code
\* breaks it: every end but a successful one throws it away.  The device then takes the
\* station for connected, and nothing connects it again.)
DeferredIsApplied ==
    Rest /\ configured /\ station = "down" /\ races \subseteq {"deferred"} =>
        phase \notin TcpWindow

\* The OLED is resumed after each scan, whatever becomes of the scan, the session, the
\* commands and the driver.
DisplayComesBack == tx.suspended ~> ~tx.suspended

\* Connecting ends: with an address or an error.
ConnectingEnds ==
    phase \in {"ConfigApplying", "WifiConnecting", "WifiConnected"}
        ~> phase \notin {"ConfigApplying", "WifiConnecting", "WifiConnected"} \/ races # {}
=============================================================================

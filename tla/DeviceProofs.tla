----------------------------- MODULE DeviceProofs -----------------------------
(***************************************************************************)
(* Wi-Fi provisioning and the OLED of the device.                          *)
(*                                                                         *)
(* WifiProvisioning for any number of generations, commands, events,       *)
(* sessions that end and troubles.  The inductive invariant has four parts *)
(* besides the types: what waits in the queue of events, how far a scan is *)
(* at each step of the session task, the generation of a reported end, and *)
(* when the driver may scan.  A second one, on top of it, says where the   *)
(* station is.                                                             *)
(*                                                                         *)
(* PhysicalDisplay for any number of scenes, failures, pauses, mode        *)
(* changes and starts: a pause stops the transfers, and the scene that is  *)
(* owed to the panel is not forgotten.                                     *)
(***************************************************************************)
EXTENDS WifiProvisioning, PhysicalDisplay, SequenceLemmas, SequenceTheorems, TLAPS

-----------------------------------------------------------------------------
(* The inductive invariant.                                                *)

\* What the driver sends.
Events ==
    [what : {"scanDone"}, how : {"ok", "failed"}]
        \cup [what : {"connected", "gotIp"}, how : {"ok"}]
        \cup [what : {"disconnected"}, how : Reasons]

EventsOK == events \in Seq(Events)

\* The steps of a tick at which flag, phase and transaction agree on the scan.
Agreeing == {"idle", "consume", "command", "config", "connect", "configFailed", "configured",
             "clear", "dissociate", "timers", "watchdog", "handoff", "begin", "setConnecting",
             "setConnected", "unreachable"}

Agree ==
    /\ scanActive <=> tx.phase = "DisplaySuspended"
    /\ tx.suspended <=> scanActive
    /\ phase = "Scanning" => scanActive
    /\ tx.phase # "Preparing"

\* The scan is forgotten; the transaction is still to hear of it.
HalfEnded ==
    /\ ~scanActive /\ phase # "Scanning"
    /\ tx.phase # "Preparing"
    /\ tx.suspended <=> tx.phase = "DisplaySuspended"

\* The transaction was begun; the scan was not, or is refused.
HalfBegun == tx.phase = "Preparing" /\ tx.suspended

\* How far the beginning or the end of a scan is at each step of the session task.
ScanStage ==
    /\ pc \in Agreeing => Agree
    /\ pc \in {"collect", "scanFailed", "configEnds", "clearEnds"} => Agree /\ scanActive
    /\ pc \in {"cancel", "finish", "configStops", "clearStops"} => HalfEnded
    /\ pc \in {"finish", "configStops", "clearStops"} => tx.phase = "DisplaySuspended"
    /\ pc = "startScan" => HalfBegun /\ ~scanActive /\ phase # "Scanning"
    /\ pc = "scanStart" => HalfBegun /\ scanActive
    /\ pc = "refused" => HalfBegun /\ ~scanActive
    /\ pc = "watchdogStops" => scanActive /\ ~tx.suspended /\ tx.phase = "Error"
    /\ pc \in Agreeing \cup {"collect", "scanFailed", "configEnds", "clearEnds", "cancel",
                             "finish", "configStops", "clearStops", "startScan", "scanStart", "refused",
                             "watchdogStops"}

\* The driver does not scan when a scan is begun, nor when its end was reported, unless
\* that was the end of an earlier one.
ScanIsOver ==
    "stale" \notin races =>
        /\ pc \in {"startScan", "scanStart", "refused", "collect", "scanFailed", "finish"} =>
              ~scanning
        /\ scanDone # "no" /\ scanActive => ~scanning /\ pc # "scanStart"

IInv == TypeOK /\ EventsOK /\ ScanStage /\ GenerationAgrees /\ ScanIsOver /\ ScansProtected

-----------------------------------------------------------------------------
(* The types.                                                              *)


\* Each method of the transaction returns a transaction.
LEMMA TransactionTyped ==
    ASSUME NEW t \in Transactions, NEW ok \in BOOLEAN
    PROVE  /\ begin(t) \in Transactions
           /\ onScanStarted(t, ok) \in Transactions
           /\ onScanDone(t, ok) \in Transactions
           /\ onTimeout(t) \in Transactions
           /\ onDisconnect(t) \in Transactions
           /\ anchor(t) \in Transactions
<1> USE DEF Transactions, ScanPhases, Ended
<1>1. begin(t) \in Transactions
    BY DEF begin
<1>2. onScanStarted(t, ok) \in Transactions
    BY DEF onScanStarted
<1>3. onScanDone(t, ok) \in Transactions
    BY DEF onScanDone
<1>4. onTimeout(t) \in Transactions /\ onDisconnect(t) \in Transactions
    BY DEF onTimeout, onDisconnect
<1>5. anchor(t) \in Transactions
    BY DEF anchor
<1>. QED BY <1>1, <1>2, <1>3, <1>4, <1>5

\* Generations stay in the byte.
LEMMA NextGeneration ==
    ASSUME NEW g \in 0..(GenMod - 1)
    PROVE  (g + 1) % GenMod \in 0..(GenMod - 1)
BY WifiAssumption

\* What the driver appends to its queue are events.
LEMMA EventsTyped ==
    /\ Event("disconnected", "transient") \in Events
    /\ <<Event("disconnected", "transient")>> \in Seq(Events)
    /\ StoppedScan \in Seq(Events)
    /\ <<>> \in Seq(Events)
    /\ \A what \in {"connected", "gotIp"} : Event(what, "ok") \in Events
    /\ Event("scanDone", "ok") \in Events
    /\ \A reason \in Reasons : Event("disconnected", reason) \in Events
<1>1. /\ Event("disconnected", "transient") \in Events
      /\ Event("scanDone", "ok") \in Events
      /\ Event("scanDone", "failed") \in Events
      /\ \A what \in {"connected", "gotIp"} : Event(what, "ok") \in Events
      /\ \A reason \in Reasons : Event("disconnected", reason) \in Events
    BY DEF Event, Events, Reasons
<1>. QED BY <1>1 DEF StoppedScan

\* What a call of the driver appends keeps the queue one of events.
LEMMA Appended ==
    ASSUME EventsOK, NEW s \in Seq(Events), events' = events \o s
    PROVE  EventsOK'
BY ConcatProperties DEF EventsOK

\* An association that is left reports it.
Left == IF station = "down" THEN <<>> ELSE <<Event("disconnected", "transient")>>

\* Each call of the driver keeps the queue a sequence of events.
LEMMA DriverReports ==
    ASSUME EventsOK,
           StopScan \/ Connect \/ Dissociate \/ \E to, held : Restart(to, held)
    PROVE  EventsOK'
<1>1. StoppedScan \in Seq(Events) /\ Left \in Seq(Events)
    BY EventsTyped DEF Left
<1>2. CASE StopScan
    BY <1>1, <1>2, Appended DEF StopScan
<1>3. CASE Connect
  <2>1. CASE station = "down" /\ credentials
    BY <1>1, <1>3, <2>1, Appended DEF Connect
  <2>2. CASE ~(station = "down" /\ credentials)
    BY <1>3, <2>2 DEF Connect, driverVars, EventsOK
  <2>. QED BY <2>1, <2>2
<1>4. CASE \E to, held : Restart(to, held)
  <2>1. events \o StoppedScan \in Seq(Events)
    BY <1>1, ConcatProperties DEF EventsOK
  <2>2. events' = (events \o StoppedScan) \o Left
    BY <1>4 DEF Restart, Left
  <2>. QED BY <1>1, <2>1, <2>2, ConcatProperties DEF EventsOK
<1>5. CASE Dissociate
    BY <1>1, <1>5, Appended DEF Dissociate, Left
<1>. QED BY <1>2, <1>3, <1>4, <1>5

\* The first event, and what is left of the queue without it.
LEMMA HeadTyped ==
    ASSUME EventsOK, events # <<>>
    PROVE  Head(events) \in Events /\ Tail(events) \in Seq(Events)
BY HeadTailProperties DEF EventsOK

\* A scan that is forgotten leaves the types.
LEMMA ForgetTyped ==
    ASSUME ScanTyped, ForgetScan
    PROVE  /\ scanActive' \in BOOLEAN
           /\ scanDone' \in {"no", "ok", "failed"}
           /\ scanGen' \in 0..(GenMod - 1)
           /\ deferred' \in [down : {"no"} \cup Reasons, gotIp : BOOLEAN]
<1>1. scanGen' \in 0..(GenMod - 1)
    BY NextGeneration DEF ForgetScan, ScanTyped
<1>2. deferred' \in [down : {"no"} \cup Reasons, gotIp : BOOLEAN]
    BY DEF ForgetScan, Nothing
<1>. QED BY <1>1, <1>2 DEF ForgetScan

-----------------------------------------------------------------------------
(* Each part of the invariant is preserved by every step.                  *)

\* A configuration reaches the driver, taken or not; it is given up before or after that.
ConfigTries == ConfigConnects \/ ConfigFails
ConfigEnds == ConfigRefused \/ ConfigError

\* A configuration that reaches the driver leaves the session task's own state alone.
LEMMA TriesOnly ==
    ASSUME ConfigTries
    PROVE  /\ pc = "connect" /\ pc' \in {"configured", "configFailed"}
           /\ UNCHANGED <<phase, prevPhase, configured, ip, connectStart, tx, races>>
           /\ UNCHANGED <<scanActive, scanGen, scanDoneGen, scanDone, deferred, handoff, latched>>
<1>1. CASE ConfigConnects
    BY <1>1 DEF ConfigConnects, SessionStep, SessionTurn, linkVars, linkRest, scanVars,
handoffVars
<1>2. CASE ConfigFails
    BY <1>2 DEF ConfigFails, RefusedStep, linkVars, linkRest, scanVars, handoffVars
<1>. QED BY <1>1, <1>2 DEF ConfigTries

\* Every step keeps the type of the phase and what is known of the link.
LEMMA LinkTypedStep ==
    ASSUME TypeOK, [Next]_vars
    PROVE  LinkTyped'
<1> USE DEF TypeOK, LinkTyped, Reasons, Phases, TcpWindow, SessionStep, SessionTurn,
            RefusedStep, Trouble, HandleEvent, Race, Dropped, linkVars, linkRest, scanVars,
            inboxVars, taskVars, handoffVars, driverVars, boundVars, vars
<1>1. CASE TakeDisconnect
    BY <1>1 DEF TakeDisconnect, ForgetScan
<1>2. CASE ScanFailed
    BY <1>2 DEF ScanFailed, EndFailed
<1>3. CASE FetchFails
    BY <1>3 DEF FetchFails, EndFailed
<1>4. CASE Collect
    BY <1>4 DEF Collect, PhaseAfterScan, Lost, LostForNow, Nothing
<1>5. CASE StartScan
    BY <1>5 DEF StartScan, PhaseToReturnTo, Nothing
<1>6. CASE ScanNotStarted
    BY <1>6 DEF ScanNotStarted
<1>7. CASE \E what \in {"config", "clear"} : EndScanFor(what)
    BY <1>7 DEF EndScanFor, ForgetScan, Ends, Stops
<1>8. CASE ApplyConfig
    BY <1>8 DEF ApplyConfig
<1>9. CASE ConfigFails \/ ConfigEnds
    BY <1>9 DEF ConfigFails, ConfigEnds, ConfigRefused, ConfigError
<1>10. CASE Configured
    BY <1>10 DEF Configured
<1>11. CASE ApplyClear
    BY <1>11 DEF ApplyClear
<1>12. CASE DhcpExpires
    BY <1>12 DEF DhcpExpires
<1>13. CASE WatchdogStops
    BY <1>13 DEF WatchdogStops, StopScan, ForgetScan
<1>14. CASE BeginTcp
    BY <1>14 DEF BeginTcp
<1>15. CASE SetServerUnreachable
    BY <1>15 DEF SetServerUnreachable
<1>16. CASE \/ SetTcpPhase("setConnecting", "TcpConnecting")
            \/ SetTcpPhase("setConnected", "TcpConnected")
    BY <1>16 DEF SetTcpPhase
<1>17. CASE OnConnected
    BY <1>17 DEF OnConnected
<1>18. CASE OnGotIp
    BY <1>18 DEF OnGotIp
<1>19. CASE OnDisconnected
    BY <1>19 DEF OnDisconnected, IpAfterLoss
<1>20. CASE \/ CancelScan \/ TakeScanDone \/ FinishScan \/ TakeCommand \/ ScanStarts
            \/ ScanRefused \/ (\E what \in {"config", "clear"} : ScanStoppedFor(what))
            \/ ConfigConnects \/ ClearDissociates \/ WatchdogWaits
  <2>1. UNCHANGED linkVars
    BY <1>20, Zenon DEF CancelScan, TakeScanDone, FinishScan, TakeCommand, ScanStarts,
       ScanRefused, ScanStoppedFor, ConfigConnects, ClearDissociates, WatchdogWaits
  <2>. QED BY <2>1
<1>21. CASE \/ WatchdogFires \/ HandoffIdles \/ HandoffBegins \/ NoServer \/ HandoffConnects
            \/ HandoffFollows \/ HandoffWaits \/ HandoffAborts \/ OnScanDone \/ DeferDisconnect
    BY <1>21 DEF WatchdogFires, HandoffIdles, HandoffTurn, Unlatched, HandoffBegins, NoServer,
                 HandoffConnects, HandoffFollows, HandoffWaits, HandoffAborts, OnScanDone,
                 DeferDisconnect
<1>22. CASE \/ Reconnect \/ Associates \/ GetsIp \/ StationDrops \/ ScanEnds
            \/ (\E what \in {"scan", "config", "clear"} : Request(what))
            \/ NotifySessionDisconnected
    BY <1>22 DEF Reconnect, Connect, Associates, StationStep, GetsIp, StationDrops, ScanEnds,
                 Request, NotifySessionDisconnected
<1>23. CASE UNCHANGED vars
    BY <1>23
<1>. QED
    BY <1>1, <1>2, <1>3, <1>4, <1>5, <1>6, <1>7, <1>8, <1>9, <1>10, <1>11, <1>12, <1>13, <1>14,
       <1>15, <1>16, <1>17, <1>18, <1>19, <1>20, <1>21, <1>22, <1>23
       DEF Next, SessionTask, ConfigTries, ConfigEnds, EventTask

\* Every step keeps the type of what is known of the scan.
LEMMA ScanTypedStep ==
    ASSUME TypeOK, EventsOK, [Next]_vars
    PROVE  ScanTyped'
<1> USE DEF TypeOK, ScanTyped, Reasons, TcpWindow, SessionStep, SessionTurn, RefusedStep,
            Trouble, HandleEvent, Race, Dropped, linkVars, linkRest, scanVars, inboxVars,
            taskVars, handoffVars, driverVars, boundVars, vars
<1>1. CASE TakeDisconnect
  <2>1. CASE scanActive
    BY <1>1, <2>1, ForgetTyped DEF TakeDisconnect
  <2>2. CASE ~scanActive
    BY <1>1, <2>2 DEF TakeDisconnect
  <2>. QED BY <2>1, <2>2
<1>2. CASE TakeScanDone
    BY <1>2 DEF TakeScanDone, Handled
<1>3. CASE ScanFailed
    BY <1>3 DEF ScanFailed, EndFailed, Nothing
<1>4. CASE FetchFails
    BY <1>4 DEF FetchFails, EndFailed, Nothing
<1>5. CASE Collect
    BY <1>5 DEF Collect, PhaseAfterScan, Lost, LostForNow, Nothing
<1>6. CASE StartScan
    BY <1>6, NextGeneration DEF StartScan, PhaseToReturnTo, Nothing
<1>7. CASE ScanRefused
    BY <1>7 DEF ScanRefused
<1>8. CASE \E what \in {"config", "clear"} : EndScanFor(what)
    BY <1>8, ForgetTyped DEF EndScanFor, Ends, Stops
<1>9. CASE WatchdogStops
  <2>1. CASE scanActive
    BY <1>9, <2>1, ForgetTyped DEF WatchdogStops
  <2>2. CASE ~scanActive
    BY <1>9, <2>2 DEF WatchdogStops
  <2>. QED BY <2>1, <2>2
<1>10. CASE OnScanDone
    BY <1>10, HeadTyped DEF OnScanDone, Events
<1>11. CASE OnGotIp
    BY <1>11 DEF OnGotIp
<1>12. CASE DeferDisconnect
    BY <1>12, HeadTyped DEF DeferDisconnect, Events
<1>13. CASE \/ CancelScan \/ FinishScan \/ TakeCommand \/ ScanStarts \/ ScanNotStarted
            \/ (\E what \in {"config", "clear"} : ScanStoppedFor(what)) \/ ApplyConfig
            \/ ConfigTries \/ ConfigEnds \/ Configured
    BY <1>13 DEF CancelScan, StopScan, FinishScan, Connect, TakeCommand, Ends, ScanRunning,
                 ScanStarts, ScanNotStarted, ScanStoppedFor, Stops, ApplyConfig, ConfigConnects,
                 Reassociate, ReassociateFails, Restart, ConfigFails, ConfigTries, ConfigEnds,
                 ConfigRefused, ConfigError, Configured
<1>14. CASE \/ ApplyClear \/ ClearDissociates \/ DhcpExpires \/ WatchdogWaits \/ WatchdogFires
            \/ HandoffIdles \/ HandoffBegins \/ NoServer \/ HandoffConnects \/ HandoffFollows
    BY <1>14 DEF ApplyClear, ClearDissociates, Dissociate, DhcpExpires, WatchdogWaits,
                 WatchdogFires, HandoffIdles, HandoffTurn, Unlatched, HandoffBegins, NoServer,
                 HandoffConnects, HandoffFollows
<1>15. CASE \/ HandoffWaits \/ HandoffAborts \/ BeginTcp \/ SetServerUnreachable
            \/ SetTcpPhase("setConnecting", "TcpConnecting")
            \/ SetTcpPhase("setConnected", "TcpConnected") \/ OnConnected \/ OnDisconnected
            \/ Reconnect \/ Associates \/ GetsIp
    BY <1>15 DEF HandoffWaits, HandoffTurn, HandoffAborts, BeginTcp, SetServerUnreachable,
                 SetTcpPhase, OnConnected, OnDisconnected, IpAfterLoss, Reconnect, Connect,
                 Associates, StationStep, GetsIp
<1>16. CASE \/ StationDrops \/ ScanEnds
            \/ (\E what \in {"scan", "config", "clear"} : Request(what))
            \/ NotifySessionDisconnected
    BY <1>16 DEF StationDrops, ScanEnds, Request, NotifySessionDisconnected
<1>17. CASE UNCHANGED vars
    BY <1>17
<1>. QED
    BY <1>1, <1>2, <1>3, <1>4, <1>5, <1>6, <1>7, <1>8, <1>9, <1>10, <1>11, <1>12, <1>13, <1>14,
       <1>15, <1>16, <1>17
       DEF Next, SessionTask, ConfigTries, ConfigEnds, EventTask

\* Every step keeps the type of what the session task works on.
LEMMA TaskTypedStep ==
    ASSUME TypeOK, [Next]_vars
    PROVE  TaskTyped'
<1> USE DEF TypeOK, TaskTyped, TcpWindow, SessionStep, SessionTurn, RefusedStep, Trouble,
            HandleEvent, Race, Dropped, linkVars, linkRest, scanVars, inboxVars, taskVars,
            handoffVars, driverVars, boundVars, vars
<1>1. CASE TakeDisconnect
    BY <1>1 DEF TakeDisconnect, ForgetScan
<1>2. CASE CancelScan
    BY <1>2, TransactionTyped DEF CancelScan, StopScan
<1>3. CASE ScanFailed
    BY <1>3, TransactionTyped DEF ScanFailed, EndFailed
<1>4. CASE FetchFails
    BY <1>4, TransactionTyped DEF FetchFails, EndFailed
<1>5. CASE Collect
    BY <1>5, TransactionTyped DEF Collect, PhaseAfterScan, Lost, LostForNow, Nothing
<1>6. CASE FinishScan
    BY <1>6, TransactionTyped DEF FinishScan, Connect
<1>7. CASE TakeCommand
    BY <1>7, TransactionTyped DEF TakeCommand, Ends, ScanRunning
<1>8. CASE ScanStarts
    BY <1>8, TransactionTyped DEF ScanStarts
<1>9. CASE ScanNotStarted
    BY <1>9, TransactionTyped DEF ScanNotStarted
<1>10. CASE \E what \in {"config", "clear"} : ScanStoppedFor(what)
    BY <1>10, TransactionTyped DEF ScanStoppedFor, StopScan, Stops
<1>11. CASE WatchdogWaits
    BY <1>11, TransactionTyped DEF WatchdogWaits
<1>12. CASE WatchdogFires
    BY <1>12, TransactionTyped DEF WatchdogFires
<1>13. CASE \E what \in {"scan", "config", "clear"} : Request(what)
    BY <1>13 DEF Request
<1>14. CASE NotifySessionDisconnected
    BY <1>14 DEF NotifySessionDisconnected
<1>15. CASE \/ TakeScanDone \/ StartScan \/ ScanRefused
            \/ (\E what \in {"config", "clear"} : EndScanFor(what)) \/ ApplyConfig
            \/ ConfigTries \/ ConfigEnds \/ Configured \/ ApplyClear \/ ClearDissociates
    BY <1>15 DEF TakeScanDone, Handled, StartScan, PhaseToReturnTo, Nothing, ScanRefused,
                 EndScanFor, ForgetScan, Ends, Stops, ApplyConfig, ConfigConnects, Reassociate,
                 ReassociateFails, Restart, ConfigFails, ConfigTries, ConfigEnds, ConfigRefused,
                 ConfigError, Configured, ApplyClear, ClearDissociates, Dissociate
<1>16. CASE \/ DhcpExpires \/ WatchdogStops \/ HandoffIdles \/ HandoffBegins \/ NoServer
            \/ HandoffConnects \/ HandoffFollows \/ HandoffWaits \/ HandoffAborts \/ BeginTcp
    BY <1>16 DEF DhcpExpires, WatchdogStops, StopScan, ForgetScan, HandoffIdles, HandoffTurn,
                 Unlatched, HandoffBegins, NoServer, HandoffConnects, HandoffFollows,
                 HandoffWaits, HandoffAborts, BeginTcp
<1>17. CASE \/ SetServerUnreachable \/ SetTcpPhase("setConnecting", "TcpConnecting")
            \/ SetTcpPhase("setConnected", "TcpConnected") \/ OnScanDone \/ OnConnected
            \/ OnGotIp \/ DeferDisconnect \/ OnDisconnected \/ Reconnect \/ Associates \/ GetsIp
    BY <1>17 DEF SetServerUnreachable, SetTcpPhase, OnScanDone, OnConnected, OnGotIp,
                 DeferDisconnect, OnDisconnected, IpAfterLoss, Reconnect, Connect, Associates,
                 StationStep, GetsIp
<1>18. CASE \/ StationDrops \/ ScanEnds
    BY <1>18 DEF StationDrops, ScanEnds
<1>19. CASE UNCHANGED vars
    BY <1>19
<1>. QED
    BY <1>1, <1>2, <1>3, <1>4, <1>5, <1>6, <1>7, <1>8, <1>9, <1>10, <1>11, <1>12, <1>13, <1>14,
       <1>15, <1>16, <1>17, <1>18, <1>19
       DEF Next, SessionTask, ConfigTries, ConfigEnds, EventTask

\* Every step keeps the type of the state of the driver.
LEMMA DriverTypedStep ==
    ASSUME TypeOK, [Next]_vars
    PROVE  DriverTyped'
<1> USE DEF TypeOK, DriverTyped, TcpWindow, SessionStep, SessionTurn, RefusedStep, Trouble,
            HandleEvent, Race, Dropped, linkVars, linkRest, scanVars, inboxVars, taskVars,
            handoffVars, driverVars, boundVars, vars
<1>1. CASE CancelScan
    BY <1>1 DEF CancelScan, StopScan
<1>2. CASE FinishScan
    BY <1>2 DEF FinishScan, Connect
<1>3. CASE ScanStarts
    BY <1>3 DEF ScanStarts
<1>4. CASE \E what \in {"config", "clear"} : ScanStoppedFor(what)
    BY <1>4 DEF ScanStoppedFor, StopScan, Stops
<1>5. CASE ConfigTries
    BY <1>5 DEF ConfigTries, ConfigConnects, Reassociate, ConfigFails, ReassociateFails, Restart
<1>6. CASE ClearDissociates
    BY <1>6 DEF ClearDissociates, Dissociate
<1>7. CASE WatchdogStops
    BY <1>7 DEF WatchdogStops, StopScan, ForgetScan
<1>8. CASE OnDisconnected
    BY <1>8 DEF OnDisconnected, IpAfterLoss
<1>9. CASE Reconnect
    BY <1>9 DEF Reconnect, Connect
<1>10. CASE Associates
    BY <1>10 DEF Associates, StationStep
<1>11. CASE GetsIp
    BY <1>11 DEF GetsIp, StationStep
<1>12. CASE StationDrops
    BY <1>12 DEF StationDrops
<1>13. CASE ScanEnds
    BY <1>13 DEF ScanEnds
<1>14. CASE \/ TakeDisconnect \/ TakeScanDone \/ ScanFailed \/ FetchFails \/ Collect
            \/ TakeCommand \/ StartScan \/ ScanRefused \/ ScanNotStarted
            \/ (\E what \in {"config", "clear"} : EndScanFor(what))
    BY <1>14 DEF TakeDisconnect, ForgetScan, TakeScanDone, Handled, ScanFailed, EndFailed,
                 FetchFails, Collect, PhaseAfterScan, Lost, LostForNow, Nothing, TakeCommand,
                 Ends, ScanRunning, StartScan, PhaseToReturnTo, ScanRefused, ScanNotStarted,
                 EndScanFor, Stops
<1>15. CASE \/ ApplyConfig \/ ConfigEnds \/ Configured \/ ApplyClear \/ DhcpExpires
            \/ WatchdogWaits \/ WatchdogFires \/ HandoffIdles \/ HandoffBegins \/ NoServer
    BY <1>15 DEF ApplyConfig, ConfigEnds, ConfigRefused, ConfigError, Configured, ApplyClear,
                 DhcpExpires, WatchdogWaits, WatchdogFires, HandoffIdles, HandoffTurn, Unlatched,
                 HandoffBegins, NoServer
<1>16. CASE \/ HandoffConnects \/ HandoffFollows \/ HandoffWaits \/ HandoffAborts \/ BeginTcp
            \/ SetServerUnreachable \/ SetTcpPhase("setConnecting", "TcpConnecting")
            \/ SetTcpPhase("setConnected", "TcpConnected") \/ OnScanDone \/ OnConnected
            \/ OnGotIp
    BY <1>16 DEF HandoffConnects, HandoffTurn, HandoffFollows, HandoffWaits, HandoffAborts,
                 BeginTcp, SetServerUnreachable, SetTcpPhase, OnScanDone, OnConnected, OnGotIp
<1>17. CASE \/ DeferDisconnect \/ (\E what \in {"scan", "config", "clear"} : Request(what))
            \/ NotifySessionDisconnected
    BY <1>17 DEF DeferDisconnect, Request, NotifySessionDisconnected
<1>18. CASE UNCHANGED vars
    BY <1>18
<1>. QED
    BY <1>1, <1>2, <1>3, <1>4, <1>5, <1>6, <1>7, <1>8, <1>9, <1>10, <1>11, <1>12, <1>13, <1>14,
       <1>15, <1>16, <1>17, <1>18
       DEF Next, SessionTask, ConfigTries, ConfigEnds, EventTask

\* Every step keeps the type of the state of the hand-off.
LEMMA HandoffTypedStep ==
    ASSUME TypeOK, [Next]_vars
    PROVE  HandoffTyped'
<1> USE DEF TypeOK, HandoffTyped, TcpWindow, SessionStep, SessionTurn, RefusedStep, Trouble,
            HandleEvent, Race, Dropped, linkVars, linkRest, scanVars, inboxVars, taskVars,
            handoffVars, driverVars, boundVars, vars
<1>1. CASE HandoffIdles
    BY <1>1 DEF HandoffIdles, HandoffTurn, Unlatched
<1>2. CASE HandoffBegins
    BY <1>2 DEF HandoffBegins, HandoffTurn
<1>3. CASE HandoffConnects
    BY <1>3 DEF HandoffConnects, HandoffTurn
<1>4. CASE HandoffAborts
    BY <1>4 DEF HandoffAborts, HandoffTurn
<1>5. CASE BeginTcp
    BY <1>5 DEF BeginTcp
<1>6. CASE \/ TakeDisconnect \/ CancelScan \/ TakeScanDone \/ ScanFailed \/ FetchFails
           \/ Collect \/ FinishScan \/ TakeCommand \/ StartScan \/ ScanStarts
    BY <1>6 DEF TakeDisconnect, ForgetScan, CancelScan, StopScan, TakeScanDone, Handled,
                ScanFailed, EndFailed, FetchFails, Collect, PhaseAfterScan, Lost, LostForNow,
                Nothing, FinishScan, Connect, TakeCommand, Ends, ScanRunning, StartScan,
                PhaseToReturnTo, ScanStarts
<1>7. CASE \/ ScanRefused \/ ScanNotStarted
           \/ (\E what \in {"config", "clear"} : EndScanFor(what))
           \/ (\E what \in {"config", "clear"} : ScanStoppedFor(what)) \/ ApplyConfig
           \/ ConfigTries \/ ConfigEnds \/ Configured \/ ApplyClear \/ ClearDissociates
    BY <1>7 DEF ScanRefused, ScanNotStarted, EndScanFor, ForgetScan, Ends, Stops,
                ScanStoppedFor, StopScan, ApplyConfig, ConfigConnects, Reassociate,
                ReassociateFails, Restart, ConfigFails, ConfigTries, ConfigEnds, ConfigRefused,
                ConfigError, Configured, ApplyClear, ClearDissociates, Dissociate
<1>8. CASE \/ DhcpExpires \/ WatchdogWaits \/ WatchdogFires \/ WatchdogStops \/ NoServer
           \/ HandoffFollows \/ HandoffWaits \/ SetServerUnreachable
           \/ SetTcpPhase("setConnecting", "TcpConnecting")
           \/ SetTcpPhase("setConnected", "TcpConnected") \/ OnScanDone
    BY <1>8 DEF DhcpExpires, WatchdogWaits, WatchdogFires, WatchdogStops, StopScan, ForgetScan,
                NoServer, HandoffTurn, HandoffFollows, HandoffWaits, SetServerUnreachable,
                SetTcpPhase, OnScanDone
<1>9. CASE \/ OnConnected \/ OnGotIp \/ DeferDisconnect \/ OnDisconnected \/ Reconnect
           \/ Associates \/ GetsIp \/ StationDrops \/ ScanEnds
           \/ (\E what \in {"scan", "config", "clear"} : Request(what))
    BY <1>9 DEF OnConnected, OnGotIp, DeferDisconnect, OnDisconnected, IpAfterLoss, Reconnect,
                Connect, Associates, StationStep, GetsIp, StationDrops, ScanEnds, Request
<1>10. CASE NotifySessionDisconnected
    BY <1>10 DEF NotifySessionDisconnected
<1>11. CASE UNCHANGED vars
    BY <1>11
<1>. QED
    BY <1>1, <1>2, <1>3, <1>4, <1>5, <1>6, <1>7, <1>8, <1>9, <1>10, <1>11
       DEF Next, SessionTask, ConfigTries, ConfigEnds, EventTask

\* Every step keeps the types.
LEMMA TypedStep ==
    ASSUME TypeOK, EventsOK, [Next]_vars
    PROVE  TypeOK'
BY LinkTypedStep, ScanTypedStep, TaskTypedStep, DriverTypedStep, HandoffTypedStep DEF TypeOK

\* Every step keeps flag, phase and transaction together as far as its place in the tick
\* asks.
LEMMA StageStep ==
    ASSUME TypeOK, ScanStage, [Next]_vars
    PROVE  ScanStage'
<1> USE DEF Agreeing, Agree, HalfEnded, HalfBegun, ScanStage, TypeOK, LinkTyped, TaskTyped,
            ScanTyped, TcpWindow, Transactions,
            ScanPhases, SessionStep, SessionTurn, RefusedStep, Trouble, HandleEvent, Race,
            Dropped, linkVars, linkRest, scanVars, inboxVars, taskVars, handoffVars, driverVars,
            boundVars, vars
<1>1. CASE TakeDisconnect
    BY <1>1 DEF TakeDisconnect, ForgetScan
<1>2. CASE CancelScan
    BY <1>2 DEF CancelScan, StopScan, Resting, Ended, onDisconnect
<1>3. CASE TakeScanDone
    BY <1>3 DEF TakeScanDone, Handled
<1>4. CASE ScanFailed
    BY <1>4 DEF ScanFailed, EndFailed, Ended, onScanDone
<1>5. CASE FetchFails
    BY <1>5 DEF FetchFails, EndFailed, Ended, onScanDone
<1>6. CASE Collect
    BY <1>6 DEF Collect, PhaseAfterScan, Lost, LostForNow, Nothing
<1>7. CASE FinishScan
    BY <1>7 DEF FinishScan, Connect, Ended, onScanDone
<1>8. CASE TakeCommand
    BY <1>8 DEF TakeCommand, Ends, ScanRunning, begin, Resting
<1>9. CASE StartScan
    BY <1>9 DEF StartScan, PhaseToReturnTo, Nothing
<1>10. CASE ScanStarts
    BY <1>10 DEF ScanStarts, onScanStarted
<1>11. CASE ScanRefused
    BY <1>11 DEF ScanRefused
<1>12. CASE ScanNotStarted
    BY <1>12 DEF ScanNotStarted, Ended, onScanStarted
<1>13. CASE \E what \in {"config", "clear"} : EndScanFor(what)
    BY <1>13 DEF EndScanFor, ForgetScan, Ends, Stops
<1>14. CASE \E what \in {"config", "clear"} : ScanStoppedFor(what)
    BY <1>14 DEF ScanStoppedFor, StopScan, Stops, Ended, onScanDone
<1>15. CASE DhcpExpires
    BY <1>15 DEF DhcpExpires
<1>16. CASE WatchdogWaits
    BY <1>16 DEF WatchdogWaits, anchor
<1>17. CASE WatchdogFires
    BY <1>17 DEF WatchdogFires, Ended, onTimeout, mayTimeOut
<1>18. CASE WatchdogStops
    BY <1>18 DEF WatchdogStops, StopScan, ForgetScan
<1>19. CASE OnConnected
    BY <1>19 DEF OnConnected
<1>20. CASE OnGotIp
    BY <1>20 DEF OnGotIp, Nothing
<1>21. CASE OnDisconnected
    BY <1>21 DEF OnDisconnected, IpAfterLoss
<1>22. CASE \/ ApplyConfig \/ ConfigTries \/ ConfigEnds \/ Configured \/ ApplyClear
            \/ ClearDissociates \/ HandoffIdles \/ HandoffBegins \/ NoServer \/ HandoffConnects
  <2>1. CASE ConfigTries
    BY <2>1, TriesOnly
  <2>2. CASE ConfigEnds
    BY <2>2 DEF ConfigEnds, ConfigRefused, ConfigError
  <2>3. CASE ApplyConfig \/ Configured \/ ApplyClear \/ ClearDissociates
    BY <2>3 DEF ApplyConfig, Configured, ApplyClear, ClearDissociates, Dissociate
  <2>4. CASE HandoffIdles \/ HandoffBegins \/ NoServer \/ HandoffConnects
    BY <2>4 DEF HandoffIdles, HandoffTurn, Unlatched, HandoffBegins, NoServer, HandoffConnects
  <2>. QED BY <1>22, <2>1, <2>2, <2>3, <2>4
<1>23. CASE \/ HandoffFollows \/ HandoffWaits \/ HandoffAborts \/ BeginTcp
            \/ SetServerUnreachable \/ SetTcpPhase("setConnecting", "TcpConnecting")
            \/ SetTcpPhase("setConnected", "TcpConnected") \/ OnScanDone \/ DeferDisconnect
            \/ Reconnect \/ Associates
    BY <1>23 DEF HandoffFollows, HandoffTurn, HandoffWaits, HandoffAborts, BeginTcp,
                 SetServerUnreachable, SetTcpPhase, OnScanDone, DeferDisconnect, Reconnect,
                 Connect, Associates, StationStep
<1>24. CASE \/ GetsIp \/ StationDrops \/ ScanEnds
            \/ (\E what \in {"scan", "config", "clear"} : Request(what))
            \/ NotifySessionDisconnected
    BY <1>24 DEF GetsIp, StationStep, StationDrops, ScanEnds, Request, NotifySessionDisconnected
<1>25. CASE UNCHANGED vars
    BY <1>25
<1>. QED
    BY <1>1, <1>2, <1>3, <1>4, <1>5, <1>6, <1>7, <1>8, <1>9, <1>10, <1>11, <1>12, <1>13, <1>14,
       <1>15, <1>16, <1>17, <1>18, <1>19, <1>20, <1>21, <1>22, <1>23, <1>24, <1>25
       DEF Next, SessionTask, ConfigTries, ConfigEnds, EventTask

\* A reported end of a scan keeps the generation that is current.
LEMMA GenerationStep ==
    ASSUME GenerationAgrees, [Next]_vars
    PROVE  GenerationAgrees'
<1> USE DEF GenerationAgrees, SessionStep, SessionTurn, RefusedStep, Trouble, HandleEvent, Race,
            Dropped, linkVars, linkRest, scanVars, inboxVars, taskVars, handoffVars, driverVars,
            boundVars, vars
<1>1. CASE TakeDisconnect
    BY <1>1 DEF TakeDisconnect, ForgetScan
<1>2. CASE TakeScanDone
    BY <1>2 DEF TakeScanDone, Handled
<1>3. CASE StartScan
    BY <1>3 DEF StartScan, PhaseToReturnTo, Nothing
<1>4. CASE \E what \in {"config", "clear"} : EndScanFor(what)
    BY <1>4 DEF EndScanFor, ForgetScan, Ends, Stops
<1>5. CASE WatchdogStops
    BY <1>5 DEF WatchdogStops, StopScan, ForgetScan
<1>6. CASE OnScanDone
    BY <1>6 DEF OnScanDone
<1>7. CASE \/ CancelScan \/ ScanFailed \/ FetchFails \/ Collect \/ FinishScan \/ TakeCommand
           \/ ScanStarts \/ ScanRefused \/ ScanNotStarted
           \/ (\E what \in {"config", "clear"} : ScanStoppedFor(what))
    BY <1>7 DEF CancelScan, StopScan, ScanFailed, EndFailed, FetchFails, Collect,
                PhaseAfterScan, Lost, LostForNow, Nothing, FinishScan, Connect, TakeCommand,
                Ends, ScanRunning, ScanStarts, ScanRefused, ScanNotStarted, ScanStoppedFor,
                Stops
<1>8. CASE \/ ApplyConfig \/ ConfigTries \/ ConfigEnds \/ Configured \/ ApplyClear
           \/ ClearDissociates \/ DhcpExpires \/ WatchdogWaits \/ WatchdogFires \/ HandoffIdles
    BY <1>8 DEF ApplyConfig, ConfigConnects, Reassociate, ReassociateFails, Restart, ConfigFails,
                ConfigTries, ConfigEnds, ConfigRefused, ConfigError, Configured, ApplyClear,
                ClearDissociates, Dissociate, DhcpExpires, WatchdogWaits, WatchdogFires,
                HandoffIdles, HandoffTurn, Unlatched
<1>9. CASE \/ HandoffBegins \/ NoServer \/ HandoffConnects \/ HandoffFollows \/ HandoffWaits
           \/ HandoffAborts \/ BeginTcp \/ SetServerUnreachable
           \/ SetTcpPhase("setConnecting", "TcpConnecting")
           \/ SetTcpPhase("setConnected", "TcpConnected") \/ OnConnected
    BY <1>9 DEF HandoffBegins, HandoffTurn, NoServer, HandoffConnects, HandoffFollows,
                HandoffWaits, HandoffAborts, BeginTcp, SetServerUnreachable, SetTcpPhase,
                OnConnected
<1>10. CASE \/ OnGotIp \/ DeferDisconnect \/ OnDisconnected \/ Reconnect \/ Associates \/ GetsIp
            \/ StationDrops \/ ScanEnds
            \/ (\E what \in {"scan", "config", "clear"} : Request(what))
            \/ NotifySessionDisconnected
    BY <1>10 DEF OnGotIp, DeferDisconnect, OnDisconnected, IpAfterLoss, Reconnect, Connect,
                 Associates, StationStep, GetsIp, StationDrops, ScanEnds, Request,
                 NotifySessionDisconnected
<1>11. CASE UNCHANGED vars
    BY <1>11
<1>. QED
    BY <1>1, <1>2, <1>3, <1>4, <1>5, <1>6, <1>7, <1>8, <1>9, <1>10, <1>11
       DEF Next, SessionTask, ConfigTries, ConfigEnds, EventTask

\* The driver keeps still when a scan is begun or ended, and the OLED is suspended while
\* it scans.
LEMMA ScanningStep ==
    ASSUME TypeOK, ScanStage, ScanIsOver, ScansProtected, [Next]_vars
    PROVE  ScanIsOver' /\ ScansProtected'
<1> USE DEF Agreeing, Agree, HalfEnded, HalfBegun, ScanStage, ScanIsOver, ScansProtected,
            TypeOK, TaskTyped, DriverTyped, ScanTyped, Transactions, ScanPhases, SessionStep,
            SessionTurn, RefusedStep, Trouble,
            HandleEvent, Race, Dropped, linkVars, linkRest, scanVars, inboxVars, taskVars,
            handoffVars, driverVars, boundVars, vars
<1>1. CASE TakeDisconnect
    BY <1>1 DEF TakeDisconnect, ForgetScan
<1>2. CASE CancelScan
    BY <1>2 DEF CancelScan, StopScan, Resting, Ended, onDisconnect
<1>3. CASE TakeScanDone
    BY <1>3 DEF TakeScanDone, Handled
<1>4. CASE ScanFailed
    BY <1>4 DEF ScanFailed, EndFailed, Ended, onScanDone
<1>5. CASE FetchFails
    BY <1>5 DEF FetchFails, EndFailed, Ended, onScanDone
<1>6. CASE Collect
    BY <1>6 DEF Collect, PhaseAfterScan, Lost, LostForNow, Nothing
<1>7. CASE FinishScan
    BY <1>7 DEF FinishScan, Connect, Ended, onScanDone
<1>8. CASE TakeCommand
    BY <1>8 DEF TakeCommand, Ends, ScanRunning, begin, Resting
<1>9. CASE StartScan
    BY <1>9 DEF StartScan, PhaseToReturnTo, Nothing
<1>10. CASE ScanStarts
    BY <1>10 DEF ScanStarts, onScanStarted
<1>11. CASE ScanRefused
    BY <1>11 DEF ScanRefused
<1>12. CASE ScanNotStarted
    BY <1>12 DEF ScanNotStarted, Ended, onScanStarted
<1>13. CASE \E what \in {"config", "clear"} : EndScanFor(what)
    BY <1>13 DEF EndScanFor, ForgetScan, Ends, Stops
<1>14. CASE \E what \in {"config", "clear"} : ScanStoppedFor(what)
    BY <1>14 DEF ScanStoppedFor, StopScan, Stops, Ended, onScanDone
<1>15. CASE ConfigTries
    BY <1>15 DEF ConfigTries, ConfigConnects, Reassociate, ConfigFails, ReassociateFails, Restart
<1>16. CASE WatchdogFires
    BY <1>16 DEF WatchdogFires, Ended, onTimeout, mayTimeOut
<1>17. CASE WatchdogStops
    BY <1>17 DEF WatchdogStops, StopScan, ForgetScan
<1>18. CASE OnScanDone
    BY <1>18 DEF OnScanDone
<1>19. CASE Reconnect
    BY <1>19 DEF Reconnect, Connect
<1>20. CASE ScanEnds
    BY <1>20 DEF ScanEnds
<1>21. CASE \/ ApplyConfig \/ ConfigEnds \/ Configured \/ ApplyClear \/ ClearDissociates
            \/ DhcpExpires \/ WatchdogWaits \/ HandoffIdles \/ HandoffBegins \/ NoServer
    BY <1>21 DEF ApplyConfig, ConfigEnds, ConfigRefused, ConfigError, Configured, ApplyClear,
                 ClearDissociates, Dissociate, DhcpExpires, WatchdogWaits, anchor, HandoffIdles,
                 HandoffTurn, Unlatched, HandoffBegins, NoServer
<1>22. CASE \/ HandoffConnects \/ HandoffFollows \/ HandoffWaits \/ HandoffAborts \/ BeginTcp
            \/ SetServerUnreachable \/ SetTcpPhase("setConnecting", "TcpConnecting")
            \/ SetTcpPhase("setConnected", "TcpConnected") \/ OnConnected \/ OnGotIp
            \/ DeferDisconnect
    BY <1>22 DEF HandoffConnects, HandoffTurn, HandoffFollows, HandoffWaits, HandoffAborts,
                 BeginTcp, SetServerUnreachable, SetTcpPhase, OnConnected, OnGotIp, Nothing,
                 DeferDisconnect
<1>23. CASE \/ OnDisconnected \/ Associates \/ GetsIp \/ StationDrops
            \/ (\E what \in {"scan", "config", "clear"} : Request(what))
            \/ NotifySessionDisconnected
    BY <1>23 DEF OnDisconnected, IpAfterLoss, Associates, StationStep, GetsIp, StationDrops,
                 Request, NotifySessionDisconnected
<1>24. CASE UNCHANGED vars
    BY <1>24
<1>. QED
    BY <1>1, <1>2, <1>3, <1>4, <1>5, <1>6, <1>7, <1>8, <1>9, <1>10, <1>11, <1>12, <1>13, <1>14,
       <1>15, <1>16, <1>17, <1>18, <1>19, <1>20, <1>21, <1>22, <1>23, <1>24
       DEF Next, SessionTask, ConfigTries, ConfigEnds, EventTask

\* Every step leaves events in the queue.
LEMMA EventsStep ==
    ASSUME EventsOK, [Next]_vars
    PROVE  EventsOK'
<1> USE DEF EventsOK, SessionStep, SessionTurn, RefusedStep, Trouble, HandleEvent, Race,
            Dropped, linkVars, linkRest, scanVars, inboxVars, taskVars, handoffVars, driverVars,
            boundVars, vars
<1>1. CASE CancelScan
    BY <1>1, DriverReports DEF CancelScan
<1>2. CASE FinishScan
    BY <1>2, DriverReports DEF FinishScan
<1>3. CASE \E what \in {"config", "clear"} : ScanStoppedFor(what)
    BY <1>3, DriverReports DEF ScanStoppedFor, Stops
<1>4. CASE ConfigTries
  <2>1. \E to, held : Restart(to, held) BY <1>4
    DEF ConfigTries, ConfigConnects, Reassociate, ConfigFails, ReassociateFails
  <2>. QED BY <2>1, DriverReports
<1>5. CASE ClearDissociates
    BY <1>5, DriverReports DEF ClearDissociates
<1>6. CASE WatchdogStops
    BY <1>6, DriverReports DEF WatchdogStops, ForgetScan
<1>7. CASE OnScanDone
    BY <1>7, HeadTyped DEF OnScanDone
<1>8. CASE OnConnected
    BY <1>8, HeadTyped DEF OnConnected
<1>9. CASE OnGotIp
    BY <1>9, HeadTyped DEF OnGotIp
<1>10. CASE DeferDisconnect
    BY <1>10, HeadTyped DEF DeferDisconnect
<1>11. CASE OnDisconnected
    BY <1>11, HeadTyped DEF OnDisconnected, IpAfterLoss
<1>12. CASE Reconnect
    BY <1>12, DriverReports DEF Reconnect
<1>13. CASE Associates
    BY <1>13, EventsTyped, AppendProperties DEF Associates, StationStep
<1>14. CASE GetsIp
    BY <1>14, EventsTyped, AppendProperties DEF GetsIp, StationStep
<1>15. CASE StationDrops
    BY <1>15, EventsTyped, AppendProperties DEF StationDrops
<1>16. CASE ScanEnds
    BY <1>16, EventsTyped, AppendProperties DEF ScanEnds
<1>17. CASE \/ TakeDisconnect \/ TakeScanDone \/ ScanFailed \/ FetchFails \/ Collect
            \/ TakeCommand \/ StartScan \/ ScanStarts \/ ScanRefused \/ ScanNotStarted
    BY <1>17 DEF TakeDisconnect, ForgetScan, TakeScanDone, Handled, ScanFailed, EndFailed,
                 FetchFails, Collect, PhaseAfterScan, Lost, LostForNow, Nothing, TakeCommand,
                 Ends, ScanRunning, StartScan, PhaseToReturnTo, ScanStarts, ScanRefused,
                 ScanNotStarted
<1>18. CASE \/ (\E what \in {"config", "clear"} : EndScanFor(what)) \/ ApplyConfig
            \/ ConfigEnds \/ Configured \/ ApplyClear \/ DhcpExpires \/ WatchdogWaits
            \/ WatchdogFires \/ HandoffIdles \/ HandoffBegins
    BY <1>18 DEF EndScanFor, ForgetScan, Ends, Stops, ApplyConfig, ConfigEnds, ConfigRefused,
                 ConfigError, Configured, ApplyClear, DhcpExpires, WatchdogWaits, WatchdogFires,
                 HandoffIdles, HandoffTurn, Unlatched, HandoffBegins
<1>19. CASE \/ NoServer \/ HandoffConnects \/ HandoffFollows \/ HandoffWaits \/ HandoffAborts
            \/ BeginTcp \/ SetServerUnreachable \/ SetTcpPhase("setConnecting", "TcpConnecting")
            \/ SetTcpPhase("setConnected", "TcpConnected")
            \/ (\E what \in {"scan", "config", "clear"} : Request(what))
            \/ NotifySessionDisconnected
    BY <1>19 DEF NoServer, HandoffTurn, HandoffConnects, HandoffFollows, HandoffWaits,
                 HandoffAborts, BeginTcp, SetServerUnreachable, SetTcpPhase, Request,
                 NotifySessionDisconnected
<1>20. CASE UNCHANGED vars
    BY <1>20
<1>. QED
    BY <1>1, <1>2, <1>3, <1>4, <1>5, <1>6, <1>7, <1>8, <1>9, <1>10, <1>11, <1>12, <1>13, <1>14,
       <1>15, <1>16, <1>17, <1>18, <1>19, <1>20
       DEF Next, SessionTask, ConfigTries, ConfigEnds, EventTask

-----------------------------------------------------------------------------
(* The theorems.                                                           *)

\* A provisioning object that was just made satisfies the invariant.
LEMMA InitInvariant == Init => IInv
<1> SUFFICES ASSUME Init PROVE IInv
    OBVIOUS
<1> USE DEF Init, Nothing, NoTransaction
<1>1. TypeOK
  <2>1. tx \in Transactions
    BY DEF Transactions, ScanPhases
  <2>2. deferred \in [down : {"no"} \cup Reasons, gotIp : BOOLEAN]
    OBVIOUS
  <2>3. scanGen \in 0..(GenMod - 1) /\ scanDoneGen \in 0..(GenMod - 1)
    BY WifiAssumption
  <2>. QED BY <2>1, <2>2, <2>3 DEF TypeOK, LinkTyped, ScanTyped, TaskTyped, DriverTyped,
                                     HandoffTyped, Phases
<1>2. EventsOK
    BY EventsTyped DEF EventsOK
<1>3. ScanStage
    BY DEF ScanStage, Agreeing, Agree
<1>4. GenerationAgrees /\ ScanIsOver /\ ScansProtected
    BY DEF GenerationAgrees, ScanIsOver, ScansProtected
<1>. QED BY <1>1, <1>2, <1>3, <1>4 DEF IInv

\* Every step preserves it.
LEMMA StepInvariant == IInv /\ [Next]_vars => IInv'
BY TypedStep, EventsStep, StageStep, GenerationStep, ScanningStep DEF IInv

\* The invariant holds in every reachable state.
THEOREM Invariance == Spec => []IInv
BY InitInvariant, StepInvariant, PTL DEF Spec

\* The variables of the provisioning object, of the transaction and of the driver keep
\* their types (wifi_provisioning.hpp:162-215).
THEOREM TypeCorrect == Spec => []TypeOK
<1>1. IInv => TypeOK
    BY DEF IInv
<1>. QED BY <1>1, Invariance, PTL

\* Between two ticks flag, phase, transaction and OLED agree on whether a scan is under
\* way, however the last one ended (tick, startScan and the handler of SCAN_DONE).
THEOREM ScanEndsWhole == Spec => []ScanIsOneThing
<1>1. IInv => ScanIsOneThing
    BY DEF IInv, ScanStage, Agreeing, Agree, ScanIsOneThing
<1>. QED BY <1>1, Invariance, PTL

\* The generation recorded with an end of a scan is always the current one, so that the
\* comparison in tick() (wifi_provisioning.cpp:405) never rejects an end.
THEOREM GenerationRejectsNothing == Spec => []GenerationAgrees
<1>1. IInv => GenerationAgrees
    BY DEF IInv
<1>. QED BY <1>1, Invariance, PTL

\* The OLED is suspended while the driver scans (scan_transaction.h: never scan
\* unprotected), but for the watchdog and the late end of an earlier scan.
THEOREM NoUnprotectedScan == Spec => []ScansProtected
<1>1. IInv => ScansProtected
    BY DEF IInv
<1>. QED BY <1>1, Invariance, PTL

-----------------------------------------------------------------------------
(* Where the station is.                                                    *)
(*                                                                         *)
(* Without races, what is known of the station follows it: what the phase  *)
(* and the address say, corrected by what was put off during the scan and  *)
(* by the events that wait, is where the station is.                       *)

\* Whether an address is known after the first n events of q were heard.
IpAfter(q, known, n) ==
    \/ \E j \in 1..n : q[j].what = "gotIp" /\ \A k \in 1..n : k > j => q[k].what # "disconnected"
    \/ known /\ \A k \in 1..n : q[k].what # "disconnected"

\* No event of q is of the station.
Unheard(q) == \A i \in DOMAIN q : q[i].what = "scanDone"

\* The last event of the station in q says where it is.
NewestTells(q, st) == \A i \in DOMAIN q :
    (\A k \in DOMAIN q : k > i => q[k].what = "scanDone") =>
        /\ q[i].what = "connected" => st = "associated"
        /\ q[i].what = "gotIp" => st = "ip"
        /\ q[i].what = "disconnected" => st \in {"down", "linking"}

\* What a phase says of the station.
Fits(p, st) ==
    /\ p \in TcpWindow => st = "ip"
    /\ p = "WifiConnected" => st = "associated"
    /\ p = "WifiConnecting" => st # "ip"

\* The address and the phase once what was put off is applied.
IpKnown == ip /\ ~Lost
PhaseKnown ==
    IF pc = "configured" /\ phase = "ConfigApplying" THEN "WifiConnecting" ELSE PhaseAfterScan

\* The events that wait lead from what is known to where the station is; an association
\* is only reported to who knows no address.
Follows(q, st, known) ==
    /\ NewestTells(q, st)
    /\ \A i \in DOMAIN q : q[i].what = "connected" => ~IpAfter(q, known, i)
    /\ IpAfter(q, known, Len(q)) => st = "ip"

StationFollowed ==
    /\ Follows(events, station, IpKnown)
    /\ pc # "dissociate" /\ station = "ip" => IpAfter(events, IpKnown, Len(events))
    /\ Unheard(events) => Fits(PhaseKnown, station)
    /\ PhaseKnown \in TcpWindow => IpKnown

\* Without credentials nothing is known of a station.
Away(p) == p \notin TcpWindow \cup {"WifiConnected"}
Unconfigured == ~configured =>
    /\ ~ip /\ ~deferred.gotIp
    /\ Away(phase) /\ (phase = "Scanning" => Away(prevPhase))

\* What is put off, and what phase there is, while a scan goes on and while it does not.
ScanShape ==
    /\ scanActive => phase \in {"Scanning", "Error"}
    /\ ~scanActive => deferred = Nothing
    /\ pc \in {"configStops", "clearStops", "config", "connect", "configFailed", "configured",
               "clear", "dissociate"} => ~scanActive
    /\ pc = "dissociate" => ~configured /\ phase \in {"Cleared", "Error"}

\* The phase is a phase of TCP only while the handoff is under way.
InTcp(p) == p \in {"TcpConnecting", "TcpConnected"}
HandoffShape ==
    /\ pc \in {"setConnecting", "setConnected"} => handoff # "idle"
    /\ pc # "unreachable" /\ (InTcp(phase) \/ (phase = "Scanning" /\ InTcp(prevPhase)))
          => handoff # "idle"

Shapes == Unconfigured /\ ScanShape /\ HandoffShape

StationInv == races = {} => StationFollowed /\ Shapes

\* Every step keeps the shapes.
LEMMA ShapeStep ==
    ASSUME TypeOK, ScanStage, Shapes, races' = {}, races = {}, [Next]_vars
    PROVE  Shapes'
<1> USE DEF Shapes, Unconfigured, Away, ScanShape, HandoffShape, InTcp, Nothing, ScanStage,
            Agreeing, Agree, HalfEnded, HalfBegun, TypeOK, LinkTyped, ScanTyped, HandoffTyped,
            TcpWindow, SessionStep, SessionTurn, RefusedStep, Trouble, HandleEvent, Race, Dropped,
            linkVars, linkRest, scanVars, inboxVars, taskVars, handoffVars, driverVars,
            boundVars, vars
<1>1. CASE TakeDisconnect
    BY <1>1 DEF TakeDisconnect, ForgetScan
<1>2. CASE CancelScan
    BY <1>2 DEF CancelScan, StopScan
<1>3. CASE TakeScanDone
    BY <1>3 DEF TakeScanDone, Handled
<1>4. CASE ScanFailed
    BY <1>4 DEF ScanFailed, EndFailed
<1>5. CASE FetchFails
    BY <1>5 DEF FetchFails, EndFailed
<1>6. CASE Collect
    BY <1>6 DEF Collect, PhaseAfterScan, Lost, LostForNow
<1>7. CASE FinishScan
    BY <1>7 DEF FinishScan, Connect
<1>8. CASE TakeCommand
    BY <1>8 DEF TakeCommand, Ends, ScanRunning
<1>9. CASE StartScan
    BY <1>9 DEF StartScan, PhaseToReturnTo
<1>10. CASE ScanStarts
    BY <1>10 DEF ScanStarts
<1>11. CASE ScanRefused
    BY <1>11 DEF ScanRefused
<1>12. CASE ScanNotStarted
    BY <1>12 DEF ScanNotStarted
<1>13. CASE \E what \in {"config", "clear"} : EndScanFor(what)
    BY <1>13 DEF EndScanFor, ForgetScan, Ends, Stops
<1>14. CASE \E what \in {"config", "clear"} : ScanStoppedFor(what)
    BY <1>14 DEF ScanStoppedFor, StopScan, Stops
<1>15. CASE \/ ApplyConfig \/ ConfigTries \/ ConfigEnds \/ Configured \/ ApplyClear
            \/ ClearDissociates
  <2>1. CASE ConfigTries
    BY <2>1, TriesOnly
  <2>2. CASE ConfigEnds
    BY <2>2 DEF ConfigEnds, ConfigRefused, ConfigError
  <2>3. CASE ApplyConfig \/ Configured \/ ApplyClear \/ ClearDissociates
    BY <2>3 DEF ApplyConfig, Configured, ApplyClear, ClearDissociates, Dissociate
  <2>. QED BY <1>15, <2>1, <2>2, <2>3
<1>16. CASE \/ DhcpExpires \/ WatchdogWaits \/ WatchdogFires
    BY <1>16 DEF DhcpExpires, WatchdogWaits, WatchdogFires
<1>17. CASE WatchdogStops
    BY <1>17 DEF WatchdogStops, StopScan, ForgetScan
<1>18. CASE \/ HandoffIdles \/ HandoffBegins \/ NoServer \/ HandoffConnects \/ HandoffFollows
            \/ HandoffWaits \/ HandoffAborts
    BY <1>18 DEF HandoffIdles, HandoffTurn, Unlatched, HandoffBegins, NoServer, HandoffConnects,
        HandoffFollows, HandoffWaits, HandoffAborts
<1>19. CASE \/ BeginTcp \/ SetServerUnreachable \/ SetTcpPhase("setConnecting", "TcpConnecting")
            \/ SetTcpPhase("setConnected", "TcpConnected")
    BY <1>19 DEF BeginTcp, SetServerUnreachable, SetTcpPhase
<1>20. CASE \/ OnScanDone \/ OnConnected \/ OnGotIp
    BY <1>20 DEF OnScanDone, OnConnected, OnGotIp
<1>21. CASE \/ DeferDisconnect \/ OnDisconnected
    BY <1>21 DEF DeferDisconnect, OnDisconnected, IpAfterLoss
<1>22. CASE \/ Reconnect \/ Associates \/ GetsIp \/ StationDrops \/ ScanEnds
            \/ (\E what \in {"scan", "config", "clear"} : Request(what))
            \/ NotifySessionDisconnected \/ UNCHANGED vars
    BY <1>22 DEF Reconnect, Connect, Associates, StationStep, GetsIp, StationDrops, ScanEnds,
        Request, NotifySessionDisconnected
<1>. QED
    BY <1>1, <1>2, <1>3, <1>4, <1>5, <1>6, <1>7, <1>8, <1>9, <1>10, <1>11, <1>12, <1>13, <1>14,
       <1>15, <1>16, <1>17, <1>18, <1>19, <1>20, <1>21, <1>22
       DEF Next, SessionTask, ConfigTries, ConfigEnds, EventTask

\* A queue that grows at its end.
LEMMA OneMore ==
    ASSUME NEW q, IsSeq(q), NEW e, NEW r, r = Append(q, e), NEW known, NEW st
    PROVE  /\ IsSeq(r) /\ Len(r) = Len(q) + 1
           /\ \A n \in DOMAIN q \cup {Len(q)} : IpAfter(r, known, n) <=> IpAfter(q, known, n)
           /\ IpAfter(r, known, Len(r)) <=>
                 e.what = "gotIp" \/ (e.what # "disconnected" /\ IpAfter(q, known, Len(q)))
           /\ Unheard(r) <=> Unheard(q) /\ e.what = "scanDone"
           /\ \A i \in DOMAIN r : r[i] = e \/ (i \in DOMAIN q /\ r[i] = q[i])
<1>1. /\ Len(q) \in Nat /\ DOMAIN q = 1..Len(q)
      /\ IsSeq(r) /\ Len(r) = Len(q) + 1 /\ DOMAIN r = DOMAIN q \cup {Len(q) + 1}
      /\ \A i \in DOMAIN q : r[i] = q[i]
      /\ r[Len(q) + 1] = e
  BY SeqIndices, AppendKeeps
<1>2. ASSUME NEW n \in DOMAIN q \cup {Len(q)} PROVE IpAfter(r, known, n) <=> IpAfter(q, known, n)
  <2>1. \A k \in 1..n : r[k] = q[k] BY <1>1, <1>2
  <2> QED BY <2>1 DEF IpAfter
<1>3. PICK m : m = Len(q) + 1 OBVIOUS
<1>4. /\ m \in Nat /\ r[m] = e /\ \A k \in 1..m : k = m \/ (k \in 1..Len(q) /\ r[k] = q[k])
      /\ \A k \in 1..Len(q) : k \in 1..m /\ k < m /\ r[k] = q[k]
      /\ m \in 1..m
  BY <1>1, <1>3
<1>5. IpAfter(r, known, m) <=>
          e.what = "gotIp" \/ (e.what # "disconnected" /\ IpAfter(q, known, Len(q)))
  <2>1. CASE e.what = "disconnected" BY <1>4, <2>1 DEF IpAfter
  <2>2. CASE e.what = "gotIp" BY <1>4, <2>2 DEF IpAfter
  <2>3. CASE e.what \notin {"disconnected", "gotIp"}
    <3>1. IpAfter(r, known, m) => IpAfter(q, known, Len(q)) BY <1>4, <2>3 DEF IpAfter
    <3>2. IpAfter(q, known, Len(q)) => IpAfter(r, known, m) BY <1>4, <2>3 DEF IpAfter
    <3> QED BY <2>3, <3>1, <3>2
  <2> QED BY <2>1, <2>2, <2>3
<1>6. Unheard(r) <=> Unheard(q) /\ e.what = "scanDone" BY <1>1 DEF Unheard
<1>7. \A i \in DOMAIN r : r[i] = e \/ (i \in DOMAIN q /\ r[i] = q[i]) BY <1>1
<1> QED BY <1>1, <1>2, <1>3, <1>5, <1>6, <1>7

\* The end of a scan tells nothing of the station.
LEMMA ScanEndTells ==
    ASSUME NEW q, IsSeq(q), NEW e, e.what = "scanDone", NEW known, NEW st, Follows(q, st, known),
           NEW r, r = Append(q, e)
    PROVE  /\ Follows(r, st, known)
           /\ IpAfter(r, known, Len(r)) <=> IpAfter(q, known, Len(q))
           /\ Unheard(r) <=> Unheard(q)
<1>1. /\ Len(q) \in Nat /\ DOMAIN q = 1..Len(q)
      /\ DOMAIN r = DOMAIN q \cup {Len(q) + 1}
      /\ \A i \in DOMAIN q : r[i] = q[i]
      /\ r[Len(q) + 1] = e
  BY SeqIndices, AppendKeeps
<1>2. /\ \A n \in DOMAIN q \cup {Len(q)} : IpAfter(r, known, n) <=> IpAfter(q, known, n)
      /\ IpAfter(r, known, Len(r)) <=> IpAfter(q, known, Len(q))
      /\ Unheard(r) <=> Unheard(q)
  BY OneMore
<1>3. NewestTells(r, st)
  <2> SUFFICES ASSUME NEW i \in DOMAIN r, \A k \in DOMAIN r : k > i => r[k].what = "scanDone"
               PROVE  /\ r[i].what = "connected" => st = "associated"
                      /\ r[i].what = "gotIp" => st = "ip"
                      /\ r[i].what = "disconnected" => st \in {"down", "linking"}
      BY DEF NewestTells
  <2>1. CASE i \in DOMAIN q
    <3>1. \A k \in DOMAIN q : k > i => q[k].what = "scanDone" BY <1>1
    <3> QED BY <1>1, <2>1, <3>1 DEF Follows, NewestTells
  <2>2. CASE r[i] = e BY <2>2
  <2> QED BY <1>1, <2>1, <2>2
<1>4. \A i \in DOMAIN r : r[i].what = "connected" => ~IpAfter(r, known, i)
  BY <1>1, <1>2 DEF Follows
<1> QED BY <1>2, <1>3, <1>4 DEF Follows

\* Nor is it heard of a station that begins to connect.
LEMMA LinkingIsDown ==
    ASSUME NEW q, NEW known, Follows(q, "down", known)
    PROVE  Follows(q, "linking", known)
BY DEF Follows, NewestTells

\* The station reports where it is now.
LEMMA StationTells ==
    ASSUME NEW q, IsSeq(q), NEW known, NEW st, NEW to, Follows(q, st, known), NEW e,
           \/ e.what = "connected" /\ st # "ip" /\ to = "associated"
           \/ e.what = "gotIp" /\ to = "ip"
           \/ e.what = "disconnected" /\ to \in {"down", "linking"},
           NEW r, r = Append(q, e)
    PROVE  /\ Follows(r, to, known)
           /\ IpAfter(r, known, Len(r)) <=> to = "ip"
           /\ ~Unheard(r)
<1>1. /\ Len(q) \in Nat /\ DOMAIN q = 1..Len(q)
      /\ DOMAIN r = DOMAIN q \cup {Len(q) + 1}
      /\ \A i \in DOMAIN q : r[i] = q[i]
      /\ r[Len(q) + 1] = e /\ Len(r) = Len(q) + 1
  BY SeqIndices, AppendKeeps
<1>2. /\ \A n \in DOMAIN q \cup {Len(q)} : IpAfter(r, known, n) <=> IpAfter(q, known, n)
      /\ IpAfter(r, known, Len(r)) <=>
            e.what = "gotIp" \/ (e.what # "disconnected" /\ IpAfter(q, known, Len(q)))
      /\ ~Unheard(r)
  BY OneMore
<1>3. IpAfter(r, known, Len(r)) <=> to = "ip" BY <1>2 DEF Follows
<1>4. NewestTells(r, to)
  <2>1. \A i \in DOMAIN q : Len(q) + 1 > i /\ Len(q) + 1 \in DOMAIN r BY <1>1
  <2> QED BY <1>1, <2>1 DEF NewestTells
<1>5. \A i \in DOMAIN r : r[i].what = "connected" => ~IpAfter(r, known, i)
  BY <1>1, <1>2, <1>3 DEF Follows
<1> QED BY <1>2, <1>3, <1>4, <1>5 DEF Follows

\* The event task hears of the first event, and knows more or less for it.
Hears(q, t, known, now) ==
    /\ q # <<>> /\ t = Tail(q)
    /\ now <=> Head(q).what = "gotIp" \/ (Head(q).what # "disconnected" /\ known)

LEMMA FirstHeard ==
    ASSUME NEW q, IsSeq(q), NEW t, NEW known, NEW st, Follows(q, st, known), NEW now,
           Hears(q, t, known, now)
    PROVE  /\ Follows(t, st, now)
           /\ IpAfter(t, now, Len(t)) <=> IpAfter(q, known, Len(q))
           /\ Unheard(t) /\ Head(q).what = "scanDone" => Unheard(q)
           /\ Unheard(t) => /\ Head(q).what = "connected" => st = "associated"
                            /\ Head(q).what = "gotIp" => st = "ip"
                            /\ Head(q).what = "disconnected" => st \in {"down", "linking"}
           /\ Head(q).what = "connected" => ~known
<1> USE DEF Hears
<1>1. /\ Len(q) \in Nat /\ DOMAIN q = 1..Len(q) /\ IsSeq(t)
      /\ Len(t) = Len(q) - 1 /\ 1 \in DOMAIN q /\ Head(q) = q[1]
      /\ \A i \in DOMAIN t : i + 1 \in DOMAIN q /\ t[i] = q[i + 1]
  BY SeqIndices, TailKeeps
<1>2. DOMAIN t = 1..Len(t) /\ Len(t) \in Nat BY <1>1, SeqIndices
<1>3. \A i \in DOMAIN q : i = 1 \/ (i - 1 \in DOMAIN t /\ t[i - 1] = q[i] /\ i = (i - 1) + 1)
  BY <1>1, <1>2
<1>4. ASSUME NEW n \in DOMAIN t \cup {Len(t)} PROVE IpAfter(t, now, n) <=> IpAfter(q, known, n +
1)
  <2>1. /\ n \in Nat /\ n <= Len(t)
        /\ \A k \in 1..n : k + 1 \in 1..(n + 1) /\ t[k] = q[k + 1]
        /\ \A k \in 1..(n + 1) : k = 1 \/ (k - 1 \in 1..n /\ t[k - 1] = q[k])
        /\ 1 \in 1..(n + 1)
    BY <1>1, <1>2
  <2>2. (\A k \in 1..(n + 1) : q[k].what # "disconnected")
          <=> Head(q).what # "disconnected" /\ \A k \in 1..n : t[k].what # "disconnected"
    <3>1. ASSUME \A k \in 1..(n + 1) : q[k].what # "disconnected"
          PROVE  Head(q).what # "disconnected" /\ \A k \in 1..n : t[k].what # "disconnected"
      <4>1. \A k \in 1..n : q[k + 1].what # "disconnected" BY <2>1, <3>1
      <4> QED BY <1>1, <2>1, <3>1, <4>1
    <3>2. ASSUME Head(q).what # "disconnected", \A k \in 1..n : t[k].what # "disconnected",
                 NEW k \in 1..(n + 1)
          PROVE  q[k].what # "disconnected"
      <4>1. CASE k = 1 BY <1>1, <3>2, <4>1
      <4>2. CASE k # 1
        <5>1. k - 1 \in 1..n /\ t[k - 1] = q[k] BY <2>1, <4>2
        <5> QED BY <3>2, <5>1
      <4> QED BY <4>1, <4>2
    <3> QED BY <3>1, <3>2
  <2>3. ASSUME IpAfter(t, now, n) PROVE IpAfter(q, known, n + 1)
    <3>1. CASE \E j \in 1..n :
                   t[j].what = "gotIp" /\ \A k \in 1..n : k > j => t[k].what # "disconnected"
      <4>1. PICK j \in 1..n :
                t[j].what = "gotIp" /\ \A k \in 1..n : k > j => t[k].what # "disconnected"
        BY <3>1
      <4>2. PICK i : i = j + 1 OBVIOUS
      <4>3. i \in 1..(n + 1) /\ q[i].what = "gotIp" BY <2>1, <4>1, <4>2
      <4>4. \A k \in 1..(n + 1) : k > i => q[k].what # "disconnected" BY <2>1, <4>1, <4>2
      <4> QED BY <4>3, <4>4 DEF IpAfter
    <3>2. CASE now /\ \A k \in 1..n : t[k].what # "disconnected"
      <4>1. CASE Head(q).what = "gotIp"
        <5>1. \A k \in 1..(n + 1) : k > 1 => q[k].what # "disconnected" BY <2>1, <3>2
        <5> QED BY <1>1, <2>1, <4>1, <5>1 DEF IpAfter
      <4>2. CASE Head(q).what # "gotIp" BY <2>2, <3>2, <4>2 DEF IpAfter
      <4> QED BY <4>1, <4>2
    <3> QED BY <2>3, <3>1, <3>2 DEF IpAfter
  <2>4. ASSUME IpAfter(q, known, n + 1) PROVE IpAfter(t, now, n)
    <3>1. CASE known /\ \A k \in 1..(n + 1) : q[k].what # "disconnected"
      BY <2>2, <3>1 DEF IpAfter
    <3>2. CASE \E j \in 1..(n + 1) :
                   q[j].what = "gotIp" /\ \A k \in 1..(n + 1) : k > j => q[k].what #
                   "disconnected"
      <4>1. PICK j \in 1..(n + 1) :
                q[j].what = "gotIp" /\ \A k \in 1..(n + 1) : k > j => q[k].what # "disconnected"
        BY <3>2
      <4>2. CASE j = 1
        <5>1. \A k \in 1..n : t[k].what # "disconnected" BY <2>1, <4>1, <4>2
        <5> QED BY <1>1, <4>1, <4>2, <5>1 DEF IpAfter
      <4>3. CASE j # 1
        <5>1. PICK i : i = j - 1 OBVIOUS
        <5>2. i \in 1..n /\ t[i].what = "gotIp" BY <2>1, <4>1, <4>3, <5>1
        <5>3. \A k \in 1..n : k > i => t[k].what # "disconnected" BY <2>1, <4>1, <5>1
        <5> QED BY <5>2, <5>3 DEF IpAfter
      <4> QED BY <4>2, <4>3
    <3> QED BY <2>4, <3>1, <3>2 DEF IpAfter
  <2> QED BY <2>3, <2>4
<1>5. IpAfter(t, now, Len(t)) <=> IpAfter(q, known, Len(q)) BY <1>1, <1>4
<1>6. NewestTells(t, st)
  <2> SUFFICES ASSUME NEW i \in DOMAIN t, \A k \in DOMAIN t : k > i => t[k].what = "scanDone"
               PROVE  /\ t[i].what = "connected" => st = "associated"
                      /\ t[i].what = "gotIp" => st = "ip"
                      /\ t[i].what = "disconnected" => st \in {"down", "linking"}
      BY DEF NewestTells
  <2>1. PICK n : n = i + 1 OBVIOUS
  <2>2. n \in DOMAIN q /\ q[n] = t[i] BY <1>1, <2>1
  <2>3. ASSUME NEW k \in DOMAIN q, k > n PROVE q[k].what = "scanDone"
    <3>1. k - 1 \in DOMAIN t /\ t[k - 1] = q[k] /\ k - 1 > i BY <1>1, <1>2, <1>3, <2>1, <2>3
    <3> QED BY <3>1
  <2> QED BY <2>2, <2>3 DEF Follows, NewestTells
<1>7. ASSUME NEW i \in DOMAIN t, t[i].what = "connected" PROVE ~IpAfter(t, now, i)
  <2>1. PICK n : n = i + 1 OBVIOUS
  <2>2. n \in DOMAIN q /\ q[n].what = "connected" BY <1>1, <1>7, <2>1
  <2>3. ~IpAfter(q, known, n) BY <2>2 DEF Follows
  <2> QED BY <1>4, <1>7, <2>1, <2>3
<1>8. ASSUME Unheard(t)
      PROVE  /\ Head(q).what = "scanDone" => Unheard(q)
             /\ Head(q).what = "connected" => st = "associated"
             /\ Head(q).what = "gotIp" => st = "ip"
             /\ Head(q).what = "disconnected" => st \in {"down", "linking"}
  <2>1. ASSUME NEW k \in DOMAIN q, k > 1 PROVE q[k].what = "scanDone"
    <3>1. k - 1 \in DOMAIN t /\ t[k - 1] = q[k] BY <1>3, <2>1
    <3> QED BY <1>8, <3>1 DEF Unheard
  <2>2. \A k \in DOMAIN q : k = 1 \/ k > 1 BY <1>1
  <2> QED BY <1>1, <2>1, <2>2 DEF Follows, NewestTells, Unheard
<1>9. Head(q).what = "connected" => ~known
  <2>1. Head(q).what = "connected" => ~IpAfter(q, known, 1) BY <1>1 DEF Follows
  <2>2. 1..1 = {1} OBVIOUS
  <2> QED BY <1>1, <2>1, <2>2 DEF IpAfter
<1> QED BY <1>1, <1>5, <1>6, <1>7, <1>8, <1>9 DEF Follows

\* A phase that fits wherever another one did.
Weaker(p, o) ==
    \/ p = o
    \/ p \notin TcpWindow \cup {"WifiConnected", "WifiConnecting"}
    \/ p \in TcpWindow /\ o \in TcpWindow
Kept == (IpKnown' <=> IpKnown) /\ Weaker(PhaseKnown', PhaseKnown)

\* Only whether an address is known matters.
LEMMA SameKnown ==
    ASSUME NEW q, NEW st, NEW known, NEW now, now <=> known
    PROVE  /\ \A n : IpAfter(q, now, n) <=> IpAfter(q, known, n)
           /\ Follows(q, st, known) => Follows(q, st, now)
<1>1. \A n : IpAfter(q, now, n) <=> IpAfter(q, known, n) BY DEF IpAfter
<1> QED BY <1>1 DEF Follows

\* The driver says nothing of the station, and what is known of it stays.
QuietDriver ==
    /\ \/ UNCHANGED events
       \/ \E how \in {"ok", "failed"} : events' = Append(events, Event("scanDone", how))
    /\ \/ UNCHANGED station
       \/ station = "down" /\ station' = "linking"

\* A step that tells nothing and changes nothing that is known keeps what is followed.
LEMMA QuietStep ==
    ASSUME StationFollowed, EventsOK, QuietDriver, Kept, pc = "dissociate" => pc' = "dissociate"
    PROVE  StationFollowed'
<1>1. IsSeq(events) BY DEF EventsOK, IsSeq
<1>2. /\ Follows(events', station, IpKnown)
      /\ IpAfter(events', IpKnown, Len(events')) <=> IpAfter(events, IpKnown, Len(events))
      /\ Unheard(events') <=> Unheard(events)
  <2>1. CASE UNCHANGED events BY <2>1 DEF StationFollowed
  <2>2. CASE \E how \in {"ok", "failed"} : events' = Append(events, Event("scanDone", how))
    <3>1. PICK e : e.what = "scanDone" /\ events' = Append(events, e) BY <2>2 DEF Event
    <3> QED BY <1>1, <3>1, ScanEndTells DEF StationFollowed
  <2> QED BY <2>1, <2>2 DEF QuietDriver
<1>3. Follows(events', station', IpKnown) BY <1>2, LinkingIsDown DEF QuietDriver
<1>4. /\ Follows(events', station', IpKnown')
      /\ IpAfter(events', IpKnown', Len(events')) <=> IpAfter(events', IpKnown, Len(events'))
  <2>1. IpKnown' <=> IpKnown BY DEF Kept
  <2>2. PICK now : now = IpKnown' OBVIOUS
  <2>3. PICK known : known = IpKnown OBVIOUS
  <2>4. PICK q, st : q = events' /\ st = station' OBVIOUS
  <2>5. Follows(q, st, known) /\ (now <=> known) BY <1>3, <2>1, <2>2, <2>3, <2>4
  <2>6. Follows(q, st, now) /\ (IpAfter(q, now, Len(q)) <=> IpAfter(q, known, Len(q)))
    BY <2>5, SameKnown
  <2> QED BY <2>2, <2>3, <2>4, <2>6
<1>5. Fits(PhaseKnown, station) => Fits(PhaseKnown', station')
  BY DEF Kept, Weaker, Fits, QuietDriver, TcpWindow
<1>6. pc' # "dissociate" /\ station' = "ip" => IpAfter(events', IpKnown', Len(events'))
  BY <1>2, <1>4 DEF StationFollowed, QuietDriver
<1>7. PhaseKnown' \in TcpWindow => IpKnown' BY DEF StationFollowed, Kept, Weaker
<1> QED BY <1>2, <1>4, <1>5, <1>6, <1>7 DEF StationFollowed

\* The steps that tell nothing of the station.
QuietActions ==
    \/ TakeDisconnect \/ CancelScan \/ TakeScanDone \/ ScanFailed \/ FetchFails \/ Collect
    \/ FinishScan \/ TakeCommand \/ StartScan \/ ScanStarts \/ ScanRefused \/ ScanNotStarted
    \/ ApplyConfig \/ ConfigEnds \/ Configured \/ DhcpExpires \/ WatchdogWaits \/ WatchdogFires
    \/ WatchdogStops \/ HandoffIdles \/ HandoffBegins \/ NoServer \/ HandoffConnects
    \/ HandoffFollows \/ HandoffWaits \/ HandoffAborts \/ BeginTcp \/ SetServerUnreachable
    \/ SetTcpPhase("setConnecting", "TcpConnecting")
    \/ SetTcpPhase("setConnected", "TcpConnected") \/ Reconnect \/ ScanEnds
    \/ NotifySessionDisconnected \/ UNCHANGED vars
    \/ \E what \in {"config", "clear"} : EndScanFor(what)
    \/ \E what \in {"config", "clear"} : ScanStoppedFor(what)
    \/ \E what \in {"scan", "config", "clear"} : Request(what)

\* The session task, on its own, changes nothing that is known of the station.
LEMMA KnownKept ==
    ASSUME TypeOK, ScanStage, Shapes, races' = {}, races = {}, QuietActions
    PROVE  Kept /\ (pc = "dissociate" => pc' = "dissociate")
<1> USE DEF Kept, Weaker, IpKnown, PhaseKnown, PhaseAfterScan, Lost, LostForNow, Shapes,
            Unconfigured, Away, ScanShape, Nothing, ScanStage, Agreeing, Agree, HalfEnded,
            HalfBegun, TypeOK, LinkTyped, ScanTyped, TcpWindow, Reasons, SessionStep,
            SessionTurn, RefusedStep, Trouble, HandleEvent, Race, Dropped, linkVars, linkRest,
            scanVars, inboxVars, taskVars, handoffVars, driverVars, boundVars, vars
<1>1. CASE TakeDisconnect
    BY <1>1 DEF TakeDisconnect, ForgetScan
<1>2. CASE CancelScan
    BY <1>2 DEF CancelScan, StopScan
<1>3. CASE TakeScanDone
    BY <1>3 DEF TakeScanDone, Handled
<1>4. CASE ScanFailed
    BY <1>4 DEF ScanFailed, EndFailed
<1>5. CASE FetchFails
    BY <1>5 DEF FetchFails, EndFailed
<1>6. CASE Collect
    BY <1>6 DEF Collect
<1>7. CASE FinishScan
    BY <1>7 DEF FinishScan, Connect
<1>8. CASE TakeCommand
    BY <1>8 DEF TakeCommand, Ends, ScanRunning
<1>9. CASE StartScan
    BY <1>9 DEF StartScan, PhaseToReturnTo
<1>10. CASE ScanStarts
    BY <1>10 DEF ScanStarts
<1>11. CASE ScanRefused
    BY <1>11 DEF ScanRefused
<1>12. CASE ScanNotStarted
    BY <1>12 DEF ScanNotStarted
<1>13. CASE \E what \in {"config", "clear"} : EndScanFor(what)
    BY <1>13 DEF EndScanFor, ForgetScan, Ends, Stops
<1>14. CASE \E what \in {"config", "clear"} : ScanStoppedFor(what)
    BY <1>14 DEF ScanStoppedFor, StopScan, Stops
<1>15. CASE \/ ApplyConfig \/ ConfigEnds
    BY <1>15 DEF ApplyConfig, ConfigEnds, ConfigRefused, ConfigError
<1>16. CASE Configured
    BY <1>16 DEF Configured
<1>17. CASE \/ DhcpExpires \/ WatchdogWaits \/ WatchdogFires
    BY <1>17 DEF DhcpExpires, WatchdogWaits, WatchdogFires
<1>18. CASE WatchdogStops
    BY <1>18 DEF WatchdogStops, StopScan, ForgetScan
<1>19. CASE \/ HandoffIdles \/ HandoffBegins \/ NoServer \/ HandoffConnects \/ HandoffFollows
            \/ HandoffWaits \/ HandoffAborts
    BY <1>19 DEF HandoffIdles, HandoffTurn, Unlatched, HandoffBegins, NoServer, HandoffConnects,
        HandoffFollows, HandoffWaits, HandoffAborts
<1>20. CASE BeginTcp
  <2>1. /\ pc = "begin" /\ pc' \in {"idle", "unreachable"} /\ phase' = "TcpConnecting"
        /\ phase \in TcpWindow /\ UNCHANGED <<ip, deferred, prevPhase>>
    BY <1>20 DEF BeginTcp
  <2>2. deferred = Nothing BY <2>1
  <2>3. PhaseKnown = phase /\ PhaseKnown' = "TcpConnecting" BY <2>1, <2>2
  <2> QED BY <2>1, <2>2, <2>3
<1>21. CASE \/ SetServerUnreachable \/ SetTcpPhase("setConnecting", "TcpConnecting")
            \/ SetTcpPhase("setConnected", "TcpConnected")
    BY <1>21 DEF SetServerUnreachable, SetTcpPhase
<1>22. CASE \/ Reconnect \/ ScanEnds \/ (\E what \in {"scan", "config", "clear"} : Request(what))
            \/ NotifySessionDisconnected \/ UNCHANGED vars
    BY <1>22 DEF Reconnect, Connect, ScanEnds, Request, NotifySessionDisconnected
<1>. QED
    BY <1>1, <1>2, <1>3, <1>4, <1>5, <1>6, <1>7, <1>8, <1>9, <1>10, <1>11, <1>12, <1>13, <1>14,
       <1>15, <1>16, <1>17, <1>18, <1>19, <1>20, <1>21, <1>22
       DEF QuietActions

\* And it makes the driver tell nothing of it.
LEMMA DriverQuiet ==
    ASSUME EventsOK, QuietActions
    PROVE  QuietDriver
<1> USE DEF QuietDriver, SessionStep, SessionTurn, RefusedStep, driverVars
<1>0. \/ events \o StoppedScan = events
      \/ \E how \in {"ok", "failed"} :
             events \o StoppedScan = Append(events, Event("scanDone", how))
  <2>1. CASE scanning
    <3>1. PICK e : e = Event("scanDone", "failed") OBVIOUS
    <3>2. IsSeq(events) /\ StoppedScan = <<e>> BY <2>1, <3>1 DEF EventsOK, IsSeq, StoppedScan
    <3>3. events \o <<e>> = Append(events, e) BY DEF EventsOK
    <3> QED BY <3>1, <3>2, <3>3
  <2>2. CASE ~scanning
    <3>1. StoppedScan = <<>> BY <2>2 DEF StoppedScan
    <3>2. events \o <<>> = events BY DEF EventsOK
    <3> QED BY <3>1, <3>2
  <2> QED BY <2>1, <2>2
<1>1. CASE \/ TakeDisconnect \/ CancelScan \/ TakeScanDone \/ ScanFailed \/ FetchFails \/ Collect
           \/ FinishScan \/ TakeCommand
    BY <1>0, <1>1 DEF TakeDisconnect, ForgetScan, CancelScan, StopScan, TakeScanDone, Handled,
        ScanFailed, EndFailed, FetchFails, Collect, FinishScan, Connect, TakeCommand, Ends,
        ScanRunning
<1>2. CASE \/ StartScan \/ ScanStarts \/ ScanRefused \/ ScanNotStarted
           \/ (\E what \in {"config", "clear"} : EndScanFor(what))
           \/ (\E what \in {"config", "clear"} : ScanStoppedFor(what))
    BY <1>0, <1>2 DEF StartScan, PhaseToReturnTo, ScanStarts, ScanRefused, ScanNotStarted,
        EndScanFor, ForgetScan, Ends, Stops, ScanStoppedFor, StopScan
<1>3. CASE \/ ApplyConfig \/ ConfigEnds \/ Configured \/ DhcpExpires \/ WatchdogWaits
           \/ WatchdogFires \/ WatchdogStops
    BY <1>0, <1>3 DEF ApplyConfig, ConfigEnds, ConfigRefused, ConfigError, Configured,
        DhcpExpires, WatchdogWaits, WatchdogFires, WatchdogStops, StopScan, ForgetScan
<1>4. CASE \/ HandoffIdles \/ HandoffBegins \/ NoServer \/ HandoffConnects \/ HandoffFollows
           \/ HandoffWaits \/ HandoffAborts \/ BeginTcp \/ SetServerUnreachable
           \/ SetTcpPhase("setConnecting", "TcpConnecting")
           \/ SetTcpPhase("setConnected", "TcpConnected")
    BY <1>0, <1>4 DEF HandoffIdles, HandoffTurn, Unlatched, HandoffBegins, NoServer,
        HandoffConnects, HandoffFollows, HandoffWaits, HandoffAborts, BeginTcp,
        SetServerUnreachable, SetTcpPhase
<1>5. CASE \/ Reconnect \/ ScanEnds
    BY <1>0, <1>5 DEF Reconnect, Connect, ScanEnds
<1>6. CASE \/ (\E what \in {"scan", "config", "clear"} : Request(what))
           \/ NotifySessionDisconnected
    BY <1>0, <1>6 DEF Request, NotifySessionDisconnected
<1>7. CASE UNCHANGED vars
    BY <1>0, <1>7 DEF vars
<1>. QED
    BY <1>1, <1>2, <1>3, <1>4, <1>5, <1>6, <1>7
       DEF QuietActions

\* Leaving an association reports it.
LEMMA LeavesStation ==
    ASSUME NEW q, IsSeq(q), NEW known, NEW st, Follows(q, st, known), NEW to,
           to \in {"down", "linking"}, NEW e, e.what = "disconnected", NEW r,
           \/ st = "down" /\ r = q
           \/ st # "down" /\ r = Append(q, e)
    PROVE  Follows(r, to, known) /\ (Unheard(r) => Unheard(q) /\ st = "down")
<1>1. CASE st = "down" /\ r = q BY <1>1, LinkingIsDown
<1>2. CASE st # "down" /\ r = Append(q, e)
  <2>1. Follows(r, to, known) /\ ~Unheard(r) BY <1>2, StationTells
  <2> QED BY <2>1
<1> QED BY <1>1, <1>2

\* An association that is left is reported as lost.
LEMMA LeftReported ==
    ASSUME NEW q, IsSeq(q)
    PROVE  LET r == q \o IF station = "down" THEN <<>> ELSE <<Event("disconnected", "transient")>>
           IN  \E e : /\ e.what = "disconnected"
                      /\ (station = "down" /\ r = q) \/ (station # "down" /\ r = Append(q, e))
<1>1. PICK e : e = Event("disconnected", "transient") OBVIOUS
<1>2. e.what = "disconnected" BY <1>1 DEF Event
<1>3. q \o <<e>> = Append(q, e) /\ q \o <<>> = q BY DEF IsSeq
<1> QED BY <1>1, <1>2, <1>3

\* The station is followed where it goes, and where the session task sends it.
LEMMA DriverFollowed ==
    ASSUME TypeOK, EventsOK, ScanStage, Shapes, StationFollowed, races' = {}, races = {},
           ConfigTries \/ ClearDissociates \/ Associates \/ GetsIp \/ StationDrops
    PROVE  StationFollowed'
<1>0. IsSeq(events) /\ Follows(events, station, IpKnown) BY DEF EventsOK, IsSeq, StationFollowed
<1> DEFINE Heard == /\ Follows(events', station', IpKnown)
                    /\ pc' # "dissociate" /\ station' = "ip"
                          => IpAfter(events', IpKnown, Len(events'))
                    /\ Unheard(events') => Fits(PhaseKnown', station')
<1>1. ASSUME Heard, IpKnown' = IpKnown, PhaseKnown' \in TcpWindow => PhaseKnown \in TcpWindow
      PROVE  StationFollowed'
    BY <1>1 DEF StationFollowed
<1>2. CASE ConfigTries
  <2>0. PICK to \in {"down", "linking"} : station' = to BY <1>2
    DEF ConfigTries, ConfigConnects, Reassociate, ConfigFails, ReassociateFails, Restart
  <2>1. /\ pc = "connect" /\ pc' \in {"configured", "configFailed"} /\ station' = to
        /\ events' = events \o StoppedScan
                   \o IF station = "down" THEN <<>> ELSE <<Event("disconnected", "transient")>>
        /\ UNCHANGED <<ip, deferred, phase, prevPhase, configured>>
    BY <1>2, <2>0 DEF ConfigTries, ConfigConnects, Reassociate, ConfigFails, ReassociateFails,
        Restart, RefusedStep, Trouble, SessionStep, SessionTurn, linkVars, linkRest, scanVars
  <2>2. PICK q : q = events \o StoppedScan OBVIOUS
  <2>3. /\ IsSeq(q) /\ Follows(q, station, IpKnown)
        /\ Unheard(q) <=> Unheard(events)
    <3>1. CASE scanning
      <4>1. PICK e : e = Event("scanDone", "failed") OBVIOUS
      <4>2. events \o <<e>> = Append(events, e) BY DEF EventsOK
      <4>3. q = Append(events, e) /\ e.what = "scanDone" /\ IsSeq(Append(events, e))
        BY <1>0, <2>2, <3>1, <4>1, <4>2, AppendKeeps DEF StoppedScan, Event
      <4> QED BY <1>0, <4>3, ScanEndTells
    <3>2. CASE ~scanning
      <4>1. q = events BY <2>2, <3>2 DEF StoppedScan, EventsOK
      <4> QED BY <1>0, <4>1
    <3> QED BY <3>1, <3>2
  <2>4. PICK r : r = events' OBVIOUS
  <2>5. r = q \o IF station = "down" THEN <<>> ELSE <<Event("disconnected", "transient")>>
    BY <2>1, <2>2, <2>4
  <2>6. PICK known : known = IpKnown OBVIOUS
  <2>7. /\ Follows(r, to, known)
        /\ Unheard(r) => Unheard(q) /\ station = "down"
    <3>1. PICK st : st = station OBVIOUS
    <3>2. Follows(q, st, known) BY <2>3, <2>6, <3>1
    <3>3. PICK e : /\ e.what = "disconnected"
                   /\ (st = "down" /\ r = q) \/ (st # "down" /\ r = Append(q, e))
      BY <2>3, <2>5, <3>1, LeftReported
    <3>4. Follows(r, to, known) /\ (Unheard(r) => Unheard(q) /\ st = "down")
      BY <2>0, <2>3, <3>2, <3>3, LeavesStation
    <3> QED BY <3>1, <3>4
  <2>8. IpKnown' = IpKnown BY <2>1 DEF IpKnown, Lost
  <2>9. PhaseKnown' \notin TcpWindow \cup {"WifiConnected"} \/ PhaseKnown' = PhaseKnown
    BY <2>1 DEF PhaseKnown, PhaseAfterScan, Lost, LostForNow, TcpWindow
  <2>10. Unheard(events') => Fits(PhaseKnown', station')
    <3>1. Unheard(events') => Fits(PhaseKnown, station) /\ station = "down"
      BY <2>3, <2>4, <2>7 DEF StationFollowed
    <3> QED BY <2>1, <2>9, <3>1 DEF Fits, TcpWindow
  <2> QED BY <1>1, <2>1, <2>4, <2>6, <2>7, <2>8, <2>9, <2>10
<1>3. CASE ClearDissociates
  <2>1. /\ pc = "dissociate" /\ pc' = "timers" /\ station' = "down"
        /\ events' = events
                \o IF station = "down" THEN <<>> ELSE <<Event("disconnected", "transient")>>
        /\ UNCHANGED <<ip, deferred, phase, prevPhase, configured>>
    BY <1>3 DEF ClearDissociates, Dissociate, SessionStep, SessionTurn, linkVars, linkRest,
  scanVars
  <2>2. PICK q, r, known, st : q = events /\ r = events' /\ known = IpKnown /\ st = station
  OBVIOUS
  <2>3. IsSeq(q) /\ Follows(q, st, known) BY <1>0, <2>2
  <2>4. PICK e : /\ e.what = "disconnected"
                 /\ (st = "down" /\ r = q) \/ (st # "down" /\ r = Append(q, e))
    BY <1>0, <2>1, <2>2, LeftReported
  <2>5. PICK to : to = "down" OBVIOUS
  <2>6. Follows(r, to, known) BY <2>3, <2>4, <2>5, LeavesStation
  <2>7. deferred = Nothing /\ phase \in {"Cleared", "Error"} BY <2>1 DEF Shapes, ScanShape
  <2>8. IpKnown' = IpKnown BY <2>1 DEF IpKnown, Lost
  <2>9. PhaseKnown' = phase /\ PhaseKnown = phase
    BY <2>1, <2>7 DEF PhaseKnown, PhaseAfterScan, Lost, LostForNow, Nothing
  <2>10. Fits(PhaseKnown', station') BY <2>1, <2>7, <2>9 DEF Fits, TcpWindow
  <2> QED BY <1>1, <2>1, <2>2, <2>5, <2>6, <2>8, <2>9, <2>10
<1>4. CASE Associates \/ GetsIp \/ StationDrops
  <2>1. PICK e : /\ events' = Append(events, e)
                 /\ \/ e.what = "connected" /\ station = "linking" /\ station' = "associated"
                    \/ e.what = "gotIp" /\ station' = "ip"
                    \/ e.what = "disconnected" /\ station' = "down"
    <3>1. CASE Associates
      <4>1. PICK e : e = Event("connected", "ok") OBVIOUS
      <4> QED BY <3>1, <4>1 DEF Associates, StationStep, Event
    <3>2. CASE GetsIp
      <4>1. PICK e : e = Event("gotIp", "ok") OBVIOUS
      <4> QED BY <3>2, <4>1 DEF GetsIp, StationStep, Event
    <3>3. CASE StationDrops
      <4>1. PICK how : events' = Append(events, Event("disconnected", how)) /\ station' = "down"
        BY <3>3 DEF StationDrops
      <4>2. PICK e : e = Event("disconnected", how) OBVIOUS
      <4> QED BY <4>1, <4>2 DEF Event
    <3> QED BY <1>4, <3>1, <3>2, <3>3
  <2>2. UNCHANGED <<ip, deferred, phase, prevPhase, configured, pc>>
    BY <1>4 DEF Associates, GetsIp, StationDrops, StationStep, linkVars, linkRest, scanVars,
                taskVars
  <2>3. PICK q, r, known, st, to :
            q = events /\ r = events' /\ known = IpKnown /\ st = station /\ to = station'
    OBVIOUS
  <2>4. /\ Follows(r, to, known)
        /\ IpAfter(r, known, Len(r)) <=> to = "ip"
        /\ ~Unheard(r)
    <3>1. PICK v : /\ r = Append(q, v)
                   /\ \/ v.what = "connected" /\ st = "linking" /\ to = "associated"
                      \/ v.what = "gotIp" /\ to = "ip"
                      \/ v.what = "disconnected" /\ to = "down"
      BY <2>1, <2>3
    <3>2. IsSeq(q) /\ Follows(q, st, known) BY <1>0, <2>3
    <3>3. \/ v.what = "connected" /\ st # "ip" /\ to = "associated"
          \/ v.what = "gotIp" /\ to = "ip"
          \/ v.what = "disconnected" /\ to \in {"down", "linking"}
      BY <3>1
    <3>4. r = Append(q, v) BY <3>1
    <3> QED BY <3>2, <3>3, <3>4, StationTells, ZenonT(20)
  <2>5. IpKnown' = IpKnown BY <2>2 DEF IpKnown, Lost
  <2>6. PhaseKnown' = PhaseKnown BY <2>2 DEF PhaseKnown, PhaseAfterScan, Lost, LostForNow
  <2> QED BY <1>1, <2>3, <2>4, <2>5, <2>6
<1> QED BY <1>2, <1>3, <1>4

\* What is forgotten of the station is not expected of it.
LEMMA ClearFollowed ==
    ASSUME ScanStage, Shapes, StationFollowed, ApplyClear
    PROVE  StationFollowed'
<1>1. /\ pc = "clear" /\ pc' = "dissociate" /\ phase' = "Cleared" /\ ip' = FALSE
      /\ UNCHANGED <<deferred, events, station>>
  BY DEF ApplyClear, SessionStep, SessionTurn, scanVars, driverVars
<1>2. deferred = Nothing BY <1>1 DEF Shapes, ScanShape
<1>3. PhaseKnown' = "Cleared" /\ IpKnown' = FALSE
  BY <1>1, <1>2 DEF PhaseKnown, PhaseAfterScan, Lost, LostForNow, IpKnown, Nothing
<1>4. PICK q, st, known : q = events /\ st = station /\ known = IpKnown OBVIOUS
<1>5. Follows(q, st, FALSE)
  <2>1. \A n : IpAfter(q, FALSE, n) => IpAfter(q, known, n) BY DEF IpAfter
  <2> QED BY <1>4, <2>1 DEF StationFollowed, Follows
<1>6. Follows(events', station', IpKnown') BY <1>1, <1>3, <1>4, <1>5
<1> QED BY <1>1, <1>3, <1>6 DEF StationFollowed, Fits, TcpWindow

\* What the event task makes of an event.
Told(what) ==
    /\ events # <<>> /\ Head(events).what = what /\ events' = Tail(events)
    /\ UNCHANGED <<station, pc, prevPhase>>

\* It is as well followed when an event is heard and believed.
LEMMA TellsKnown ==
    ASSUME StationFollowed, EventsOK, NEW what, Told(what),
           IpKnown' <=> what = "gotIp" \/ (what # "disconnected" /\ IpKnown),
           PhaseKnown' \in TcpWindow => IpKnown',
           \/ what = "scanDone" /\ PhaseKnown' = PhaseKnown
           \/ what = "connected" /\ (~IpKnown => Fits(PhaseKnown', "associated"))
           \/ what = "gotIp" /\ Fits(PhaseKnown', "ip")
           \/ what = "disconnected" /\ Fits(PhaseKnown', "down")
    PROVE  StationFollowed'
<1>1. PICK q, t, st, known, now : /\ q = events /\ t = events' /\ st = station
                                  /\ known = IpKnown /\ now = IpKnown'
  OBVIOUS
<1>2. /\ IsSeq(q) /\ q # <<>> /\ t = Tail(q) /\ Follows(q, st, known) /\ Head(q).what = what
      /\ now <=> Head(q).what = "gotIp" \/ (Head(q).what # "disconnected" /\ known)
  BY <1>1 DEF Told, StationFollowed, EventsOK, IsSeq
<1>3. /\ Follows(t, st, now)
      /\ IpAfter(t, now, Len(t)) <=> IpAfter(q, known, Len(q))
      /\ Unheard(t) /\ what = "scanDone" => Unheard(q)
      /\ Unheard(t) => /\ what = "connected" => st = "associated"
                       /\ what = "gotIp" => st = "ip"
                       /\ what = "disconnected" => st \in {"down", "linking"}
      /\ what = "connected" => ~known
  <2>1. /\ Follows(t, st, now)
        /\ IpAfter(t, now, Len(t)) <=> IpAfter(q, known, Len(q))
        /\ Unheard(t) /\ Head(q).what = "scanDone" => Unheard(q)
        /\ Unheard(t) => /\ Head(q).what = "connected" => st = "associated"
                         /\ Head(q).what = "gotIp" => st = "ip"
                         /\ Head(q).what = "disconnected" => st \in {"down", "linking"}
        /\ Head(q).what = "connected" => ~known
    <3>1. IsSeq(q) /\ Follows(q, st, known) /\ Hears(q, t, known, now) BY <1>2 DEF Hears
    <3> QED BY <3>1, FirstHeard
  <2> QED BY <1>2, <2>1
<1>4. station' = st /\ pc' = pc BY <1>1 DEF Told
<1>5. Unheard(t) => Fits(PhaseKnown', st)
  <2>1. CASE what = "scanDone" BY <1>1, <1>3, <2>1 DEF StationFollowed
  <2>2. CASE what = "connected" BY <1>1, <1>3, <2>2
  <2>3. CASE what = "gotIp" BY <1>1, <1>3, <2>3
  <2>4. CASE what = "disconnected" BY <1>1, <1>3, <2>4 DEF Fits
  <2> QED BY <2>1, <2>2, <2>3, <2>4
<1>6. pc' # "dissociate" /\ station' = "ip" => IpAfter(t, now, Len(t))
  BY <1>1, <1>3, <1>4 DEF StationFollowed
<1> QED BY <1>1, <1>3, <1>4, <1>5, <1>6 DEF StationFollowed

\* The handler believes each event, at once or when the scan ends.
LEMMA EventFollowed ==
    ASSUME TypeOK, EventsOK, ScanStage, Shapes, StationFollowed, races' = {}, races = {},
           OnScanDone \/ OnConnected \/ OnGotIp \/ DeferDisconnect \/ OnDisconnected
    PROVE  StationFollowed'
<1> USE DEF PhaseAfterScan, Lost, LostForNow, Nothing, TcpWindow, Fits, PhaseKnown, IpKnown,
TypeOK, ScanTyped, LinkTyped, Reasons
<1>1. PhaseKnown \in TcpWindow => IpKnown BY DEF StationFollowed
<1>2. pc = "configured" => ~scanActive BY DEF Shapes, ScanShape
<1>3. ~scanActive => deferred = Nothing BY DEF Shapes, ScanShape
<1>4. CASE OnScanDone
  <2>1. /\ Told("scanDone") /\ UNCHANGED <<ip, deferred, phase>>
    BY <1>4 DEF OnScanDone, HandleEvent, Told, taskVars
  <2>2. IpKnown' = IpKnown /\ PhaseKnown' = PhaseKnown BY <2>1 DEF Told
  <2> HIDE DEF PhaseKnown, IpKnown, Fits
  <2> QED BY <1>1, <2>1, <2>2, TellsKnown
<1>5. CASE OnConnected
  <2>1. /\ Told("connected") /\ UNCHANGED <<ip, deferred>>
        /\ phase' = IF scanActive THEN phase ELSE "WifiConnected"
    BY <1>5 DEF OnConnected, HandleEvent, Told, taskVars
  <2>2. IpKnown' = IpKnown BY <2>1
  <2>3. PhaseKnown' = IF scanActive THEN PhaseKnown ELSE "WifiConnected"
    BY <1>2, <1>3, <2>1 DEF Told
  <2>4. ~IpKnown => Fits(PhaseKnown', "associated") BY <1>1, <2>3
  <2>5. PhaseKnown' \in TcpWindow => IpKnown' BY <1>1, <2>2, <2>3
  <2> HIDE DEF PhaseKnown, IpKnown, Fits
  <2> QED BY <2>1, <2>2, <2>4, <2>5, TellsKnown
<1>6. CASE OnGotIp
  <2>1. /\ Told("gotIp") /\ ip' = TRUE
        /\ phase' = IF scanActive THEN phase ELSE "GotIp"
        /\ deferred' = IF scanActive THEN [deferred EXCEPT !.gotIp = TRUE] ELSE deferred
        /\ scanActive => deferred.down = "no"
    BY <1>6 DEF OnGotIp, HandleEvent, Told, taskVars
  <2>2. IpKnown' = TRUE /\ PhaseKnown' = "GotIp" BY <1>2, <1>3, <2>1 DEF Told
  <2>3. Fits("GotIp", "ip") OBVIOUS
  <2> HIDE DEF PhaseKnown, IpKnown, Fits
  <2> QED BY <2>1, <2>2, <2>3, TellsKnown
<1>7. CASE DeferDisconnect
  <2>1. /\ Told("disconnected") /\ scanActive /\ UNCHANGED <<ip, phase>>
        /\ deferred' = [deferred EXCEPT !.down = Head(events).how]
    BY <1>7 DEF DeferDisconnect, HandleEvent, Told, taskVars
  <2>2. Head(events).how \in Reasons BY <2>1 DEF EventsOK, Events, Told
  <2>3. IpKnown' = FALSE /\ PhaseKnown' \in {"WifiConnecting", "Error"} BY <1>2, <2>1, <2>2 DEF
  Told
  <2>4. Fits(PhaseKnown', "down") /\ PhaseKnown' \notin TcpWindow BY <2>3
  <2> HIDE DEF PhaseKnown, IpKnown, Fits
  <2> QED BY <2>1, <2>3, <2>4, TellsKnown
<1>8. CASE OnDisconnected
  <2>1. /\ Told("disconnected") /\ ~scanActive /\ UNCHANGED <<deferred, configured>>
        /\ \/ phase' \in {"Error", "WifiConnecting"} /\ ip' = FALSE
           \/ ~configured /\ ip' = ip /\ phase' = phase
    BY <1>8 DEF OnDisconnected, HandleEvent, Told, taskVars, IpAfterLoss
  <2>2. ip' = FALSE /\ deferred' = Nothing
    BY <1>3, <2>1 DEF Shapes, Unconfigured
  <2>3. IpKnown' = FALSE BY <2>2
  <2>4. PhaseKnown' \notin TcpWindow \cup {"WifiConnected"}
    BY <1>3, <2>1, <2>2 DEF Shapes, Unconfigured, Away, Told
  <2>5. Fits(PhaseKnown', "down") /\ PhaseKnown' \notin TcpWindow BY <2>4
  <2> HIDE DEF PhaseKnown, IpKnown, Fits
  <2> QED BY <2>1, <2>3, <2>5, TellsKnown
<1> QED BY <1>4, <1>5, <1>6, <1>7, <1>8

\* A provisioning object that was just made follows a station that is down.
LEMMA StationInitial == Init => StationInv
<1> SUFFICES ASSUME Init PROVE StationFollowed /\ Shapes BY DEF StationInv
<1> USE DEF Init
<1>1. PICK q : q = <<>> OBVIOUS
<1>2. Len(q) = 0 /\ DOMAIN q = {} BY <1>1, NothingIsSeq, SeqIndices
<1>3. IpKnown = FALSE /\ PhaseKnown = "Idle"
  BY DEF IpKnown, PhaseKnown, PhaseAfterScan, Lost, LostForNow, Nothing
<1>4. ~IpAfter(q, FALSE, Len(q)) BY <1>2 DEF IpAfter
<1>5. Follows(q, "down", FALSE) BY <1>2, <1>4 DEF Follows, NewestTells
<1>6. Follows(events, station, IpKnown) BY <1>1, <1>3, <1>5
<1>7. StationFollowed BY <1>3, <1>6 DEF StationFollowed, Fits, TcpWindow
<1>8. Shapes BY DEF Shapes, Unconfigured, Away, ScanShape, HandoffShape, InTcp, TcpWindow, Nothing
<1> QED BY <1>7, <1>8

\* A race stays on record.
LEMMA RacesStay == [Next]_vars /\ races' = {} => races = {}
<1> SUFFICES ASSUME [Next]_vars PROVE races \subseteq races' OBVIOUS
<1> USE DEF Race, Dropped
<1>1. CASE SessionTask
  BY <1>1 DEF SessionTask, TakeDisconnect, CancelScan, TakeScanDone, ScanFailed, FetchFails,
      Collect, FinishScan, TakeCommand, StartScan, ScanStarts, ScanRefused, ScanNotStarted,
      EndScanFor, ScanStoppedFor, ApplyConfig, ConfigRefused, ConfigConnects, ConfigFails,
      ConfigError, Configured, ApplyClear, ClearDissociates, DhcpExpires, WatchdogWaits,
      WatchdogFires, WatchdogStops, HandoffIdles,
      HandoffBegins, NoServer, HandoffConnects, HandoffFollows, HandoffWaits, HandoffAborts,
      HandoffTurn, BeginTcp, SetServerUnreachable, SetTcpPhase, ForgetScan, EndFailed
<1>2. CASE EventTask
  BY <1>2 DEF EventTask, OnScanDone, OnConnected, OnGotIp, DeferDisconnect, OnDisconnected,
      Reconnect
<1>3. CASE \/ Associates \/ GetsIp \/ StationDrops \/ ScanEnds \/ NotifySessionDisconnected
           \/ \E what \in {"scan", "config", "clear"} : Request(what)
           \/ UNCHANGED vars
  BY <1>3 DEF Associates, GetsIp, StationStep, StationDrops, ScanEnds, NotifySessionDisconnected,
      Request, vars
<1> QED BY <1>1, <1>2, <1>3 DEF Next

\* Every step keeps the station followed, or is a race.
LEMMA StationStays ==
    ASSUME TypeOK, EventsOK, ScanStage, StationInv, [Next]_vars
    PROVE  StationInv'
<1> SUFFICES ASSUME races' = {} PROVE StationFollowed' /\ Shapes' BY DEF StationInv
<1>1. races = {} BY RacesStay
<1>2. StationFollowed /\ Shapes BY <1>1 DEF StationInv
<1>3. Shapes' BY <1>1, <1>2, ShapeStep
<1>4. CASE QuietActions BY <1>1, <1>2, <1>3, <1>4, KnownKept, DriverQuiet, QuietStep
<1>5. CASE ConfigTries \/ ClearDissociates \/ Associates \/ GetsIp \/ StationDrops
  BY <1>1, <1>2, <1>3, <1>5, DriverFollowed
<1>6. CASE ApplyClear BY <1>2, <1>3, <1>6, ClearFollowed
<1>7. CASE OnScanDone \/ OnConnected \/ OnGotIp \/ DeferDisconnect \/ OnDisconnected
  BY <1>1, <1>2, <1>3, <1>7, EventFollowed
<1> QED BY <1>3, <1>4, <1>5, <1>6, <1>7
       DEF Next, SessionTask, ConfigTries, ConfigEnds, EventTask, QuietActions

\* At rest nothing is put off and nothing waits: what is known is the truth.
LEMMA StationTold == ASSUME TypeOK, ScanStage, StationInv PROVE PhaseTellsStation
<1> SUFFICES ASSUME Rest, races = {}
             PROVE  /\ ip <=> station = "ip"
                    /\ phase \in TcpWindow => station = "ip"
                    /\ phase = "WifiConnected" => station = "associated"
                    /\ station = "ip" => phase # "WifiConnecting"
                    /\ phase \in TcpWindow \ {"GotIp"} => handoff # "idle"
    BY DEF PhaseTellsStation
<1>1. StationFollowed /\ Shapes BY DEF StationInv
<1>2. pc = "idle" /\ events = <<>> /\ ~scanActive BY DEF Rest
<1>3. deferred = Nothing /\ phase # "Scanning"
  BY <1>1, <1>2 DEF Shapes, ScanShape, ScanStage, Agreeing, Agree
<1>4. IpKnown = ip /\ PhaseKnown = phase
  BY <1>2, <1>3 DEF IpKnown, PhaseKnown, PhaseAfterScan, Lost, LostForNow, Nothing, TypeOK,
      LinkTyped
<1>5. PICK q : q = events OBVIOUS
<1>6. Len(q) = 0 /\ DOMAIN q = {} /\ 1..Len(q) = {} BY <1>2, <1>5, NothingIsSeq, SeqIndices
<1>7. Unheard(q) /\ (IpAfter(q, ip, Len(q)) <=> ip) BY <1>6 DEF Unheard, IpAfter
<1>8. Unheard(events) /\ (IpAfter(events, IpKnown, Len(events)) <=> ip) BY <1>4, <1>5, <1>7
<1>9. ip <=> station = "ip" BY <1>1, <1>2, <1>8 DEF StationFollowed, Follows
<1>10. Fits(phase, station) BY <1>1, <1>4, <1>8 DEF StationFollowed
<1>11. phase \in TcpWindow \ {"GotIp"} => handoff # "idle"
  BY <1>1, <1>2 DEF Shapes, HandoffShape, InTcp, TcpWindow
<1> QED BY <1>9, <1>10, <1>11 DEF Fits

\* At rest, and unless an event went through one of the windows the code leaves, phase_
\* and ip_ say where the station is and whether a handoff is under way (handleEvent,
\* tick and setPhase in wifi_provisioning.cpp, tickTcpHandoff in main.cpp).
THEOREM PhaseIsTrue == Spec => []PhaseTellsStation
<1>1. Init => StationInv
  BY StationInitial
<1>2. IInv /\ StationInv /\ [Next]_vars => StationInv'
  BY StationStays DEF IInv
<1>3. IInv /\ StationInv => PhaseTellsStation
  BY StationTold DEF IInv
<1>. QED BY <1>1, <1>2, <1>3, Invariance, PTL DEF Spec

-----------------------------------------------------------------------------
(* The OLED.                                                               *)

\* A transfer that was already committed when the pause began is the only one: after it
\* the task looks at the pause again.
PauseSeen ==
    /\ traffic \in Nat
    /\ suspended => traffic <= 1 /\ (task = "send" => traffic = 0)

\* Screens are scenes; a scene that somebody was given is not 0, which stands for none.
ScreensTyped ==
    /\ want \in Nat /\ want > 0
    /\ ~lost => appFb # 0

Uploading == task \in {"check", "send", "done"} /\ job.kind = "upload"

\* The newest scene is in the application's buffer; it is owed to the panel (appDirty), on
\* its way there, or shown.
SceneOnItsWay ==
    /\ ~lost /\ ~sceneDirty => appFb = want
    /\ ~lost /\ ~sceneDirty /\ ~appDirty =>
          IF Uploading /\ job.screen # 0
          THEN job.screen = want /\ (task = "done" /\ ~failed => panel = want)
          ELSE panel = want

\* Only an upload carries a scene; no task is there when one is made.
JobsTyped ==
    /\ task \in {"check", "send", "done"} /\ job.kind # "upload" => job.screen = 0
    /\ exited => task = "none"

OledInv == PauseSeen /\ ScreensTyped /\ SceneOnItsWay /\ JobsTyped

LEMMA OledInitial == OledInit => OledInv
BY OledBounds DEF OledInit, OledInv, PauseSeen, ScreensTyped, SceneOnItsWay, JobsTyped, Uploading

LEMMA OledTaskPreserves == ASSUME OledInv, OledTask PROVE OledInv'
<1> USE DEF OledInv, PauseSeen, ScreensTyped, SceneOnItsWay, JobsTyped, Uploading, Begin, Turn,
        sceneVars
<1>1. CASE TaskExits BY <1>1 DEF TaskExits
<1>2. CASE TurnInits BY <1>2 DEF TurnInits
<1>3. CASE WaitEnds BY <1>3 DEF WaitEnds
<1>4. CASE TurnUploads BY <1>4 DEF TurnUploads
<1>5. CASE CheckAbort BY <1>5 DEF CheckAbort
<1>6. CASE Transfers
  <2>1. lost' = (lost \/ (job.screen = 0 /\ ~appDirty)) BY <1>6 DEF Transfers
  <2>2. ~lost' => ~lost /\ (job.screen # 0 \/ appDirty) BY <2>1, Zenon
  <2>3. PauseSeen' /\ JobsTyped' BY <1>6 DEF Transfers
  <2>4. ScreensTyped' /\ SceneOnItsWay' BY <1>6, <2>2 DEF Transfers
  <2> QED BY <2>3, <2>4
<1>7. CASE TransferFails BY <1>7 DEF TransferFails
<1>8. CASE Uploaded BY <1>8 DEF Uploaded
<1>9. CASE UploadAborted BY <1>9 DEF UploadAborted
<1>10. CASE UploadFailed
  <2>1. lost' = (lost \/ ~appDirty) BY <1>10 DEF UploadFailed
  <2>2. ~lost' => ~lost /\ appDirty BY <2>1, Zenon
  <2>3. PauseSeen' /\ JobsTyped'
    <3>1. CASE errors + 1 >= MaxReinit BY <1>10, <3>1 DEF UploadFailed
    <3>2. CASE ~(errors + 1 >= MaxReinit) BY <1>10, <3>2 DEF UploadFailed
    <3> QED BY <3>1, <3>2
  <2>4. ScreensTyped' /\ SceneOnItsWay' BY <1>10, <2>2 DEF UploadFailed
  <2> QED BY <2>3, <2>4
<1>11. CASE Recovered BY <1>11 DEF Recovered
<1>12. CASE InitEnds BY <1>12 DEF InitEnds
<1> QED
    BY <1>1, <1>2, <1>3, <1>4, <1>5, <1>6, <1>7, <1>8, <1>9, <1>10, <1>11, <1>12 DEF OledTask

LEMMA OledOthersPreserve == ASSUME OledInv, OledOthers PROVE OledInv'
<1> USE DEF OledInv, PauseSeen, ScreensTyped, SceneOnItsWay, JobsTyped, Uploading, oledTaskVars,
        sceneVars
<1>1. CASE Start BY <1>1 DEF Start
<1>2. CASE StartStores BY <1>2 DEF StartStores
<1>3. CASE Stop BY <1>3 DEF Stop
<1>4. CASE StopReturns BY <1>4 DEF StopReturns
<1>5. CASE Pause BY <1>5 DEF Pause
<1>6. CASE Resume BY <1>6 DEF Resume
<1>7. CASE SetScene BY <1>7 DEF SetScene
<1>8. CASE SceneChanges BY <1>8 DEF SceneChanges
<1>9. CASE PresentScene BY <1>9 DEF PresentScene
<1>10. ASSUME NEW m \in {"virtual", "split", "mirror"}, RouteMode(m) PROVE OledInv'
       BY <1>10 DEF RouteMode
<1> QED
    BY <1>1, <1>2, <1>3, <1>4, <1>5, <1>6, <1>7, <1>8, <1>9, <1>10 DEF OledOthers

LEMMA OledPreserved == OledInv /\ [OledNext]_oledVars => OledInv'
<1> SUFFICES ASSUME OledInv, [OledNext]_oledVars PROVE OledInv'
    OBVIOUS
<1>1. CASE UNCHANGED oledVars
      BY <1>1 DEF OledInv, PauseSeen, ScreensTyped, SceneOnItsWay, JobsTyped, Uploading, oledVars,
                  oledTaskVars, sceneVars
<1> QED BY <1>1, OledTaskPreserves, OledOthersPreserve DEF OledNext

\* After pauseForWifiScan at most the transfer already on the bus is made
\* (the abort predicates of OledDisplay::taskLoop).
THEOREM PauseStopsTransfers == OledSpec => []OneTransferAfterPause
<1>1. OledInv => OneTransferAfterPause
    BY DEF OledInv, PauseSeen, OneTransferAfterPause
<1> QED BY <1>1, OledInitial, OledPreserved, PTL DEF OledSpec

\* The panel that owes nothing shows the newest scene, or that scene was lost in one of
\* the ways the code has (OledDisplay::taskLoop, handleUploadResult).
THEOREM OwedSceneIsShown == OledSpec => []SceneSurvivesScan
<1>1. OledInv => SceneSurvivesScan
    BY DEF OledInv, SceneOnItsWay, Uploading, SceneSurvivesScan
<1> QED BY <1>1, OledInitial, OledPreserved, PTL DEF OledSpec

===============================================================================

------------------------------ MODULE TcpTransport -----------------------------
(* esp32/components/espview/src/tcp_transport.cpp: one transport from open() to    *)
(* close(), with its link task and its RX task.  A step is what runs under one     *)
(* lock or between two of them.  The transport may own the Wi-Fi station, or adopt *)
(* the one that Wi-Fi provisioning brought up.                                     *)
EXTENDS WifiStation

CONSTANTS MaxPeerDrops,   \* bound: connections the peer ends
          MaxTcpFaults    \* bound: tasks and buffers that cannot be made

ASSUME TcpBounds == {MaxPeerDrops, MaxTcpFaults} \subseteq Nat

VARIABLES
  adopt,             \* cfg_.adopt_existing_wifi
  tcpRunning, leaked,
  closer,            \* open() and close(): new, open, join, rejoin, deinit, closed, failed
  link, linkTask,    \* where the link task is, and linkTask_ (set or not)
  rx, rxTask,        \* the same of the RX task
  taskExit,          \* the counting semaphore
  connected, sock,   \* connected_, sock_ (open or not)
  tcpState,          \* state_
  peer,              \* the other end of the socket is there
  peerDrops, tcpFaults,
  rxFirst,           \* history: the RX task was gone before the link task
  starved            \* history: the RX task found no memory for its buffer

tcpLinkVars == <<link, linkTask>>
rxVars == <<rx, rxTask>>
sockVars == <<connected, sock, peer>>
tcpBoundVars == <<adopt, peerDrops, tcpFaults>>
tcpVars == <<tcpBoundVars, tcpRunning, leaked, closer, tcpLinkVars, rxVars, taskExit, sockVars,
             tcpState, rxFirst, starved, staVars>>

TcpInit ==
  /\ adopt \in BOOLEAN /\ tcpRunning = FALSE /\ leaked = FALSE /\ closer = "new"
  /\ link = "none" /\ linkTask = FALSE /\ rx = "none" /\ rxTask = FALSE /\ taskExit = 0
  /\ connected = FALSE /\ sock = FALSE /\ tcpState = "disconnected" /\ peer = FALSE
  /\ peerDrops = 0 /\ tcpFaults = 0 /\ rxFirst = FALSE /\ starved = FALSE
  /\ StationInit

PeerThere == peer /\ (adopt \/ sta = "ip")
Fault == tcpFaults < MaxTcpFaults /\ tcpFaults' = tcpFaults + 1
\* The RX task may be waiting on the socket that is closed.
CloseSocket == /\ sock' = FALSE /\ connected' = FALSE /\ UNCHANGED rxTask
               /\ rx' = IF rx = "select" THEN "stale" ELSE rx

\* open().
OpenTcp ==
  /\ closer = "new" /\ closer' = "open" /\ tcpRunning' = TRUE /\ tcpState' = "connecting"
  /\ link' = "top" /\ linkTask' = TRUE
  /\ IF adopt THEN UNCHANGED staVars ELSE InitStation
  /\ UNCHANGED <<tcpBoundVars, leaked, rxVars, taskExit, sockVars, rxFirst, starved>>

\* The station or the link task cannot be made: all is rolled back.
OpenTcpFails ==
  /\ closer = "new" /\ closer' = "failed" /\ Fault /\ tcpState' = "error"
  /\ UNCHANGED <<adopt, peerDrops, tcpRunning, leaked, tcpLinkVars, rxVars, taskExit, sockVars,
                 rxFirst, starved, staVars>>

\* close(): it waits for one exit, of either task, within a time that covers that of the
\* link task; then for one more if the RX task has not gone.
CloseTcp ==
  /\ closer = "open" /\ tcpRunning /\ tcpRunning' = FALSE
  /\ closer' = IF linkTask THEN "join" ELSE "rejoin"
  /\ UNCHANGED <<tcpBoundVars, leaked, tcpLinkVars, rxVars, taskExit, sockVars, tcpState,
                 rxFirst, starved, staVars>>

\* Mutant of JoinLink: close() does not wait for the link task.
JoinLinkSkipped ==
  /\ closer = "join" /\ closer' = "rejoin"
  /\ UNCHANGED <<tcpBoundVars, tcpRunning, leaked, tcpLinkVars, rxVars, taskExit, sockVars,
                 tcpState, rxFirst, starved, staVars>>
JoinLink ==
  /\ closer = "join" /\ taskExit > 0
  /\ taskExit' = taskExit - 1 /\ closer' = "rejoin"
  /\ UNCHANGED <<tcpBoundVars, tcpRunning, leaked, tcpLinkVars, rxVars, sockVars, tcpState,
                 rxFirst, starved, staVars>>

JoinRx ==
  /\ closer = "rejoin" /\ (rxTask => taskExit > 0)
  /\ taskExit' = IF rxTask THEN taskExit - 1 ELSE taskExit
  /\ closer' = "deinit"
  /\ UNCHANGED <<tcpBoundVars, tcpRunning, leaked, tcpLinkVars, rxVars, sockVars, tcpState,
                 rxFirst, starved, staVars>>

\* A task that is still there: everything it uses is kept.
JoinTimesOut ==
  /\ \/ closer = "join" /\ taskExit = 0
     \/ closer = "rejoin" /\ rxTask /\ taskExit = 0
  /\ closer' = "closed" /\ leaked' = TRUE /\ tcpState' = "error"
  /\ UNCHANGED <<tcpBoundVars, tcpRunning, tcpLinkVars, rxVars, taskExit, sockVars, rxFirst,
                 starved, staVars>>

DeinitWifi ==
  /\ closer = "deinit" /\ closer' = "closed" /\ tcpState' = "disconnected"
  /\ linkTask' = FALSE /\ rxTask' = FALSE
  /\ IF adopt THEN UNCHANGED staVars ELSE DeinitStation
  /\ UNCHANGED <<tcpBoundVars, tcpRunning, leaked, link, rx, taskExit, sockVars, rxFirst,
                 starved>>

-----------------------------------------------------------------------------
\* linkLoop().  A task that close() did not wait for goes on here, although what it
\* uses may be destroyed by then.
LinkAt(at, next) == /\ link = at /\ link' \in next
                    /\ UNCHANGED <<tcpBoundVars, leaked, closer, rxFirst, starved, taskExit>>
Quiet == UNCHANGED <<tcpState, staVars>>

LinkTurns ==
  /\ LinkAt("top", {IF tcpRunning THEN "tell" ELSE "exit"})
  /\ Quiet /\ UNCHANGED <<tcpRunning, linkTask, rxVars, sockVars>>
LinkConnecting ==
  /\ LinkAt("tell", {IF adopt THEN "connect" ELSE "wifi"}) /\ tcpState' = "connecting"
  /\ UNCHANGED <<tcpRunning, linkTask, rxVars, sockVars, staVars>>

\* An address is there, or the station connects; without a station the task ends.
LinkHasIp ==
  /\ gotIp /\ LinkAt("wifi", {"connect"})
  /\ Quiet /\ UNCHANGED <<tcpRunning, linkTask, rxVars, sockVars>>
LinkStartsWifi ==
  /\ ~gotIp /\ LinkAt("wifi", {IF staReady THEN "wait" ELSE "exit"})
  /\ IF staReady THEN StartConnect ELSE UNCHANGED staVars
  /\ UNCHANGED <<tcpRunning, linkTask, rxVars, sockVars, tcpState>>
WaitForIp ==
  /\ LinkAt("wait", {IF tcpRunning THEN (IF ipBit THEN "connect" ELSE "backoff") ELSE "exit"})
  /\ \/ UNCHANGED staVars
     \/ ~ipBit /\ ~failBit /\ sta = "associated" /\ NoDhcpAnswer
  /\ UNCHANGED <<tcpRunning, linkTask, rxVars, sockVars, tcpState>>

\* connectOnce() and the look at running_ after it, which closes the socket.
ConnectOnce ==
  /\ LinkAt("connect", {IF tcpRunning THEN "publish" ELSE "exit"})
  /\ adopt \/ sta = "ip"
  /\ peer' = tcpRunning
  /\ Quiet /\ UNCHANGED <<tcpRunning, linkTask, rxVars, connected, sock>>
ConnectFails ==
  /\ LinkAt("connect", {"backoff"})
  /\ Quiet /\ UNCHANGED <<tcpRunning, linkTask, rxVars, sockVars>>
PublishSocket ==
  /\ LinkAt("publish", {"startRx"}) /\ sock' = TRUE /\ connected' = TRUE
  /\ Quiet /\ UNCHANGED <<tcpRunning, linkTask, rxVars, peer>>

\* An RX task that has unlinked itself gives before the next one is made.
StartRx ==
  /\ rx # "give" /\ LinkAt("startRx", {"recheck"})
  /\ rx' = IF rxTask THEN rx ELSE "start"
  /\ rxTask' = TRUE
  /\ Quiet /\ UNCHANGED <<tcpRunning, linkTask, sockVars>>
\* Mutant of StartRxFails: a connection nobody reads is kept.
StartRxFailsKeepsLink ==
  /\ link = "startRx" /\ ~rxTask /\ Fault /\ link' = "recheck"
  /\ UNCHANGED <<adopt, peerDrops, tcpRunning, leaked, closer, linkTask, rxVars, taskExit,
                 sockVars, tcpState, rxFirst, starved, staVars>>
StartRxFails ==
  /\ link = "startRx" /\ ~rxTask /\ Fault /\ link' = "recheck" /\ connected' = FALSE
  /\ UNCHANGED <<adopt, peerDrops, tcpRunning, leaked, closer, linkTask, rxVars, taskExit,
                 sock, peer, tcpState, rxFirst, starved, staVars>>

Recheck ==
  /\ LinkAt("recheck", {IF tcpRunning THEN "announce" ELSE "exit"})
  /\ IF tcpRunning THEN UNCHANGED <<sock, connected, rxVars>> ELSE CloseSocket
  /\ Quiet /\ UNCHANGED <<tcpRunning, linkTask, peer>>
Announce ==
  /\ LinkAt("announce", {"watch"}) /\ tcpState' = "connected"
  /\ UNCHANGED <<tcpRunning, linkTask, rxVars, sockVars, staVars>>

\* Woken or not, the link task looks again every 500 ms.
Watch ==
  /\ ~(tcpRunning /\ connected) /\ LinkAt("watch", {"drop"})
  /\ Quiet /\ UNCHANGED <<tcpRunning, linkTask, rxVars, sockVars>>
Drop ==
  /\ LinkAt("drop", {"decide"}) /\ CloseSocket
  /\ Quiet /\ UNCHANGED <<tcpRunning, linkTask, peer>>
Decide ==
  /\ LinkAt("decide", {IF tcpRunning THEN "lost" ELSE "exit"})
  /\ Quiet /\ UNCHANGED <<tcpRunning, linkTask, rxVars, sockVars>>
TellLost ==
  /\ LinkAt("lost", {"backoff"}) /\ tcpState' = "disconnected"
  /\ UNCHANGED <<tcpRunning, linkTask, rxVars, sockVars, staVars>>
Backoff ==
  /\ LinkAt("backoff", {"top"})
  /\ Quiet /\ UNCHANGED <<tcpRunning, linkTask, rxVars, sockVars>>

LinkExits ==
  /\ LinkAt("exit", {"unlink"}) /\ CloseSocket
  /\ Quiet /\ UNCHANGED <<tcpRunning, linkTask, peer>>
LinkUnlinks ==
  /\ LinkAt("unlink", {"give"}) /\ tcpRunning' = FALSE /\ linkTask' = FALSE
  /\ Quiet /\ UNCHANGED <<rxVars, sockVars>>
LinkGives ==
  /\ link = "give" /\ link' = "none" /\ taskExit' = taskExit + 1
  /\ UNCHANGED <<tcpBoundVars, tcpRunning, leaked, closer, linkTask, rxVars, sockVars,
                 tcpState, rxFirst, starved, staVars>>

-----------------------------------------------------------------------------
\* rxLoop().
RxAt(at, next) ==
  /\ rx = at /\ rx' = next
  /\ UNCHANGED <<tcpBoundVars, tcpRunning, leaked, closer, tcpLinkVars, sock, peer, tcpState,
                 rxFirst, staVars>>
RxStarts ==
  /\ RxAt("start", "top") /\ UNCHANGED <<rxTask, taskExit, connected, starved>>
RxStarves ==
  /\ rx = "start" /\ Fault /\ rx' = "unlink" /\ starved' = TRUE
  /\ UNCHANGED <<adopt, peerDrops, tcpRunning, leaked, closer, tcpLinkVars, rxTask, taskExit,
                 sockVars, tcpState, rxFirst, staVars>>
RxTurns ==
  /\ RxAt("top", IF ~tcpRunning THEN "unlink" ELSE IF connected /\ sock THEN "select" ELSE "top")
  /\ UNCHANGED <<rxTask, taskExit, connected, starved>>
RxReads ==
  /\ PeerThere /\ RxAt("select", "top")
  /\ UNCHANGED <<rxTask, taskExit, connected, starved>>
RxLoses ==
  /\ ~PeerThere /\ RxAt("select", "top") /\ connected' = FALSE
  /\ UNCHANGED <<rxTask, taskExit, starved>>
\* The error of a socket that was closed in the meantime is taken for that of the current
\* one, unless it is seen after select().
RxFindsClosed ==
  /\ RxAt("stale", "top") /\ connected' \in {connected, FALSE}
  /\ UNCHANGED <<rxTask, taskExit, starved>>
RxUnlinks ==
  /\ RxAt("unlink", "give") /\ rxTask' = FALSE /\ UNCHANGED <<taskExit, connected, starved>>
RxGives ==
  /\ rx = "give" /\ rx' = "none" /\ taskExit' = taskExit + 1
  /\ rxFirst' = (rxFirst \/ link # "none")
  /\ UNCHANGED <<tcpBoundVars, tcpRunning, leaked, closer, tcpLinkVars, rxTask, sockVars,
                 tcpState, starved, staVars>>

\* send() finds the peer gone; the peer goes.
SendFails ==
  /\ tcpRunning /\ connected /\ sock /\ ~PeerThere /\ connected' = FALSE
  /\ UNCHANGED <<tcpBoundVars, tcpRunning, leaked, closer, tcpLinkVars, rxVars, taskExit, sock,
                 peer, tcpState, rxFirst, starved, staVars>>
PeerLeaves ==
  /\ peer /\ peer' = FALSE /\ peerDrops < MaxPeerDrops /\ peerDrops' = peerDrops + 1
  /\ UNCHANGED <<adopt, tcpFaults, tcpRunning, leaked, closer, tcpLinkVars, rxVars, taskExit,
                 connected, sock, tcpState, rxFirst, starved, staVars>>

LinkLoop ==
  \/ LinkTurns \/ LinkConnecting \/ LinkHasIp \/ LinkStartsWifi \/ WaitForIp \/ ConnectOnce
  \/ ConnectFails \/ PublishSocket \/ StartRx \/ StartRxFails \/ Recheck \/ Announce \/ Watch
  \/ Drop \/ Decide \/ TellLost \/ Backoff \/ LinkExits \/ LinkUnlinks \/ LinkGives
RxLoop == \/ RxStarts \/ RxStarves \/ RxTurns \/ RxReads \/ RxLoses \/ RxFindsClosed \/ RxUnlinks \/ RxGives
tcpOnly == <<tcpBoundVars, tcpRunning, leaked, closer, tcpLinkVars, rxVars, taskExit, sockVars,
             tcpState, rxFirst, starved>>
StationTask == staReady /\ StationEvents /\ UNCHANGED tcpOnly
StationMoves == staReady /\ StationDriver /\ UNCHANGED tcpOnly

TcpNext ==
  \/ OpenTcp \/ OpenTcpFails \/ CloseTcp \/ JoinLink \/ JoinRx \/ JoinTimesOut \/ DeinitWifi
  \/ LinkLoop \/ RxLoop \/ SendFails \/ PeerLeaves \/ StationTask \/ StationMoves

TcpSpec == TcpInit /\ [][TcpNext]_tcpVars

-----------------------------------------------------------------------------
\* When close() has returned without a leak the link task has ended and the RX task has
\* nothing left but its last signal, if the RX task did not end first: close() takes the
\* first exit for that of the link task.
ClosedTasksGone ==
  closer = "closed" /\ ~leaked /\ ~rxFirst => link = "none" /\ rx \in {"none", "give"}

\* The comments at the join (tcp_transport.cpp:160-162, 186-189) without the exception:
\* close() destroys nothing a task may still use.
CloseJoinsTasks == closer = "closed" /\ ~leaked => link = "none" /\ rx = "none"

\* A connection that was told to the upper layer is read by somebody, or given up; unless
\* the RX task found no memory for its buffer.
AliveIsRead == tcpRunning /\ link = "watch" /\ connected /\ ~starved => rxTask

\* A station that lost its access point is connected anew, by its own few tries or by the
\* link task, which must have noticed the loss; unless nobody reads the socket.
StationIsRetried ==
  (tcpRunning /\ ~adopt /\ sta = "down") ~> (sta # "down" \/ ~tcpRunning \/ starved)

================================================================================

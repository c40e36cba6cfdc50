------------------------------ MODULE WifiStation ------------------------------
(* esp32/components/espview/src/wifi_sta.cpp: the Wi-Fi station as TcpTransport    *)
(* owns it, with the events of the driver, which arrive later than what they tell. *)
(* Nothing calls stopReconnect().  How long a failure puts the next try off is     *)
(* left out.                                                                       *)
EXTENDS Naturals, Sequences

CONSTANTS MaxAutoReconnect,  \* kMaxAutoReconnectAttempts
          MaxStaDrops,       \* bound: failed or lost associations
          MaxStaEvents       \* bound: events that wait while the station goes on

ASSUME StationBounds == {MaxAutoReconnect, MaxStaDrops, MaxStaEvents} \subseteq Nat

VARIABLES
  staReady,          \* initDone_, with its netif, its event group and its handlers
  gotIp, ipBit, failBit,   \* gotIp_, and the bits of eventGroup_
  staAttempts,       \* reconnectAttempts_
  sta,               \* the driver: down, linking, associated, ip
  staEvents, staDrops

staFlags == <<gotIp, ipBit, failBit, staAttempts>>
staVars == <<staReady, staFlags, sta, staEvents, staDrops>>

StationInit ==
  /\ staReady = FALSE /\ gotIp = FALSE /\ ipBit = FALSE /\ failBit = FALSE
  /\ staAttempts = 0 /\ sta = "down" /\ staEvents = <<>> /\ staDrops = 0

\* init(), and deinit() of whatever part of it there is.
InitStation ==
  /\ staReady' = TRUE /\ staAttempts' = 0 /\ ipBit' = FALSE /\ failBit' = FALSE
  /\ UNCHANGED <<gotIp, sta, staEvents, staDrops>>
DeinitStation ==
  /\ staReady' = FALSE /\ gotIp' = FALSE /\ ipBit' = FALSE /\ failBit' = FALSE
  /\ sta' = "down" /\ staEvents' = <<>> /\ UNCHANGED <<staAttempts, staDrops>>

\* esp_wifi_connect() has no effect on a station that is up.
Linked == IF sta = "down" THEN "linking" ELSE sta
StartConnect ==
  /\ ipBit' = FALSE /\ failBit' = FALSE /\ staAttempts' = 0 /\ sta' = Linked
  /\ UNCHANGED <<staReady, gotIp, staEvents, staDrops>>

\* waitForIp() gives up an association that gets no address in time.
NoDhcpAnswer ==
  /\ failBit' = TRUE
  /\ UNCHANGED <<staReady, gotIp, ipBit, staAttempts, sta, staEvents, staDrops>>

\* The driver, and what it tells.
ReportEvent(e) == Len(staEvents) < MaxStaEvents /\ staEvents' = Append(staEvents, e)
DriverAssociates ==
  /\ sta = "linking" /\ sta' = "associated" /\ ReportEvent("connected")
  /\ UNCHANGED <<staReady, staFlags, staDrops>>
DriverGetsIp ==
  /\ sta = "associated" /\ sta' = "ip" /\ ReportEvent("ip")
  /\ UNCHANGED <<staReady, staFlags, staDrops>>
DriverDrops ==
  /\ sta # "down" /\ sta' = "down" /\ staDrops < MaxStaDrops /\ staDrops' = staDrops + 1
  /\ \E reason \in {"transient", "terminal"} : ReportEvent(reason)
  /\ UNCHANGED <<staReady, staFlags>>

\* handleEvent().
NextEvent(e) == /\ staEvents # <<>> /\ Head(staEvents) = e /\ staEvents' = Tail(staEvents)
                /\ UNCHANGED <<staReady, staDrops>>
OnStaConnected ==
  /\ NextEvent("connected") /\ gotIp' = FALSE /\ failBit' = FALSE /\ staAttempts' = 0
  /\ UNCHANGED <<ipBit, sta>>
OnStaIp ==
  /\ NextEvent("ip") /\ gotIp' = TRUE /\ ipBit' = TRUE /\ failBit' = FALSE
  /\ UNCHANGED <<staAttempts, sta>>

\* Mutant of OnStaLost: the address is kept across an association that broke down.
OnStaLostKeepsIp(reason) ==
  /\ NextEvent(reason) /\ ipBit' = FALSE /\ failBit' = TRUE
  /\ UNCHANGED <<gotIp, staAttempts, sta>>
\* A few automatic tries, then it is up to the link task; at once for a terminal reason.
OnStaLost(reason) ==
  /\ NextEvent(reason) /\ gotIp' = FALSE /\ ipBit' = FALSE
  /\ IF reason = "terminal" \/ staAttempts >= MaxAutoReconnect
     THEN failBit' = TRUE /\ UNCHANGED <<staAttempts, sta>>
     ELSE staAttempts' = staAttempts + 1 /\ sta' = Linked /\ UNCHANGED failBit

StationEvents == \/ OnStaConnected \/ OnStaIp
                 \/ \E reason \in {"transient", "terminal"} : OnStaLost(reason)
StationDriver == DriverAssociates \/ DriverGetsIp \/ DriverDrops

================================================================================

------------------------------- MODULE MCDevice -------------------------------
(***************************************************************************)
(* Wi-Fi provisioning and the OLED display for TLC.  They meet only where  *)
(* a scan pauses the display; each is checked with every pause the other   *)
(* may make, so that a behaviour is one of either part.                    *)
(***************************************************************************)
EXTENDS WifiProvisioning, PhysicalDisplay

VARIABLE part

\* Two failures bring a recovery; three changes leave a mode and come back to it.
MCOledBudgets == {<<2, 1>>, <<0, 3>>}

allVars == <<part, vars, oledVars>>

PartsInit ==
    /\ part \in {"wifi", "oled"} /\ Init /\ OledInit
    /\ part = "wifi" => oledBudget.fault = 0

OfWifi(A) == part = "wifi" /\ A /\ UNCHANGED <<part, oledVars>>
OfOled(A) == part = "oled" /\ A /\ UNCHANGED <<part, vars>>

PartsNext == OfWifi(Next) \/ OfOled(OledNext)

\* Of Wi-Fi provisioning, Fairness there.  The task of the display runs, a scan ends, and
\* start() goes on.
PartsFairness ==
    /\ WF_allVars(OfWifi(SessionTask)) /\ WF_allVars(OfWifi(EventTask))
    /\ SF_allVars(OfWifi(DhcpExpires)) /\ SF_allVars(OfWifi(WatchdogFires))
    /\ WF_allVars(OfOled(OledTask)) /\ WF_allVars(OfOled(Resume))
    /\ WF_allVars(OfOled(StartStores))

PartsSpec == PartsInit /\ [][PartsNext]_allVars /\ PartsFairness
===============================================================================

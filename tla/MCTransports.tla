----------------------------- MODULE MCTransports -----------------------------
(***************************************************************************)
(* The transport manager, the four transports it may hold and the Wi-Fi    *)
(* wizard, which has a device changed over from one to another, for TLC.   *)
(* They share no state: a behaviour is one of the manager, which takes the *)
(* transports' contract for granted, of one of the transports, which have  *)
(* to keep it, or of the wizard, to which they only are up or down.        *)
(***************************************************************************)
EXTENDS TransportManager, TcpTransport, UartTransport, HostTcpTransport, HostUartTransport,
        Wizard

VARIABLE part

Budget(asks, errors, clients, dialogs) ==
    [asks |-> asks, errors |-> errors, clients |-> clients, dialogs |-> dialogs]
MCWizardBudgets == {Budget(2, 1, 1, 1), Budget(1, 1, 1, 2)}

allVars == <<part, vars, tcpVars, uVars, hVars, pVars, wizardVars>>

PartsInit ==
    /\ part \in {"manager", "tcp", "uart", "hostTcp", "hostUart", "wizard"}
    /\ Init /\ TcpInit /\ UartInit /\ HostTcpInit /\ PortInit /\ WizardInit
    /\ part # "tcp" => adopt

OfManager(A) ==
    part = "manager" /\ A /\ UNCHANGED <<part, tcpVars, uVars, hVars, pVars, wizardVars>>
OfTcp(A) == part = "tcp" /\ A /\ UNCHANGED <<part, vars, uVars, hVars, pVars, wizardVars>>
OfUart(A) == part = "uart" /\ A /\ UNCHANGED <<part, vars, tcpVars, hVars, pVars, wizardVars>>
OfHostTcp(A) ==
    part = "hostTcp" /\ A /\ UNCHANGED <<part, vars, tcpVars, uVars, pVars, wizardVars>>
OfHostUart(A) ==
    part = "hostUart" /\ A /\ UNCHANGED <<part, vars, tcpVars, uVars, hVars, wizardVars>>
OfWizard(A) == part = "wizard" /\ A /\ UNCHANGED <<part, vars, tcpVars, uVars, hVars, pVars>>

PartsNext ==
    \/ OfManager(Next) \/ OfTcp(TcpNext) \/ OfUart(UartNext)
    \/ OfHostTcp(HostTcpNext) \/ OfHostUart(PortNext) \/ OfWizard(WizardNext)

\* The tasks of the TCP transport and the event task of the station run.
PartsFairness ==
    /\ WF_allVars(OfTcp(LinkLoop)) /\ WF_allVars(OfTcp(RxLoop))
    /\ WF_allVars(OfTcp(StationTask))

PartsSpec == PartsInit /\ [][PartsNext]_allVars /\ PartsFairness

\* What a transport calls connected is read by a task of its own, on the device as on the
\* host, also when that task fails as soon as it starts.
ConnectedIsRead == AliveIsRead /\ PortConnectedIsRead
===============================================================================

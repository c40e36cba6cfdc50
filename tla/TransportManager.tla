-------------------------- MODULE TransportManager --------------------------
(***************************************************************************)
(* shared/transport/transport_manager: one current transport behind a send *)
(* gate, replaced at run time while its threads report states and other    *)
(* threads send.                                                           *)
(*                                                                         *)
(* The lifecycle operations belong to one management task.  Each is broken *)
(* into the parts that run under one lock, between which the threads of    *)
(* the transports interleave.  A transport is numbered by the generation   *)
(* attachCallbacks gives it.  It is assumed to keep the contract of        *)
(* transport.h: close() returns once its threads are out of the callbacks. *)
(***************************************************************************)
EXTENDS Naturals, Sequences

CONSTANTS
    Types,          \* transport types
    SyncTypes,      \* those whose open() reports Connected before it returns
    InitialType,
    Senders,        \* threads that send through the gate
    MaxTransports,  \* bound on the transports created
    MaxBuffered     \* bound on the states a thread finds buffered

ASSUME TransportAssumption ==
    /\ SyncTypes \subseteq Types
    /\ InitialType \in Types
    /\ MaxTransports \in Nat /\ MaxBuffered \in Nat
    /\ {"free", "manager"} \cap Senders = {}

None == 0
Transports == 1..MaxTransports
States == {"Disconnected", "Connecting", "Connected", "Error"}

VARIABLES
    pc,             \* where the management task is
    op,             \* the operation it runs
    wanted,         \* the type that operation installs
    old,            \* the transport it replaces
    fresh,          \* the transport offered to adopt()
    flushing,       \* buffered states it is handing to the upper layer
    current,        \* current_
    isOpen,         \* open_
    currentType,
    generation,     \* of the callbacks attached last
    switching,      \* states are buffered, not forwarded
    pendingStates,  \* the buffer
    gate,           \* holder of txMutex_: "free", "manager" or a sender
    linkState,      \* state_ of each transport
    alive,          \* transports between open() and close()
    attached,       \* transports whose callbacks lead here
    inflight,       \* the state callback each transport's thread is running
    listening,      \* the upper layer's callbacks are set
    heard,          \* the last state the upper layer was told
    owesEnd         \* a session was ended of which the upper layer was not told

taskVars == <<pc, op, wanted, old, fresh, flushing>>
managerVars == <<current, isOpen, currentType, generation, switching, pendingStates, gate>>
backendVars == <<linkState, alive, attached, inflight>>
upperVars == <<listening, heard, owesEnd>>
vars == <<taskVars, managerVars, backendVars, upperVars>>

NoCallback == [step |-> "none", state |-> "Disconnected"]

Init ==
    /\ pc = "idle" /\ op = "none" /\ wanted = InitialType
    /\ old = None /\ fresh = None /\ flushing = <<>>
    /\ current = None /\ isOpen = FALSE /\ currentType = InitialType
    /\ generation = 0 /\ switching = FALSE /\ pendingStates = <<>> /\ gate = "free"
    /\ linkState = [t \in Transports |-> "Disconnected"]
    /\ alive = {} /\ attached = {}
    /\ inflight = [t \in Transports |-> NoCallback]
    /\ listening = TRUE /\ heard = "Disconnected" /\ owesEnd = FALSE

-----------------------------------------------------------------------------
(* What a report does.  A pending entry keeps the transport it came from,  *)
(* which the code does not, to state the properties.                       *)

Entry(t, s) == [from |-> t, state |-> s]

\* stateCb_ is called.
Tell(s) ==
    /\ heard' = s
    /\ owesEnd' = (owesEnd /\ s # "Disconnected")
    /\ UNCHANGED listening

-----------------------------------------------------------------------------
(* The management task.                                                    *)

\* Mutant of Detach: the transport is taken away while a sender holds the gate.
DetachAnyTime(o, type, held) ==
    /\ pc = "idle"
    /\ op' = o
    /\ wanted' = type
    /\ old' = current
    /\ current' = None
    /\ isOpen' = FALSE
    /\ switching' = TRUE
    /\ pc' = IF current = None THEN "clear" ELSE "join"
    /\ gate' = IF held THEN "manager" ELSE gate
    /\ owesEnd' = (current # None)
    /\ UNCHANGED <<fresh, flushing, currentType, generation, pendingStates, backendVars,
                   listening, heard>>

\* open(), switchTo() and reopen() take the current transport out of use.  The
\* gate is needed for it; open() keeps it, the others give it back.
Detach(o, type, held) ==
    /\ pc = "idle" /\ gate = "free"
    /\ op' = o
    /\ wanted' = type
    /\ old' = current
    /\ current' = None
    /\ isOpen' = FALSE
    /\ switching' = TRUE
    /\ pc' = IF current = None THEN "clear" ELSE "join"
    /\ gate' = IF held THEN "manager" ELSE "free"
    /\ owesEnd' = (current # None)
    /\ UNCHANGED <<fresh, flushing, currentType, generation, pendingStates, backendVars,
                   listening, heard>>

OpenBegin == ~isOpen /\ Detach("open", InitialType, TRUE)

\* Mutant of SwitchBegin: the gate is held throughout (as before TM-02).
SwitchHoldsGate(type) ==
    /\ ~(isOpen /\ currentType = type)
    /\ Detach("switch", type, TRUE)

SwitchBegin(type) ==
    /\ ~(isOpen /\ currentType = type)
    /\ Detach("switch", type, FALSE)

ReopenBegin == Detach("reopen", currentType, FALSE)

\* close() does not open the window: reports go straight to the upper layer.
CloseBegin ==
    /\ pc = "idle" /\ gate = "free"
    /\ op' = "close"
    /\ old' = current
    /\ current' = None
    /\ isOpen' = FALSE
    /\ pc' = IF current = None THEN "take" ELSE "join"
    /\ UNCHANGED <<wanted, fresh, flushing, currentType, generation, switching, pendingStates,
                   gate, backendVars, upperVars>>

\* shutdown(), from the destructor: the upper layer is let go first.
ShutdownBegin ==
    /\ pc = "idle" /\ gate = "free"
    /\ op' = "shutdown"
    /\ old' = current
    /\ current' = None
    /\ isOpen' = FALSE
    /\ listening' = FALSE
    /\ attached' = attached \ {current}
    /\ pc' = IF current = None THEN "shut" ELSE "join"
    /\ UNCHANGED <<wanted, fresh, flushing, currentType, generation, switching, pendingStates,
                   gate, linkState, alive, inflight, heard, owesEnd>>

\* Mutant of ThreadsGone: close() returns while a callback runs.
ThreadsAnywhere(t) == t \in Transports

ThreadsGone(t) == inflight[t] = NoCallback

\* old->close() waits for the threads of the transport, which may report once
\* more, then detachCallbacks.
Join ==
    /\ pc = "join"
    /\ ThreadsGone(old)
    /\ alive' = alive \ {old}
    /\ attached' = attached \ {old}
    /\ linkState' = [linkState EXCEPT ![old] = "Disconnected"]
    /\ pc' = IF op = "close" THEN "take" ELSE IF op = "shutdown" THEN "shut" ELSE "clear"
    /\ IF old \in attached /\ linkState[old] # "Disconnected"
       THEN IF switching
            THEN /\ pendingStates' = Append(pendingStates, Entry(old, "Disconnected"))
                 /\ UNCHANGED upperVars
            ELSE /\ Tell("Disconnected")
                 /\ UNCHANGED pendingStates
       ELSE UNCHANGED <<pendingStates, upperVars>>
    /\ UNCHANGED <<op, wanted, old, fresh, flushing, current, isOpen, currentType, generation,
                   switching, gate, inflight>>

\* Mutant of KeptPending: what the closed transport reported is kept.
PendingPlusEnd(closedOne) ==
    IF closedOne THEN Append(pendingStates, Entry(old, "Disconnected")) ELSE <<>>

\* Mutant of KeptPending: no end of session is made up.
NothingPending(closedOne) == <<>>

\* clearPending: one end of session if a transport was closed, nothing else.
KeptPending(closedOne) == IF closedOne THEN <<Entry(old, "Disconnected")>> ELSE <<>>

\* The gate is taken again.
Clear ==
    /\ pc = "clear"
    /\ gate \in {"free", "manager"}
    /\ gate' = "manager"
    /\ pendingStates' = IF op = "open" THEN pendingStates ELSE KeptPending(old # None)
    /\ currentType' = wanted
    /\ pc' = "create"
    /\ UNCHANGED <<op, wanted, old, fresh, flushing, current, isOpen, generation, switching,
                   backendVars, upperVars>>

\* The factory has no transport for the type.
CreateFails ==
    /\ pc = "create"
    /\ pc' = "settle"
    /\ UNCHANGED <<op, wanted, old, fresh, flushing, managerVars, backendVars, upperVars>>

New == generation + 1

\* What a transport reports from within open().
Reported(type) ==
    IF type \in SyncTypes THEN <<"Connecting", "Connected">> ELSE <<"Connecting">>

\* The same of an open() that fails, before or after it reported the connection.
ReportedFailing(type) ==
    {<<"Connecting", "Error">>}
        \cup (IF type \in SyncTypes THEN {<<"Connecting", "Connected", "Error">>} ELSE {})

Entries(said) == [i \in DOMAIN said |-> Entry(New, said[i])]

\* The transport's open() fails.
OpenFails ==
    /\ pc = "create"
    /\ New \in Transports
    /\ generation' = New
    /\ \E said \in ReportedFailing(currentType) :
          pendingStates' = pendingStates \o Entries(said)
    /\ linkState' = [linkState EXCEPT ![New] = "Error"]
    /\ pc' = "settle"
    /\ UNCHANGED <<op, wanted, old, fresh, flushing, current, isOpen, currentType, switching,
                   gate, alive, attached, inflight, upperVars>>

Opens ==
    /\ pc = "create"
    /\ New \in Transports
    /\ generation' = New
    /\ LET said == Reported(currentType)
       IN  /\ pendingStates' = pendingStates \o Entries(said)
           /\ linkState' = [linkState EXCEPT ![New] = said[Len(said)]]
    /\ alive' = alive \cup {New}
    /\ attached' = attached \cup {New}
    /\ current' = New
    /\ isOpen' = TRUE
    /\ pc' = "settle"
    /\ UNCHANGED <<op, wanted, old, fresh, flushing, currentType, switching, gate, inflight,
                   upperVars>>

\* adopt(): the caller's transport is connected when it is looked at ...
AdoptBegin(type) ==
    /\ pc = "idle"
    /\ New \in Transports
    /\ op' = "adopt"
    /\ wanted' = type
    /\ old' = None
    /\ fresh' = New
    /\ alive' = alive \cup {New}
    /\ linkState' = [linkState EXCEPT ![New] = "Connected"]
    /\ pc' = "adopt"
    /\ UNCHANGED <<flushing, managerVars, attached, inflight, upperVars>>

\* ... and attached later, under the gate, unless one is open already.
AdoptRefused ==
    /\ pc = "adopt" /\ gate = "free"
    /\ isOpen
    /\ alive' = alive \ {fresh}
    /\ linkState' = [linkState EXCEPT ![fresh] = "Disconnected"]
    /\ fresh' = None
    /\ pc' = "idle"
    /\ UNCHANGED <<op, wanted, old, flushing, managerVars, attached, inflight, upperVars>>

AdoptAttach ==
    /\ pc = "adopt" /\ gate = "free"
    /\ ~isOpen
    /\ gate' = "manager"
    /\ switching' = TRUE
    /\ pendingStates' = KeptPending(FALSE)
    /\ currentType' = wanted
    /\ generation' = fresh
    /\ attached' = attached \cup {fresh}
    /\ current' = fresh
    /\ isOpen' = TRUE
    /\ fresh' = None
    /\ pc' = "settle"
    /\ UNCHANGED <<op, wanted, old, flushing, linkState, alive, inflight, upperVars>>

\* The window closes and the gate is given back ...
Settle ==
    /\ pc = "settle"
    /\ switching' = FALSE
    /\ gate' = "free"
    /\ pc' = "take"
    /\ UNCHANGED <<op, wanted, old, fresh, flushing, current, isOpen, currentType, generation,
                   pendingStates, backendVars, upperVars>>

\* ... before the buffer is taken and its states are handed over one by one.
TakePending ==
    /\ pc = "take"
    /\ switching' = FALSE
    /\ flushing' = pendingStates
    /\ pendingStates' = <<>>
    /\ pc' = "flush"
    /\ UNCHANGED <<op, wanted, old, fresh, current, isOpen, currentType, generation, gate,
                   backendVars, upperVars>>

FlushState ==
    /\ pc = "flush"
    /\ flushing # <<>>
    /\ Tell(Head(flushing).state)
    /\ flushing' = Tail(flushing)
    /\ UNCHANGED <<pc, op, wanted, old, fresh, managerVars, backendVars>>

Return ==
    /\ pc = "flush"
    /\ flushing = <<>>
    /\ pc' = "idle"
    /\ old' = None
    /\ UNCHANGED <<op, wanted, fresh, flushing, managerVars, backendVars, upperVars>>

-----------------------------------------------------------------------------
(* The thread of a transport: setState, then onTransportState.             *)

LinkMoves ==
    {<<"Connecting", "Connected">>, <<"Connected", "Disconnected">>,
     <<"Connected", "Error">>, <<"Disconnected", "Connecting">>}

\* The thread of t is at `step` of its callback.
At(t, step) == inflight[t].step = step
GoesTo(t, step) ==
    inflight' = [inflight EXCEPT ![t] = [step |-> step, state |-> inflight[t].state]]
Leaves(t) == inflight' = [inflight EXCEPT ![t] = NoCallback]

Report(t) ==
    /\ t \in alive
    /\ inflight[t] = NoCallback
    /\ Len(pendingStates) < MaxBuffered
    /\ \E s \in States :
          /\ <<linkState[t], s>> \in LinkMoves
          /\ linkState' = [linkState EXCEPT ![t] = s]
          /\ inflight' = IF t \in attached
                         THEN [inflight EXCEPT ![t] = [step |-> "check", state |-> s]]
                         ELSE inflight
    /\ UNCHANGED <<taskVars, managerVars, alive, attached, upperVars>>

CheckGeneration(t) ==
    /\ At(t, "check")
    /\ IF t = generation THEN GoesTo(t, "window") ELSE Leaves(t)
    /\ UNCHANGED <<taskVars, managerVars, linkState, alive, attached, upperVars>>

CheckWindow(t) ==
    /\ At(t, "window")
    /\ \/ switching /\ GoesTo(t, "push")
       \/ ~switching /\ listening /\ GoesTo(t, "call")
       \/ ~switching /\ ~listening /\ Leaves(t)
    /\ UNCHANGED <<taskVars, managerVars, linkState, alive, attached, upperVars>>

PushPending(t) ==
    /\ At(t, "push")
    /\ pendingStates' = Append(pendingStates, Entry(t, inflight[t].state))
    /\ Leaves(t)
    /\ UNCHANGED <<taskVars, current, isOpen, currentType, generation, switching, gate,
                   linkState, alive, attached, upperVars>>

CallUpper(t) ==
    /\ At(t, "call")
    /\ Tell(inflight[t].state)
    /\ Leaves(t)
    /\ UNCHANGED <<taskVars, managerVars, linkState, alive, attached>>

-----------------------------------------------------------------------------
(* The send gate (lockTransport, tryLockTransport, unlockTransport).       *)

LockTransport(s) ==
    /\ gate = "free"
    /\ isOpen /\ current # None
    /\ gate' = s
    /\ UNCHANGED <<taskVars, current, isOpen, currentType, generation, switching,
                   pendingStates, backendVars, upperVars>>

UnlockTransport(s) ==
    /\ gate = s
    /\ gate' = "free"
    /\ UNCHANGED <<taskVars, current, isOpen, currentType, generation, switching,
                   pendingStates, backendVars, upperVars>>

-----------------------------------------------------------------------------
Next ==
    \/ OpenBegin \/ ReopenBegin \/ CloseBegin \/ ShutdownBegin
    \/ \E type \in Types : SwitchBegin(type) \/ AdoptBegin(type)
    \/ AdoptRefused \/ AdoptAttach
    \/ Join \/ Clear \/ CreateFails \/ OpenFails \/ Opens \/ Settle
    \/ TakePending \/ FlushState \/ Return
    \/ \E t \in Transports :
          Report(t) \/ CheckGeneration(t) \/ CheckWindow(t) \/ PushPending(t) \/ CallUpper(t)
    \/ \E s \in Senders : LockTransport(s) \/ UnlockTransport(s)

Spec == Init /\ [][Next]_vars

-----------------------------------------------------------------------------
(* Type invariant.                                                         *)

EntryType == [from : Transports, state : States]

TypeOK ==
    /\ pc \in {"idle", "join", "clear", "create", "adopt", "settle", "take", "flush", "shut"}
    /\ op \in {"none", "open", "switch", "reopen", "close", "adopt", "shutdown"}
    /\ wanted \in Types /\ currentType \in Types
    /\ old \in 0..MaxTransports /\ fresh \in 0..MaxTransports /\ current \in 0..MaxTransports
    /\ flushing \in Seq(EntryType) /\ pendingStates \in Seq(EntryType)
    /\ generation \in 0..MaxTransports
    /\ isOpen \in BOOLEAN /\ switching \in BOOLEAN
    /\ listening \in BOOLEAN /\ owesEnd \in BOOLEAN
    /\ gate \in {"free", "manager"} \cup Senders
    /\ linkState \in [Transports -> States]
    /\ alive \subseteq Transports /\ attached \subseteq Transports
    /\ inflight \in [Transports -> [step : {"none", "check", "window", "push", "call"},
                                    state : States]]
    /\ heard \in States

-----------------------------------------------------------------------------
(* Properties.                                                             *)

\* A thread that holds the send gate sends through a transport that stays open
\* for as long as it holds it: a switch closes the old one only after it got
\* the gate (lockTransport against switchTo, reopen, close and shutdown).
GateHolderIsSafe == gate \in Senders => current \in alive

\* Joining a transport's threads may take two minutes and is never done while
\* holding the gate, where every sender would wait (TM-02).
JoinsWithoutGate == pc = "join" => gate # "manager"

\* Whatever the old transport reported, or did not, the upper layer was told of
\* the end of its session when open(), switchTo() or reopen() returns (TM-04).
EndsOldSession == pc = "idle" => ~owesEnd

\* The transport that reported the connection of entry i reports an error after it.
TakenBack(q, i) == \E j \in DOMAIN q : j > i /\ q[j] = Entry(q[i].from, "Error")

\* After a switch the upper layer is never told that a connection is up which
\* the transport of an earlier session reported, and no thread of a closed
\* transport is about to tell it anything (TM-01).  The new transport's own
\* connection may be told and taken back, when its open() failed after it.
NothingFromClosed ==
    /\ \A t \in Transports : inflight[t] # NoCallback => t \in alive
    /\ pc = "flush" /\ op \in {"switch", "reopen", "adopt"} =>
          \A i \in DOMAIN flushing :
             flushing[i].state = "Connected" =>
                \/ flushing[i].from \in alive
                \/ flushing[i].from = generation /\ TakenBack(flushing, i)

\* shutdown() returns only when nothing can call the upper layer any more
\* (TM-03: it may be destroyed next), if close() of the transport keeps its contract.
SilentAfterShutdown == [][pc = "shut" => UNCHANGED heard]_vars

=============================================================================

---------------------------- MODULE TransportProofs ----------------------------
(***************************************************************************)
(* Theorems about the transports and their manager, for any number of      *)
(* transports, types, failures, connections and threads that send.  Of the *)
(* manager: a send goes to the open transport, and the end of a session is *)
(* told.  Of the transports: that of the UART keeps its driver, the host's *)
(* TCP worker notices a lost device, close() of the device's TCP transport *)
(* waits for its tasks, and what tells that it is connected is read.       *)
(*                                                                         *)
(* Each part of the manager's inductive invariant is preserved by a lemma  *)
(* of its own, with one step per action; the theorems follow from their    *)
(* conjunction.                                                            *)
(***************************************************************************)
EXTENDS MCTransports, TLAPS


-----------------------------------------------------------------------------
(* The manager: the inductive invariant.                                   *)

\* What the program counter of the management task says of the transports it
\* works on.  While a transport is detached (join, clear, create) there is no
\* current one, and no other transport than these is open.
Lifecycle ==
    /\ isOpen <=> current # None
    /\ current # None => current \in alive
    /\ current <= generation
    /\ pc \in {"join", "clear", "create", "shut"} => current = None
    /\ pc = "join" => old # None
    /\ pc = "adopt" => fresh = generation + 1 /\ fresh \in alive
    /\ alive \subseteq {current} \cup (IF pc = "join" THEN {old} ELSE {})
                                 \cup (IF pc = "adopt" THEN {fresh} ELSE {})
    /\ None \notin alive

\* Who holds the send gate.
GateOwner ==
    /\ gate \in Senders => current # None
    /\ pc \in {"create", "settle"} => gate = "manager"
    /\ gate = "manager" => pc \in {"clear", "create", "settle"}

\* A thread that is in a callback belongs to a transport that is open, and one
\* attached at some time; the numbers above the generation are not used yet.
Callbacks ==
    /\ \A t \in attached : t <= generation
    /\ \A t \in Transports :
          inflight[t] # NoCallback => t \in alive /\ t <= generation

HasEnd(q) == \E i \in DOMAIN q : q[i].state = "Disconnected"

\* Where the end of the old session is as long as the upper layer was not told.
EndUnderWay ==
    owesEnd =>
        /\ op \in {"switch", "reopen"}
        /\ \/ pc \in {"join", "clear"} /\ old # None
           \/ pc \in {"create", "settle", "take"} /\ HasEnd(pendingStates)
           \/ pc = "flush" /\ HasEnd(flushing)

\* Entry i of q, when it is a connection, is of the transports S, or was taken back by g.
Sound(q, i, S, g) ==
    q[i].state = "Connected" => q[i].from \in S \/ (q[i].from = g /\ TakenBack(q, i))

ConnectsFrom(q, S, g) == \A i \in DOMAIN q : Sound(q, i, S, g)

NoConnection(q) == \A i \in DOMAIN q : q[i].state # "Connected"

\* The buffer of a switch holds no connection of a closed transport from the
\* moment it is cleared to the moment it is handed over.
BufferIsFresh ==
    op \in {"switch", "reopen", "adopt"} =>
        /\ pc = "create" => NoConnection(pendingStates)
        /\ pc \in {"settle", "take"} => ConnectsFrom(pendingStates, alive, generation)
        /\ pc = "flush" => ConnectsFrom(flushing, alive, generation)

IInv ==
    /\ TypeOK /\ Lifecycle /\ GateOwner /\ Callbacks /\ EndUnderWay /\ BufferIsFresh

-----------------------------------------------------------------------------
(* The type invariant.                                                     *)

\* The constant that stands for no transport is a natural number.
LEMMA NoneTyped == None \in 0..MaxTransports /\ MaxTransports \in Nat
BY TransportAssumption DEF None

\* A manager that was just made has variables of the right types.
LEMMA InitTyped == Init => TypeOK
<1> SUFFICES ASSUME Init PROVE TypeOK
    OBVIOUS
<1>1. linkState \in [Transports -> States] /\ heard \in States
    BY DEF Init, States
<1>2. inflight \in [Transports -> [step : {"none", "check", "window", "push", "call"},
                                   state : States]]
    BY DEF Init, NoCallback, States
<1>3. flushing \in Seq(EntryType) /\ pendingStates \in Seq(EntryType)
    BY DEF Init
<1>4. wanted \in Types /\ currentType \in Types /\ generation \in 0..MaxTransports
    BY TransportAssumption, NoneTyped DEF Init, None
<1>. QED BY <1>1, <1>2, <1>3, <1>4, NoneTyped DEF Init, TypeOK

\* Taking the current transport away, which open, switchTo and reopen begin with.
LEMMA DetachTyped ==
    ASSUME NEW o \in {"open", "switch", "reopen"}, NEW type \in Types, NEW held \in BOOLEAN,
           TypeOK, Detach(o, type, held)
    PROVE  TypeOK'
BY NoneTyped DEF Detach, TypeOK, backendVars

\* An entry made of a transport and a state, put at the end of a buffer.
LEMMA EntryTyped ==
    ASSUME NEW t \in Transports, NEW s \in States
    PROVE  Entry(t, s) \in EntryType
BY DEF Entry, EntryType

\* What a transport reports from within open() is one of few sequences of states.
LEMMA ReportedStates ==
    /\ Reported(currentType) \in {<<"Connecting">>, <<"Connecting", "Connected">>}
    /\ \A said \in ReportedFailing(currentType) :
          said \in {<<"Connecting", "Error">>, <<"Connecting", "Connected", "Error">>}
BY DEF Reported, ReportedFailing

\* As entries of the buffer they are of the new transport, in the same order.
LEMMA EntriesOf ==
    ASSUME New \in Transports, NEW said \in Seq(States)
    PROVE  /\ Entries(said) \in Seq(EntryType)
           /\ DOMAIN Entries(said) = DOMAIN said
           /\ \A i \in DOMAIN said : Entries(said)[i] = Entry(New, said[i])
<1>1. DOMAIN said = 1..Len(said) /\ Len(said) \in Nat /\ \A i \in DOMAIN said : said[i] \in States
    OBVIOUS
<1>2. Entries(said) \in [1..Len(said) -> EntryType]
    BY <1>1, EntryTyped DEF Entries
<1>. QED BY <1>1, <1>2 DEF Entries

\* What open() reports is made of states.
LEMMA ReportedTyped ==
    /\ Reported(currentType) \in Seq(States)
    /\ ReportedFailing(currentType) \subseteq Seq(States)
<1>1. /\ <<"Connecting">> \in Seq(States) /\ <<"Connecting", "Connected">> \in Seq(States)
      /\ <<"Connecting", "Error">> \in Seq(States)
      /\ <<"Connecting", "Connected", "Error">> \in Seq(States)
    BY DEF States
<1>. QED BY <1>1, ReportedStates

\* The upper layer is told a state: what it heard and owes keeps its type.
LEMMA TellTyped ==
    ASSUME NEW s \in States, TypeOK, Tell(s)
    PROVE  heard' \in States /\ owesEnd' \in BOOLEAN /\ listening' \in BOOLEAN
BY DEF Tell, TypeOK

CallbackType == [step : {"none", "check", "window", "push", "call"}, state : States]

\* The next step of a callback, and its end.
LEMMA CallbackTyped ==
    ASSUME NEW t \in Transports, TypeOK,
           \/ GoesTo(t, "window") \/ GoesTo(t, "push") \/ GoesTo(t, "call") \/ Leaves(t)
    PROVE  inflight' \in [Transports -> CallbackType]
BY DEF GoesTo, Leaves, NoCallback, TypeOK, CallbackType, States

\* Every step keeps the values of the variables in their sets.
LEMMA StepTyped == TypeOK /\ Lifecycle /\ [Next]_vars => TypeOK'
<1> SUFFICES ASSUME TypeOK, Lifecycle, [Next]_vars PROVE TypeOK'
    OBVIOUS
<1> USE DEF TypeOK
<1>1. ASSUME OpenBegin PROVE TypeOK'
    BY <1>1, DetachTyped, TransportAssumption DEF OpenBegin
<1>2. ASSUME NEW type \in Types, SwitchBegin(type) PROVE TypeOK'
    BY <1>2, DetachTyped DEF SwitchBegin
<1>3. ASSUME ReopenBegin PROVE TypeOK'
    BY <1>3, DetachTyped DEF ReopenBegin
<1>4. ASSUME CloseBegin PROVE TypeOK'
    BY <1>4, NoneTyped DEF CloseBegin, backendVars, upperVars
<1>5. ASSUME ShutdownBegin PROVE TypeOK'
    BY <1>5, NoneTyped DEF ShutdownBegin
<1>6. ASSUME Join PROVE TypeOK'
  <2>0. old \in Transports
    BY <1>6 DEF Join, Lifecycle, Transports, None
  <2>1. /\ pc' \in {"take", "shut", "clear"}
        /\ linkState' \in [Transports -> States]
        /\ alive' \subseteq Transports /\ attached' \subseteq Transports
    BY <1>6 DEF Join, States
  <2>2. heard' \in States /\ owesEnd' \in BOOLEAN /\ listening' \in BOOLEAN
    BY <1>6, TellTyped DEF Join, upperVars, States
  <2>3. pendingStates' \in Seq(EntryType)
    <3>1. Entry(old, "Disconnected") \in EntryType
      BY <2>0, EntryTyped DEF States
    <3>2. pendingStates' \in {pendingStates, Append(pendingStates, Entry(old, "Disconnected"))}
      BY <1>6 DEF Join
    <3>. QED BY <3>1, <3>2
  <2>. QED BY <1>6, <2>1, <2>2, <2>3 DEF Join
<1>7. ASSUME Clear PROVE TypeOK'
  <2>1. pendingStates' \in Seq(EntryType)
    <3>1. old # None => Entry(old, "Disconnected") \in EntryType
      BY EntryTyped DEF None, Transports, States
    <3>. QED BY <1>7, <3>1 DEF Clear, KeptPending
  <2>. QED BY <1>7, <2>1 DEF Clear, backendVars, upperVars
<1>8. ASSUME CreateFails PROVE TypeOK'
    BY <1>8 DEF CreateFails, managerVars, backendVars, upperVars
<1>9. ASSUME OpenFails PROVE TypeOK'
  <2>1. pendingStates' \in Seq(EntryType)
    <3>1. PICK said \in ReportedFailing(currentType) :
             pendingStates' = pendingStates \o Entries(said)
      BY <1>9 DEF OpenFails
    <3>2. Entries(said) \in Seq(EntryType)
      BY <1>9, <3>1, ReportedTyped, EntriesOf DEF OpenFails
    <3>. QED BY <3>1, <3>2
  <2>2. linkState' \in [Transports -> States]
    BY <1>9 DEF OpenFails, States
  <2>. QED BY <1>9, <2>1, <2>2 DEF OpenFails, upperVars, Transports
<1>10. ASSUME Opens PROVE TypeOK'
  <2> DEFINE said == Reported(currentType)
  <2>3. pendingStates' \in Seq(EntryType)
    <3>1. pendingStates' = pendingStates \o Entries(said)
      BY <1>10 DEF Opens
    <3>2. Entries(said) \in Seq(EntryType)
      BY <1>10, ReportedTyped, EntriesOf DEF Opens
    <3>. QED BY <3>1, <3>2
  <2>4. linkState' \in [Transports -> States]
    <3>1. said[Len(said)] \in States
      <4>1. said = <<"Connecting", "Connected">> \/ said = <<"Connecting">>
        BY DEF Reported
      <4>2. \/ Len(said) = 2 /\ said[2] = "Connected"
            \/ Len(said) = 1 /\ said[1] = "Connecting"
        BY <4>1
      <4>. QED BY <4>2 DEF States
    <3>2. linkState' = [linkState EXCEPT ![New] = said[Len(said)]]
      BY <1>10 DEF Opens
    <3>. QED BY <3>1, <3>2
  <2>. QED BY <1>10, <2>3, <2>4 DEF Opens, upperVars, Transports
<1>11. ASSUME NEW type \in Types, AdoptBegin(type) PROVE TypeOK'
    BY <1>11, NoneTyped DEF AdoptBegin, managerVars, upperVars, Transports, States
<1>12. ASSUME AdoptRefused PROVE TypeOK'
    BY <1>12, NoneTyped DEF AdoptRefused, managerVars, upperVars, States
<1>13. ASSUME AdoptAttach PROVE TypeOK'
  <2>1. fresh \in Transports
    BY <1>13 DEF AdoptAttach, Lifecycle, Transports
  <2>. QED BY <1>13, <2>1, NoneTyped DEF AdoptAttach, KeptPending, upperVars, Transports
<1>14. ASSUME Settle PROVE TypeOK'
    BY <1>14 DEF Settle, backendVars, upperVars
<1>15. ASSUME TakePending PROVE TypeOK'
  <2>1. flushing' \in Seq(EntryType) /\ pendingStates' \in Seq(EntryType)
    BY <1>15 DEF TakePending
  <2>. QED BY <1>15, <2>1 DEF TakePending, backendVars, upperVars
<1>16. ASSUME FlushState PROVE TypeOK'
  <2>1. Head(flushing) \in EntryType /\ Tail(flushing) \in Seq(EntryType)
    BY <1>16 DEF FlushState
  <2>2. heard' \in States /\ owesEnd' \in BOOLEAN /\ listening' \in BOOLEAN
    BY <1>16, <2>1, TellTyped DEF FlushState, EntryType
  <2>. QED BY <1>16, <2>1, <2>2 DEF FlushState, managerVars, backendVars
<1>17. ASSUME Return PROVE TypeOK'
    BY <1>17, NoneTyped DEF Return, managerVars, backendVars, upperVars
<1>18. ASSUME NEW t \in Transports, Report(t) PROVE TypeOK'
  <2>1. PICK s \in States :
           /\ linkState' = [linkState EXCEPT ![t] = s]
           /\ inflight' = IF t \in attached
                          THEN [inflight EXCEPT ![t] = [step |-> "check", state |-> s]]
                          ELSE inflight
    BY <1>18 DEF Report
  <2>2. linkState' \in [Transports -> States]
    BY <2>1
  <2>3. inflight' \in [Transports -> CallbackType]
    BY <2>1 DEF CallbackType
  <2>. QED BY <1>18, <2>2, <2>3 DEF Report, taskVars, managerVars, upperVars, CallbackType
<1>19. ASSUME NEW t \in Transports, CheckGeneration(t) PROVE TypeOK'
    BY <1>19, CallbackTyped
       DEF CheckGeneration, taskVars, managerVars, upperVars, CallbackType
<1>20. ASSUME NEW t \in Transports, CheckWindow(t) PROVE TypeOK'
    BY <1>20, CallbackTyped
       DEF CheckWindow, taskVars, managerVars, upperVars, CallbackType
<1>21. ASSUME NEW t \in Transports, PushPending(t) PROVE TypeOK'
  <2>1. pendingStates' \in Seq(EntryType)
    BY <1>21, EntryTyped DEF PushPending
  <2>. QED BY <1>21, <2>1, CallbackTyped DEF PushPending, taskVars, upperVars, CallbackType
<1>22. ASSUME NEW t \in Transports, CallUpper(t) PROVE TypeOK'
  <2>1. heard' \in States /\ owesEnd' \in BOOLEAN /\ listening' \in BOOLEAN
    BY <1>22, TellTyped DEF CallUpper
  <2>. QED BY <1>22, <2>1, CallbackTyped DEF CallUpper, taskVars, managerVars, CallbackType
<1>23. ASSUME NEW s \in Senders, LockTransport(s) PROVE TypeOK'
    BY <1>23 DEF LockTransport, taskVars, backendVars, upperVars
<1>24. ASSUME NEW s \in Senders, UnlockTransport(s) PROVE TypeOK'
    BY <1>24 DEF UnlockTransport, taskVars, backendVars, upperVars
<1>25. ASSUME UNCHANGED vars PROVE TypeOK'
    BY <1>25 DEF vars, taskVars, managerVars, backendVars, upperVars
<1>. QED
    BY <1>1, <1>2, <1>3, <1>4, <1>5, <1>6, <1>7, <1>8, <1>9, <1>10, <1>11, <1>12, <1>13,
       <1>14, <1>15, <1>16, <1>17, <1>18, <1>19, <1>20, <1>21, <1>22, <1>23, <1>24, <1>25
       DEF Next

-----------------------------------------------------------------------------
(* Buffers.                                                                *)

\* An entry put at the end keeps the end of session that is buffered, or is one.
LEMMA AppendedEntry ==
    ASSUME NEW q \in Seq(EntryType), NEW e \in EntryType, NEW S, NEW g
    PROVE  /\ HasEnd(q) \/ e.state = "Disconnected" => HasEnd(Append(q, e))
           /\ ConnectsFrom(q, S, g) /\ (e.state = "Connected" => e.from \in S)
                 => ConnectsFrom(Append(q, e), S, g)
<1>1. /\ DOMAIN Append(q, e) = 1..(Len(q) + 1) /\ DOMAIN q = 1..Len(q) /\ Len(q) \in Nat
      /\ Append(q, e)[Len(q) + 1] = e
      /\ \A i \in DOMAIN q : Append(q, e)[i] = q[i]
    OBVIOUS
<1>2. HasEnd(q) \/ e.state = "Disconnected" => HasEnd(Append(q, e))
    BY <1>1 DEF HasEnd
<1>3. ASSUME ConnectsFrom(q, S, g), e.state = "Connected" => e.from \in S
      PROVE  ConnectsFrom(Append(q, e), S, g)
  <2>1. ASSUME NEW i \in DOMAIN q, TakenBack(q, i) PROVE TakenBack(Append(q, e), i)
    <3>1. PICK j \in DOMAIN q : j > i /\ q[j] = Entry(q[i].from, "Error")
      BY <2>1 DEF TakenBack
    <3>2. j \in DOMAIN Append(q, e) /\ Append(q, e)[j] = q[j] /\ Append(q, e)[i] = q[i]
      BY <1>1
    <3> QED BY <3>1, <3>2 DEF TakenBack
  <2>2. ASSUME NEW i \in DOMAIN q PROVE Sound(Append(q, e), i, S, g)
    <3>1. Sound(q, i, S, g) /\ Append(q, e)[i] = q[i]
      BY <1>1, <1>3 DEF ConnectsFrom
    <3> QED BY <2>1, <3>1 DEF Sound
  <2>3. Sound(Append(q, e), Len(q) + 1, S, g)
    <3>1. Append(q, e)[Len(q) + 1] = e
      BY <1>1
    <3> QED BY <1>3, <3>1, Zenon DEF Sound
  <2>4. \A i \in DOMAIN Append(q, e) : i \in DOMAIN q \/ i = Len(q) + 1
    BY <1>1
  <2> QED BY <2>2, <2>3, <2>4, Zenon DEF ConnectsFrom
<1>. QED BY <1>2, <1>3

\* So does a sequence of entries.
LEMMA AppendedEntries ==
    ASSUME NEW q \in Seq(EntryType), NEW r \in Seq(EntryType), NEW S, NEW g
    PROVE  /\ HasEnd(q) => HasEnd(q \o r)
           /\ NoConnection(q) /\ ConnectsFrom(r, S, g) => ConnectsFrom(q \o r, S, g)
<1>1. /\ DOMAIN (q \o r) = 1..(Len(q) + Len(r)) /\ Len(q) \in Nat /\ Len(r) \in Nat
      /\ DOMAIN q = 1..Len(q) /\ DOMAIN r = 1..Len(r)
      /\ \A i \in 1..(Len(q) + Len(r)) :
            (q \o r)[i] = IF i <= Len(q) THEN q[i] ELSE r[i - Len(q)]
    OBVIOUS
<1>2. HasEnd(q) => HasEnd(q \o r)
    BY <1>1 DEF HasEnd
<1>3. ASSUME NoConnection(q), ConnectsFrom(r, S, g) PROVE ConnectsFrom(q \o r, S, g)
  <2> SUFFICES ASSUME NEW i \in DOMAIN (q \o r), (q \o r)[i].state = "Connected"
               PROVE  Sound(q \o r, i, S, g)
    BY DEF ConnectsFrom, Sound
  <2>1. i > Len(q)
    <3> SUFFICES ASSUME i <= Len(q) PROVE FALSE
      BY <1>1
    <3>1. i \in DOMAIN q /\ (q \o r)[i] = q[i]
      BY <1>1
    <3> QED BY <1>3, <3>1 DEF NoConnection
  <2>2. i - Len(q) \in DOMAIN r /\ (q \o r)[i] = r[i - Len(q)]
    BY <1>1, <2>1
  <2>3. ASSUME TakenBack(r, i - Len(q)) PROVE TakenBack(q \o r, i)
    <3>1. PICK j \in DOMAIN r : j > i - Len(q) /\ r[j] = Entry(r[i - Len(q)].from, "Error")
      BY <2>3 DEF TakenBack
    <3>2. /\ j + Len(q) \in DOMAIN (q \o r) /\ j + Len(q) > i
          /\ (q \o r)[j + Len(q)] = r[j]
      BY <1>1, <2>1, <3>1
    <3> QED BY <2>2, <3>1, <3>2 DEF TakenBack
  <2>4. Sound(r, i - Len(q), S, g)
    BY <1>3, <2>2 DEF ConnectsFrom
  <2>. QED BY <2>2, <2>3, <2>4 DEF Sound
<1>. QED BY <1>2, <1>3

\* What is left once the first entry was handed over.
LEMMA HandedOver ==
    ASSUME NEW q \in Seq(EntryType), q # <<>>, NEW S, NEW g
    PROVE  /\ HasEnd(q) => Head(q).state = "Disconnected" \/ HasEnd(Tail(q))
           /\ ConnectsFrom(q, S, g) => ConnectsFrom(Tail(q), S, g)
<1>1. /\ DOMAIN q = 1..Len(q) /\ Len(q) \in Nat \ {0} /\ Head(q) = q[1]
      /\ DOMAIN Tail(q) = 1..(Len(q) - 1)
      /\ \A i \in DOMAIN Tail(q) : Tail(q)[i] = q[i + 1]
    OBVIOUS
<1>2. ASSUME HasEnd(q), Head(q).state # "Disconnected" PROVE HasEnd(Tail(q))
  <2>1. PICK i \in DOMAIN q : q[i].state = "Disconnected"
    BY <1>2 DEF HasEnd
  <2>2. i # 1 /\ i - 1 \in DOMAIN Tail(q) /\ Tail(q)[i - 1] = q[i]
    BY <1>1, <1>2, <2>1
  <2>. QED BY <2>1, <2>2 DEF HasEnd
<1>3. ASSUME ConnectsFrom(q, S, g) PROVE ConnectsFrom(Tail(q), S, g)
  <2>1. ASSUME NEW i \in DOMAIN Tail(q), TakenBack(q, i + 1) PROVE TakenBack(Tail(q), i)
    <3>1. PICK j \in DOMAIN q : j > i + 1 /\ q[j] = Entry(q[i + 1].from, "Error")
      BY <2>1 DEF TakenBack
    <3>2. j - 1 \in DOMAIN Tail(q) /\ j - 1 > i /\ Tail(q)[j - 1] = q[j] /\ Tail(q)[i] = q[i + 1]
      BY <1>1, <2>1, <3>1
    <3> QED BY <3>1, <3>2 DEF TakenBack
  <2>2. \A i \in DOMAIN Tail(q) : i + 1 \in DOMAIN q
    BY <1>1
  <2>3. ASSUME NEW i \in DOMAIN Tail(q) PROVE Sound(Tail(q), i, S, g)
    <3>1. Sound(q, i + 1, S, g) /\ Tail(q)[i] = q[i + 1]
      BY <1>1, <1>3, <2>2 DEF ConnectsFrom
    <3> QED BY <2>1, <3>1 DEF Sound
  <2> QED BY <2>3 DEF ConnectsFrom
<1>. QED BY <1>2, <1>3


\* The transport that is current, replaced or offered, and the open ones.
LEMMA StepLifecycle ==
    TypeOK /\ Lifecycle /\ Callbacks /\ [Next]_vars => Lifecycle'
<1> SUFFICES ASSUME TypeOK, Lifecycle, Callbacks, [Next]_vars PROVE Lifecycle'
    OBVIOUS
<1> USE DEF TypeOK, Lifecycle, Transports, None, New,
            taskVars, managerVars, backendVars, upperVars
<1>1. ASSUME OpenBegin PROVE Lifecycle'
    BY <1>1 DEF OpenBegin, Detach
<1>2. ASSUME NEW type \in Types, SwitchBegin(type) PROVE Lifecycle'
    BY <1>2 DEF SwitchBegin, Detach
<1>3. ASSUME ReopenBegin PROVE Lifecycle'
    BY <1>3 DEF ReopenBegin, Detach
<1>4. ASSUME CloseBegin PROVE Lifecycle'
    BY <1>4 DEF CloseBegin
<1>5. ASSUME ShutdownBegin PROVE Lifecycle'
    BY <1>5 DEF ShutdownBegin
<1>6. ASSUME Join PROVE Lifecycle'
    BY <1>6 DEF Join
<1>7. ASSUME Clear PROVE Lifecycle'
    BY <1>7 DEF Clear
<1>8. ASSUME CreateFails PROVE Lifecycle'
    BY <1>8 DEF CreateFails
<1>9. ASSUME OpenFails PROVE Lifecycle'
    BY <1>9 DEF OpenFails
<1>10. ASSUME Opens PROVE Lifecycle'
    BY <1>10 DEF Opens
<1>11. ASSUME NEW type \in Types, AdoptBegin(type) PROVE Lifecycle'
    BY <1>11 DEF AdoptBegin
<1>12. ASSUME AdoptRefused PROVE Lifecycle'
    BY <1>12 DEF AdoptRefused
<1>13. ASSUME AdoptAttach PROVE Lifecycle'
    BY <1>13 DEF AdoptAttach
<1>14. ASSUME Settle PROVE Lifecycle'
    BY <1>14 DEF Settle
<1>15. ASSUME TakePending PROVE Lifecycle'
    BY <1>15 DEF TakePending
<1>16. ASSUME FlushState PROVE Lifecycle'
    BY <1>16 DEF FlushState
<1>17. ASSUME Return PROVE Lifecycle'
    BY <1>17 DEF Return
<1>18. ASSUME NEW t \in Transports, Report(t) PROVE Lifecycle'
    BY <1>18 DEF Report
<1>19. ASSUME NEW t \in Transports, CheckGeneration(t) PROVE Lifecycle'
    BY <1>19 DEF CheckGeneration
<1>20. ASSUME NEW t \in Transports, CheckWindow(t) PROVE Lifecycle'
    BY <1>20 DEF CheckWindow
<1>21. ASSUME NEW t \in Transports, PushPending(t) PROVE Lifecycle'
    BY <1>21 DEF PushPending
<1>22. ASSUME NEW t \in Transports, CallUpper(t) PROVE Lifecycle'
    BY <1>22 DEF CallUpper
<1>23. ASSUME NEW s \in Senders, LockTransport(s) PROVE Lifecycle'
    BY <1>23 DEF LockTransport
<1>24. ASSUME NEW s \in Senders, UnlockTransport(s) PROVE Lifecycle'
    BY <1>24 DEF UnlockTransport
<1>25. ASSUME UNCHANGED vars PROVE Lifecycle'
    BY <1>25 DEF vars
<1>. QED
    BY <1>1, <1>2, <1>3, <1>4, <1>5, <1>6, <1>7, <1>8, <1>9, <1>10, <1>11, <1>12, <1>13,
       <1>14, <1>15, <1>16, <1>17, <1>18, <1>19, <1>20, <1>21, <1>22, <1>23, <1>24, <1>25
       DEF Next

\* The gate belongs to the task only while it installs a transport, and to a
\* sender only while there is one.
LEMMA StepGateOwner ==
    TypeOK /\ Lifecycle /\ GateOwner /\ [Next]_vars => GateOwner'
<1> SUFFICES ASSUME TypeOK, Lifecycle, GateOwner, [Next]_vars PROVE GateOwner'
    OBVIOUS
<1> USE TransportAssumption DEF TypeOK, Lifecycle, GateOwner, None,
            taskVars, managerVars, backendVars, upperVars
<1>1. ASSUME OpenBegin PROVE GateOwner'
    BY <1>1 DEF OpenBegin, Detach
<1>2. ASSUME NEW type \in Types, SwitchBegin(type) PROVE GateOwner'
    BY <1>2 DEF SwitchBegin, Detach
<1>3. ASSUME ReopenBegin PROVE GateOwner'
    BY <1>3 DEF ReopenBegin, Detach
<1>4. ASSUME CloseBegin PROVE GateOwner'
    BY <1>4 DEF CloseBegin
<1>5. ASSUME ShutdownBegin PROVE GateOwner'
    BY <1>5 DEF ShutdownBegin
<1>6. ASSUME Join PROVE GateOwner'
    BY <1>6 DEF Join
<1>7. ASSUME Clear PROVE GateOwner'
    BY <1>7 DEF Clear
<1>8. ASSUME CreateFails PROVE GateOwner'
    BY <1>8 DEF CreateFails
<1>9. ASSUME OpenFails PROVE GateOwner'
    BY <1>9 DEF OpenFails
<1>10. ASSUME Opens PROVE GateOwner'
    BY <1>10 DEF Opens
<1>11. ASSUME NEW type \in Types, AdoptBegin(type) PROVE GateOwner'
    BY <1>11 DEF AdoptBegin
<1>12. ASSUME AdoptRefused PROVE GateOwner'
    BY <1>12 DEF AdoptRefused
<1>13. ASSUME AdoptAttach PROVE GateOwner'
    BY <1>13 DEF AdoptAttach
<1>14. ASSUME Settle PROVE GateOwner'
    BY <1>14 DEF Settle
<1>15. ASSUME TakePending PROVE GateOwner'
    BY <1>15 DEF TakePending
<1>16. ASSUME FlushState PROVE GateOwner'
    BY <1>16 DEF FlushState
<1>17. ASSUME Return PROVE GateOwner'
    BY <1>17 DEF Return
<1>18. ASSUME NEW t \in Transports, Report(t) PROVE GateOwner'
    BY <1>18 DEF Report
<1>19. ASSUME NEW t \in Transports, CheckGeneration(t) PROVE GateOwner'
    BY <1>19 DEF CheckGeneration
<1>20. ASSUME NEW t \in Transports, CheckWindow(t) PROVE GateOwner'
    BY <1>20 DEF CheckWindow
<1>21. ASSUME NEW t \in Transports, PushPending(t) PROVE GateOwner'
    BY <1>21 DEF PushPending
<1>22. ASSUME NEW t \in Transports, CallUpper(t) PROVE GateOwner'
    BY <1>22 DEF CallUpper
<1>23. ASSUME NEW s \in Senders, LockTransport(s) PROVE GateOwner'
    BY <1>23 DEF LockTransport
<1>24. ASSUME NEW s \in Senders, UnlockTransport(s) PROVE GateOwner'
    BY <1>24 DEF UnlockTransport
<1>25. ASSUME UNCHANGED vars PROVE GateOwner'
    BY <1>25 DEF vars
<1>. QED
    BY <1>1, <1>2, <1>3, <1>4, <1>5, <1>6, <1>7, <1>8, <1>9, <1>10, <1>11, <1>12, <1>13,
       <1>14, <1>15, <1>16, <1>17, <1>18, <1>19, <1>20, <1>21, <1>22, <1>23, <1>24, <1>25
       DEF Next

\* No callback of a transport outlives its close().
LEMMA StepCallbacks ==
    TypeOK /\ Lifecycle /\ Callbacks /\ [Next]_vars => Callbacks'
<1> SUFFICES ASSUME TypeOK, Lifecycle, Callbacks, [Next]_vars PROVE Callbacks'
    OBVIOUS
<1> USE DEF TypeOK, Lifecycle, Callbacks, Transports, None, New, At, GoesTo, Leaves,
            NoCallback, taskVars, managerVars, backendVars, upperVars
<1>1. ASSUME OpenBegin PROVE Callbacks'
    BY <1>1 DEF OpenBegin, Detach
<1>2. ASSUME NEW type \in Types, SwitchBegin(type) PROVE Callbacks'
    BY <1>2 DEF SwitchBegin, Detach
<1>3. ASSUME ReopenBegin PROVE Callbacks'
    BY <1>3 DEF ReopenBegin, Detach
<1>4. ASSUME CloseBegin PROVE Callbacks'
    BY <1>4 DEF CloseBegin
<1>5. ASSUME ShutdownBegin PROVE Callbacks'
    BY <1>5 DEF ShutdownBegin
<1>6. ASSUME Join PROVE Callbacks'
    BY <1>6 DEF Join, ThreadsGone
<1>7. ASSUME Clear PROVE Callbacks'
    BY <1>7 DEF Clear
<1>8. ASSUME CreateFails PROVE Callbacks'
    BY <1>8 DEF CreateFails
<1>9. ASSUME OpenFails PROVE Callbacks'
    BY <1>9 DEF OpenFails
<1>10. ASSUME Opens PROVE Callbacks'
    BY <1>10 DEF Opens
<1>11. ASSUME NEW type \in Types, AdoptBegin(type) PROVE Callbacks'
    BY <1>11 DEF AdoptBegin
<1>12. ASSUME AdoptRefused PROVE Callbacks'
    BY <1>12 DEF AdoptRefused
<1>13. ASSUME AdoptAttach PROVE Callbacks'
    BY <1>13 DEF AdoptAttach
<1>14. ASSUME Settle PROVE Callbacks'
    BY <1>14 DEF Settle
<1>15. ASSUME TakePending PROVE Callbacks'
    BY <1>15 DEF TakePending
<1>16. ASSUME FlushState PROVE Callbacks'
    BY <1>16 DEF FlushState
<1>17. ASSUME Return PROVE Callbacks'
    BY <1>17 DEF Return
<1>18. ASSUME NEW t \in Transports, Report(t) PROVE Callbacks'
    BY <1>18 DEF Report
<1>19. ASSUME NEW t \in Transports, CheckGeneration(t) PROVE Callbacks'
  <2>1. inflight[t] # NoCallback
    BY <1>19 DEF CheckGeneration
  <2>2. \A u \in Transports : inflight'[u] # NoCallback => inflight[u] # NoCallback
    BY <1>19, <2>1 DEF CheckGeneration
  <2>. QED BY <1>19, <2>2 DEF CheckGeneration
<1>20. ASSUME NEW t \in Transports, CheckWindow(t) PROVE Callbacks'
  <2>1. inflight[t] # NoCallback
    BY <1>20 DEF CheckWindow
  <2>2. \A u \in Transports : inflight'[u] # NoCallback => inflight[u] # NoCallback
    BY <1>20, <2>1 DEF CheckWindow
  <2>. QED BY <1>20, <2>2 DEF CheckWindow
<1>21. ASSUME NEW t \in Transports, PushPending(t) PROVE Callbacks'
    BY <1>21 DEF PushPending
<1>22. ASSUME NEW t \in Transports, CallUpper(t) PROVE Callbacks'
    BY <1>22 DEF CallUpper
<1>23. ASSUME NEW s \in Senders, LockTransport(s) PROVE Callbacks'
    BY <1>23 DEF LockTransport
<1>24. ASSUME NEW s \in Senders, UnlockTransport(s) PROVE Callbacks'
    BY <1>24 DEF UnlockTransport
<1>25. ASSUME UNCHANGED vars PROVE Callbacks'
    BY <1>25 DEF vars
<1>. QED
    BY <1>1, <1>2, <1>3, <1>4, <1>5, <1>6, <1>7, <1>8, <1>9, <1>10, <1>11, <1>12, <1>13,
       <1>14, <1>15, <1>16, <1>17, <1>18, <1>19, <1>20, <1>21, <1>22, <1>23, <1>24, <1>25
       DEF Next

\* The end of the old session stays on its way until the upper layer is told.
LEMMA StepEndUnderWay ==
    TypeOK /\ Lifecycle /\ EndUnderWay /\ [Next]_vars => EndUnderWay'
<1> SUFFICES ASSUME TypeOK, Lifecycle, EndUnderWay, [Next]_vars PROVE EndUnderWay'
    OBVIOUS
<1> USE DEF TypeOK, Lifecycle, EndUnderWay, None, taskVars, managerVars, backendVars, upperVars
<1>1. ASSUME OpenBegin PROVE EndUnderWay'
    BY <1>1 DEF OpenBegin, Detach
<1>2. ASSUME NEW type \in Types, SwitchBegin(type) PROVE EndUnderWay'
    BY <1>2 DEF SwitchBegin, Detach
<1>3. ASSUME ReopenBegin PROVE EndUnderWay'
    BY <1>3 DEF ReopenBegin, Detach
<1>4. ASSUME CloseBegin PROVE EndUnderWay'
    BY <1>4 DEF CloseBegin
<1>5. ASSUME ShutdownBegin PROVE EndUnderWay'
    BY <1>5 DEF ShutdownBegin
<1>6. ASSUME Join PROVE EndUnderWay'
    BY <1>6 DEF Join, Tell
<1>7. ASSUME Clear PROVE EndUnderWay'
  <2>1. owesEnd => pendingStates' = <<Entry(old, "Disconnected")>>
    BY <1>7 DEF Clear, KeptPending
  <2>2. HasEnd(<<Entry(old, "Disconnected")>>)
    BY DEF HasEnd, Entry
  <2>. QED BY <1>7, <2>1, <2>2 DEF Clear
<1>8. ASSUME CreateFails PROVE EndUnderWay'
    BY <1>8 DEF CreateFails
<1>9. ASSUME OpenFails PROVE EndUnderWay'
  <2>1. PICK said \in ReportedFailing(currentType) :
           pendingStates' = pendingStates \o Entries(said)
    BY <1>9 DEF OpenFails
  <2>3. Entries(said) \in Seq(EntryType)
    BY <1>9, <2>1, ReportedTyped, EntriesOf DEF OpenFails
  <2>2. HasEnd(pendingStates) => HasEnd(pendingStates')
    BY <2>1, <2>3, AppendedEntries
  <2>. QED BY <1>9, <2>2 DEF OpenFails
<1>10. ASSUME Opens PROVE EndUnderWay'
  <2>1. /\ pendingStates' = pendingStates \o Entries(Reported(currentType))
        /\ Entries(Reported(currentType)) \in Seq(EntryType)
    BY <1>10, ReportedTyped, EntriesOf DEF Opens
  <2>2. HasEnd(pendingStates) => HasEnd(pendingStates')
    BY <2>1, AppendedEntries
  <2>. QED BY <1>10, <2>2 DEF Opens
<1>11. ASSUME NEW type \in Types, AdoptBegin(type) PROVE EndUnderWay'
    BY <1>11 DEF AdoptBegin
<1>12. ASSUME AdoptRefused PROVE EndUnderWay'
    BY <1>12 DEF AdoptRefused
<1>13. ASSUME AdoptAttach PROVE EndUnderWay'
    BY <1>13 DEF AdoptAttach
<1>14. ASSUME Settle PROVE EndUnderWay'
    BY <1>14 DEF Settle
<1>15. ASSUME TakePending PROVE EndUnderWay'
    BY <1>15 DEF TakePending
<1>16. ASSUME FlushState PROVE EndUnderWay'
  <2>1. HasEnd(flushing) => Head(flushing).state = "Disconnected" \/ HasEnd(flushing')
    BY <1>16, HandedOver DEF FlushState
  <2>. QED BY <1>16, <2>1 DEF FlushState, Tell
<1>17. ASSUME Return PROVE EndUnderWay'
  <2>1. ~HasEnd(flushing)
    BY <1>17 DEF Return, HasEnd
  <2>. QED BY <1>17, <2>1 DEF Return
<1>18. ASSUME NEW t \in Transports, Report(t) PROVE EndUnderWay'
    BY <1>18 DEF Report
<1>19. ASSUME NEW t \in Transports, CheckGeneration(t) PROVE EndUnderWay'
    BY <1>19 DEF CheckGeneration
<1>20. ASSUME NEW t \in Transports, CheckWindow(t) PROVE EndUnderWay'
    BY <1>20 DEF CheckWindow
<1>21. ASSUME NEW t \in Transports, PushPending(t) PROVE EndUnderWay'
  <2>1. HasEnd(pendingStates) => HasEnd(pendingStates')
    BY <1>21, EntryTyped, AppendedEntry DEF PushPending
  <2>. QED BY <1>21, <2>1 DEF PushPending
<1>22. ASSUME NEW t \in Transports, CallUpper(t) PROVE EndUnderWay'
    BY <1>22 DEF CallUpper, Tell
<1>23. ASSUME NEW s \in Senders, LockTransport(s) PROVE EndUnderWay'
    BY <1>23 DEF LockTransport
<1>24. ASSUME NEW s \in Senders, UnlockTransport(s) PROVE EndUnderWay'
    BY <1>24 DEF UnlockTransport
<1>25. ASSUME UNCHANGED vars PROVE EndUnderWay'
    BY <1>25 DEF vars
<1>. QED
    BY <1>1, <1>2, <1>3, <1>4, <1>5, <1>6, <1>7, <1>8, <1>9, <1>10, <1>11, <1>12, <1>13,
       <1>14, <1>15, <1>16, <1>17, <1>18, <1>19, <1>20, <1>21, <1>22, <1>23, <1>24, <1>25
       DEF Next

\* What is buffered after the old transport was joined comes from the new one.
LEMMA StepBufferIsFresh ==
    TypeOK /\ Lifecycle /\ Callbacks /\ BufferIsFresh /\ [Next]_vars => BufferIsFresh'
<1> SUFFICES ASSUME TypeOK, Lifecycle, Callbacks, BufferIsFresh, [Next]_vars PROVE BufferIsFresh'
    OBVIOUS
<1> USE DEF TypeOK, BufferIsFresh, taskVars, managerVars, backendVars, upperVars
<1>1. ASSUME OpenBegin PROVE BufferIsFresh'
    BY <1>1 DEF OpenBegin, Detach
<1>2. ASSUME NEW type \in Types, SwitchBegin(type) PROVE BufferIsFresh'
    BY <1>2 DEF SwitchBegin, Detach
<1>3. ASSUME ReopenBegin PROVE BufferIsFresh'
    BY <1>3 DEF ReopenBegin, Detach
<1>4. ASSUME CloseBegin PROVE BufferIsFresh'
    BY <1>4 DEF CloseBegin
<1>5. ASSUME ShutdownBegin PROVE BufferIsFresh'
    BY <1>5 DEF ShutdownBegin
<1>6. ASSUME Join PROVE BufferIsFresh'
    BY <1>6 DEF Join
<1>7. ASSUME Clear PROVE BufferIsFresh'
  <2>1. op # "open" => NoConnection(pendingStates')
    BY <1>7 DEF Clear, KeptPending, NoConnection, Entry
  <2>. QED BY <1>7, <2>1 DEF Clear
<1>8. ASSUME CreateFails PROVE BufferIsFresh'
    BY <1>8 DEF CreateFails, NoConnection, ConnectsFrom, Sound
<1>9. ASSUME OpenFails PROVE BufferIsFresh'
  <2>1. PICK said \in ReportedFailing(currentType) :
           pendingStates' = pendingStates \o Entries(said)
    BY <1>9 DEF OpenFails
  <2>2. said \in {<<"Connecting", "Error">>, <<"Connecting", "Connected", "Error">>}
    BY ReportedStates
  <2>3. /\ Entries(said) \in Seq(EntryType) /\ DOMAIN Entries(said) = DOMAIN said
        /\ \A i \in DOMAIN said : Entries(said)[i] = Entry(New, said[i])
    BY <1>9, <2>1, ReportedTyped, EntriesOf DEF OpenFails
  <2>4. ConnectsFrom(Entries(said), alive', generation')
    <3>1. CASE said = <<"Connecting", "Error">>
      <4>1. /\ DOMAIN said = 1..2 /\ said[1] = "Connecting" /\ said[2] = "Error"
        BY <3>1
      <4>2. \A i \in DOMAIN Entries(said) : Entries(said)[i].state # "Connected"
        BY <2>3, <4>1 DEF Entry
      <4> QED BY <4>2 DEF ConnectsFrom, Sound
    <3>2. CASE said = <<"Connecting", "Connected", "Error">>
      <4>0. /\ DOMAIN said = 1..3 /\ said[1] = "Connecting" /\ said[2] = "Connected"
            /\ said[3] = "Error"
        BY <3>2
      <4>1. /\ DOMAIN Entries(said) = 1..3 /\ Entries(said)[1].state = "Connecting"
            /\ Entries(said)[2].from = New /\ Entries(said)[3] = Entry(New, "Error")
            /\ Entries(said)[3].state = "Error"
        BY <2>3, <4>0 DEF Entry
      <4>2. TakenBack(Entries(said), 2)
        BY <4>1 DEF TakenBack
      <4>3. generation' = New
        BY <1>9 DEF OpenFails
      <4>4. \A i \in 1..3 : i = 1 \/ i = 2 \/ i = 3
        OBVIOUS
      <4> QED BY <4>1, <4>2, <4>3, <4>4 DEF ConnectsFrom, Sound
    <3> QED BY <2>2, <3>1, <3>2
  <2>5. NoConnection(pendingStates) => ConnectsFrom(pendingStates', alive', generation')
    BY <2>1, <2>3, <2>4, AppendedEntries
  <2>. QED BY <1>9, <2>5 DEF OpenFails
<1>10. ASSUME Opens PROVE BufferIsFresh'
  <2> DEFINE said == Reported(currentType)
  <2>1. pendingStates' = pendingStates \o Entries(said) /\ New \in alive'
    BY <1>10 DEF Opens
  <2>2. /\ Entries(said) \in Seq(EntryType) /\ DOMAIN Entries(said) = DOMAIN said
        /\ \A i \in DOMAIN said : Entries(said)[i] = Entry(New, said[i])
    BY <1>10, ReportedTyped, EntriesOf DEF Opens
  <2>3. ConnectsFrom(Entries(said), alive', generation')
    <3>1. \A i \in DOMAIN Entries(said) : Entries(said)[i].from = New
      BY <2>2 DEF Entry
    <3>2. \A i \in DOMAIN Entries(said) : Entries(said)[i].from \in alive'
      BY <2>1, <3>1
    <3> QED BY <3>2, Zenon DEF ConnectsFrom, Sound
  <2>4. NoConnection(pendingStates) => ConnectsFrom(pendingStates', alive', generation')
    BY <2>1, <2>2, <2>3, AppendedEntries
  <2>. QED BY <1>10, <2>4 DEF Opens
<1>11. ASSUME NEW type \in Types, AdoptBegin(type) PROVE BufferIsFresh'
    BY <1>11 DEF AdoptBegin
<1>12. ASSUME AdoptRefused PROVE BufferIsFresh'
    BY <1>12 DEF AdoptRefused
<1>13. ASSUME AdoptAttach PROVE BufferIsFresh'
  <2>1. ConnectsFrom(pendingStates', alive', generation')
    BY <1>13 DEF AdoptAttach, KeptPending, ConnectsFrom
  <2>. QED BY <1>13, <2>1 DEF AdoptAttach
<1>14. ASSUME Settle PROVE BufferIsFresh'
    BY <1>14 DEF Settle
<1>15. ASSUME TakePending PROVE BufferIsFresh'
    BY <1>15 DEF TakePending
<1>16. ASSUME FlushState PROVE BufferIsFresh'
  <2>1. ConnectsFrom(flushing, alive, generation) => ConnectsFrom(flushing', alive, generation)
    BY <1>16, HandedOver DEF FlushState
  <2>. QED BY <1>16, <2>1 DEF FlushState
<1>17. ASSUME Return PROVE BufferIsFresh'
    BY <1>17 DEF Return
<1>18. ASSUME NEW t \in Transports, Report(t) PROVE BufferIsFresh'
    BY <1>18 DEF Report
<1>19. ASSUME NEW t \in Transports, CheckGeneration(t) PROVE BufferIsFresh'
    BY <1>19 DEF CheckGeneration
<1>20. ASSUME NEW t \in Transports, CheckWindow(t) PROVE BufferIsFresh'
    BY <1>20 DEF CheckWindow
<1>21. ASSUME NEW t \in Transports, PushPending(t) PROVE BufferIsFresh'
  <2>1. t \in alive
    BY <1>21 DEF PushPending, Callbacks, At, NoCallback
  <2>2. Entry(t, inflight[t].state) \in EntryType
    BY EntryTyped
  <2>3. ConnectsFrom(pendingStates, alive, generation)
           => ConnectsFrom(pendingStates', alive, generation)
    BY <1>21, <2>1, <2>2, AppendedEntry DEF PushPending, Entry
  <2>4. pc # "create"
    BY <2>1 DEF Lifecycle, None
  <2>. QED BY <1>21, <2>3, <2>4 DEF PushPending
<1>22. ASSUME NEW t \in Transports, CallUpper(t) PROVE BufferIsFresh'
    BY <1>22 DEF CallUpper
<1>23. ASSUME NEW s \in Senders, LockTransport(s) PROVE BufferIsFresh'
    BY <1>23 DEF LockTransport
<1>24. ASSUME NEW s \in Senders, UnlockTransport(s) PROVE BufferIsFresh'
    BY <1>24 DEF UnlockTransport
<1>25. ASSUME UNCHANGED vars PROVE BufferIsFresh'
    BY <1>25 DEF vars
<1>. QED
    BY <1>1, <1>2, <1>3, <1>4, <1>5, <1>6, <1>7, <1>8, <1>9, <1>10, <1>11, <1>12, <1>13,
       <1>14, <1>15, <1>16, <1>17, <1>18, <1>19, <1>20, <1>21, <1>22, <1>23, <1>24, <1>25
       DEF Next

-----------------------------------------------------------------------------
(* The theorems.                                                           *)

\* The invariant holds before the first operation.
LEMMA InitInvariant == Init => IInv
<1> SUFFICES ASSUME Init PROVE IInv
    OBVIOUS
<1>1. Lifecycle /\ Callbacks /\ EndUnderWay /\ BufferIsFresh
    BY DEF Init, Lifecycle, Callbacks, EndUnderWay, BufferIsFresh, None
<1>2. GateOwner
    BY TransportAssumption DEF Init, GateOwner
<1>. QED BY <1>1, <1>2, InitTyped DEF IInv

\* Every operation, callback and sender keeps it.
LEMMA StepInvariant == IInv /\ [Next]_vars => IInv'
BY StepTyped, StepLifecycle, StepGateOwner, StepCallbacks, StepEndUnderWay, StepBufferIsFresh
   DEF IInv

\* The inductive invariant holds in every state the manager reaches: this is what
\* the theorems below are read off.
THEOREM Invariant == Spec => []IInv
BY InitInvariant, StepInvariant, PTL DEF Spec

\* The variables of the manager keep their types, whatever the threads of the
\* transports report while it works.
THEOREM TypeCorrect == Spec => []TypeOK
<1>1. IInv => TypeOK
    BY DEF IInv
<1>. QED BY <1>1, Invariant, PTL

\* A sender that passed lockTransport sends through a transport nobody closes
\* before unlockTransport.
THEOREM GateHolderSafety == Spec => []GateHolderIsSafe
<1>1. IInv => GateHolderIsSafe
    BY DEF IInv, GateOwner, Lifecycle, GateHolderIsSafe
<1>. QED BY <1>1, Invariant, PTL

\* The join with the threads of the old transport never holds the gate.
THEOREM GateFreeInJoin == Spec => []JoinsWithoutGate
<1>1. IInv => JoinsWithoutGate
    BY DEF IInv, GateOwner, JoinsWithoutGate
<1>. QED BY <1>1, Invariant, PTL

\* The upper layer hears of the end of the session that switchTo or reopen
\* ended before the operation returns.
THEOREM OldSessionEnds == Spec => []EndsOldSession
<1>1. IInv => EndsOldSession
    BY DEF IInv, EndUnderWay, EndsOldSession
<1>. QED BY <1>1, Invariant, PTL

\* No callback and no buffered connection of a closed transport reaches the
\* upper layer after a switch.
THEOREM NothingFromClosedTransports == Spec => []NothingFromClosed
<1>1. IInv => NothingFromClosed
    BY DEF IInv, Callbacks, BufferIsFresh, ConnectsFrom, Sound, NothingFromClosed
<1>. QED BY <1>1, Invariant, PTL

\* shutdown() is final: nothing is told to the upper layer after it.
THEOREM ShutdownIsFinal == Spec => SilentAfterShutdown
<1>1. IInv /\ [Next]_vars => [pc = "shut" => UNCHANGED heard]_vars
  <2> SUFFICES ASSUME IInv, [Next]_vars, pc = "shut" PROVE UNCHANGED heard
    OBVIOUS
  <2>1. \A t \in Transports : inflight[t] = NoCallback
    BY DEF IInv, Lifecycle, Callbacks, None
  <2>2. \A t \in Transports : ~CallUpper(t)
    BY <2>1 DEF CallUpper, At, NoCallback
  <2>3. ASSUME Next PROVE UNCHANGED heard
    BY <2>2, <2>3
       DEF Next, OpenBegin, ReopenBegin, CloseBegin, ShutdownBegin, SwitchBegin, Detach,
           AdoptBegin, AdoptRefused, AdoptAttach, Join, Clear, CreateFails, OpenFails, Opens,
           Settle, TakePending, FlushState, Return, Report, CheckGeneration, CheckWindow,
           PushPending, LockTransport, UnlockTransport, upperVars
  <2>. QED BY <2>3 DEF vars, upperVars
<1>. QED BY <1>1, Invariant, PTL DEF Spec, SilentAfterShutdown

-----------------------------------------------------------------------------
(* The UART transport of the device.                                       *)

\* driverMutex_ is the manager's in open() until the task is published, and in close()
\* until the driver is deleted or leaked.
MutexOfManager ==
    /\ uMutex \in {"free", "manager"} \cup UartSenders
    /\ uMutex = "manager" <=> uManager \in {"install", "task", "publish", "stop", "join", "delete"}

\* opened_ lets a thread send only between the publishing and the beginning of close().
SendersInOpen ==
    /\ uOpened => uManager \in {"announce", "open"}
    /\ uMutex \in UartSenders => uManager \in {"announce", "open"}
    /\ uManager \in {"task", "publish", "announce", "open", "stop", "join", "delete"} => uDriver

\* The RX task, as long as it may read, has its handle and the driver; close() is past
\* its join only if it has ended or was given up with all it uses.
Reading == {"top", "read", "unlink"}
ReaderHasDriver ==
    /\ uRx \in Reading => /\ uDriver /\ uTask
                          /\ uManager \in {"publish", "announce", "open", "stop", "join", "closed"}
    /\ uDone => uRx \notin Reading
    /\ uManager \in {"new", "install", "task"} => uRx = "none" /\ ~uDone

UartInv == MutexOfManager /\ SendersInOpen /\ ReaderHasDriver

LEMMA UartInitial == UartInit => UartInv
BY UartBounds DEF UartInit, UartInv, MutexOfManager, SendersInOpen, ReaderHasDriver, Reading

LEMMA UartPreserved == UartInv /\ [UartNext]_uVars => UartInv'
<1> SUFFICES ASSUME UartInv, [UartNext]_uVars PROVE UartInv'
    OBVIOUS
<1> USE UartBounds DEF UartInv, MutexOfManager, SendersInOpen, ReaderHasDriver, Reading, UartStep,
        uRest, uManaged
<1>1. CASE UartOpens BY <1>1 DEF UartOpens
<1>2. CASE UartInstalls BY <1>2 DEF UartInstalls
<1>3. CASE UartOpenFails BY <1>3 DEF UartOpenFails
<1>4. CASE UartCreatesTask BY <1>4 DEF UartCreatesTask
<1>5. CASE UartPublishes BY <1>5 DEF UartPublishes
<1>6. CASE UartAnnounces BY <1>6 DEF UartAnnounces
<1>7. CASE UartStops BY <1>7 DEF UartStops
<1>8. CASE UartNotifies BY <1>8 DEF UartNotifies
<1>9. CASE UartJoins BY <1>9 DEF UartJoins
<1>10. CASE UartJoinTimesOut BY <1>10 DEF UartJoinTimesOut
<1>11. CASE UartDeletes BY <1>11 DEF UartDeletes
<1>12. CASE UartTellsClosed BY <1>12 DEF UartTellsClosed
<1>13. CASE UartRxTurns BY <1>13 DEF UartRxTurns
<1>14. CASE UartReads BY <1>14 DEF UartReads
<1>15. CASE UartReadFails BY <1>15 DEF UartReadFails
<1>16. CASE UartRxUnlinks BY <1>16 DEF UartRxUnlinks
<1>17. CASE UartRxGives BY <1>17 DEF UartRxGives
<1>18. ASSUME NEW s \in UartSenders, UartSendBegins(s) PROVE UartInv'
       BY <1>18 DEF UartSendBegins
<1>19. ASSUME NEW s \in UartSenders, UartSendEnds(s) PROVE UartInv'
       BY <1>19 DEF UartSendEnds
<1>20. CASE UNCHANGED uVars BY <1>20 DEF uVars
<1> QED
    BY <1>1, <1>2, <1>3, <1>4, <1>5, <1>6, <1>7, <1>8, <1>9, <1>10, <1>11, <1>12, <1>13, <1>14,
       <1>15, <1>16, <1>17, <1>18, <1>19, <1>20 DEF UartNext

\* The driver is there for the RX task and for every thread that sends, whatever fails
\* (UartTransport::open, close, rxTaskLoop).
THEOREM DriverIsSafe == UartSpec => []DriverOutlivesUsers
<1>1. UartInv => DriverOutlivesUsers
    BY UartBounds DEF UartInv, MutexOfManager, SendersInOpen, ReaderHasDriver, Reading,
       DriverOutlivesUsers
<1> QED BY <1>1, UartInitial, UartPreserved, PTL DEF UartSpec

-----------------------------------------------------------------------------
(* The TCP worker of the host.                                             *)

Adopting == {"adopt", "settle"}

\* A connection that is reported lost is lost: connected_ is not set again before the
\* next device.
LostIsLost ==
    /\ hRx \in {"tell", "call"} => ~hConnected
    /\ hMissed /\ hWorker \in Adopting => ~hConnected
    /\ hWorker \in {"announce", "look"} => ~hMissed
    /\ hWorker \in {"fatal", "call"} => ~hConnected
    /\ hWorker \in {"look", "pump"} \cup Adopting /\ hConnected => hState = "connected"
    /\ hWorker \in {"settle", "pump", "fatal", "call"} => hCallbacks

\* What the manager buffered cannot leave the worker with a lost link, and a state that
\* was already set has its report under way.
ReportUnderWay ==
    /\ hMissed /\ hWorker \in {"pump", "fatal"} => transportState # "connected"
    /\ hWorker \in {"pump", "fatal"} /\ transportState = "connected" /\ hState = "disconnected"
          => hRx = "call"

HostTcpInv == LostIsLost /\ ReportUnderWay /\ LossIsNoticed

LEMMA HostTcpInitial == HostTcpInit => HostTcpInv
BY DEF HostTcpInit, HostTcpInv, LostIsLost, ReportUnderWay, LossIsNoticed, Adopting

LEMMA HostTcpPreserved == HostTcpInv /\ [HostTcpNext]_hVars => HostTcpInv'
<1> SUFFICES ASSUME HostTcpInv, [HostTcpNext]_hVars PROVE HostTcpInv'
    OBVIOUS
<1> USE DEF HostTcpInv, LostIsLost, ReportUnderWay, LossIsNoticed, Adopting, Worker, Rx, hLink,
        hRest
<1>1. CASE Accepts BY <1>1 DEF Accepts
<1>2. CASE AcceptFails BY <1>2 DEF AcceptFails
<1>3. CASE AcceptCancelled BY <1>3 DEF AcceptCancelled
<1>4. CASE Announces BY <1>4 DEF Announces
<1>5. CASE AdoptLooks BY <1>5 DEF AdoptLooks
<1>6. CASE AdoptAttaches BY <1>6 DEF AdoptAttaches
<1>7. CASE Settles BY <1>7 DEF Settles
<1>8. CASE PumpEnds BY <1>8 DEF PumpEnds
<1>9. CASE SendFatal BY <1>9 DEF SendFatal
<1>10. CASE FatalTells BY <1>10 DEF FatalTells, SetsDisconnected, NeedsCall
<1>11. CASE FatalCalls BY <1>11 DEF FatalCalls
<1>12. CASE Closes BY <1>12 DEF Closes
<1>13. CASE Joins BY <1>13 DEF Joins
<1>14. CASE TellsClosed BY <1>14 DEF TellsClosed, SetsDisconnected, NeedsCall
<1>15. CASE HostRxTurns BY <1>15 DEF HostRxTurns
<1>16. CASE RxReceives BY <1>16 DEF RxReceives
<1>17. CASE RxFinds BY <1>17 DEF RxFinds
<1>18. CASE RxDrops BY <1>18 DEF RxDrops
<1>19. CASE RxTells BY <1>19 DEF RxTells, SetsDisconnected, NeedsCall
<1>20. CASE RxCalls BY <1>20 DEF RxCalls
<1>21. CASE PeerHangsUp BY <1>21 DEF PeerHangsUp
<1>22. CASE StopsWorker BY <1>22 DEF StopsWorker
<1>23. CASE UNCHANGED hVars BY <1>23 DEF hVars
<1> QED
    BY <1>1, <1>2, <1>3, <1>4, <1>5, <1>6, <1>7, <1>8, <1>9, <1>10, <1>11, <1>12, <1>13,
       <1>14, <1>15, <1>16, <1>17, <1>18, <1>19, <1>20, <1>21, <1>22, <1>23 DEF HostTcpNext

\* The worker never pumps a lost link that nobody is about to report
\* (HostTcpTransport::setState, SerialWorker::runLoopTcp).
THEOREM LostDeviceIsNoticed == HostTcpSpec => []LossIsNoticed
<1>1. HostTcpInv => LossIsNoticed BY DEF HostTcpInv
<1> QED BY <1>1, HostTcpInitial, HostTcpPreserved, PTL DEF HostTcpSpec

-----------------------------------------------------------------------------
(* The TCP transport of the device.                                        *)

Busy == {"start", "top", "select", "stale", "unlink"}

\* A transport runs from open() to close(), and leaks only at its end.
TcpPhases ==
    /\ tcpRunning => closer = "open" /\ linkTask
    /\ closer \in {"new", "failed"} => link = "none" /\ rx = "none" /\ taskExit = 0
    /\ leaked => closer = "closed"
    /\ rx \in Busy \cup {"none", "give"}
    /\ closer \in {"new", "open", "join", "rejoin", "deinit", "closed", "failed"}

\* As long as the link task ends first, the semaphore counts its exit before that of the
\* RX task: close() takes each for what it is.
ExitsCounted ==
    /\ taskExit \in Nat
    /\ rx \in Busy => rxTask
    /\ link # "none" => taskExit = 0
    /\ closer \in {"open", "join"} /\ rx # "none" => taskExit <= 1
    /\ closer = "rejoin" /\ rx # "none" => taskExit = 0
    /\ closer \in {"rejoin", "deinit"} => link = "none"
    /\ closer = "deinit" => rx \in {"none", "give"}
    /\ closer = "closed" /\ ~leaked => link = "none" /\ rx \in {"none", "give"}

TcpInv == TcpPhases /\ (~rxFirst => ExitsCounted)

LEMMA TcpInitial == TcpInit => TcpInv
BY DEF TcpInit, TcpInv, TcpPhases, ExitsCounted, Busy

LEMMA ClosingPreserved ==
    ASSUME TcpInv,
           OpenTcp \/ OpenTcpFails \/ CloseTcp \/ JoinLink \/ JoinRx \/ JoinTimesOut \/ DeinitWifi
    PROVE  TcpInv'
<1> USE DEF TcpInv, TcpPhases, ExitsCounted, Busy, tcpBoundVars, tcpLinkVars, rxVars
<1>1. CASE OpenTcp BY <1>1 DEF OpenTcp
<1>2. CASE OpenTcpFails BY <1>2 DEF OpenTcpFails
<1>3. CASE CloseTcp BY <1>3 DEF CloseTcp
<1>4. CASE JoinLink BY <1>4 DEF JoinLink
<1>5. CASE JoinRx BY <1>5 DEF JoinRx
<1>6. CASE JoinTimesOut BY <1>6 DEF JoinTimesOut
<1>7. CASE DeinitWifi BY <1>7 DEF DeinitWifi
<1> QED BY <1>1, <1>2, <1>3, <1>4, <1>5, <1>6, <1>7

LEMMA LinkPreserved == ASSUME TcpInv, LinkLoop PROVE TcpInv'
<1> USE DEF TcpInv, TcpPhases, ExitsCounted, Busy, tcpBoundVars, tcpLinkVars, rxVars, LinkAt,
        CloseSocket
<1>1. CASE LinkTurns BY <1>1 DEF LinkTurns
<1>2. CASE LinkConnecting BY <1>2 DEF LinkConnecting
<1>3. CASE LinkHasIp BY <1>3 DEF LinkHasIp
<1>4. CASE LinkStartsWifi BY <1>4 DEF LinkStartsWifi
<1>5. CASE WaitForIp BY <1>5 DEF WaitForIp
<1>6. CASE ConnectOnce BY <1>6 DEF ConnectOnce
<1>7. CASE ConnectFails BY <1>7 DEF ConnectFails
<1>8. CASE PublishSocket BY <1>8 DEF PublishSocket
<1>9. CASE StartRx BY <1>9 DEF StartRx
<1>10. CASE StartRxFails BY <1>10 DEF StartRxFails
<1>11. CASE Recheck BY <1>11 DEF Recheck
<1>12. CASE Announce BY <1>12 DEF Announce
<1>13. CASE Watch BY <1>13 DEF Watch
<1>14. CASE Drop BY <1>14 DEF Drop
<1>15. CASE Decide BY <1>15 DEF Decide
<1>16. CASE TellLost BY <1>16 DEF TellLost
<1>17. CASE Backoff BY <1>17 DEF Backoff
<1>18. CASE LinkExits BY <1>18 DEF LinkExits
<1>19. CASE LinkUnlinks BY <1>19 DEF LinkUnlinks
<1>20. CASE LinkGives BY <1>20 DEF LinkGives
<1> QED
    BY <1>1, <1>2, <1>3, <1>4, <1>5, <1>6, <1>7, <1>8, <1>9, <1>10, <1>11, <1>12, <1>13,
       <1>14, <1>15, <1>16, <1>17, <1>18, <1>19, <1>20 DEF LinkLoop

LEMMA RxPreserved == ASSUME TcpInv, RxLoop PROVE TcpInv'
<1> USE DEF TcpInv, TcpPhases, ExitsCounted, Busy, tcpBoundVars, tcpLinkVars, rxVars, RxAt
<1>1. CASE RxStarts BY <1>1 DEF RxStarts
<1>2. CASE RxStarves BY <1>2 DEF RxStarves
<1>3. CASE RxTurns BY <1>3 DEF RxTurns
<1>4. CASE RxReads BY <1>4 DEF RxReads
<1>5. CASE RxLoses BY <1>5 DEF RxLoses
<1>6. CASE RxFindsClosed BY <1>6 DEF RxFindsClosed
<1>7. CASE RxUnlinks BY <1>7 DEF RxUnlinks
<1>8. CASE RxGives
  <2>1. rxFirst' = (rxFirst \/ link # "none") BY <1>8 DEF RxGives
  <2>2. ~rxFirst' => ~rxFirst /\ link = "none" BY <2>1, Zenon
  <2>3. TcpPhases' BY <1>8 DEF RxGives
  <2>4. ~rxFirst' => ExitsCounted' BY <1>8, <2>2 DEF RxGives
  <2> QED BY <2>3, <2>4
<1> QED BY <1>1, <1>2, <1>3, <1>4, <1>5, <1>6, <1>7, <1>8 DEF RxLoop

LEMMA TcpPreserved == TcpInv /\ [TcpNext]_tcpVars => TcpInv'
<1> SUFFICES ASSUME TcpInv, [TcpNext]_tcpVars PROVE TcpInv'
    OBVIOUS
<1> USE DEF tcpBoundVars, tcpLinkVars, rxVars
<1>1. CASE SendFails
      BY <1>1 DEF SendFails, TcpInv, TcpPhases, ExitsCounted
<1>2. CASE PeerLeaves
      BY <1>2 DEF PeerLeaves, TcpInv, TcpPhases, ExitsCounted
<1>3. CASE UNCHANGED tcpOnly
      BY <1>3 DEF tcpOnly, TcpInv, TcpPhases, ExitsCounted
<1>4. CASE UNCHANGED tcpVars
      BY <1>4 DEF tcpVars, TcpInv, TcpPhases, ExitsCounted
<1> QED
    BY <1>1, <1>2, <1>3, <1>4, ClosingPreserved, LinkPreserved, RxPreserved
    DEF TcpNext, StationTask, StationMoves

\* If the RX task does not end before the link task, close() without a leak has waited
\* for both (TcpTransport::close, linkLoop, rxLoop).
THEOREM CloseWaits == TcpSpec => []ClosedTasksGone
<1>1. TcpInv => ClosedTasksGone BY DEF TcpInv, ExitsCounted, ClosedTasksGone
<1> QED BY <1>1, TcpInitial, TcpPreserved, PTL DEF TcpSpec

-----------------------------------------------------------------------------
(* A connection is read.                                                   *)

\* The RX task does not leave a transport that runs, unless it found no memory; so a
\* connection that got its task keeps it until the socket is given up.
LinkIsRead ==
    /\ tcpRunning => closer = "open"
    /\ closer = "new" => link = "none" /\ rx = "none"
    /\ rx \in {"unlink", "give"} /\ ~starved => ~tcpRunning
    /\ tcpRunning /\ link \in {"recheck", "announce", "watch"} /\ connected /\ ~starved => rxTask

LEMMA LinkReadInitial == TcpInit => LinkIsRead
BY DEF TcpInit, LinkIsRead

LEMMA LinkKeepsReader == ASSUME LinkIsRead, LinkLoop PROVE LinkIsRead'
<1> USE DEF LinkIsRead, tcpBoundVars, tcpLinkVars, rxVars, sockVars, LinkAt, CloseSocket, Quiet
<1>1. CASE LinkTurns BY <1>1 DEF LinkTurns
<1>2. CASE LinkConnecting BY <1>2 DEF LinkConnecting
<1>3. CASE LinkHasIp BY <1>3 DEF LinkHasIp
<1>4. CASE LinkStartsWifi BY <1>4 DEF LinkStartsWifi
<1>5. CASE WaitForIp BY <1>5 DEF WaitForIp
<1>6. CASE ConnectOnce BY <1>6 DEF ConnectOnce
<1>7. CASE ConnectFails BY <1>7 DEF ConnectFails
<1>8. CASE PublishSocket BY <1>8 DEF PublishSocket
<1>9. CASE StartRx BY <1>9 DEF StartRx
<1>10. CASE StartRxFails BY <1>10 DEF StartRxFails
<1>11. CASE Recheck BY <1>11 DEF Recheck
<1>12. CASE Announce BY <1>12 DEF Announce
<1>13. CASE Watch BY <1>13 DEF Watch
<1>14. CASE Drop BY <1>14 DEF Drop
<1>15. CASE Decide BY <1>15 DEF Decide
<1>16. CASE TellLost BY <1>16 DEF TellLost
<1>17. CASE Backoff BY <1>17 DEF Backoff
<1>18. CASE LinkExits BY <1>18 DEF LinkExits
<1>19. CASE LinkUnlinks BY <1>19 DEF LinkUnlinks
<1>20. CASE LinkGives BY <1>20 DEF LinkGives
<1> QED
    BY <1>1, <1>2, <1>3, <1>4, <1>5, <1>6, <1>7, <1>8, <1>9, <1>10, <1>11, <1>12, <1>13,
       <1>14, <1>15, <1>16, <1>17, <1>18, <1>19, <1>20 DEF LinkLoop

LEMMA LinkReadPreserved == LinkIsRead /\ [TcpNext]_tcpVars => LinkIsRead'
<1> SUFFICES ASSUME LinkIsRead, [TcpNext]_tcpVars PROVE LinkIsRead'
    OBVIOUS
<1> USE DEF LinkIsRead, tcpBoundVars, tcpLinkVars, rxVars, sockVars, RxAt
<1>1. CASE OpenTcp BY <1>1 DEF OpenTcp
<1>2. CASE OpenTcpFails BY <1>2 DEF OpenTcpFails
<1>3. CASE CloseTcp BY <1>3 DEF CloseTcp
<1>4. CASE JoinLink BY <1>4 DEF JoinLink
<1>5. CASE JoinRx BY <1>5 DEF JoinRx
<1>6. CASE JoinTimesOut BY <1>6 DEF JoinTimesOut
<1>7. CASE DeinitWifi BY <1>7 DEF DeinitWifi
<1>8. CASE RxStarts BY <1>8 DEF RxStarts
<1>9. CASE RxStarves BY <1>9 DEF RxStarves
<1>10. CASE RxTurns BY <1>10 DEF RxTurns
<1>11. CASE RxReads BY <1>11 DEF RxReads
<1>12. CASE RxLoses BY <1>12 DEF RxLoses
<1>13. CASE RxFindsClosed
  <2>1. connected' \in {connected, FALSE} BY <1>13 DEF RxFindsClosed
  <2>2. connected' => connected BY <2>1, Zenon
  <2> QED BY <1>13, <2>2 DEF RxFindsClosed
<1>14. CASE RxUnlinks BY <1>14 DEF RxUnlinks
<1>15. CASE RxGives BY <1>15 DEF RxGives
<1>16. CASE SendFails BY <1>16 DEF SendFails
<1>17. CASE PeerLeaves BY <1>17 DEF PeerLeaves
<1>18. CASE UNCHANGED tcpOnly BY <1>18 DEF tcpOnly
<1>19. CASE UNCHANGED tcpVars BY <1>19 DEF tcpVars
<1> QED
    BY <1>1, <1>2, <1>3, <1>4, <1>5, <1>6, <1>7, <1>8, <1>9, <1>10, <1>11, <1>12, <1>13,
       <1>14, <1>15, <1>16, <1>17, <1>18, <1>19, LinkKeepsReader
    DEF TcpNext, RxLoop, StationTask, StationMoves

\* The thread of a port that was told to be connected ends with an error, or when it is
\* told to stop.
PortIsRead ==
    /\ pManager \in {"announce", "thread", "open"} => ~pStop
    /\ PortConnectedIsRead

LEMMA PortReadInitial == PortInit => PortIsRead
BY DEF PortInit, PortIsRead, PortConnectedIsRead

LEMMA PortReadPreserved == PortIsRead /\ [PortNext]_pVars => PortIsRead'
<1> SUFFICES ASSUME PortIsRead, [PortNext]_pVars PROVE PortIsRead'
    OBVIOUS
<1> USE DEF PortIsRead, PortConnectedIsRead, PortStep
<1>1. CASE PortOpens BY <1>1 DEF PortOpens
<1>2. CASE PortOpenFails BY <1>2 DEF PortOpenFails
<1>3. CASE PortConfigured BY <1>3 DEF PortConfigured
<1>4. CASE PortAnnounces BY <1>4 DEF PortAnnounces
<1>5. CASE PortStartsThread BY <1>5 DEF PortStartsThread
<1>6. CASE PortThreadFails BY <1>6 DEF PortThreadFails
<1>7. CASE PortStops BY <1>7 DEF PortStops
<1>8. CASE PortJoins BY <1>8 DEF PortJoins
<1>9. CASE PortCloses BY <1>9 DEF PortCloses
<1>10. CASE PortTellsClosed BY <1>10 DEF PortTellsClosed
<1>11. CASE PortRxTurns BY <1>11 DEF PortRxTurns
<1>12. CASE PortReads BY <1>12 DEF PortReads
<1>13. CASE PortReadFails BY <1>13 DEF PortReadFails
<1>14. ASSUME NEW s \in PortSenders, PortSendBegins(s) PROVE PortIsRead'
  BY <1>14 DEF PortSendBegins
<1>15. CASE PortSendEnds BY <1>15 DEF PortSendEnds
<1>16. CASE PortSendFails BY <1>16 DEF PortSendFails
<1>17. CASE PortTellsError BY <1>17 DEF PortTellsError
<1>18. CASE UNCHANGED pVars BY <1>18 DEF pVars
<1> QED
    BY <1>1, <1>2, <1>3, <1>4, <1>5, <1>6, <1>7, <1>8, <1>9, <1>10, <1>11, <1>12, <1>13,
       <1>14, <1>15, <1>16, <1>17, <1>18 DEF PortNext

\* Whatever a transport has told to be connected is read, on the device unless its RX task
\* found no memory (TcpTransport::rxLoop, SerialTransport::rxLoop).
THEOREM ConnectedTransportsAreRead == PartsSpec => []ConnectedIsRead
<1>1. PartsInit => LinkIsRead /\ PortIsRead
  BY LinkReadInitial, PortReadInitial DEF PartsInit
<1>2. LinkIsRead /\ PortIsRead /\ [PartsNext]_allVars => (LinkIsRead /\ PortIsRead)'
  <2> SUFFICES ASSUME LinkIsRead, PortIsRead, [PartsNext]_allVars
               PROVE  LinkIsRead' /\ PortIsRead'
    OBVIOUS
  <2>1. [TcpNext]_tcpVars /\ [PortNext]_pVars
    BY DEF PartsNext, OfManager, OfTcp, OfUart, OfHostTcp, OfHostUart, OfWizard, allVars
  <2> QED BY <2>1, LinkReadPreserved, PortReadPreserved
<1>3. LinkIsRead /\ PortIsRead => ConnectedIsRead
  BY DEF LinkIsRead, PortIsRead, ConnectedIsRead, AliveIsRead
<1> QED BY <1>1, <1>2, <1>3, PTL DEF PartsSpec

=============================================================================

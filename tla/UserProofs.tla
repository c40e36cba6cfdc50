------------------------------ MODULE UserProofs -------------------------------
(***************************************************************************)
(* What the user does, on its way to the device.  Mouse and keyboard, for   *)
(* any number of acts, faults and sessions and queues of any size: LVGL    *)
(* sees every press, a session that ended leaves nothing pressed, and the  *)
(* device holds what the user holds.  And the Wi-Fi wizard, for any number *)
(* of pages, answers and signals: every wait has a watchdog, and Done was  *)
(* earned by a frame.                                                      *)
(***************************************************************************)
EXTENDS InputPath, Wizard, SequenceLemmas, TLAPS

\* A press that LVGL has not read is held by the adapter: for as many polls as are due
\* when the button is up again, for as long as it is down otherwise.
PressIsHeld ==
    unseen => IF releasePending THEN holdReadsLeft > 0 ELSE leftPressed /\ buttons

HoldTyped == holdReadsLeft \in Nat

\* Between the two resets of a session's end the manager holds nothing, but for an event
\* that came in between.
ManagerEmptied ==
    ~deviceLinked /\ resetting = "adapter" /\ ~lateFeed => ~buttons /\ ~keys

InputInv == PressIsHeld /\ HoldTyped /\ ManagerEmptied /\ QuietWhenDown

LEMMA InputInitial == InputInit => InputInv
BY DEF InputInit, InputInv, PressIsHeld, HoldTyped, ManagerEmptied, QuietWhenDown

\* What the window, the worker and the wire do leaves the device alone.
LEMMA HostStepsKeepDevice ==
    ASSUME \/ CrossesEdge \/ MouseMoves \/ FlushesMove \/ PressesOrReleases \/ Wheels
           \/ TypesKey \/ RepeatsKey \/ Drains \/ SendsInput \/ InputDamaged \/ HostUnlinks \/ HostLinks
    PROVE  UNCHANGED deviceInput
BY DEF CrossesEdge, MouseMoves, FlushesMove, PressesOrReleases, Wheels, TypesKey,
       RepeatsKey, Drains, SendsInput, InputDamaged, HostUnlinks, HostLinks

LEMMA ResetsPreserve ==
    ASSUME InputInv, DeviceUnlinks \/ DeviceLinks \/ ResetsManager \/ ResetsAdapter
    PROVE  InputInv'
<1> USE DEF InputInv, PressIsHeld, HoldTyped, ManagerEmptied, QuietWhenDown, managerVars, adapterVars
<1>1. CASE DeviceUnlinks BY <1>1 DEF DeviceUnlinks
<1>2. CASE DeviceLinks BY <1>2 DEF DeviceLinks
<1>3. CASE ResetsManager BY <1>3, InputBounds DEF ResetsManager, PointerUp
<1>4. CASE ResetsAdapter BY <1>4 DEF ResetsAdapter, ClearAdapter
<1> QED BY <1>1, <1>2, <1>3, <1>4

\* An event that is fed without a session is late, so that only what LVGL is shown counts.
LEMMA FeedPreserves == ASSUME InputInv, FeedsInput PROVE InputInv'
<1> DEFINE e == rxInput[1]
<1>1. lateFeed' = ~deviceLinked /\ UNCHANGED <<deviceLinked, resetting>> BY DEF FeedsInput
<1>2. ManagerEmptied' /\ QuietWhenDown' BY <1>1 DEF ManagerEmptied, QuietWhenDown
<1>3. PressIsHeld' /\ HoldTyped'
  <2> USE DEF InputInv, PressIsHeld, HoldTyped
  <2>1. CASE ApplyMove(e.down)
    BY <2>1, InputBounds DEF ApplyMove, PointerDown, PointerUp, PointerMoves
  <2>2. CASE ApplyWheel(e.down)
    BY <2>2 DEF ApplyWheel
  <2>3. CASE UNCHANGED <<buttons, unseen, leftPressed, releasePending, holdReadsLeft>>
    BY <2>3
  <2> QED BY <2>1, <2>2, <2>3 DEF FeedsInput
<1> QED BY <1>2, <1>3 DEF InputInv

LEMMA PollsPreserve == ASSUME InputInv, LvglReadsPointer \/ LvglReadsKey PROVE InputInv'
<1> USE DEF InputInv, PressIsHeld, HoldTyped, ManagerEmptied, QuietWhenDown, managerVars
<1>1. CASE LvglReadsPointer
  <2>1. unseen' = (unseen /\ ~ShownPressed) BY <1>1 DEF LvglReadsPointer
  <2>2. ~unseen' BY <2>1 DEF ShownPressed
  <2> QED BY <1>1, <2>2 DEF LvglReadsPointer
<1>2. CASE LvglReadsKey BY <1>2 DEF LvglReadsKey
<1> QED BY <1>1, <1>2

LEMMA ReceivePreserves == ASSUME InputInv, ReceivesInput PROVE InputInv'
BY DEF ReceivesInput, InputInv, PressIsHeld, HoldTyped, ManagerEmptied, QuietWhenDown, managerVars,
       adapterVars

LEMMA InputInvariant == InputSpec => []InputInv
<1>1. ASSUME InputInv, [InputNext]_inputVars PROVE InputInv'
  <2>1. CASE UNCHANGED deviceInput
    BY <1>1, <2>1 DEF InputInv, PressIsHeld, HoldTyped, ManagerEmptied, QuietWhenDown, deviceInput,
                      managerVars, adapterVars
  <2>2. CASE InputNext
    BY <1>1, <2>1, <2>2, HostStepsKeepDevice, ResetsPreserve, FeedPreserves, PollsPreserve,
       ReceivePreserves DEF InputNext
  <2> QED BY <1>1, <2>1, <2>2 DEF inputVars
<1> QED BY InputInitial, <1>1, PTL DEF InputSpec

\* LvglInputAdapter shows LVGL every press it was told of until LVGL has polled it, for any
\* order of events, resets and polls.
THEOREM EveryPressIsSeen == InputSpec => []ClickIsSeen
<1>1. InputInv => ClickIsSeen BY DEF InputInv, PressIsHeld, ClickIsSeen, ShownPressed
<1> QED BY <1>1, InputInvariant, PTL

\* When a session of the device has ended and its callback has run, nothing is pressed and no
\* key waits, for any number of sessions, unless an event came after the reset.
THEOREM EndReleasesAll == InputSpec => []QuietWhenDown
<1>1. InputInv => QuietWhenDown BY DEF InputInv
<1> QED BY <1>1, InputInvariant, PTL

-----------------------------------------------------------------------------
(* The device holds pressed what the user does.                            *)

InputEvents == [of : {"mouse", "key"}, down : BOOLEAN, wheel : BOOLEAN]
EventQueue(q) == IsSeq(q) /\ \A i \in DOMAIN q : q[i] \in InputEvents

\* No event of a queue is of this kind, or the last of them says `down`.
Silent(q, kind) == \A i \in DOMAIN q : q[i].of # kind
Says(q, kind, down) ==
    \E i \in DOMAIN q :
        /\ q[i].of = kind /\ q[i].down = down
        /\ \A j \in DOMAIN q : j > i => q[j].of # kind

\* The last word under way is `down`; if there is none, that is what the device holds.
Told(kind, down, held) ==
    \/ Says(inputQueue, kind, down)
    \/ /\ Silent(inputQueue, kind)
       /\ \/ Says(batch, kind, down)
          \/ /\ Silent(batch, kind)
             /\ \/ Says(inputWire, kind, down)
                \/ /\ Silent(inputWire, kind)
                   /\ \/ Says(rxInput, kind, down)
                      \/ Silent(rxInput, kind) /\ held = down

QueuesTyped ==
    /\ EventQueue(inputQueue) /\ EventQueue(batch) /\ EventQueue(inputWire)
    /\ EventQueue(rxInput) /\ Len(rxInput) <= 1

PressesTyped ==
    /\ userLeft \in BOOLEAN /\ userKey \in BOOLEAN /\ keyRepeats \in BOOLEAN
    /\ buttons \in BOOLEAN /\ keys \in BOOLEAN
    /\ pending # <<>> => pending[1] \in BOOLEAN

FollowInv ==
    /\ QueuesTyped /\ PressesTyped
    /\ mouseOff = "no" => Told("mouse", userLeft, buttons)
    /\ ~keyOff => Told("key", KeyToldDown, keys)

LEMMA NoEvents ==
    ASSUME NEW q, q = <<>>
    PROVE  EventQueue(q) /\ \A kind, down : Silent(q, kind) /\ ~Says(q, kind, down)
<1>1. IsSeq(q) /\ Len(q) = 0 BY NothingIsSeq
<1>2. DOMAIN q = {} BY <1>1, SeqIndices
<1> QED BY <1>1, <1>2 DEF EventQueue, Silent, Says

LEMMA OneEvent ==
    ASSUME NEW e \in InputEvents, NEW q, q = <<e>>
    PROVE  /\ EventQueue(q) /\ Len(q) = 1
           /\ \A kind : IF e.of = kind THEN Says(q, kind, e.down) ELSE Silent(q, kind)
<1>1. IsSeq(q) /\ Len(q) = 1 /\ q[1] = e BY SingleSeq
<1>2. DOMAIN q = {1} BY <1>1, SeqIndices
<1> QED BY <1>1, <1>2 DEF EventQueue, Silent, Says

LEMMA EventAppended ==
    ASSUME NEW q, EventQueue(q), NEW e \in InputEvents, NEW r, r = Append(q, e)
    PROVE  /\ EventQueue(r)
           /\ \A kind : e.of = kind => Says(r, kind, e.down)
           /\ \A kind : e.of # kind => (Silent(q, kind) => Silent(r, kind))
           /\ \A kind, down : e.of # kind => (Says(q, kind, down) => Says(r, kind, down))
<1>1. /\ IsSeq(r) /\ DOMAIN r = DOMAIN q \cup {Len(q) + 1} /\ r[Len(q) + 1] = e
      /\ \A i \in DOMAIN q : r[i] = q[i]
  BY AppendKeeps DEF EventQueue
<1>2. Len(q) \in Nat /\ DOMAIN q = 1..Len(q) BY SeqIndices DEF EventQueue
<1>3. EventQueue(r) BY <1>1 DEF EventQueue
<1>4. ASSUME NEW kind, e.of = kind PROVE Says(r, kind, e.down)
  <2>1. Len(q) + 1 \in DOMAIN r BY <1>1
  <2>2. \A j \in DOMAIN r : ~(j > Len(q) + 1) BY <1>1, <1>2
  <2> QED BY <1>1, <1>4, <2>1, <2>2 DEF Says
<1>5. ASSUME NEW kind, e.of # kind, Silent(q, kind) PROVE Silent(r, kind)
  BY <1>1, <1>5 DEF Silent
<1>6. ASSUME NEW kind, NEW down, e.of # kind, Says(q, kind, down) PROVE Says(r, kind, down)
  <2>1. PICK i \in DOMAIN q : /\ q[i].of = kind /\ q[i].down = down
                              /\ \A j \in DOMAIN q : j > i => q[j].of # kind
    BY <1>6 DEF Says
  <2>2. i \in DOMAIN r /\ r[i].of = kind /\ r[i].down = down BY <1>1, <2>1
  <2>3. \A j \in DOMAIN r : j > i => r[j].of # kind BY <1>1, <1>6, <2>1
  <2> QED BY <2>2, <2>3 DEF Says
<1> QED BY <1>3, <1>4, <1>5, <1>6

LEMMA EventTaken ==
    ASSUME NEW q, EventQueue(q), q # <<>>, NEW e, e = Head(q), NEW r, r = Tail(q)
    PROVE  /\ EventQueue(r) /\ e \in InputEvents /\ e = q[1] /\ Len(r) = Len(q) - 1
           /\ \A kind : Silent(q, kind) => e.of # kind /\ Silent(r, kind)
           /\ \A kind, down : Says(q, kind, down) =>
                 Says(r, kind, down) \/ (Silent(r, kind) /\ e.of = kind /\ e.down = down)
<1>1. /\ IsSeq(r) /\ Len(r) = Len(q) - 1
      /\ \A i \in DOMAIN r : i + 1 \in DOMAIN q /\ r[i] = q[i + 1]
      /\ 1 \in DOMAIN q /\ e = q[1]
  BY TailKeeps DEF EventQueue
<1>2. Len(q) \in Nat /\ DOMAIN q = 1..Len(q) /\ DOMAIN r = 1..(Len(q) - 1)
  BY <1>1, SeqIndices DEF EventQueue
<1>3. EventQueue(r) /\ e \in InputEvents BY <1>1 DEF EventQueue
<1>4. ASSUME NEW kind, Silent(q, kind) PROVE e.of # kind /\ Silent(r, kind)
  BY <1>1, <1>4 DEF Silent
<1>5. ASSUME NEW kind, NEW down, Says(q, kind, down)
      PROVE  Says(r, kind, down) \/ (Silent(r, kind) /\ e.of = kind /\ e.down = down)
  <2>1. PICK i \in DOMAIN q : /\ q[i].of = kind /\ q[i].down = down
                              /\ \A j \in DOMAIN q : j > i => q[j].of # kind
    BY <1>5 DEF Says
  <2>2. \A j \in DOMAIN r : j + 1 > i => r[j].of # kind BY <1>1, <2>1
  <2>3. CASE i = 1
    <3>1. \A j \in DOMAIN r : r[j].of # kind BY <1>2, <2>2, <2>3
    <3> QED BY <1>1, <2>1, <2>3, <3>1 DEF Silent
  <2>4. CASE i # 1
    <3>1. i - 1 \in DOMAIN r /\ (i - 1) + 1 = i BY <1>2, <2>1, <2>4
    <3>2. r[i - 1] = q[i] BY <1>1, <3>1
    <3>3. \A j \in DOMAIN r : j > i - 1 => j + 1 > i BY <1>2, <3>1
    <3> QED BY <2>1, <2>2, <3>1, <3>2, <3>3 DEF Says
  <2> QED BY <2>3, <2>4
<1> QED BY <1>1, <1>3, <1>4, <1>5

LEMMA FollowInitial == InputInit => FollowInv
<1> SUFFICES ASSUME InputInit PROVE FollowInv OBVIOUS
<1>1. /\ EventQueue(inputQueue) /\ EventQueue(batch) /\ EventQueue(inputWire) /\ EventQueue(rxInput)
      /\ \A kind : /\ Silent(inputQueue, kind) /\ Silent(batch, kind) /\ Silent(inputWire, kind)
                   /\ Silent(rxInput, kind)
  BY NoEvents DEF InputInit
<1>2. Len(rxInput) <= 1 BY NothingIsSeq DEF InputInit
<1> QED BY <1>1, <1>2 DEF FollowInv, QueuesTyped, PressesTyped, Told, KeyToldDown, InputInit

\* The window sends an event, which says of the button or the key what the user holds down.
LEMMA SendFollows ==
    ASSUME FollowInv, NEW e \in InputEvents, SendInput(e),
           UNCHANGED <<batch, inputWire, rxInput, buttons, keys>>, PressesTyped',
           e.of = "mouse" => UNCHANGED <<userKey, keyRepeats>>,
           e.of = "key" => UNCHANGED userLeft /\ e.down = KeyToldDown'
    PROVE  FollowInv'
<1> USE DEF FollowInv
<1>1. CASE Len(inputQueue) >= InputQueueCap
  <2>1. UNCHANGED inputQueue BY <1>1 DEF SendInput, PushNewest
  <2>2. QueuesTyped' BY <2>1 DEF QueuesTyped
  <2>3. \A kind, down, held : Told(kind, down, held)' <=> Told(kind, down, held)
    BY <2>1 DEF Told
  <2>4. CASE e.of = "mouse"
    <3>1. mouseOff' = "lost" /\ UNCHANGED <<keyOff, KeyToldDown>> BY <1>1, <2>4 DEF SendInput, KeyToldDown
    <3> QED BY <2>2, <2>3, <3>1
  <2>5. CASE e.of = "key"
    <3>1. UNCHANGED <<mouseOff, userLeft>> BY <2>5 DEF SendInput
    <3>2. keyOff' BY <1>1, <2>5 DEF SendInput
    <3> QED BY <2>2, <2>3, <3>1, <3>2
  <2> QED BY <2>4, <2>5 DEF InputEvents
<1>2. CASE ~(Len(inputQueue) >= InputQueueCap)
  <2>1. inputQueue' = Append(inputQueue, e) BY <1>2 DEF SendInput, PushNewest
  <2>2. PICK r : r = Append(inputQueue, e) OBVIOUS
  <2>3. /\ EventQueue(r)
        /\ \A kind : e.of = kind => Says(r, kind, e.down)
        /\ \A kind : e.of # kind => (Silent(inputQueue, kind) => Silent(r, kind))
        /\ \A kind, down : e.of # kind => (Says(inputQueue, kind, down) => Says(r, kind, down))
    BY <2>2, EventAppended DEF QueuesTyped
  <2>4. QueuesTyped' BY <2>1, <2>2, <2>3 DEF QueuesTyped
  <2>5. \A kind, down, held : e.of # kind /\ Told(kind, down, held) => Told(kind, down, held)'
    BY <2>1, <2>2, <2>3 DEF Told
  <2>6. \A down, held : e.down = down => Told(e.of, down, held)' BY <2>1, <2>2, <2>3 DEF Told
  <2>7. CASE e.of = "mouse"
    <3>1. UNCHANGED <<keyOff, KeyToldDown>> BY <2>7 DEF SendInput, KeyToldDown
    <3>2. mouseOff' = (IF e.down # userLeft' THEN "stale" ELSE "no") BY <1>2, <2>7 DEF SendInput
    <3>3. mouseOff' = "no" => e.down = userLeft' BY <3>2, Zenon
    <3>4. mouseOff' = "no" => Told("mouse", userLeft, buttons)' BY <2>6, <2>7, <3>3
    <3>5. ~keyOff' => Told("key", KeyToldDown, keys)' BY <2>5, <2>7, <3>1
    <3> QED BY <2>4, <3>4, <3>5
  <2>8. CASE e.of = "key"
    <3>1. UNCHANGED <<mouseOff, userLeft>> BY <2>8 DEF SendInput
    <3>2. Told("key", KeyToldDown, keys)' BY <2>6, <2>8
    <3>3. mouseOff' = "no" => Told("mouse", userLeft, buttons)' BY <2>5, <2>8, <3>1
    <3> QED BY <2>4, <3>2, <3>3
  <2> QED BY <2>7, <2>8 DEF InputEvents
<1> QED BY <1>1, <1>2

LEMMA WindowFollows ==
    ASSUME FollowInv,
           CrossesEdge \/ MouseMoves \/ FlushesMove \/ PressesOrReleases \/ Wheels
           \/ TypesKey \/ RepeatsKey
    PROVE  FollowInv'
<1> USE DEF FollowInv, PressesTyped, deviceInput, managerVars, offVars, workerVars
<1>0. ASSUME UNCHANGED <<userKey, keyRepeats>> PROVE UNCHANGED KeyToldDown
  BY <1>0 DEF KeyToldDown
<1>1. ASSUME UNCHANGED <<inputQueue, batch, inputWire, rxInput>>
      PROVE  QueuesTyped' /\ \A kind, down, held : Told(kind, down, held)' <=> Told(kind, down, held)
  BY <1>1 DEF QueuesTyped, Told
<1>2. \A left, wheel \in BOOLEAN :
          /\ MouseEvent(left, wheel) \in InputEvents /\ MouseEvent(left, wheel).of = "mouse"
          /\ KeyEvent(left) \in InputEvents /\ KeyEvent(left).of = "key"
          /\ KeyEvent(left).down = left
  BY DEF MouseEvent, KeyEvent, InputEvents
<1> USE <1>0
<1>3. CASE CrossesEdge BY <1>1, <1>3 DEF CrossesEdge
<1>4. CASE MouseMoves
  <2>1. CASE SendInput(MouseEvent(userLeft, FALSE)) /\ pending' = <<>>
    BY <1>2, <1>4, <2>1, SendFollows DEF MouseMoves
  <2>2. CASE pending' = <<userLeft>> /\ UNCHANGED <<inputQueue, offVars>>
    BY <1>1, <1>4, <2>2 DEF MouseMoves
  <2> QED BY <1>4, <2>1, <2>2 DEF MouseMoves
<1>5. CASE FlushesMove BY <1>2, <1>5, SendFollows DEF FlushesMove, userVars
<1>6. CASE PressesOrReleases
  <2>1. CASE over BY <1>2, <1>6, <2>1, SendFollows DEF PressesOrReleases
  <2>2. CASE ~over BY <1>1, <1>6, <2>2 DEF PressesOrReleases
  <2> QED BY <2>1, <2>2
<1>7. CASE Wheels BY <1>2, <1>7, SendFollows DEF Wheels
<1>8. CASE TypesKey
  <2>1. KeyToldDown' = ~userKey BY <1>8 DEF TypesKey, KeyToldDown
  <2> QED BY <1>2, <1>8, <2>1, SendFollows DEF TypesKey
<1>9. CASE RepeatsKey
  <2>1. KeyToldDown' = FALSE BY <1>9 DEF RepeatsKey, KeyToldDown
  <2> QED BY <1>2, <1>9, <2>1, SendFollows DEF RepeatsKey
<1> QED BY <1>3, <1>4, <1>5, <1>6, <1>7, <1>8, <1>9

\* An event that is lost takes no word with it that it is not known of.
LEMMA LossFollows ==
    ASSUME FollowInv, QueuesTyped', NEW e \in InputEvents, InputLost(e),
           UNCHANGED <<userVars, pending, managerVars>>,
           \A kind, down, held : e.of # kind /\ Told(kind, down, held) => Told(kind, down, held)'
    PROVE  FollowInv'
<1> USE DEF FollowInv, KeyToldDown, userVars, managerVars
<1>1. PressesTyped' BY DEF PressesTyped
<1>2. CASE e.of = "mouse"
  <2>1. mouseOff' = "lost" BY <1>2 DEF InputLost
  <2>3. ~keyOff' => ~keyOff BY Zenon DEF InputLost
  <2> QED BY <1>1, <1>2, <2>1, <2>3
<1>3. CASE e.of = "key"
  <2>1. mouseOff' = mouseOff BY <1>3 DEF InputLost
  <2>2. keyOff' BY <1>3, Zenon DEF InputLost
  <2> QED BY <1>1, <1>3, <2>1, <2>2
<1> QED BY <1>2, <1>3 DEF InputEvents

\* Nothing but the place of events changes.
LEMMA MoveFollows ==
    ASSUME FollowInv, QueuesTyped', UNCHANGED <<userVars, pending, managerVars, offVars>>,
           \A kind, down, held : Told(kind, down, held) => Told(kind, down, held)'
    PROVE  FollowInv'
BY DEF FollowInv, PressesTyped, KeyToldDown, userVars, managerVars, offVars

LEMMA WorkerFollows ==
    ASSUME FollowInv,
           Drains \/ SendsInput \/ InputDamaged \/ HostUnlinks \/ HostLinks \/ ReceivesInput
    PROVE  FollowInv'
<1> USE DEF deviceInput
<1>1. QueuesTyped BY DEF FollowInv
<1>2. CASE Drains
  <2>1. batch = <<>> /\ inputQueue' = <<>> /\ batch' = inputQueue BY <1>2 DEF Drains
  <2>2. PICK n : n = <<>> OBVIOUS
  <2>3. EventQueue(n) /\ \A kind, down : Silent(n, kind) /\ ~Says(n, kind, down)
    BY <2>2, NoEvents
  <2>4. UNCHANGED <<inputWire, rxInput>> BY <1>2 DEF Drains
  <2>5. QueuesTyped' BY <1>1, <2>1, <2>2, <2>3, <2>4 DEF QueuesTyped
  <2>6. \A kind, down, held : Told(kind, down, held) => Told(kind, down, held)'
    BY <2>1, <2>2, <2>3, <2>4 DEF Told
  <2> QED BY <1>2, <2>5, <2>6, MoveFollows DEF Drains
<1>3. CASE SendsInput
  <2>1. PICK e, r : e = Head(batch) /\ r = Tail(batch) OBVIOUS
  <2>2. /\ EventQueue(r) /\ e \in InputEvents
        /\ \A kind : Silent(batch, kind) => e.of # kind /\ Silent(r, kind)
        /\ \A kind, down : Says(batch, kind, down) =>
              Says(r, kind, down) \/ (Silent(r, kind) /\ e.of = kind /\ e.down = down)
    BY <1>1, <1>3, <2>1, EventTaken DEF SendsInput, QueuesTyped
  <2>3. batch' = r /\ UNCHANGED <<userVars, pending, inputQueue, rxInput, managerVars>>
    BY <1>3, <2>1 DEF SendsInput
  <2>4. CASE inputWire' = Append(inputWire, e) /\ UNCHANGED offVars
    <3>1. PICK w : w = Append(inputWire, e) OBVIOUS
    <3>2. /\ EventQueue(w)
          /\ \A kind : e.of = kind => Says(w, kind, e.down)
          /\ \A kind : e.of # kind => (Silent(inputWire, kind) => Silent(w, kind))
          /\ \A kind, down : e.of # kind => (Says(inputWire, kind, down) => Says(w, kind, down))
      BY <1>1, <2>2, <3>1, EventAppended DEF QueuesTyped
    <3>3. QueuesTyped' BY <1>1, <2>2, <2>3, <2>4, <3>1, <3>2 DEF QueuesTyped
    <3>4. \A kind, down, held : Told(kind, down, held) => Told(kind, down, held)'
      BY <2>2, <2>3, <2>4, <3>1, <3>2 DEF Told
    <3> QED BY <2>3, <2>4, <3>3, <3>4, MoveFollows
  <2>5. CASE InputLost(e) /\ UNCHANGED inputWire
    <3>1. QueuesTyped' BY <1>1, <2>2, <2>3, <2>5 DEF QueuesTyped
    <3>2. \A kind, down, held : e.of # kind /\ Told(kind, down, held) => Told(kind, down, held)'
      BY <2>2, <2>3, <2>5 DEF Told
    <3> QED BY <2>2, <2>3, <2>5, <3>1, <3>2, LossFollows
  <2> QED BY <1>3, <2>1, <2>4, <2>5 DEF SendsInput
<1>4. CASE InputDamaged \/ ReceivesInput
  <2>1. PICK e, r : e = Head(inputWire) /\ r = Tail(inputWire) OBVIOUS
  <2>2. /\ EventQueue(r) /\ e \in InputEvents
        /\ \A kind : Silent(inputWire, kind) => e.of # kind /\ Silent(r, kind)
        /\ \A kind, down : Says(inputWire, kind, down) =>
              Says(r, kind, down) \/ (Silent(r, kind) /\ e.of = kind /\ e.down = down)
    BY <1>1, <1>4, <2>1, EventTaken DEF InputDamaged, ReceivesInput, QueuesTyped
  <2>3. inputWire' = r /\ UNCHANGED <<userVars, pending, inputQueue, batch, managerVars>>
    BY <1>4, <2>1 DEF InputDamaged, ReceivesInput, workerVars
  <2>4. CASE InputLost(e) /\ UNCHANGED rxInput
    <3>1. QueuesTyped' BY <1>1, <2>2, <2>3, <2>4 DEF QueuesTyped
    <3>2. \A kind, down, held : e.of # kind /\ Told(kind, down, held) => Told(kind, down, held)'
      BY <2>2, <2>3, <2>4 DEF Told
    <3> QED BY <2>2, <2>3, <2>4, <3>1, <3>2, LossFollows
  <2>5. CASE rxInput = <<>> /\ rxInput' = <<e>> /\ UNCHANGED offVars
    <3>1. PICK n : n = <<e>> OBVIOUS
    <3>2. /\ EventQueue(n) /\ Len(n) = 1
          /\ \A kind : IF e.of = kind THEN Says(n, kind, e.down) ELSE Silent(n, kind)
      BY <2>2, <3>1, OneEvent
    <3>3. \A kind, down : Silent(rxInput, kind) /\ ~Says(rxInput, kind, down) BY <2>5, NoEvents
    <3>4. QueuesTyped' BY <1>1, <2>2, <2>3, <2>5, <3>1, <3>2 DEF QueuesTyped
    <3>5. \A kind, down, held : Told(kind, down, held) => Told(kind, down, held)'
      BY <2>2, <2>3, <2>5, <3>1, <3>2, <3>3 DEF Told
    <3> QED BY <2>3, <2>5, <3>4, <3>5, MoveFollows
  <2> QED BY <1>4, <2>1, <2>4, <2>5 DEF InputDamaged, ReceivesInput
<1>5. CASE HostUnlinks \/ HostLinks
  <2>1. UNCHANGED <<userVars, pending, inputQueue, batch, inputWire, rxInput, managerVars, offVars>>
    BY <1>5 DEF HostUnlinks, HostLinks
  <2>2. QueuesTyped' /\ \A kind, down, held : Told(kind, down, held) => Told(kind, down, held)'
    BY <1>1, <2>1 DEF QueuesTyped, Told
  <2> QED BY <2>1, <2>2, MoveFollows
<1> QED BY <1>2, <1>3, <1>4, <1>5

\* What the manager is fed it holds.
LEMMA FeedFollows == ASSUME FollowInv, FeedsInput PROVE FollowInv'
<1> USE DEF FollowInv
<1>1. PICK e, r : e = Head(rxInput) /\ r = Tail(rxInput) OBVIOUS
<1>2. /\ EventQueue(r) /\ e \in InputEvents /\ e = rxInput[1] /\ Len(r) = Len(rxInput) - 1
      /\ \A kind : Silent(rxInput, kind) => e.of # kind /\ Silent(r, kind)
      /\ \A kind, down : Says(rxInput, kind, down) =>
            Says(r, kind, down) \/ (Silent(r, kind) /\ e.of = kind /\ e.down = down)
  BY <1>1, EventTaken DEF FeedsInput, QueuesTyped
<1>3. r = <<>>
  <2>1. IsSeq(r) /\ Len(r) \in Nat /\ Len(r) <= 0 BY <1>2, SeqIndices DEF QueuesTyped, EventQueue
  <2> QED BY <2>1, NonEmpty
<1>4. /\ rxInput' = r /\ UNCHANGED <<userVars, pending, inputQueue, batch, inputWire, offVars>>
  BY <1>3 DEF FeedsInput, workerVars
<1>5. QueuesTyped' BY <1>2, <1>3, <1>4, NothingIsSeq DEF QueuesTyped
<1>6. \A kind, down, held, now :
          Told(kind, down, held) /\ now = (IF e.of = kind THEN e.down ELSE held)
              => Told(kind, down, now)'
  <2>1. \A kind, down : ~Says(r, kind, down) BY <1>3, NoEvents
  <2> QED BY <1>2, <1>4, <2>1 DEF Told
<1>7. CASE e.of = "mouse"
  <2>1. buttons' = e.down /\ UNCHANGED keys BY <1>2, <1>7 DEF FeedsInput, ApplyMove, ApplyWheel
  <2>2. PressesTyped' BY <1>2, <1>4, <2>1 DEF PressesTyped, InputEvents, userVars
  <2> QED BY <1>4, <1>5, <1>6, <1>7, <2>1, <2>2 DEF userVars, offVars, KeyToldDown
<1>8. CASE e.of = "key"
  <2>1. keys' = e.down /\ UNCHANGED buttons BY <1>2, <1>8 DEF FeedsInput, FeedKey
  <2>2. PressesTyped' BY <1>2, <1>4, <2>1 DEF PressesTyped, InputEvents, userVars
  <2> QED BY <1>4, <1>5, <1>6, <1>8, <2>1, <2>2 DEF userVars, offVars, KeyToldDown
<1> QED BY <1>2, <1>7, <1>8 DEF InputEvents

\* A reset that releases nothing changes nothing; what it releases it is known to have lost.
LEMMA DeviceFollowsOn ==
    ASSUME FollowInv,
           \/ DeviceUnlinks \/ DeviceLinks \/ ResetsManager \/ ResetsAdapter
           \/ LvglReadsPointer \/ LvglReadsKey
    PROVE  FollowInv'
<1> USE DEF FollowInv, KeyToldDown, managerVars, workerVars, userVars, offVars
<1>1. UNCHANGED <<userVars, pending, inputQueue, batch, inputWire, rxInput>>
  BY DEF DeviceUnlinks, DeviceLinks, ResetsManager, ResetsAdapter, LvglReadsPointer, LvglReadsKey
<1>2. QueuesTyped' /\ \A kind, down, held : Told(kind, down, held)' <=> Told(kind, down, held)
  BY <1>1 DEF QueuesTyped, Told
<1>3. CASE ResetsManager
  <2>1. buttons' = FALSE /\ keys' = FALSE /\ mouseOff' = (IF buttons THEN "lost" ELSE mouseOff)
    BY <1>3 DEF ResetsManager
  <2>2. ~keyOff' => ~keyOff /\ ~keys BY <1>3, Zenon DEF ResetsManager
  <2>3. PressesTyped' BY <1>1, <2>1 DEF PressesTyped
  <2>4. mouseOff' = "no" => mouseOff = "no" /\ UNCHANGED buttons BY <2>1 DEF PressesTyped
  <2>5. ~keyOff' => UNCHANGED keys BY <2>1, <2>2 DEF PressesTyped
  <2>6. mouseOff' = "no" => Told("mouse", userLeft, buttons)' BY <1>1, <1>2, <2>4
  <2>7. ~keyOff' => Told("key", KeyToldDown, keys)' BY <1>1, <1>2, <2>2, <2>5
  <2> QED BY <1>2, <2>3, <2>6, <2>7
<1>4. CASE DeviceUnlinks \/ DeviceLinks \/ ResetsAdapter \/ LvglReadsPointer \/ LvglReadsKey
  <2>1. UNCHANGED <<managerVars, offVars>>
    BY <1>4 DEF DeviceUnlinks, DeviceLinks, ResetsAdapter, LvglReadsPointer, LvglReadsKey
  <2> QED BY <1>1, <1>2, <2>1, MoveFollows
<1> QED BY <1>3, <1>4

LEMMA FollowStep == FollowInv /\ [InputNext]_inputVars => FollowInv'
<1> SUFFICES ASSUME FollowInv, [InputNext]_inputVars PROVE FollowInv' OBVIOUS
<1>1. CASE UNCHANGED inputVars
  <2>1. UNCHANGED <<userVars, pending, managerVars, offVars, inputQueue, batch, inputWire, rxInput>>
    BY <1>1 DEF inputVars, workerVars, deviceInput
  <2>2. QueuesTyped' /\ \A kind, down, held : Told(kind, down, held) => Told(kind, down, held)'
    BY <2>1 DEF QueuesTyped, Told, FollowInv
  <2> QED BY <2>1, <2>2, MoveFollows
<1>2. CASE InputNext
  BY <1>2, WindowFollows, WorkerFollows, FeedFollows, DeviceFollowsOn DEF InputNext
<1> QED BY <1>1, <1>2

\* However many moves are coalesced, keys repeated, events queued, sessions ended and polls
\* made, with queues of any size: once all is delivered, the device has the button as the
\* user holds it, and the key until it repeats, but for what DeviceFollows excepts.
THEOREM DeviceHoldsWhatUserDoes == InputSpec => []DeviceFollows
<1>1. FollowInv => DeviceFollows
  <2> SUFFICES ASSUME FollowInv, InputAtRest
               PROVE  (mouseOff = "no" => buttons = userLeft) /\ (~keyOff => keys = KeyToldDown)
    BY DEF DeviceFollows
  <2>1. \A kind, down :
            /\ ~Says(inputQueue, kind, down) /\ ~Says(batch, kind, down)
            /\ ~Says(inputWire, kind, down) /\ ~Says(rxInput, kind, down)
    BY NoEvents DEF InputAtRest
  <2>2. \A kind, down, held : Told(kind, down, held) => held = down BY <2>1 DEF Told
  <2> QED BY <2>2, Zenon DEF FollowInv
<1> QED BY <1>1, FollowInitial, FollowStep, PTL DEF InputSpec

--------------------------------------------------------------------------------

\* The Wi-Fi wizard: what keeps a watchdog over every wait, and what Done rests on.

Signals == {"handshake", "frame", "lost"}

\* The observer of a handoff, and the dialog with it.
Observers ==
    [at : {"none", "listening", "session", "over"}, shook : BOOLEAN, framed : BOOLEAN]
Dialogs ==
    [step : Edit \cup Async \cup {"Done", "Error"}, retry : Edit,
     ssid : BOOLEAN, pwd : Passwords, ip : BOOLEAN, port : BOOLEAN, shownPwd : Passwords,
     scanning : BOOLEAN, pending : BOOLEAN, seq : Nat, entries : BOOLEAN, armed : BOOLEAN,
     frame : BOOLEAN, watch : BOOLEAN, observer : Observers]

\* The scan of w and the frame it was told of are those of v.
SameScan(w, v) ==
    /\ w.scanning <=> v.scanning
    /\ w.pending <=> v.pending
    /\ w.frame <=> v.frame
SamePage(w, v) == w.step = v.step /\ w.retry = v.retry /\ SameScan(w, v)

LEMMA Steps ==
    /\ Edit = {"Init", "ConnectUart", "ReadCapabilities", "Scan", "SelectSsid", "Password",
               "TcpConfig"}
    /\ Async = {"Applying", "Connecting", "GotIp", "TcpConnected", "FullResync"}
BY DEF Edit, EditSteps, Async, AsyncSteps

LEMMA StepMoves ==
    ASSUME NEW w \in Dialogs, w.step \in Edit
    PROVE  /\ w.step # "TcpConfig" =>
                /\ StepNext(w) \in Dialogs /\ SameScan(StepNext(w), w)
                /\ (StepNext(w).watch <=> w.watch)
                /\ StepNext(w).step \in Edit
                /\ StepNext(w).step = "Scan" => w.step = "ReadCapabilities"
                /\ w.step = "ConnectUart" => StepNext(w).step = "ReadCapabilities"
           /\ w.step # "Init" =>
                /\ StepBack(w) \in Dialogs /\ SameScan(StepBack(w), w)
                /\ (StepBack(w).watch <=> w.watch)
                /\ StepBack(w).step \in Edit
                /\ StepBack(w).step = "Scan" => w.step = "SelectSsid"
<1>1. /\ PlaceOf("Init") = 1 /\ PlaceOf("ConnectUart") = 2 /\ PlaceOf("ReadCapabilities") = 3
      /\ PlaceOf("Scan") = 4 /\ PlaceOf("SelectSsid") = 5 /\ PlaceOf("Password") = 6
      /\ PlaceOf("TcpConfig") = 7
  BY DEF PlaceOf, EditSteps
<1>2. PICK n, b : n = EditSteps[PlaceOf(w.step) + 1] /\ b = EditSteps[PlaceOf(w.step) - 1] OBVIOUS
<1>3. StepNext(w) = [w EXCEPT !.step = n] /\ StepBack(w) = [w EXCEPT !.step = b]
  BY <1>2 DEF StepNext, StepBack
<1>4. w.step # "TcpConfig" =>
         /\ n \in Edit /\ (n = "Scan" => w.step = "ReadCapabilities")
         /\ w.step = "ConnectUart" => n = "ReadCapabilities"
  BY <1>1, <1>2, Steps DEF EditSteps
<1>5. w.step # "Init" => b \in Edit /\ (b = "Scan" => w.step = "SelectSsid")
  BY <1>1, <1>2, Steps DEF EditSteps
<1>6. ASSUME NEW s \in Edit
      PROVE  LET v == [w EXCEPT !.step = s] IN v \in Dialogs /\ SameScan(v, w) /\ v.step = s
                                                /\ (v.watch <=> w.watch)
  BY DEF Dialogs, Observers, SameScan
<1> QED BY <1>3, <1>4, <1>5, <1>6

\* What the helpers of the dialog do to its page, its scan and its watchdog.
LEMMA Watching ==
    ASSUME NEW w \in Dialogs
    PROVE  /\ Watched(w) \in Dialogs /\ SamePage(Watched(w), w) /\ Watched(w).watch
           /\ Unwatched(w) \in Dialogs /\ SamePage(Unwatched(w), w) /\ ~Unwatched(w).watch
BY DEF Watched, Unwatched, Dialogs, Observers, SamePage, SameScan

\* What is typed or picked on a page moves neither the page nor the scan.
LEMMA Typing ==
    ASSUME NEW w \in Dialogs, NEW p \in Passwords, NEW n \in Nat
    PROVE  /\ LET v == [w EXCEPT !.ssid = TRUE]
              IN  v \in Dialogs /\ SamePage(v, w) /\ (v.watch <=> w.watch)
           /\ LET v == [w EXCEPT !.ip = TRUE]
              IN  v \in Dialogs /\ SamePage(v, w) /\ (v.watch <=> w.watch)
           /\ LET v == [w EXCEPT !.port = TRUE]
              IN  v \in Dialogs /\ SamePage(v, w) /\ (v.watch <=> w.watch)
           /\ LET v == [w EXCEPT !.pwd = p, !.shownPwd = p]
              IN  v \in Dialogs /\ SamePage(v, w) /\ (v.watch <=> w.watch)
           /\ LET v == [w EXCEPT !.seq = n, !.entries = TRUE]
              IN  v \in Dialogs /\ SamePage(v, w) /\ (v.watch <=> w.watch)
<1>1. LET v == [w EXCEPT !.ssid = TRUE]
      IN  v \in Dialogs /\ SamePage(v, w) /\ (v.watch <=> w.watch)
  BY DEF Dialogs, SamePage, SameScan
<1>2. LET v == [w EXCEPT !.ip = TRUE]
      IN  v \in Dialogs /\ SamePage(v, w) /\ (v.watch <=> w.watch)
  BY DEF Dialogs, SamePage, SameScan
<1>3. LET v == [w EXCEPT !.port = TRUE]
      IN  v \in Dialogs /\ SamePage(v, w) /\ (v.watch <=> w.watch)
  BY DEF Dialogs, SamePage, SameScan
<1>4. LET v == [w EXCEPT !.pwd = p, !.shownPwd = p]
      IN  v \in Dialogs /\ SamePage(v, w) /\ (v.watch <=> w.watch)
  BY DEF Dialogs, SamePage, SameScan
<1>5. LET v == [w EXCEPT !.seq = n, !.entries = TRUE]
      IN  v \in Dialogs /\ SamePage(v, w) /\ (v.watch <=> w.watch)
  BY DEF Dialogs, SamePage, SameScan
<1> QED BY <1>1, <1>2, <1>3, <1>4, <1>5

LEMMA Observing ==
    ASSUME NEW w \in Dialogs
    PROVE  /\ Unobserved(w) \in Dialogs /\ SamePage(Unobserved(w), w)
           /\ (Unobserved(w).watch <=> w.watch)
           /\ Listening(w) \in Dialogs /\ SamePage(Listening(w), w)
           /\ (Listening(w).watch <=> w.watch)
           /\ Refresh(w) \in Dialogs /\ SamePage(Refresh(w), w) /\ (Refresh(w).watch <=> w.watch)
<1>1. Unobserved(w) \in Dialogs /\ SamePage(Unobserved(w), w) /\ (Unobserved(w).watch <=> w.watch)
  BY DEF Unobserved, NoObserver, Dialogs, Observers, SamePage, SameScan
<1>2. Listening(w) \in Dialogs /\ SamePage(Listening(w), w) /\ (Listening(w).watch <=> w.watch)
  BY DEF Listening, NoObserver, Dialogs, Observers, SamePage, SameScan
<1>3. SamePage(w, w) BY DEF SamePage, SameScan
<1> QED BY <1>1, <1>2, <1>3 DEF Refresh

LEMMA Forgetting ==
    ASSUME NEW w \in Dialogs
    PROVE  /\ Forgotten(w) \in Dialogs /\ SameScan(Forgotten(w), w)
           /\ (Forgotten(w).watch <=> w.watch)
           /\ Forgotten(w).step = "Init" /\ Forgotten(w).retry = "Init"
           /\ ScanForgotten(w) \in Dialogs /\ ScanForgotten(w).step = w.step
           /\ ~ScanForgotten(w).scanning /\ ~ScanForgotten(w).pending
           /\ (ScanForgotten(w).frame <=> w.frame) /\ (ScanForgotten(w).watch <=> w.watch)
<1>1. "Init" \in Edit /\ "open" \in Passwords BY Steps DEF Passwords
<1>2. Forgotten(w) \in Dialogs BY <1>1 DEF Forgotten, Dialogs, Observers
<1>3. /\ SameScan(Forgotten(w), w) /\ (Forgotten(w).watch <=> w.watch)
      /\ Forgotten(w).step = "Init" /\ Forgotten(w).retry = "Init"
  BY DEF Forgotten, Dialogs, Observers, SameScan
<1>4. /\ ScanForgotten(w) \in Dialogs /\ ScanForgotten(w).step = w.step
      /\ ~ScanForgotten(w).scanning /\ ~ScanForgotten(w).pending
      /\ (ScanForgotten(w).frame <=> w.frame) /\ (ScanForgotten(w).watch <=> w.watch)
  BY DEF ScanForgotten, Dialogs, Observers
<1> QED BY <1>2, <1>3, <1>4

LEMMA Erring ==
    ASSUME NEW w \in Dialogs
    PROVE  /\ MarkError(w) \in Dialogs /\ SameScan(MarkError(w), w)
           /\ (MarkError(w).watch <=> w.watch) /\ MarkError(w).step = "Error"
           /\ w.step = "Scan" => MarkError(w).retry = "Scan"
<1>1. PICK r : r = (IF w.step \in Early THEN w.step ELSE "TcpConfig") OBVIOUS
<1>2. r \in Edit /\ (w.step = "Scan" => r = "Scan") BY <1>1, Steps DEF Early
<1>3. MarkError(w) = [w EXCEPT !.retry = r, !.step = "Error"] BY <1>1 DEF MarkError
<1> QED BY <1>2, <1>3 DEF Dialogs, Observers, SameScan

LEMMA Clearing ==
    ASSUME NEW w \in Dialogs
    PROVE  /\ ClearSecrets(w) \in Dialogs /\ SameScan(ClearSecrets(w), w)
           /\ (ClearSecrets(w).watch <=> w.watch)
           /\ IF Editable(w) THEN ClearSecrets(w).step = "Init"
                             ELSE ClearSecrets(w).step = w.step
<1>1. PICK v : v = [w EXCEPT !.shownPwd = "open"] OBVIOUS
<1>2. v \in Dialogs /\ SamePage(v, w) /\ (v.watch <=> w.watch)
  BY <1>1 DEF Dialogs, Observers, SamePage, SameScan, Passwords
<1>3. ClearSecrets(w) = IF Editable(v) THEN Forgotten(v) ELSE v BY <1>1 DEF ClearSecrets
<1>4. Editable(v) <=> Editable(w) BY <1>2 DEF Editable, SamePage
<1> QED BY <1>2, <1>3, <1>4, Forgetting DEF SamePage, SameScan

LEMMA GivingUp ==
    ASSUME NEW w \in Dialogs
    PROVE  GivenUp(w) \in Dialogs /\ SameScan(GivenUp(w), w) /\ GivenUp(w).step = "Init"
<1>1. PICK v, c : v = MarkError(w) /\ c = ClearSecrets(v) OBVIOUS
<1>2. v \in Dialogs /\ SameScan(v, w) /\ v.step = "Error" BY <1>1, Erring
<1>3. c \in Dialogs /\ SameScan(c, v) /\ c.step = "Init" BY <1>1, <1>2, Clearing DEF Editable
<1>4. GivenUp(w) = Refresh(c) BY <1>1 DEF GivenUp
<1> QED BY <1>2, <1>3, <1>4, Observing DEF SamePage, SameScan

LEMMA Failing ==
    ASSUME NEW w \in Dialogs
    PROVE  Fails(w) \in Dialogs /\ SameScan(Fails(w), w) /\ Fails(w).step = "Init"
<1>1. PICK u : u = Unwatched(w) OBVIOUS
<1>2. u \in Dialogs /\ SameScan(u, w) BY <1>1, Watching DEF SamePage
<1>3. Fails(w) = GivenUp(u) BY <1>1 DEF Fails
<1> QED BY <1>2, <1>3, GivingUp DEF SameScan

LEMMA Completing ==
    ASSUME NEW w \in Dialogs
    PROVE  /\ CompleteResync(w) \in Dialogs
           /\ \/ CompleteResync(w) = w
              \/ /\ w.frame /\ CompleteResync(w).step = "Done"
                 /\ (CompleteResync(w).scanning <=> w.scanning)
                 /\ (CompleteResync(w).pending <=> w.pending)
                 /\ ~CompleteResync(w).frame
<1>1. CASE ~(w.frame /\ w.step \in {"TcpConnected", "FullResync"}) BY <1>1 DEF CompleteResync
<1>2. CASE w.frame /\ w.step \in {"TcpConnected", "FullResync"}
  <2>1. PICK d, u, o : /\ d = [w EXCEPT !.frame = FALSE, !.armed = FALSE, !.step = "Done"]
                       /\ u = Unwatched(d) /\ o = Unobserved(u)
    OBVIOUS
  <2>2. /\ d \in Dialogs /\ d.step = "Done" /\ (d.scanning <=> w.scanning)
        /\ (d.pending <=> w.pending) /\ ~d.frame
    BY <2>1 DEF Dialogs, Observers
  <2>3. u \in Dialogs /\ SamePage(u, d) BY <2>1, <2>2, Watching
  <2>4. o \in Dialogs /\ SamePage(o, u) BY <2>1, <2>3, Observing
  <2>5. ~Editable(o) BY <2>2, <2>3, <2>4, Steps DEF Editable, SamePage
  <2>6. CompleteResync(w) = ClearSecrets(o) BY <1>2, <2>1 DEF CompleteResync
  <2> QED BY <1>2, <2>2, <2>3, <2>4, <2>5, <2>6, Clearing DEF SamePage, SameScan
<1> QED BY <1>1, <1>2

LEMMA Bootstrapping ==
    ASSUME NEW w \in Dialogs, w.step \in {"ConnectUart", "ReadCapabilities"}
    PROVE  /\ EnterBootstrap(w) \in Dialogs /\ SameScan(EnterBootstrap(w), w)
           /\ EnterBootstrap(w).step \in {"ConnectUart", "ReadCapabilities", "Scan"}
           /\ EnterBootstrap(w).step # "Scan" => EnterBootstrap(w).watch
<1>1. PICK a, b, c : /\ a = Watched(w) /\ EnterBootstrap(w) = AdvanceBootstrap(a)
                     /\ b = (IF a.step = "ConnectUart" /\ uart THEN Watched(StepNext(a)) ELSE a)
                     /\ c = (IF b.step = "ReadCapabilities" /\ caps
                             THEN Unwatched(StepNext(b)) ELSE b)
  BY DEF EnterBootstrap
<1>2. EnterBootstrap(w) = c BY <1>1 DEF AdvanceBootstrap
<1>3. a \in Dialogs /\ SameScan(a, w) /\ a.watch /\ a.step = w.step
  BY <1>1, Watching DEF SamePage
<1>4. w.step \in Edit BY Steps
<1>5. b \in Dialogs /\ SameScan(b, w) /\ b.watch /\ b.step \in {"ConnectUart", "ReadCapabilities"}
  <2>1. CASE a.step = "ConnectUart" /\ uart
    <3>1. PICK n : n = StepNext(a) OBVIOUS
    <3>2. n \in Dialogs /\ SameScan(n, a) /\ n.step = "ReadCapabilities"
      BY <1>3, <1>4, <2>1, <3>1, StepMoves
    <3> QED BY <1>1, <1>3, <2>1, <3>1, <3>2, Watching DEF SamePage, SameScan
  <2>2. CASE ~(a.step = "ConnectUart" /\ uart) BY <1>1, <1>3, <2>2
  <2> QED BY <2>1, <2>2
<1>6. CASE b.step = "ReadCapabilities" /\ caps
  <2>1. PICK n : n = StepNext(b) OBVIOUS
  <2>2. n \in Dialogs /\ SameScan(n, b) /\ n.step \in Edit BY <1>5, <1>6, <2>1, Steps, StepMoves
  <2>3. n.step = "Scan"
    <3>1. PlaceOf("ReadCapabilities") = 3 BY DEF PlaceOf, EditSteps
    <3>2. EditSteps[3 + 1] = "Scan" BY DEF EditSteps
    <3>3. n = [b EXCEPT !.step = "Scan"] BY <1>6, <2>1, <3>1, <3>2 DEF StepNext
    <3> QED BY <1>5, <3>3 DEF Dialogs, Observers
  <2> QED BY <1>1, <1>2, <1>5, <1>6, <2>1, <2>2, <2>3, Watching DEF SamePage, SameScan
<1>7. CASE ~(b.step = "ReadCapabilities" /\ caps) BY <1>1, <1>2, <1>5, <1>7
<1> QED BY <1>6, <1>7

\* A wait has its watchdog; a scan left behind, and an error outside of a scan, are
\* among the reasons why one may have lost it.
WatchOK(w, reasons) ==
    reasons = {} =>
        /\ Waiting(w) => w.watch
        /\ w.scanning \/ w.pending => w.step = "Scan"
        /\ w.step = "Error" => w.retry = "Scan"

WizardInv ==
    /\ wz \in Dialogs /\ posted \in Seq(Signals) /\ scanSeq \in Nat /\ results \subseteq Nat
    /\ WatchOK(wz, loose)
    /\ wz.frame \/ wz.step = "Done" => earned \/ stray

LEMMA WizardInitial == WizardInit => WizardInv
<1> SUFFICES ASSUME WizardInit PROVE WizardInv OBVIOUS
<1>1. wz \in Dialogs
  BY Steps DEF WizardInit, Fresh, NoObserver, Dialogs, Observers, Passwords
<1>2. WatchOK(wz, loose) BY Steps DEF WizardInit, Fresh, WatchOK, Waiting
<1> QED BY <1>1, <1>2 DEF WizardInit, Fresh, WizardInv

\* The user.
LEMMA UserPreserves ==
    ASSUME WizardInv,
           \/ PressNext \/ PressBack \/ PressScan \/ PickSsid \/ TypeServer \/ PressApply
           \/ PressRetry \/ Reopen \/ (\E p \in Passwords : TypePassword(p))
    PROVE  WizardInv'
<1> USE DEF WizardInv
<1>1. CASE PressNext
  <2>1. /\ wz.step \in Edit /\ wz.step # "TcpConfig"
        /\ UNCHANGED <<posted, scanSeq, results, earned, stray>>
    BY <1>1 DEF PressNext, Offered, linkVars
  <2>2. PICK w : w = StepNext(wz) OBVIOUS
  <2>3. /\ w \in Dialogs /\ SameScan(w, wz) /\ (w.watch <=> wz.watch) /\ w.step \in Edit
        /\ w.step = "Scan" => wz.step = "ReadCapabilities"
    BY <2>1, <2>2, StepMoves
  <2>4. wz' = CASE w.step \in {"ConnectUart", "ReadCapabilities"} -> EnterBootstrap(w)
                [] w.step = "Scan" -> Unwatched(w)
                [] OTHER -> w
    BY <1>1, <2>2 DEF PressNext
  <2>5. loose' = {} => loose = {} /\ ~(wz.step = "Scan" /\ (wz.scanning \/ wz.pending))
    BY <1>1 DEF PressNext
  <2>6. ASSUME loose' = {} PROVE loose = {} /\ ~w.scanning /\ ~w.pending
    BY <2>3, <2>5, <2>6 DEF WatchOK, SameScan
  <2>7. CASE w.step \in {"ConnectUart", "ReadCapabilities"}
    <3>1. wz' = EnterBootstrap(w) BY <2>4, <2>7
    <3>2. /\ wz' \in Dialogs /\ SameScan(wz', w)
          /\ wz'.step \in {"ConnectUart", "ReadCapabilities", "Scan"}
          /\ wz'.step # "Scan" => wz'.watch
      BY <2>3, <2>7, <3>1, Bootstrapping
    <3> QED BY <2>1, <2>3, <2>6, <3>2, Steps DEF WatchOK, Waiting, SameScan
  <2>8. CASE w.step \notin {"ConnectUart", "ReadCapabilities"}
    <3>1. wz' = Unwatched(w) \/ wz' = w BY <2>4, <2>8
    <3>2. wz' \in Dialogs /\ SameScan(wz', w) /\ wz'.step = w.step
      BY <2>3, <3>1, Watching DEF SamePage, SameScan
    <3> QED BY <2>1, <2>3, <2>6, <2>8, <3>2, Steps DEF WatchOK, Waiting, SameScan
  <2> QED BY <2>7, <2>8
<1>2. CASE PressBack
  <2>1. /\ wz.step \in Edit /\ wz.step # "Init"
        /\ UNCHANGED <<posted, scanSeq, results, earned, stray, loose>>
    BY <1>2 DEF PressBack, Offered, UserMoves, linkVars, historyVars
  <2>2. PICK u, w : u = (IF wz.step = "Scan" THEN ScanForgotten(wz) ELSE wz) /\ w = StepBack(u)
    OBVIOUS
  <2>3. /\ u \in Dialogs /\ u.step = wz.step /\ (u.frame <=> wz.frame)
        /\ loose = {} => ~u.scanning /\ ~u.pending
    BY <2>2, Forgetting DEF WatchOK
  <2>4. w \in Dialogs /\ SameScan(w, u) /\ w.step \in Edit BY <2>1, <2>2, <2>3, StepMoves
  <2>5. wz' = [w EXCEPT !.watch = w.step \in {"ConnectUart", "ReadCapabilities"}]
    BY <1>2, <2>2 DEF PressBack
  <2>6. /\ wz' \in Dialogs /\ SameScan(wz', w) /\ wz'.step = w.step
        /\ wz'.watch <=> w.step \in {"ConnectUart", "ReadCapabilities"}
    <3>1. CASE w.step \in {"ConnectUart", "ReadCapabilities"}
      <4>1. (w.step \in {"ConnectUart", "ReadCapabilities"}) = TRUE BY <3>1
      <4>2. wz' = [w EXCEPT !.watch = TRUE] BY <2>5, <4>1, Zenon
      <4> QED BY <2>4, <3>1, <4>2 DEF Dialogs, Observers, SameScan
    <3>2. CASE ~(w.step \in {"ConnectUart", "ReadCapabilities"})
      <4>1. (w.step \in {"ConnectUart", "ReadCapabilities"}) = FALSE BY <3>2
      <4>2. wz' = [w EXCEPT !.watch = FALSE] BY <2>5, <4>1, Zenon
      <4> QED BY <2>4, <3>2, <4>2 DEF Dialogs, Observers, SameScan
    <3> QED BY <3>1, <3>2
  <2>7. WatchOK(wz', loose')
    BY <2>1, <2>3, <2>4, <2>6, Steps DEF WatchOK, Waiting, SameScan
  <2> QED BY <2>1, <2>3, <2>4, <2>6, <2>7, Steps DEF SameScan
<1>3. CASE PressScan
  <2>1. wz.step = "Scan" /\ UNCHANGED <<posted, scanSeq, results, earned, stray, loose>>
    BY <1>3 DEF PressScan, Offered, UserMoves, linkVars, historyVars
  <2>2. PICK w : w = [wz EXCEPT !.scanning = TRUE, !.pending = FALSE, !.entries = FALSE] OBVIOUS
  <2>3. w \in Dialogs /\ w.step = "Scan" /\ (w.frame <=> wz.frame) BY <2>1, <2>2 DEF Dialogs, Observers
  <2>4. wz' = Watched(w) BY <1>3, <2>2 DEF PressScan
  <2>5. wz' \in Dialogs /\ SamePage(wz', w) /\ wz'.watch BY <2>3, <2>4, Watching
  <2> QED BY <2>1, <2>3, <2>5 DEF WatchOK, SamePage, SameScan
<1>4. CASE PickSsid \/ TypeServer \/ (\E p \in Passwords : TypePassword(p))
  <2>1. UNCHANGED <<posted, scanSeq, results, earned, stray, loose>>
    BY <1>4 DEF PickSsid, TypeServer, TypePassword, UserMoves, linkVars, historyVars
  <2>2. wz' \in Dialogs /\ SamePage(wz', wz) /\ (wz'.watch <=> wz.watch)
    <3>1. 0 \in Nat /\ "open" \in Passwords BY DEF Passwords
    <3>2. CASE PickSsid BY <3>1, <3>2, Typing DEF PickSsid
    <3>3. CASE TypeServer BY <3>1, <3>3, Typing DEF TypeServer
    <3>4. ASSUME NEW p \in Passwords, TypePassword(p)
          PROVE  wz' \in Dialogs /\ SamePage(wz', wz) /\ (wz'.watch <=> wz.watch)
      BY <3>1, <3>4, Typing DEF TypePassword
    <3> QED BY <1>4, <3>2, <3>3, <3>4
  <2> QED BY <2>1, <2>2 DEF WatchOK, Waiting, SamePage, SameScan
<1>5. CASE PressApply
  <2>1. wz.step = "TcpConfig" /\ UNCHANGED <<posted, scanSeq, results, loose>>
    BY <1>5 DEF PressApply, Offered, linkVars
  <2>2. PICK b, u, s : b = BeginApply(wz) /\ u = [b EXCEPT !.pwd = "open"] /\ s = ClearSecrets(u)
    OBVIOUS
  <2>3. u \in Dialogs /\ SameScan(u, wz) /\ u.step = "Applying"
    <3>1. b \in Dialogs /\ SameScan(b, wz) /\ b.step = "Applying"
      <4>1. b = [wz EXCEPT !.step = "Applying"] BY <2>2 DEF BeginApply
      <4> QED BY <4>1, Steps DEF Dialogs, SameScan
    <3>2. u \in Dialogs /\ SameScan(u, b) /\ u.step = b.step
      BY <2>2, <3>1 DEF Dialogs, SameScan, Passwords
    <3> QED BY <3>1, <3>2 DEF SameScan
  <2>4. s \in Dialogs /\ SameScan(s, u) /\ s.step = "Applying"
    <3>1. ~Editable(u) BY <2>3, Steps DEF Editable
    <3> QED BY <2>2, <2>3, <3>1, Clearing
  <2>5. stray' = (wz.frame \/ \E i \in DOMAIN posted : posted[i] = "frame")
    BY <1>5 DEF PressApply
  <2>6. wz.frame => stray' BY <2>5, Zenon
  <2>7. CASE wz' = Listening(Watched(s))
    <3>1. PICK w : w = Watched(s) OBVIOUS
    <3>2. w \in Dialogs /\ SamePage(w, s) /\ w.watch BY <2>4, <3>1, Watching
    <3>3. wz' \in Dialogs /\ SamePage(wz', w) /\ (wz'.watch <=> w.watch)
      BY <2>7, <3>1, <3>2, Observing
    <3> QED BY <2>1, <2>3, <2>4, <2>6, <3>2, <3>3 DEF WatchOK, SamePage, SameScan
  <2>8. CASE wz' = GivenUp(Unobserved(Watched(s)))
    <3>1. PICK v, w : v = Watched(s) /\ w = Unobserved(v) OBVIOUS
    <3>2. v \in Dialogs /\ SamePage(v, s) BY <2>4, <3>1, Watching
    <3>3. w \in Dialogs /\ SamePage(w, v) BY <3>1, <3>2, Observing
    <3>4. wz' \in Dialogs /\ SameScan(wz', w) /\ wz'.step = "Init"
      BY <2>8, <3>1, <3>3, GivingUp
    <3> QED BY <2>1, <2>3, <2>4, <2>6, <3>2, <3>3, <3>4, Steps
            DEF WatchOK, Waiting, SamePage, SameScan
  <2> QED BY <1>5, <2>2, <2>7, <2>8 DEF PressApply
<1>6. CASE PressRetry
  <2>1. wz.step = "Error" /\ UNCHANGED <<posted, scanSeq, results, earned, stray, loose>>
    BY <1>6 DEF PressRetry, Offered, UserMoves, linkVars, historyVars
  <2>2. PICK r \in Edit : r = wz.retry BY DEF Dialogs, Observers
  <2>3. wz' = [wz EXCEPT !.step = r] BY <1>6, <2>2 DEF PressRetry, Retried
  <2>4. wz' \in Dialogs /\ SameScan(wz', wz) /\ wz'.step = r BY <2>3 DEF Dialogs, Observers, SameScan
  <2>5. WatchOK(wz', loose') BY <2>1, <2>2, <2>4, Steps DEF WatchOK, Waiting, SameScan
  <2> QED BY <2>1, <2>4, <2>5, Steps DEF SameScan
<1>7. CASE Reopen
  <2>1. wz' = Fresh /\ posted' = <<>> /\ UNCHANGED <<scanSeq, results, earned, stray, loose>>
    BY <1>7 DEF Reopen, linkVars, historyVars
  <2>2. wz' \in Dialogs BY <2>1, Steps DEF Fresh, NoObserver, Dialogs, Observers, Passwords
  <2> QED BY <2>1, <2>2, Steps DEF Fresh, WatchOK, Waiting
<1> QED BY <1>1, <1>2, <1>3, <1>4, <1>5, <1>6, <1>7

\* What keeps the invariant whatever reasons there are.
Kept(v, w) ==
    /\ v \in Dialogs
    /\ \A r : WatchOK(w, r) => WatchOK(v, r)
    /\ v.frame \/ v.step = "Done" => w.frame \/ w.step = "Done"

LEMMA KeptPage ==
    ASSUME NEW w \in Dialogs, NEW v \in Dialogs, SamePage(v, w), v.watch <=> w.watch
    PROVE  Kept(v, w)
BY DEF Kept, WatchOK, Waiting, SamePage, SameScan

LEMMA KeptByHandoff ==
    ASSUME NEW w \in Dialogs
    PROVE  Kept(CompleteResync(w), w) /\ Kept(TcpStands(w), w)
<1>1. ASSUME NEW u \in Dialogs PROVE Kept(CompleteResync(u), u)
  <2>1. CASE CompleteResync(u) = u BY <1>1, <2>1 DEF Kept
  <2>2. CASE CompleteResync(u) # u
    <3>1. PICK v : v = CompleteResync(u) OBVIOUS
    <3>2. /\ v \in Dialogs /\ u.frame /\ v.step = "Done" /\ (v.scanning <=> u.scanning)
          /\ (v.pending <=> u.pending) /\ u.step \in {"TcpConnected", "FullResync"}
      BY <1>1, <2>2, <3>1, Completing DEF CompleteResync
    <3> QED BY <3>1, <3>2, Steps DEF Kept, WatchOK, Waiting
  <2> QED BY <2>1, <2>2
<1>2. CASE w.step # "GotIp" BY <1>1, <1>2 DEF TcpStands, Kept
<1>3. CASE w.step = "GotIp"
  <2>1. PICK u, v : u = [w EXCEPT !.step = "TcpConnected", !.armed = TRUE] /\ v = Watched(u)
    OBVIOUS
  <2>2. u \in Dialogs /\ SameScan(u, w) /\ u.step = "TcpConnected"
    BY <2>1, Steps DEF Dialogs, Observers, SameScan
  <2>3. v \in Dialogs /\ SamePage(v, u) /\ v.watch BY <2>1, <2>2, Watching
  <2>4. Kept(v, w) BY <1>3, <2>2, <2>3 DEF Kept, WatchOK, SamePage, SameScan
  <2>5. TcpStands(w) = CompleteResync(v) BY <1>3, <2>1 DEF TcpStands
  <2> QED BY <1>1, <2>3, <2>4, <2>5 DEF Kept
<1> QED BY <1>1, <1>2, <1>3

LEMMA KeptByMark ==
    ASSUME NEW w \in Dialogs, NEW from \in Async, NEW to \in Async
    PROVE  Kept(Mark(w, from, to), w)
<1>1. CASE w.step # from BY <1>1 DEF Mark, Kept
<1>2. CASE w.step = from
  <2>1. PICK v : v = [w EXCEPT !.step = to] OBVIOUS
  <2>2. v \in Dialogs /\ SameScan(v, w) /\ v.step = to /\ (v.watch <=> w.watch)
    BY <2>1 DEF Dialogs, Observers, SameScan
  <2>3. Mark(w, from, to) = v BY <1>2, <2>1 DEF Mark
  <2> QED BY <1>2, <2>2, <2>3, Steps DEF Kept, WatchOK, Waiting, SameScan
<1> QED BY <1>1, <1>2

\* An operation given up, when no scan is left behind.
LEMMA KeptByFailing ==
    ASSUME NEW w \in Dialogs, NEW v, v = Fails(w), NEW r, r = {} => ~w.scanning /\ ~w.pending
    PROVE  v \in Dialogs /\ WatchOK(v, r) /\ v.step = "Init" /\ (v.frame <=> w.frame)
BY Failing, Steps DEF WatchOK, Waiting, SameScan

LEMMA LinkPreserves ==
    ASSUME WizardInv, LinkConnects \/ LinkErrs \/ LinkEnds \/ CapsArrive \/ DrainsWifi
    PROVE  WizardInv'
<1> USE DEF WizardInv
<1>1. CASE LinkConnects
  <2>1. UNCHANGED <<posted, scanSeq, results, earned, stray, loose>>
    BY <1>1 DEF LinkConnects, DialogTakes
  <2>2. CASE wz.step = "ConnectUart"
    <3>1. PICK w : w = StepNext(wz) OBVIOUS
    <3>2. w \in Dialogs /\ SameScan(w, wz) /\ w.step = "ReadCapabilities"
      BY <2>2, <3>1, StepMoves, Steps
    <3>3. wz' = EnterBootstrap(w) BY <1>1, <2>2, <3>1 DEF LinkConnects
    <3>4. /\ wz' \in Dialogs /\ SameScan(wz', w)
          /\ wz'.step \in {"ConnectUart", "ReadCapabilities", "Scan"}
          /\ wz'.step # "Scan" => wz'.watch
      BY <3>2, <3>3, Bootstrapping
    <3> QED BY <2>1, <2>2, <3>2, <3>4, Steps DEF WatchOK, Waiting, SameScan
  <2>3. CASE wz.step # "ConnectUart"
    <3>1. wz' = wz BY <1>1, <2>3 DEF LinkConnects
    <3> QED BY <2>1, <3>1
  <2> QED BY <2>2, <2>3
<1>2. CASE LinkErrs
  <2>1. UNCHANGED <<posted, scanSeq, earned, stray>> /\ results' \subseteq results
    BY <1>2 DEF LinkErrs
  <2>2. CASE wz.step \in {"ConnectUart", "ReadCapabilities", "Applying"}
    <3>1. wz' = Fails(wz) /\ loose' = loose BY <1>2, <2>2 DEF LinkErrs
    <3>2. loose = {} => ~wz.scanning /\ ~wz.pending BY <2>2 DEF WatchOK
    <3> QED BY <2>1, <3>1, <3>2, KeptByFailing
  <2>3. CASE wz.step \notin {"ConnectUart", "ReadCapabilities", "Applying"}
    <3>1. wz' = Unwatched(wz) BY <1>2, <2>3 DEF LinkErrs
    <3>2. loose' = {} => loose = {} /\ ~Waiting(wz) BY <1>2, <2>3 DEF LinkErrs
    <3>3. wz' \in Dialogs /\ SamePage(wz', wz) BY <3>1, Watching
    <3> QED BY <2>1, <3>2, <3>3 DEF WatchOK, Waiting, SamePage, SameScan
  <2> QED BY <2>2, <2>3
<1>3. CASE LinkEnds
  <2>1. UNCHANGED <<posted, scanSeq, earned, stray, loose>> /\ results' = {}
    BY <1>3 DEF LinkEnds, historyVars
  <2>2. CASE wz.step = "Applying"
    <3>1. wz' = Fails(wz) BY <1>3, <2>2 DEF LinkEnds
    <3>2. loose = {} => ~wz.scanning /\ ~wz.pending BY <2>2 DEF WatchOK
    <3> QED BY <2>1, <3>1, <3>2, KeptByFailing
  <2>3. CASE wz.step # "Applying"
    <3>1. wz' = wz BY <1>3, <2>3 DEF LinkEnds
    <3> QED BY <2>1, <3>1
  <2> QED BY <2>2, <2>3
<1>4. CASE CapsArrive
  <2>1. UNCHANGED <<posted, scanSeq, results, earned, stray, loose>>
    BY <1>4 DEF CapsArrive, DialogTakes
  <2>2. CASE wz.step = "ReadCapabilities"
    <3>1. PICK w : w = StepNext(wz) OBVIOUS
    <3>2. w \in Dialogs /\ SameScan(w, wz) /\ w.step \in Edit
      BY <2>2, <3>1, StepMoves, Steps
    <3>3. w.step = "Scan"
      <4>1. PlaceOf("ReadCapabilities") = 3 /\ EditSteps[3 + 1] = "Scan" BY DEF PlaceOf, EditSteps
      <4>2. w = [wz EXCEPT !.step = "Scan"] BY <2>2, <3>1, <4>1 DEF StepNext
      <4> QED BY <4>2 DEF Dialogs, Observers
    <3>4. wz' = Unwatched(w) BY <1>4, <2>2, <3>1 DEF CapsArrive
    <3>5. wz' \in Dialogs /\ SamePage(wz', w) BY <3>2, <3>4, Watching
    <3> QED BY <2>1, <2>2, <3>2, <3>3, <3>5, Steps DEF WatchOK, Waiting, SamePage, SameScan
  <2>3. CASE wz.step # "ReadCapabilities"
    <3>1. wz' = wz BY <1>4, <2>3 DEF CapsArrive
    <3> QED BY <2>1, <3>1
  <2> QED BY <2>2, <2>3
<1>5. CASE DrainsWifi BY <1>5 DEF DrainsWifi, historyVars
<1> QED BY <1>1, <1>2, <1>3, <1>4, <1>5

LEMMA AnswersPreserve ==
    ASSUME WizardInv, (\E ok \in BOOLEAN : ScanAnswered(ok) \/ ConfigAnswered(ok)) \/ ScanReported
    PROVE  WizardInv'
<1> USE DEF WizardInv
<1>1. ASSUME NEW ok \in BOOLEAN, ScanAnswered(ok) PROVE WizardInv'
  <2>1. UNCHANGED <<posted, earned, stray>> /\ scanSeq' \in Nat /\ results' \subseteq Nat
    BY <1>1 DEF ScanAnswered, DialogTakes
  <2>2. loose' = {} => loose = {} /\ wz.scanning BY <1>1 DEF ScanAnswered
  <2>3. loose' = {} => wz.step = "Scan" BY <2>2 DEF WatchOK
  <2>4. CASE ok
    <3>1. wz' = [wz EXCEPT !.scanning = FALSE, !.pending = TRUE] BY <1>1, <2>4 DEF ScanAnswered
    <3>2. /\ wz' \in Dialogs /\ wz'.step = wz.step /\ (wz'.watch <=> wz.watch)
          /\ (wz'.frame <=> wz.frame)
      BY <3>1 DEF Dialogs, Observers
    <3> QED BY <2>1, <2>2, <2>3, <3>2 DEF WatchOK, Waiting
  <2>5. CASE ~ok
    <3>1. PICK f, u, e : f = ScanForgotten(wz) /\ u = Unwatched(f) /\ e = MarkError(u) OBVIOUS
    <3>2. /\ f \in Dialogs /\ f.step = wz.step /\ ~f.scanning /\ ~f.pending
          /\ (f.frame <=> wz.frame)
      BY <3>1, Forgetting
    <3>3. u \in Dialogs /\ SamePage(u, f) BY <3>1, <3>2, Watching
    <3>4. /\ e \in Dialogs /\ SameScan(e, u) /\ e.step = "Error"
          /\ u.step = "Scan" => e.retry = "Scan"
      BY <3>1, <3>3, Erring
    <3>5. wz' = Refresh(e) BY <1>1, <2>5, <3>1 DEF ScanAnswered
    <3>6. wz' \in Dialogs /\ SamePage(wz', e) BY <3>4, <3>5, Observing
    <3> QED BY <2>1, <2>2, <2>3, <3>2, <3>3, <3>4, <3>6, Steps
            DEF WatchOK, Waiting, SamePage, SameScan
  <2> QED BY <2>4, <2>5
<1>2. ASSUME NEW ok \in BOOLEAN, ConfigAnswered(ok) PROVE WizardInv'
  <2>1. UNCHANGED <<posted, earned, stray, scanSeq, results>>
    BY <1>2 DEF ConfigAnswered, DialogTakes
  <2>2. loose' = {} => loose = {} /\ wz.step = "Applying" BY <1>2 DEF ConfigAnswered
  <2>3. CASE ok
    <3>1. wz' = Mark(wz, "Applying", "Connecting") BY <1>2, <2>3 DEF ConfigAnswered
    <3>2. Kept(wz', wz) BY <3>1, KeptByMark, Steps
    <3> QED BY <2>1, <2>2, <3>2 DEF Kept, WatchOK
  <2>4. CASE ~ok
    <3>1. wz' = GivenUp(wz) BY <1>2, <2>4 DEF ConfigAnswered
    <3>2. wz' \in Dialogs /\ SameScan(wz', wz) /\ wz'.step = "Init" BY <3>1, GivingUp
    <3> QED BY <2>1, <2>2, <3>2, Steps DEF WatchOK, Waiting, SameScan
  <2> QED BY <2>3, <2>4
<1>3. CASE ScanReported
  <2>1. PICK n \in results :
          /\ results' = results \ {n}
          /\ wz' = IF wz.step \in {"Scan", "SelectSsid"} /\ wz.pending /\ n # wz.seq
                   THEN [Unwatched(ScanForgotten(wz)) EXCEPT !.seq = n, !.entries = TRUE]
                   ELSE wz
    BY <1>3 DEF ScanReported
  <2>2. UNCHANGED <<posted, earned, stray, scanSeq, loose>>
    BY <1>3 DEF ScanReported, DialogTakes
  <2>3. CASE wz.step \in {"Scan", "SelectSsid"} /\ wz.pending /\ n # wz.seq
    <3>1. PICK f, u : f = ScanForgotten(wz) /\ u = Unwatched(f) OBVIOUS
    <3>2. /\ f \in Dialogs /\ f.step = wz.step /\ ~f.scanning /\ ~f.pending
          /\ (f.frame <=> wz.frame)
      BY <3>1, Forgetting
    <3>3. u \in Dialogs /\ SamePage(u, f) BY <3>1, <3>2, Watching
    <3>4. wz' = [u EXCEPT !.seq = n, !.entries = TRUE] BY <2>1, <2>3, <3>1
    <3>5. wz' \in Dialogs /\ SamePage(wz', u)
      <4>1. n \in Nat /\ "open" \in Passwords BY <2>1 DEF Passwords
      <4> QED BY <3>3, <3>4, <4>1, Typing
    <3> QED BY <2>1, <2>2, <2>3, <3>2, <3>3, <3>5, Steps DEF WatchOK, Waiting, SamePage, SameScan
  <2>4. CASE ~(wz.step \in {"Scan", "SelectSsid"} /\ wz.pending /\ n # wz.seq)
    <3>1. wz' = wz BY <2>1, <2>4
    <3> QED BY <2>1, <2>2, <3>1
  <2> QED BY <2>3, <2>4
<1> QED BY <1>1, <1>2, <1>3

LEMMA HandoffPreserves ==
    ASSUME WizardInv,
           \/ StatusArrives \/ DeviceMoves \/ WorkerFrame \/ ObserverAccepts \/ Observes
           \/ TakesPosted \/ TimerFires
    PROVE  WizardInv'
<1> USE DEF WizardInv
<1>1. CASE StatusArrives
  <2>1. UNCHANGED <<posted, earned, stray, scanSeq, results, loose>>
    BY <1>1 DEF StatusArrives, DialogTakes
  <2>2. CASE wz' = Mark(wz, "Connecting", "GotIp")
    <3>1. Kept(wz', wz) BY <2>2, KeptByMark, Steps
    <3> QED BY <2>1, <3>1 DEF Kept
  <2>3. CASE wz' = TcpStands(wz)
    <3>1. Kept(wz', wz) BY <2>3, KeptByHandoff
    <3> QED BY <2>1, <3>1 DEF Kept
  <2>4. CASE wz' = wz BY <2>1, <2>4
  <2>5. CASE wz.step \in {"Connecting", "GotIp", "TcpConnected"} /\ wz' = Fails(wz)
    <3>1. loose = {} => ~wz.scanning /\ ~wz.pending BY <2>5 DEF WatchOK
    <3> QED BY <2>1, <2>5, <3>1, KeptByFailing
  <2> QED BY <1>1, <2>2, <2>3, <2>4, <2>5 DEF StatusArrives
<1>2. CASE DeviceMoves BY <1>2 DEF DeviceMoves, historyVars
<1>3. CASE WorkerFrame
  <2>1. UNCHANGED <<posted, stray, scanSeq, results, loose>> /\ earned' = TRUE
    BY <1>3 DEF WorkerFrame, linkVars
  <2>2. PICK w : w = [wz EXCEPT !.frame = TRUE] OBVIOUS
  <2>3. w \in Dialogs /\ WatchOK(w, loose) BY <2>2 DEF Dialogs, Observers, WatchOK, Waiting
  <2>4. wz' = CompleteResync(w) BY <1>3, <2>2 DEF WorkerFrame
  <2>5. Kept(wz', w) BY <2>3, <2>4, KeptByHandoff
  <2> QED BY <2>1, <2>3, <2>5 DEF Kept
<1>4. CASE ObserverAccepts \/ Observes
  <2>1. UNCHANGED <<scanSeq, results, earned, stray, loose>> /\ posted' \in Seq(Signals)
    <3>1. UNCHANGED <<scanSeq, results, earned, stray, loose>>
      BY <1>4 DEF ObserverAccepts, Observes, ObserverMoves, linkVars, historyVars
    <3>2. posted' = posted \/ \E e \in Signals : posted' = Append(posted, e)
      BY <1>4 DEF ObserverAccepts, Observes, Signals
    <3>3. posted \in Seq(Signals) OBVIOUS
    <3> QED BY <3>1, <3>2, <3>3
  <2>2. PICK o : o \in Observers /\ wz' = [wz EXCEPT !.observer = o]
    <3>1. PICK o : o = wz.observer OBVIOUS
    <3>2. o \in Observers BY <3>1 DEF Dialogs
    <3>3. \/ wz' = [wz EXCEPT !.observer = [o EXCEPT !.at = "session"]]
          \/ wz' = [wz EXCEPT !.observer = [o EXCEPT !.shook = TRUE]]
          \/ wz' = [wz EXCEPT !.observer = [o EXCEPT !.framed = TRUE]]
          \/ wz' = [wz EXCEPT !.observer = [o EXCEPT !.at = "over"]]
      BY <1>4, <3>1, Zenon DEF ObserverAccepts, Observes
    <3>4. /\ [o EXCEPT !.at = "session"] \in Observers
          /\ [o EXCEPT !.at = "over"] \in Observers
          /\ [o EXCEPT !.shook = TRUE] \in Observers
          /\ [o EXCEPT !.framed = TRUE] \in Observers
      BY <3>2 DEF Observers
    <3> QED BY <3>3, <3>4, Zenon
  <2>3. wz' \in Dialogs /\ SamePage(wz', wz) /\ (wz'.watch <=> wz.watch)
    BY <2>2 DEF Dialogs, Observers, SamePage, SameScan
  <2>4. Kept(wz', wz) BY <2>3, KeptPage
  <2> QED BY <2>1, <2>4 DEF Kept
<1>5. CASE TakesPosted
  <2>1. PICK p : p = Head(posted) OBVIOUS
  <2>2. p \in Signals /\ posted' \in Seq(Signals) BY <1>5, <2>1 DEF TakesPosted
  <2>3. UNCHANGED <<scanSeq, results, stray, loose>> /\ earned' = (earned \/ p = "frame")
    BY <1>5, <2>1 DEF TakesPosted, linkVars
  <2>4. earned \/ p = "frame" => earned' BY <2>3, Zenon
  <2>5. CASE p = "handshake"
    <3>1. PICK m, t : m = Mark(wz, "Connecting", "GotIp") /\ t = TcpStands(m) OBVIOUS
    <3>2. Kept(m, wz) BY <3>1, KeptByMark, Steps
    <3>3. Kept(t, m) BY <3>1, <3>2, KeptByHandoff DEF Kept
    <3>4. wz' = Refresh(t) BY <1>5, <2>1, <2>5, <3>1 DEF TakesPosted
    <3>5. Kept(wz', t) BY <3>3, <3>4, Observing, KeptPage DEF Kept
    <3> QED BY <2>2, <2>3, <2>4, <3>2, <3>3, <3>5 DEF Kept
  <2>6. CASE p = "frame"
    <3>1. PICK w, t : w = [wz EXCEPT !.frame = TRUE] /\ t = CompleteResync(w) OBVIOUS
    <3>2. w \in Dialogs /\ WatchOK(w, loose) BY <3>1 DEF Dialogs, Observers, WatchOK, Waiting
    <3>3. Kept(t, w) BY <3>1, <3>2, KeptByHandoff
    <3>4. wz' = Refresh(t) BY <1>5, <2>1, <2>6, <3>1 DEF TakesPosted
    <3>5. Kept(wz', t) BY <3>3, <3>4, Observing, KeptPage DEF Kept
    <3> QED BY <2>2, <2>3, <2>4, <2>6, <3>2, <3>3, <3>5 DEF Kept
  <2>7. CASE p = "lost"
    <3>1. wz' = (IF wz.step \in Async THEN Fails(wz) ELSE wz) BY <1>5, <2>1, <2>7 DEF TakesPosted
    <3>2. CASE wz.step \in Async
      <4>1. loose = {} => ~wz.scanning /\ ~wz.pending BY <3>2, Steps DEF WatchOK
      <4> QED BY <2>2, <2>3, <2>4, <3>1, <3>2, <4>1, KeptByFailing
    <3>3. CASE wz.step \notin Async BY <2>2, <2>3, <2>4, <3>1, <3>3
    <3> QED BY <3>2, <3>3
  <2> QED BY <2>2, <2>5, <2>6, <2>7 DEF Signals
<1>6. CASE TimerFires
  <2>1. UNCHANGED <<posted, earned, stray, scanSeq, results, loose>>
    BY <1>6 DEF TimerFires, linkVars, historyVars
  <2>2. CASE ~Waiting(wz)
    <3>1. wz' = Unwatched(wz) BY <1>6, <2>2 DEF TimerFires
    <3>2. wz' \in Dialogs /\ SamePage(wz', wz) BY <3>1, Watching
    <3> QED BY <2>1, <2>2, <3>2 DEF WatchOK, Waiting, SamePage, SameScan
  <2>3. CASE Waiting(wz)
    <3>1. PICK w : w = (IF wz.step = "Scan" THEN ScanForgotten(wz) ELSE wz) OBVIOUS
    <3>2. w \in Dialogs /\ (loose = {} => ~w.scanning /\ ~w.pending) /\ (w.frame <=> wz.frame)
      BY <3>1, Forgetting DEF WatchOK
    <3>3. wz' = Fails(w) BY <1>6, <2>3, <3>1 DEF TimerFires
    <3> QED BY <2>1, <3>2, <3>3, KeptByFailing
  <2> QED BY <2>2, <2>3
<1> QED BY <1>1, <1>2, <1>3, <1>4, <1>5, <1>6

LEMMA WizardStep == WizardInv /\ [WizardNext]_wizardVars => WizardInv'
<1> SUFFICES ASSUME WizardInv, [WizardNext]_wizardVars PROVE WizardInv' OBVIOUS
<1>1. CASE UNCHANGED wizardVars BY <1>1 DEF wizardVars, WizardInv
<1> QED
  BY <1>1, UserPreserves, LinkPreserves, AnswersPreserve, HandoffPreserves DEF WizardNext

\* Whatever the user does, the link loses and the device answers, for any number of scans,
\* configurations and dialogs: a wait of the wizard has its watchdog, but for the reasons
\* that are recorded.
THEOREM WaitsAreWatched == WizardSpec => []WaitIsWatched
<1>1. WizardInv => WaitIsWatched BY DEF WizardInv, WatchOK, WaitIsWatched
<1> QED BY <1>1, WizardInitial, WizardStep, PTL DEF WizardSpec

\* The wizard is never done without a frame that came since its Apply, or one of an earlier
\* observer that was left over then.
THEOREM DoneOnFrame == WizardSpec => []DoneIsEarned
<1>1. WizardInv => DoneIsEarned BY DEF WizardInv, DoneIsEarned
<1> QED BY <1>1, WizardInitial, WizardStep, PTL DEF WizardSpec
================================================================================

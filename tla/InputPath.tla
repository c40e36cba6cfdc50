------------------------------ MODULE InputPath ------------------------------
(***************************************************************************)
(* Mouse and keyboard on their way from the host's window through the      *)
(* worker's queue and the link to InputManager and LvglInputAdapter on the *)
(* device, and to LVGL, which polls.  No packet says that a button went    *)
(* down or up: each carries the buttons' state, from which the device      *)
(* derives the change.  Of the mouse the left button is modelled, without  *)
(* coordinates; of the keyboard one key.                                   *)
(***************************************************************************)
EXTENDS BoundedQueue

CONSTANTS
    InputQueueCap,   \* capacity of the worker's queue (256); also of the link
    KeyQueueCap,     \* kKeyQueueCapacity (32)
    HoldReads,       \* kPointerClickHoldReads (2)
    MaxActs,         \* things the user does
    MaxInputFaults   \* events lost and sessions ended

\* A press of no poll would not be one.
ASSUME InputBounds == HoldReads \in Nat \ {0}

VARIABLES
    userLeft, userKey,   \* what the user holds down
    keyRepeats,          \* the key has been held long enough to repeat
    over,                \* the mouse is over the picture, not beside it
    pending,             \* MouseMoveThrottle: the move it holds back
    inputQueue, batch,   \* the worker's queue, and what drainInputQueue took of it
    hostLinked,          \* the host's endpoint is connected
    inputWire,           \* events under way
    deviceLinked,        \* the device's endpoint is not Disconnected
    rxInput,             \* an event that passed the endpoint's check of the state
    resetting,           \* onSessionState(Disconnected): "no", "manager", "adapter" is next
    buttons, keys,       \* InputManager: buttons_, pressedKeys_
    leftPressed, releasePending, holdReadsLeft, keyQueue,   \* LvglInputAdapter
    mouseOff,            \* why the device may take the button for something else than the
                         \* user holds: "no", "lost", "beside" the picture, "stale"
    keyOff,              \* so may it the key
    unseen,              \* LVGL has not read the press the adapter was told of
    lateFeed,            \* an event was fed to the manager after its reset
    acts, inputFaults

userVars == <<userLeft, userKey, keyRepeats, over, acts>>
workerVars == <<inputQueue, batch, hostLinked>>
adapterVars == <<leftPressed, releasePending, holdReadsLeft, keyQueue>>
managerVars == <<buttons, keys>>
deviceInput == <<deviceLinked, rxInput, resetting, managerVars, adapterVars, unseen, lateFeed>>
offVars == <<mouseOff, keyOff>>
inputVars == <<userVars, pending, workerVars, inputWire, deviceInput, offVars, inputFaults>>

InputInit ==
    /\ userLeft = FALSE /\ userKey = FALSE /\ keyRepeats = FALSE /\ over = TRUE /\ acts = 0
    /\ pending = <<>> /\ inputQueue = <<>> /\ batch = <<>> /\ hostLinked = TRUE
    /\ inputWire = <<>>
    /\ deviceLinked = TRUE /\ rxInput = <<>> /\ resetting = "no"
    /\ buttons = FALSE /\ keys = FALSE
    /\ leftPressed = FALSE /\ releasePending = FALSE /\ holdReadsLeft = 0 /\ keyQueue = <<>>
    /\ mouseOff = "no" /\ keyOff = FALSE /\ unseen = FALSE /\ lateFeed = FALSE
    /\ inputFaults = 0

-----------------------------------------------------------------------------
(* The window.                                                             *)

\* InputEvent on the wire: the mouse's with the mask of the buttons, a wheel's as well.
MouseEvent(left, wheel) == [of |-> "mouse", down |-> left, wheel |-> wheel]
KeyEvent(down) == [of |-> "key", down |-> down, wheel |-> FALSE]

\* sendInput: a full queue drops the new event.  An event that says what the user holds
\* down puts right what an earlier one left wrong.
SendInput(e) ==
    LET full == Len(inputQueue) >= InputQueueCap
    IN  /\ inputQueue' = PushNewest(inputQueue, e, InputQueueCap)
        /\ IF e.of = "mouse"
           THEN /\ mouseOff' = IF full THEN "lost" ELSE IF e.down # userLeft' THEN "stale" ELSE "no"
                /\ UNCHANGED keyOff
           ELSE keyOff' = full /\ UNCHANGED mouseOff

Acts == acts < MaxActs /\ acts' = acts + 1

CrossesEdge ==
    /\ Acts /\ over' = ~over
    /\ UNCHANGED <<userLeft, userKey, keyRepeats, pending, workerVars, inputWire, deviceInput, offVars,
                   inputFaults>>

\* onMouseMove: sent at once, or held back when the last one is less than 16 ms ago.
MouseMoves ==
    /\ over /\ Acts
    /\ UNCHANGED <<userLeft, userKey, keyRepeats, over>>
    /\ \/ pending' = <<>> /\ SendInput(MouseEvent(userLeft, FALSE))
       \/ pending' = <<userLeft>> /\ UNCHANGED <<inputQueue, offVars>>
    /\ UNCHANGED <<batch, hostLinked, inputWire, deviceInput, inputFaults>>

\* flushPendingMoves: the timer sends the move that was held back, as it was then.
FlushesMove ==
    /\ pending # <<>> /\ pending' = <<>>
    /\ UNCHANGED userVars
    /\ SendInput(MouseEvent(pending[1], FALSE))
    /\ UNCHANGED <<batch, hostLinked, inputWire, deviceInput, inputFaults>>

\* onMousePress, onMouseRelease: what happens beside the picture is not sent, and a move
\* that is held back stays so.
PressesOrReleases ==
    /\ Acts /\ userLeft' = ~userLeft
    /\ UNCHANGED <<userKey, keyRepeats, over, pending>>
    /\ IF over THEN SendInput(MouseEvent(~userLeft, FALSE))
       ELSE mouseOff' = "beside" /\ UNCHANGED <<inputQueue, keyOff>>
    /\ UNCHANGED <<batch, hostLinked, inputWire, deviceInput, inputFaults>>

Wheels ==
    /\ over /\ Acts
    /\ UNCHANGED <<userLeft, userKey, keyRepeats, over, pending>>
    /\ SendInput(MouseEvent(userLeft, TRUE))
    /\ UNCHANGED <<batch, hostLinked, inputWire, deviceInput, inputFaults>>

\* onKeyPress and onKeyRelease of a key that does not repeat.
TypesKey ==
    /\ Acts /\ userKey' = ~userKey /\ keyRepeats' = FALSE
    /\ UNCHANGED <<userLeft, over, pending>>
    /\ SendInput(KeyEvent(~userKey))
    /\ UNCHANGED <<batch, hostLinked, inputWire, deviceInput, inputFaults>>

\* A key held down repeats: the toolkit reports a release and a press, both marked as
\* repeated.  onKeyRelease does not ask for the mark and sends the release; onKeyPress
\* ignores the press.
RepeatsKey ==
    /\ userKey /\ Acts /\ keyRepeats' = TRUE
    /\ UNCHANGED <<userLeft, userKey, over, pending>>
    /\ SendInput(KeyEvent(FALSE))
    /\ UNCHANGED <<batch, hostLinked, inputWire, deviceInput, inputFaults>>

-----------------------------------------------------------------------------
(* The worker and the link.                                                *)

InputLost(e) ==
    /\ mouseOff' = IF e.of = "mouse" THEN "lost" ELSE mouseOff
    /\ keyOff' = (keyOff \/ e.of = "key")

InputFault == inputFaults < MaxInputFaults /\ inputFaults' = inputFaults + 1

\* drainInputQueue takes the whole queue ...
Drains ==
    /\ batch = <<>> /\ inputQueue # <<>>
    /\ batch' = inputQueue /\ inputQueue' = <<>>
    /\ UNCHANGED <<userVars, pending, hostLinked, inputWire, deviceInput, offVars, inputFaults>>

\* ... and sends it event by event; what cannot be sent is dropped.
SendsInput ==
    /\ batch # <<>> /\ batch' = Tail(batch)
    /\ \/ /\ hostLinked /\ Len(inputWire) < InputQueueCap
          /\ inputWire' = Append(inputWire, Head(batch))
          /\ UNCHANGED <<offVars, inputFaults>>
       \/ /\ IF hostLinked THEN InputFault ELSE UNCHANGED inputFaults
          /\ InputLost(Head(batch)) /\ UNCHANGED inputWire
    /\ UNCHANGED <<userVars, pending, inputQueue, hostLinked, deviceInput>>

InputDamaged ==
    /\ inputWire # <<>> /\ InputFault
    /\ inputWire' = Tail(inputWire) /\ InputLost(Head(inputWire))
    /\ UNCHANGED <<userVars, pending, workerVars, deviceInput>>

HostUnlinks ==
    /\ hostLinked /\ InputFault /\ hostLinked' = FALSE
    /\ UNCHANGED <<userVars, pending, inputQueue, batch, inputWire, deviceInput, offVars>>

HostLinks ==
    /\ ~hostLinked /\ hostLinked' = TRUE
    /\ UNCHANGED <<userVars, pending, inputQueue, batch, inputWire, deviceInput, offVars,
                   inputFaults>>

-----------------------------------------------------------------------------
(* The device.                                                             *)

\* ProtocolEndpoint::handleMessage looks at the state under its lock and goes on without.
ReceivesInput ==
    /\ inputWire # <<>> /\ rxInput = <<>>
    /\ inputWire' = Tail(inputWire)
    /\ IF deviceLinked THEN rxInput' = <<Head(inputWire)>> /\ UNCHANGED offVars
       ELSE InputLost(Head(inputWire)) /\ UNCHANGED rxInput
    /\ UNCHANGED <<userVars, pending, workerVars, deviceLinked, resetting, managerVars, adapterVars,
                   unseen, lateFeed, inputFaults>>

PointerDown ==
    /\ leftPressed' = TRUE /\ releasePending' = FALSE /\ holdReadsLeft' = 0

\* Mutant of PointerUp: the button is released at once.
PointerUpAtOnce ==
    /\ leftPressed' = FALSE /\ UNCHANGED <<releasePending, holdReadsLeft>>
\* The press stays on show for HoldReads polls of LVGL.
PointerUp ==
    /\ IF leftPressed THEN releasePending' = TRUE /\ holdReadsLeft' = HoldReads
       ELSE UNCHANGED <<releasePending, holdReadsLeft>>
    /\ UNCHANGED leftPressed

PointerMoves(left) ==
    /\ leftPressed' = IF releasePending THEN leftPressed ELSE left
    /\ UNCHANGED <<releasePending, holdReadsLeft>>

\* applyMouseState: the change of the mask is the press or the release.
ApplyMove(left) ==
    /\ buttons' = left
    /\ IF left /\ ~buttons THEN PointerDown /\ unseen' = TRUE
       ELSE /\ UNCHANGED unseen
            /\ IF buttons /\ ~left THEN PointerUp ELSE PointerMoves(left)

\* Mutant of ApplyWheel: a wheel's mask is not looked at.
ApplyWheelOnly(left) == UNCHANGED <<buttons, unseen, leftPressed, releasePending, holdReadsLeft>>
\* A wheel's mask is stored without being reported: the press or release it brings
\* is hidden from LVGL.
ApplyWheel(left) ==
    /\ buttons' = left
    /\ unseen' = (unseen /\ left = buttons)
    /\ UNCHANGED <<leftPressed, releasePending, holdReadsLeft>>

FeedKey(down) ==
    /\ keys' = down
    /\ keyQueue' = PushNewest(keyQueue, down, KeyQueueCap)

\* onOtherMessage: InputManager::feed, which calls the adapter under its own lock.
FeedsInput ==
    /\ rxInput # <<>> /\ rxInput' = <<>>
    /\ LET e == rxInput[1]
       IN  \/ e.of = "mouse" /\ ~e.wheel /\ ApplyMove(e.down) /\ UNCHANGED <<keys, keyQueue>>
           \/ e.of = "mouse" /\ e.wheel /\ ApplyWheel(e.down) /\ UNCHANGED <<keys, keyQueue>>
           \/ /\ e.of = "key" /\ FeedKey(e.down)
              /\ UNCHANGED <<buttons, unseen, leftPressed, releasePending, holdReadsLeft>>
    /\ lateFeed' = ~deviceLinked
    /\ UNCHANGED <<userVars, pending, workerVars, inputWire, deviceLinked, resetting, offVars,
                   inputFaults>>

DeviceUnlinks ==
    /\ deviceLinked /\ resetting = "no" /\ InputFault
    /\ deviceLinked' = FALSE /\ resetting' = "manager"
    /\ UNCHANGED <<userVars, pending, workerVars, inputWire, rxInput, managerVars, adapterVars,
                   unseen, lateFeed, offVars>>

\* The callback of the end may still be under way.
DeviceLinks ==
    /\ ~deviceLinked /\ deviceLinked' = TRUE
    /\ UNCHANGED <<userVars, pending, workerVars, inputWire, rxInput, resetting, managerVars,
                   adapterVars, unseen, lateFeed, offVars, inputFaults>>

\* InputManager::resetState releases what is pressed, and tells the adapter.
ResetsManager ==
    /\ resetting = "manager" /\ resetting' = "adapter"
    /\ buttons' = FALSE /\ keys' = FALSE
    /\ keyQueue' = IF keys THEN PushNewest(keyQueue, FALSE, KeyQueueCap) ELSE keyQueue
    /\ IF buttons THEN PointerUp ELSE UNCHANGED <<leftPressed, releasePending, holdReadsLeft>>
    /\ mouseOff' = IF buttons THEN "lost" ELSE mouseOff
    /\ keyOff' = (keyOff \/ keys)
    /\ lateFeed' = FALSE
    /\ UNCHANGED <<userVars, pending, workerVars, inputWire, deviceLinked, rxInput, unseen,
                   inputFaults>>

\* Mutant of ClearAdapter: what waits to be released or read is kept.
ClearPressOnly == leftPressed' = FALSE /\ UNCHANGED <<releasePending, holdReadsLeft, keyQueue>>
\* LvglInputAdapter::reset, the last thing LvglPort::onSessionState does.
ClearAdapter ==
    leftPressed' = FALSE /\ releasePending' = FALSE /\ holdReadsLeft' = 0 /\ keyQueue' = <<>>

ResetsAdapter ==
    /\ resetting = "adapter" /\ resetting' = "no"
    /\ ClearAdapter /\ unseen' = FALSE
    /\ UNCHANGED <<userVars, pending, workerVars, inputWire, deviceLinked, rxInput, managerVars,
                   lateFeed, offVars, inputFaults>>

\* What pointerReadCb tells LVGL.
ShownPressed == IF releasePending THEN holdReadsLeft > 0 ELSE leftPressed

\* LvglInputAdapter::pointerState.
LvglReadsPointer ==
    /\ unseen' = (unseen /\ ~ShownPressed)
    /\ IF releasePending
       THEN IF holdReadsLeft = 0
            THEN leftPressed' = FALSE /\ releasePending' = FALSE /\ UNCHANGED holdReadsLeft
            ELSE holdReadsLeft' = holdReadsLeft - 1 /\ UNCHANGED <<leftPressed, releasePending>>
       ELSE UNCHANGED <<leftPressed, releasePending, holdReadsLeft>>
    /\ UNCHANGED <<userVars, pending, workerVars, inputWire, deviceLinked, rxInput, resetting,
                   managerVars, keyQueue, lateFeed, offVars, inputFaults>>

\* keypadReadCb.
LvglReadsKey ==
    /\ keyQueue # <<>> /\ keyQueue' = Tail(keyQueue)
    /\ UNCHANGED <<userVars, pending, workerVars, inputWire, deviceLinked, rxInput, resetting,
                   managerVars, leftPressed, releasePending, holdReadsLeft, unseen, lateFeed,
                   offVars, inputFaults>>

InputNext ==
    \/ CrossesEdge \/ MouseMoves \/ FlushesMove \/ PressesOrReleases \/ Wheels
    \/ TypesKey \/ RepeatsKey
    \/ Drains \/ SendsInput \/ InputDamaged \/ HostUnlinks \/ HostLinks
    \/ ReceivesInput \/ FeedsInput \/ DeviceUnlinks \/ DeviceLinks
    \/ ResetsManager \/ ResetsAdapter \/ LvglReadsPointer \/ LvglReadsKey

InputSpec == InputInit /\ [][InputNext]_inputVars

-----------------------------------------------------------------------------
(* Properties.                                                             *)

InputAtRest ==
    /\ pending = <<>> /\ inputQueue = <<>> /\ batch = <<>> /\ inputWire = <<>> /\ rxInput = <<>>
    /\ resetting = "no"

\* What the device is to take the key for: the first repeat of a held key releases it there,
\* for as long as the user goes on holding it (InputController::onKeyPress, onKeyRelease).
KeyToldDown == userKey /\ ~keyRepeats

\* Once all is delivered, the device has the button as the user holds it, and the key as the
\* user holds it until it begins to repeat and released from then on, through every session,
\* coalesced move and full queue, unless the last word on the matter was lost, not sent (a
\* press beside the picture), a move from before a press that the timer sent after it, or
\* a session's end (InputController, applyMouseState, resetState).
DeviceFollows ==
    InputAtRest =>
        /\ mouseOff = "no" => buttons = userLeft
        /\ ~keyOff => keys = KeyToldDown

\* docs/DESIGN.md:688: of the moves only the latest is sent, presses and releases are sent
\* at once; the device ends up as the user left the button.  But the move held back is not
\* dropped when a press or a release overtakes it, and the timer sends it after that, with
\* the mask from before (MouseMoveThrottle::flushPending).
MouseFollows == InputAtRest /\ mouseOff \in {"no", "stale"} => buttons = userLeft

\* A press that reached the adapter stays on show until LVGL has polled it, however fast
\* the release and moves follow, but for a session's end and a mask that changed in a
\* wheel event (LvglInputAdapter::feedPointer, pointerState).
ClickIsSeen == unseen => ShownPressed

\* When the device's session has ended and its callback has run, nothing is held pressed on
\* the device and no key waits for LVGL, unless the endpoint had let an event pass just
\* before (onSessionState, InputManager::resetState, LvglPort::onSessionState).
QuietWhenDown ==
    ~deviceLinked /\ resetting = "no" /\ ~lateFeed =>
        ~buttons /\ ~keys /\ ~leftPressed /\ ~releasePending /\ keyQueue = <<>>
=============================================================================

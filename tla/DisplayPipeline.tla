--------------------------- MODULE DisplayPipeline ---------------------------
(***************************************************************************)
(* From the widget tree to the picture on the host: LvglPort's UI and TX   *)
(* tasks around RemoteDisplay, a session that comes and goes, and on the   *)
(* host FrameAssembler and VirtualScreenWidget.  While the session is up   *)
(* the link delivers what the sink takes at once and in order (FrameLink   *)
(* looks at what the link itself can do to a frame).                       *)
(***************************************************************************)
EXTENDS RemoteDisplay, FrameAssembler, FiniteSets
LOCAL INSTANCE Functions

CONSTANTS
    Redrawn,       \* the areas the application redraws
    DisplayBudgets \* bounds, one of them for a behaviour: <<times the application
                   \*   redraws an area, times, together, that the sink refuses
                   \*   a message in a session, flush_cb runs out of time, the
                   \*   session is lost, and the router changes its mode>>

ASSUME AreaAssumption ==
    IsFiniteSet(Areas) /\ Areas \subseteq Nat /\ Areas # {} /\ Redrawn \subseteq Areas
ASSUME BudgetAssumption == DisplayBudgets \subseteq Nat \X Nat

VARIABLES
    content,       \* what each area of the widget tree looks like
    dirty,         \* areas LVGL has to render
    todo,          \* areas of this rendering cycle still to be flushed
    uiPc,          \* where flush_cb is
    fullInvalidatePending,
    session,       \* where the session is on its way up and down
    image,         \* the host's picture; 0 is black
    draws, troubles, \* how often each of these happened
    offered,       \* what the UI task put into each frame, and whether it
                   \*   flushed it
    races          \* the races of Race that happened

lvglVars == <<content, dirty, todo, uiPc>>
hostVars == <<assemblerVars, image>>
counters == <<draws, troubles>>
history == <<offered, races>>
vars == <<displayVars, lvglVars, fullInvalidatePending, session, hostVars, counters, history>>

Black == [a \in Areas |-> 0]

Troubles == {"refusal", "giveUp", "loss", "switch"}
Trouble(t) ==
    /\ \E b \in DisplayBudgets : draws <= b[1] /\ SumFunction(troubles) < b[2]
    /\ troubles' = [troubles EXCEPT ![t] = @ + 1]
    /\ UNCHANGED draws

\* The code has four windows between two of its locked regions.  What goes
\* through them is recorded, for the properties that hold without them:
\*   "late"     a rectangle accepted after the session it was rendered for ended
\*   "forget"   the queue emptied while pump() works on one of its slots
\*   "finish"   pump() takes a queue for empty that was filled again
\*   "noEnd"    an END refused when the next frame was begun already
Race(name, happens) == races' = IF happens THEN races \cup {name} ELSE races

Init ==
    /\ DisplayInit
    /\ AssemblerInit
    /\ content = [a \in Areas |-> 1]
    /\ dirty = {} /\ todo = <<>> /\ uiPc = "idle"
    /\ fullInvalidatePending = FALSE
    /\ session = "down"
    /\ image = Black
    /\ draws = 0 /\ troubles = [t \in Troubles |-> 0]
    /\ offered = <<>> /\ races = {}

-----------------------------------------------------------------------------
(* The UI task: LVGL's rendering cycle and flush_cb.                       *)

\* The areas of S, the i-th with i - 1 of them before it.
InOrder(S) ==
    [i \in 1..Cardinality(S) |-> CHOOSE a \in S : Cardinality({b \in S : b < a}) = i - 1]

AppDraws(a) ==
    /\ uiPc = "idle"
    /\ \E b \in DisplayBudgets : draws < b[1] /\ SumFunction(troubles) <= b[2]
    /\ draws' = draws + 1 /\ UNCHANGED troubles
    /\ content' = [content EXCEPT ![a] = @ + 1]
    /\ dirty' = dirty \cup {a}
    /\ UNCHANGED <<displayVars, todo, uiPc, fullInvalidatePending, session, hostVars, history>>

StartCycle ==
    /\ uiPc = "idle"
    /\ fullInvalidatePending \/ dirty # {}
    /\ fullInvalidatePending' = FALSE
    /\ todo' = InOrder(IF fullInvalidatePending THEN Areas ELSE dirty)
    /\ dirty' = {}
    /\ uiPc' = "check"
    /\ UNCHANGED <<displayVars, content, session, hostVars, counters, history>>

\* flush_ready: LVGL goes on with the next area, or the cycle is over.
NextArea ==
    /\ todo' = Tail(todo)
    /\ uiPc' = IF Len(todo) = 1 THEN "idle" ELSE "check"
    /\ UNCHANGED <<content, dirty>>

CheckLink ==
    /\ uiPc = "check"
    /\ IF LinkVerdict = "Ok"
       THEN uiPc' = "write" /\ UNCHANGED <<content, dirty, todo>>
       ELSE NextArea
    /\ UNCHANGED <<displayVars, fullInvalidatePending, session, hostVars, counters, history>>

\* A rectangle is added to the open frame, or is the first of a new one.
Offer(r) ==
    IF building
    THEN [offered EXCEPT ![frameId].rects = Append(@, r)]
    ELSE Append(offered, [rects |-> <<r>>, flushed |-> FALSE])

WriteAccepted ==
    /\ uiPc = "write"
    /\ LET a == Head(todo)
       IN  /\ WriteRect(a, content[a])
           /\ offered' = Offer([area |-> a, pixels |-> content[a]])
    /\ Race("late", ~connected)
    /\ IF Len(todo) = 1 THEN uiPc' = "flush" /\ UNCHANGED <<content, dirty, todo>>
       ELSE NextArea
    /\ UNCHANGED <<fullInvalidatePending, session, hostVars, counters>>

WriteAborted ==
    /\ uiPc = "write"
    /\ WriteVerdict = "FrameAborted"
    /\ NextArea
    /\ UNCHANGED <<displayVars, fullInvalidatePending, session, hostVars, counters, history>>

WriteWaits ==
    /\ uiPc = "write"
    /\ WriteVerdict \in {"FrameBusy", "QueueFull"}
    /\ uiPc' = "wait"
    /\ UNCHANGED <<displayVars, content, dirty, todo, fullInvalidatePending, session, hostVars,
                   counters, history>>

Retry ==
    /\ uiPc = "wait"
    /\ uiPc' = "check"
    /\ UNCHANGED <<displayVars, content, dirty, todo, fullInvalidatePending, session, hostVars,
                   counters, history>>

\* The deadline passed: the frame is dropped and everything is to be redrawn.
GiveUp ==
    /\ uiPc = "wait"
    /\ Trouble("giveUp")
    /\ DropPendingFrame
    /\ fullInvalidatePending' = TRUE
    /\ NextArea
    /\ UNCHANGED <<session, hostVars, history>>

FlushFrame ==
    /\ uiPc = "flush"
    /\ Flush
    /\ offered' = IF building THEN [offered EXCEPT ![frameId].flushed = TRUE] ELSE offered
    /\ NextArea
    /\ UNCHANGED <<fullInvalidatePending, session, hostVars, counters, races>>

-----------------------------------------------------------------------------
(* The TX task: each call of the sink, answered by session and link.       *)

Up == session \in {"up", "connected", "announced"}

\* What the host does with a message that reaches it.
Received(m) ==
    \/ m.type = "BEGIN" /\ HandleBegin(m)
    \/ m.type = "RECT" /\ HandleRect(<<[msg |-> m, part |-> 1]>>, FALSE)
    \/ m.type = "END" /\ HandleEnd(m)

RectsOf(frame) ==
    [i \in DOMAIN frame.rects |-> [area |-> frame.rects[i][1].msg.area,
                                   pixels |-> frame.rects[i][1].msg.pixels]]

\* VirtualScreenWidget::setFrame: a FULL frame starts from black, and every
\* rectangle covers what is under it.
Painted(frame) ==
    LET rects == RectsOf(frame)
        under == IF frame.kind = "FULL" THEN Black ELSE image
        On(a) == {i \in DOMAIN rects : rects[i].area = a}
        Newest(S) == CHOOSE i \in S : \A j \in S : j <= i
    IN  [a \in Areas |-> IF On(a) = {} THEN under[a] ELSE rects[Newest(On(a))].pixels]

Taken(m) ==
    /\ Up
    /\ Received(m)
    /\ image' = IF committed' = committed THEN image ELSE Painted(committed'[Len(committed')])
    /\ UNCHANGED <<counters, races>>

NotTaken ==
    \/ ~Up /\ UNCHANGED <<counters, hostVars>>
    \/ Up /\ Trouble("refusal") /\ UNCHANGED hostVars

\* A RECT of which only the first packets went out: the host's decoder reports
\* it when the next message begins.
CutShort ==
    /\ Up /\ Trouble("refusal")
    /\ OnStreamError
    /\ UNCHANGED image

TransmitBegin ==
    /\ \/ SendBegin(TRUE) /\ Taken(BeginMessage)
       \/ SendBegin(FALSE) /\ NotTaken /\ UNCHANGED races
    /\ UNCHANGED <<lvglVars, fullInvalidatePending, session, offered>>

TransmitRect ==
    /\ \/ SendRect(TRUE) /\ Taken(RectMessage)
       \/ SendRect(FALSE) /\ (NotTaken \/ CutShort) /\ UNCHANGED races
    /\ UNCHANGED <<lvglVars, fullInvalidatePending, session, offered>>

TransmitEnd ==
    /\ \/ SendEnd(TRUE) /\ Taken(endMsg)
       \/ SendEnd(FALSE) /\ NotTaken /\ Race("noEnd", FrameOpen)
    /\ UNCHANGED <<lvglVars, fullInvalidatePending, session, offered>>

Pump ==
    /\ \/ PumpEmpty \/ PumpStart \/ PumpPeek \/ PumpBegun \/ PumpRectSent \/ PumpPop
       \/ PumpFinish
    /\ Race("finish", pumpPc = "finish" /\ count > 0)
    /\ UNCHANGED <<lvglVars, fullInvalidatePending, session, hostVars, counters, offered>>

-----------------------------------------------------------------------------
(* The session.  Between the endpoint's change of state and the two parts  *)
(* of its callback, LvglPort::onSessionState, the tasks go on.             *)

Go(from, to) == session = from /\ session' = to

SessionUp ==
    /\ Go("down", "up")
    /\ AssemblerReset
    /\ UNCHANGED <<displayVars, lvglVars, fullInvalidatePending, image, counters, history>>

NotifyConnected ==
    /\ Go("up", "announced")
    /\ OnConnected
    /\ UNCHANGED <<lvglVars, fullInvalidatePending, hostVars, counters, history>>

\* Mutant of NotifyInvalidate: nothing is redrawn for the new session.
ConnectWithoutRedraw ==
    /\ Go("announced", "connected")
    /\ UNCHANGED fullInvalidatePending
    /\ UNCHANGED <<displayVars, lvglVars, hostVars, counters, history>>

NotifyInvalidate ==
    /\ Go("announced", "connected")
    /\ fullInvalidatePending' = TRUE
    /\ UNCHANGED <<displayVars, lvglVars, hostVars, counters, history>>

\* The host clears its picture.
SessionLost ==
    /\ Go("connected", "lost")
    /\ Trouble("loss")
    /\ AssemblerReset
    /\ image' = Black
    /\ UNCHANGED <<displayVars, lvglVars, fullInvalidatePending, history>>

NotifyLost ==
    /\ Go("lost", "cleared")
    /\ fullInvalidatePending' = FALSE
    /\ UNCHANGED <<displayVars, lvglVars, hostVars, counters, history>>

NotifyDisconnected ==
    /\ Go("cleared", "down")
    /\ OnDisconnected
    /\ Race("forget", pumpPc # "idle")
    /\ UNCHANGED <<lvglVars, fullInvalidatePending, hostVars, counters, offered>>

-----------------------------------------------------------------------------
(* DisplayRouter::setMode, whose mutex writeRect holds too: every sink is  *)
(* disabled, and those of the new mode are enabled again.                  *)

SetMode(virtualOn) ==
    /\ uiPc # "write"
    /\ Trouble("switch")
    /\ Disable(virtualOn)
    /\ Race("forget", pumpPc # "idle")
    /\ fullInvalidatePending' = TRUE
    /\ UNCHANGED <<lvglVars, session, hostVars, offered>>

-----------------------------------------------------------------------------
Next ==
    \/ \E a \in Redrawn : AppDraws(a)
    \/ StartCycle \/ CheckLink \/ WriteAccepted \/ WriteAborted \/ WriteWaits \/ Retry \/ GiveUp
    \/ FlushFrame
    \/ Pump \/ TransmitBegin \/ TransmitRect \/ TransmitEnd
    \/ SessionUp \/ NotifyConnected \/ NotifyInvalidate
    \/ SessionLost \/ NotifyLost \/ NotifyDisconnected
    \/ \E on \in BOOLEAN : SetMode(on)

Spec == Init /\ [][Next]_vars

-----------------------------------------------------------------------------
(* Properties.                                                             *)

\* The frame is one that the UI task flushed, with all it wrote.
IsWhole(frame) ==
    /\ offered[frame.frameId].flushed
    /\ RectsOf(frame) = offered[frame.frameId].rects

\* remote_display.h: END follows when the queue is drained, and the host never
\* takes half a frame for a complete picture.  (The code breaks it: between two
\* locked regions at the end of pump() a queue found empty is filled again.)
CommittedIsWhole == \A i \in DOMAIN committed : IsWhole(committed[i])

\* But for the four windows, whatever is refused, aborted, lost or switched, the
\* host commits no aborted, incomplete or mixed frame.
WholeWithoutRaces == races = {} => CommittedIsWhole

\* A PARTIAL frame the host commits changes the very picture it was rendered
\* against: no frame is missing between it and the one committed before.  This
\* is what needFull_ is for, which five places set and the next frame clears.
ChainUnbroken ==
    races = {} => \A i \in DOMAIN committed : committed[i].kind = "PARTIAL" =>
        i > 1 /\ committed[i].frameId = committed[i - 1].frameId + 1

\* Nothing is left to render or to send, and nothing was refused on the way.
Settled ==
    /\ session = "connected" /\ enabled
    /\ uiPc = "idle" /\ dirty = {} /\ ~fullInvalidatePending
    /\ pumpPc = "idle" /\ count = 0 /\ abortPending = NoAbort /\ ~(endQueued /\ wireOpen)
    /\ races = {} /\ troubles["refusal"] = 0

\* When all has come to rest the host shows what the widget tree looks like,
\* after reconnects and mode switches too: the invalidation of onSessionState
\* and of the router is never consumed in vain.
Converges == Settled /\ troubles["giveUp"] = 0 => image = content

\* lvgl_port.cpp: after giving up, the next UI cycle redraws everything, so that
\* a static picture is sent again.  (The code breaks it: while the TX task still
\* owes the END(ABORTED), every rectangle of that cycle is refused at once.)
ResyncsAfterGiveUp == Settled => image = content
=============================================================================

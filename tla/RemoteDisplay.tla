---------------------------- MODULE RemoteDisplay ----------------------------
(***************************************************************************)
(* shared/display/remote_display: the UI task writes the rectangles of a   *)
(* frame into a bounded queue of slots; the TX task turns them into BEGIN, *)
(* RECT and END messages, which it sends without holding the lock.         *)
(*                                                                         *)
(* An action is what runs under the lock, or one call of the sink.  A      *)
(* rectangle is an area of the screen and the version of its pixels.       *)
(***************************************************************************)
EXTENDS Integers, Sequences, FrameIds

CONSTANTS
    Areas,         \* areas of the screen a rectangle covers
    QueueSlots     \* Config::queueSlots

ASSUME QueueAssumption == QueueSlots \in Nat \ {0}

NoAbort == 0       \* no frame has this number: the first is 1

VARIABLES
    connected, enabled,  \* connected_, enabled_
    building,      \* a frame is open for writeRect
    endQueued,     \* flush() was called for the frame in the queue
    needFull,      \* the next frame is FULL
    frameId,       \* frameId_, frameType_ and rectCount_ of the frame the UI
    frameType,     \*   writes
    rectsWritten,
    abortPending,  \* the frame whose END(ABORTED) is owed, or NoAbort
    wireOpen,      \* a BEGIN went out and its END did not
    wire,          \* wireFrameId_ and wireRectCount_
    slots, head, count,  \* the ring of slots
    pumpPc,        \* where the TX task is in pump()
    entry,         \* what it copied from the slot it works on
    entrySlot,     \* that slot, whose pixels it sends from
    sendOk,        \* the sink's last answer
    endMsg         \* the END it is about to send

uiVars == <<building, endQueued, frameId, frameType, rectsWritten>>
queueVars == <<slots, head, count>>
wireVars == <<wireOpen, wire>>
pumpVars == <<pumpPc, entry, entrySlot, sendOk, endMsg>>
linkVars == <<connected, enabled>>
displayVars == <<uiVars, queueVars, wireVars, pumpVars, linkVars, needFull, abortPending>>

EmptySlot == [first |-> FALSE, kind |-> "FULL", frame |-> 0, area |-> 0, pixels |-> 0]
NoWire == [frame |-> 0, rects |-> 0]
NoEnd == [type |-> "END", frame |-> 0, rects |-> 0, bytes |-> 0, aborted |-> FALSE]

DisplayInit ==
    /\ connected = FALSE /\ enabled = TRUE
    /\ building = FALSE /\ endQueued = FALSE
    /\ needFull = TRUE
    /\ frameId = 0 /\ frameType = "FULL" /\ rectsWritten = 0
    /\ abortPending = NoAbort
    /\ wireOpen = FALSE /\ wire = NoWire
    /\ slots = [i \in 0..(QueueSlots - 1) |-> EmptySlot] /\ head = 0 /\ count = 0
    /\ pumpPc = "idle" /\ entry = EmptySlot /\ entrySlot = 0 /\ sendOk = TRUE
    /\ endMsg = NoEnd

-----------------------------------------------------------------------------
(* The UI task.                                                            *)

FrameOpen == building \/ endQueued \/ count > 0 \/ wireOpen

\* writeRect looks at the flags before it takes the lock ...
LinkVerdict ==
    IF ~enabled THEN "NotEnabled" ELSE IF ~connected THEN "NotConnected" ELSE "Ok"

\* ... and then at the queue, in this order.
WriteVerdict ==
    IF abortPending # NoAbort /\ SameId(frameId, abortPending) THEN "FrameAborted"
    ELSE IF ~building /\ (endQueued \/ count > 0) THEN "FrameBusy"
    ELSE IF count = QueueSlots THEN "QueueFull"
    ELSE "Ok"

\* A rectangle that is accepted; the first of a frame starts it.  (A full queue
\* refuses a first rectangle as FrameBusy, so a frame is started only with it.)
WriteRect(area, pixels) ==
    /\ WriteVerdict = "Ok"
    /\ LET first == ~building
           kind == IF ~first THEN frameType ELSE IF needFull THEN "FULL" ELSE "PARTIAL"
           id == IF first THEN frameId + 1 ELSE frameId
           n == IF first THEN 0 ELSE rectsWritten
       IN  /\ frameId' = id
           /\ frameType' = kind
           /\ rectsWritten' = n + 1
           /\ needFull' = (~first /\ needFull)
           /\ slots' = [slots EXCEPT ![(head + count) % QueueSlots] =
                           [first |-> n = 0, kind |-> kind, frame |-> id,
                            area |-> area, pixels |-> pixels]]
    /\ building' = TRUE
    /\ count' = count + 1
    /\ UNCHANGED <<endQueued, head, wireVars, pumpVars, linkVars, abortPending>>

Flush ==
    /\ building' = FALSE
    /\ endQueued' = (endQueued \/ building)
    /\ UNCHANGED <<frameId, frameType, rectsWritten, queueVars, wireVars, pumpVars, linkVars,
                   needFull, abortPending>>

\* Mutant of DropPendingFrame: the next frame may be PARTIAL.
DropKeepsNeedFull ==
    /\ abortPending' = IF abortPending = NoAbort /\ FrameOpen THEN frameId ELSE abortPending
    /\ building' = (building /\ abortPending' = NoAbort)
    /\ endQueued' = (endQueued /\ abortPending' = NoAbort)
    /\ UNCHANGED <<frameId, frameType, rectsWritten, queueVars, wireVars, pumpVars, linkVars,
                   needFull>>

\* The caller gave up waiting: the frame, if there is one, is to be aborted.
DropPendingFrame ==
    /\ abortPending' = IF abortPending = NoAbort /\ FrameOpen THEN frameId ELSE abortPending
    /\ building' = (building /\ abortPending' = NoAbort)
    /\ endQueued' = (endQueued /\ abortPending' = NoAbort)
    /\ needFull' = TRUE
    /\ UNCHANGED <<frameId, frameType, rectsWritten, queueVars, wireVars, pumpVars, linkVars>>

-----------------------------------------------------------------------------
(* The session and the router.                                             *)

\* Everything not yet sent is forgotten.
Forget ==
    /\ head' = 0 /\ count' = 0
    /\ building' = FALSE
    /\ endQueued' = FALSE
    /\ abortPending' = NoAbort
    /\ wireOpen' = FALSE
    /\ needFull' = TRUE
    /\ UNCHANGED <<frameId, frameType, rectsWritten, slots, wire, pumpVars>>

\* setEnabled(false), which the router may follow with setEnabled(true).
Disable(again) ==
    /\ enabled' = again
    /\ UNCHANGED connected
    /\ Forget

OnConnected ==
    /\ connected' = TRUE
    /\ needFull' = TRUE
    /\ UNCHANGED <<uiVars, queueVars, wireVars, pumpVars, enabled, abortPending>>

OnDisconnected ==
    /\ connected
    /\ connected' = FALSE
    /\ UNCHANGED enabled
    /\ Forget

-----------------------------------------------------------------------------
(* The TX task: pump().                                                    *)

\* The END of the frame on the wire.
EndOfWire(aborted) ==
    [type |-> "END", frame |-> wire.frame, rects |-> wire.rects, bytes |-> wire.rects,
     aborted |-> aborted]

\* Mutant of FinishFrame: a frame to be aborted is ended like any other.
FinishWithoutAbort ==
    /\ pumpPc' = IF wireOpen /\ (abortPending # NoAbort \/ endQueued) THEN "end" ELSE "idle"
    /\ IF wireOpen /\ (abortPending # NoAbort \/ endQueued)
       THEN /\ endMsg' = EndOfWire(FALSE)
            /\ wireOpen' = FALSE
       ELSE UNCHANGED <<endMsg, wireOpen>>
    /\ IF abortPending # NoAbort \/ (wireOpen /\ endQueued)
       THEN building' = FALSE /\ endQueued' = FALSE /\ abortPending' = NoAbort
       ELSE UNCHANGED <<building, endQueued, abortPending>>

\* The queue is empty: is an END, or an END(ABORTED), owed?
FinishFrame ==
    /\ pumpPc' = IF wireOpen /\ (abortPending # NoAbort \/ endQueued) THEN "end" ELSE "idle"
    /\ IF wireOpen /\ (abortPending # NoAbort \/ endQueued)
       THEN /\ endMsg' = EndOfWire(abortPending # NoAbort)
            /\ wireOpen' = FALSE
       ELSE UNCHANGED <<endMsg, wireOpen>>
    /\ IF abortPending # NoAbort \/ (wireOpen /\ endQueued)
       THEN building' = FALSE /\ endQueued' = FALSE /\ abortPending' = NoAbort
       ELSE UNCHANGED <<building, endQueued, abortPending>>

\* Phase 1 with an empty queue.
PumpEmpty ==
    /\ pumpPc = "idle"
    /\ count = 0
    /\ abortPending # NoAbort \/ (endQueued /\ wireOpen)
    /\ FinishFrame
    /\ UNCHANGED <<frameId, frameType, rectsWritten, queueVars, wire, entry, entrySlot, sendOk,
                   linkVars, needFull>>

\* Phase 1 with something to send; the lock is released before Phase 2.
PumpStart ==
    /\ pumpPc = "idle"
    /\ count > 0
    /\ pumpPc' = "peek"
    /\ UNCHANGED <<uiVars, queueVars, wireVars, entry, entrySlot, sendOk, endMsg, linkVars,
                   needFull, abortPending>>

PopFront ==
    IF count = 0 THEN UNCHANGED queueVars
    ELSE /\ head' = (head + 1) % QueueSlots
         /\ count' = count - 1
         /\ UNCHANGED slots

\* Phase 2: a slot of a frame to be aborted is thrown away, any other copied.
PumpPeek ==
    /\ pumpPc = "peek"
    /\ LET s == slots[head]
       IN  IF abortPending # NoAbort /\ SameId(s.frame, abortPending)
           THEN /\ PopFront
                /\ pumpPc' = "idle"
                /\ UNCHANGED <<entry, entrySlot>>
           ELSE /\ entry' = s
                /\ entrySlot' = head
                /\ pumpPc' = IF s.first THEN "begin" ELSE "rect"
                /\ UNCHANGED queueVars
    /\ UNCHANGED <<uiVars, wireVars, sendOk, endMsg, linkVars, needFull, abortPending>>

BeginMessage ==
    [type |-> "BEGIN", frame |-> entry.frame, kind |-> entry.kind, valid |-> TRUE]

\* The pixels are read from the slot while it is sent.
RectMessage ==
    [type |-> "RECT", parts |-> 1, area |-> entry.area, pixels |-> slots[entrySlot].pixels]

\* The sink answers; `next` is where the TX task takes the lock again.
Sent(at, ok, next) ==
    /\ pumpPc = at
    /\ sendOk' = ok
    /\ pumpPc' = next
    /\ UNCHANGED <<uiVars, queueVars, wireVars, entry, entrySlot, endMsg, linkVars, needFull,
                   abortPending>>

SendBegin(ok) == Sent("begin", ok, "begun")
SendRect(ok) == Sent("rect", ok, "rectSent")

PumpBegun ==
    /\ pumpPc = "begun"
    /\ IF sendOk
       THEN /\ wireOpen' = TRUE
            /\ wire' = [frame |-> entry.frame, rects |-> 0]
            /\ pumpPc' = "rect"
            /\ UNCHANGED needFull
       ELSE /\ needFull' = TRUE
            /\ pumpPc' = "pop"
            /\ UNCHANGED wireVars
    /\ UNCHANGED <<uiVars, queueVars, entry, entrySlot, sendOk, endMsg, linkVars, abortPending>>

PumpRectSent ==
    /\ pumpPc = "rectSent"
    /\ pumpPc' = "pop"
    /\ IF sendOk
       THEN /\ wire' = [wire EXCEPT !.rects = @ + 1]
            /\ UNCHANGED <<needFull, abortPending>>
       ELSE /\ needFull' = TRUE
            /\ abortPending' = IF wireOpen THEN wire.frame ELSE abortPending
            /\ UNCHANGED wire
    /\ UNCHANGED <<uiVars, queueVars, wireOpen, entry, entrySlot, sendOk, endMsg, linkVars>>

\* Phase 3: the slot is freed ...
PumpPop ==
    /\ pumpPc = "pop"
    /\ PopFront
    /\ pumpPc' = IF count' = 0 THEN "finish" ELSE "idle"
    /\ UNCHANGED <<uiVars, wireVars, entry, entrySlot, sendOk, endMsg, linkVars, needFull,
                   abortPending>>

\* ... and if it was the last, the frame is finished, under the lock again.
PumpFinish ==
    /\ pumpPc = "finish"
    /\ FinishFrame
    /\ UNCHANGED <<frameId, frameType, rectsWritten, queueVars, wire, entry, entrySlot, sendOk,
                   linkVars, needFull>>

\* END is sent; needFull_ is set without the lock when the sink refuses it.
SendEnd(ok) ==
    /\ pumpPc = "end"
    /\ sendOk' = ok
    /\ needFull' = (needFull \/ ~ok)
    /\ pumpPc' = "idle"
    /\ UNCHANGED <<uiVars, queueVars, wireVars, entry, entrySlot, endMsg, linkVars,
                   abortPending>>
=============================================================================

--------------------------- MODULE FrameAssembler ---------------------------
(***************************************************************************)
(* shared/protocol/frame_assembler: BEGIN, RECT and END messages to        *)
(* committed frames.  Pixels are the chunks of the RECT payloads; a RECT   *)
(* is well formed when its payload has the size its own header announces.  *)
(***************************************************************************)
EXTENDS FrameIds, Sequences

VARIABLES
    frameState,        \* "Idle", "InFrame" or "DiscardFrame"
    begin,             \* id and kind of the frame being received
    rectCount,         \* its RECT messages so far
    byteCount,         \* and their pixels, in chunks
    hasCommittedBase,  \* a PARTIAL frame may be applied
    received,          \* the RECT payloads handed to onRect since BEGIN
    committed          \* every frame handed to onCommit, oldest first

assemblerVars == <<frameState, begin, rectCount, byteCount, hasCommittedBase,
                   received, committed>>

NoFrame == [frameId |-> 0, kind |-> "FULL"]

AssemblerInit ==
    /\ frameState = "Idle"
    /\ begin = NoFrame
    /\ rectCount = 0
    /\ byteCount = 0
    /\ hasCommittedBase = FALSE
    /\ received = <<>>
    /\ committed = <<>>

-----------------------------------------------------------------------------
Discard ==
    /\ frameState' = "DiscardFrame"
    /\ UNCHANGED <<begin, rectCount, byteCount, hasCommittedBase, received, committed>>

Ignore == UNCHANGED assemblerVars

\* Mutant of AssemblerReset: the base survives a new session.
ResetKeepsBase ==
    /\ frameState' = "Idle"
    /\ begin' = NoFrame
    /\ rectCount' = 0
    /\ byteCount' = 0
    /\ received' = <<>>
    /\ UNCHANGED <<committed, hasCommittedBase>>

\* reset(): the partial frame and the base a PARTIAL needs are both forgotten.
AssemblerReset ==
    /\ frameState' = "Idle"
    /\ begin' = NoFrame
    /\ rectCount' = 0
    /\ byteCount' = 0
    /\ hasCommittedBase' = FALSE
    /\ received' = <<>>
    /\ UNCHANGED committed

OnStreamError == IF frameState = "InFrame" THEN Discard ELSE Ignore

StartFrame(m) ==
    /\ frameState' = "InFrame"
    /\ begin' = [frameId |-> m.frame, kind |-> m.kind]
    /\ rectCount' = 0
    /\ byteCount' = 0
    /\ received' = <<>>
    /\ UNCHANGED <<hasCommittedBase, committed>>

\* A BEGIN with fields the receiver refuses (m.valid: type, pixel format,
\* extent) loses the open frame.  A valid one supersedes it and starts anew.
HandleBegin(m) ==
    \/ ~m.valid /\ frameState # "DiscardFrame" /\ Discard
    \/ ~m.valid /\ frameState = "DiscardFrame" /\ Ignore
    \/ m.valid /\ StartFrame(m)

\* A RECT whose first chunk is not the head of a RECT is pixels read as a
\* header: what the bounds and length checks make of it is arbitrary.
WellFormedRect(chunks, verdict) ==
    IF chunks[1].part = 1 THEN Len(chunks) = chunks[1].msg.parts ELSE verdict

HandleRect(chunks, verdict) ==
    \/ /\ frameState = "InFrame"
       /\ WellFormedRect(chunks, verdict)
       /\ rectCount' = rectCount + 1
       /\ byteCount' = byteCount + Len(chunks)
       /\ received' = Append(received, chunks)
       /\ UNCHANGED <<frameState, begin, hasCommittedBase, committed>>
    \/ /\ frameState = "InFrame"
       /\ ~WellFormedRect(chunks, verdict)
       /\ Discard
    \/ /\ frameState # "InFrame"
       /\ Ignore

\* The checks of FRAME_END, in the order of the code.
EndMatches(m) ==
    /\ ~m.aborted
    /\ SameId(m.frame, begin.frameId)
    /\ m.rects = rectCount
    /\ m.bytes = byteCount
    /\ begin.kind = "FULL" \/ hasCommittedBase

Commit(m) ==
    /\ frameState' = "Idle"
    /\ begin' = NoFrame
    /\ rectCount' = 0
    /\ byteCount' = 0
    /\ hasCommittedBase' = TRUE
    /\ received' = <<>>
    /\ committed' = Append(committed, [frameId |-> begin.frameId, kind |-> begin.kind,
                                       rects |-> received])

HandleEnd(m) ==
    \/ frameState # "InFrame" /\ Ignore
    \/ frameState = "InFrame" /\ EndMatches(m) /\ Commit(m)
    \/ frameState = "InFrame" /\ ~EndMatches(m) /\ Discard
=============================================================================

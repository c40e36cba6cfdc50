---------------------------- MODULE FrameDelivery ----------------------------
(***************************************************************************)
(* What the display link promises.  The device finishes frames; the host   *)
(* shows some of them, whole, in the order they were finished and at most  *)
(* once.  The first frame shown after a (re)connection is a FULL one, and  *)
(* once the connection is established no frame finished before it began is *)
(* shown.                                                                  *)
(***************************************************************************)
EXTENDS Naturals, SequencesExt

VARIABLES
    finished,         \* the frames the device finished, oldest first: records
                      \* with a field kind, "FULL" or "PARTIAL"
    epochStart,       \* how many of them are older than this connection
    established,      \* the handshake of this connection has completed
    shown,            \* the frames the host showed, oldest first
    nextShown,        \* the frames below this index can no longer be shown
    base              \* the host holds a picture a PARTIAL may change

vars == <<finished, epochStart, established, shown, nextShown, base>>

Init ==
    /\ finished = <<>>
    /\ epochStart = 0
    /\ established = TRUE
    /\ shown = <<>>
    /\ nextShown = 1
    /\ base = FALSE

Finish ==
    /\ finished' # finished
    /\ \E f \in {Last(finished')} : finished' = Append(finished, f)
    /\ UNCHANGED <<epochStart, established, shown, nextShown, base>>

Show ==
    \E i \in nextShown..Len(finished) :
        /\ established => i > epochStart
        /\ finished[i].kind = "FULL" \/ base
        /\ shown' = Append(shown, finished[i])
        /\ nextShown' = i + 1
        /\ base' = TRUE
        /\ UNCHANGED <<finished, epochStart, established>>

Reconnect ==
    /\ epochStart' = Len(finished)
    /\ established' = FALSE
    /\ base' = FALSE
    /\ UNCHANGED <<finished, shown, nextShown>>

Establish ==
    /\ ~established
    /\ established' = TRUE
    /\ base' = FALSE
    /\ UNCHANGED <<finished, epochStart, shown, nextShown>>

Next == Finish \/ Show \/ Reconnect \/ Establish

Spec == Init /\ [][Next]_vars
=============================================================================

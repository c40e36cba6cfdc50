------------------------------ MODULE FrameIds ------------------------------
(* The number of a frame, frameId, is a counter of 16 bits that wraps            *)
(* (remote_display.h, message.h).  The modules count frames without end, so that *)
(* a frame can be named; what the code compares are the counter's bits.          *)
EXTENDS Naturals

CONSTANT FrameIdMod    \* number of values of frameId (2^16 in the code)
ASSUME FrameIdAssumption == FrameIdMod \in Nat \ {0}

\* The code cannot tell frame a from frame b by its number.
SameId(a, b) == a % FrameIdMod = b % FrameIdMod
=============================================================================

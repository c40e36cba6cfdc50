---------------------------- MODULE StreamDecoder ----------------------------
(***************************************************************************)
(* shared/protocol/decoder: packets to messages.  Byte framing is          *)
(* abstracted: an action handles one syntactically complete packet, and    *)
(* the faults of the byte stream appear as what the parser makes of them   *)
(* (a bad header, a CRC mismatch, a stalled tail).                         *)
(*                                                                         *)
(* feed() runs its callbacks before it returns.  They are listed in        *)
(* `callbacks`, in call order, and the composing module lets nothing else  *)
(* touch the receiver until they have been consumed.                       *)
(***************************************************************************)
EXTENDS MessageEncoder

CONSTANT MaxMessageParts   \* kMaxMessagePayload, in chunks

VARIABLES
    expectedSeq,   \* the SEQ the next packet must carry
    messageType,   \* TYPE of the message being assembled
    payload,       \* its chunks so far; <<>> when no message is assembled
    callbacks      \* callbacks of the current call still to be run

decoderVars == <<expectedSeq, messageType, payload, callbacks>>

Error == [kind |-> "error"]
MessageOf(type, chunks) == [kind |-> "message", type |-> type, payload |-> chunks]

assembling == payload # <<>>

DecoderInit ==
    /\ expectedSeq = 0
    /\ messageType = "NONE"
    /\ payload = <<>>
    /\ callbacks = <<>>

-----------------------------------------------------------------------------
AbortMessage == payload' = <<>> /\ messageType' = "NONE"

\* A packet at a message boundary: dispatched whole, or the first of a run.
\* `before` lists the callbacks already run for this packet.
AtBoundary(p, before) ==
    \/ /\ ~p.chunked
       /\ AbortMessage
       /\ callbacks' = Append(before, MessageOf(p.type, <<p.chunk>>))
    \/ /\ p.chunked
       /\ payload' = <<p.chunk>>
       /\ messageType' = p.type
       /\ callbacks' = before

HandleVerifiedPacket(p) ==
    \/ /\ ~assembling
       /\ AtBoundary(p, <<>>)
    \/ /\ assembling
       /\ p.type # messageType
       /\ AtBoundary(p, <<Error>>)
    \/ /\ assembling
       /\ p.type = messageType
       /\ Len(payload) >= MaxMessageParts
       /\ AbortMessage
       /\ callbacks' = <<Error>>
    \/ /\ assembling
       /\ p.type = messageType
       /\ Len(payload) < MaxMessageParts
       /\ p.chunked
       /\ payload' = Append(payload, p.chunk)
       /\ UNCHANGED <<messageType, callbacks>>
    \/ /\ assembling
       /\ p.type = messageType
       /\ Len(payload) < MaxMessageParts
       /\ ~p.chunked
       /\ AbortMessage
       /\ callbacks' = <<MessageOf(messageType, Append(payload, p.chunk))>>

\* HELLO starts a session and is exempt from the sequence rule.
BypassesSeqCheck(p) == p.type = "HELLO"

\* Mutant of VerifiedPacket: a gap does not move the expected value.
GapKeepsExpectedSeq(p) ==
    \/ /\ BypassesSeqCheck(p) \/ p.seq = expectedSeq
       /\ expectedSeq' = Succ(p.seq)
       /\ HandleVerifiedPacket(p)
    \/ /\ ~BypassesSeqCheck(p)
       /\ p.seq # expectedSeq
       /\ AbortMessage
       /\ callbacks' = <<Error>>
       /\ UNCHANGED expectedSeq

\* A packet whose CRC holds.
VerifiedPacket(p) ==
    /\ expectedSeq' = Succ(p.seq)
    /\ \/ /\ BypassesSeqCheck(p) \/ p.seq = expectedSeq
          /\ HandleVerifiedPacket(p)
       \/ /\ ~BypassesSeqCheck(p)
          /\ p.seq # expectedSeq
          /\ AbortMessage
          /\ callbacks' = <<Error>>

\* A packet whose CRC does not hold; its header, and so the value s of its SEQ
\* field, cannot be trusted either.
CrcMismatch(s) ==
    /\ expectedSeq' = Succ(s)
    /\ AbortMessage
    /\ callbacks' = <<Error>>

\* A header with a bad version, type or length is reported and skipped.
BadHeader ==
    /\ callbacks' = <<Error>>
    /\ UNCHANGED <<expectedSeq, messageType, payload>>

\* Bytes or a partial message have waited 500 ms (ProtocolEndpoint::tick calls
\* this, then reports a stream error to the assembler).
OnTimeout ==
    /\ AbortMessage
    /\ callbacks' = <<Error>>
    /\ UNCHANGED expectedSeq

\* reset() of a new session.
DecoderReset ==
    /\ expectedSeq' = 0
    /\ AbortMessage
    /\ callbacks' = <<>>
=============================================================================

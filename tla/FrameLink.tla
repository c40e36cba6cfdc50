------------------------------ MODULE FrameLink ------------------------------
(***************************************************************************)
(* One direction of the link, device to host: RemoteDisplay's frames       *)
(* through MessageEncoder, a byte stream that loses, damages and delays,   *)
(* StreamDecoder and FrameAssembler.  The session layer appears only as    *)
(* far as it touches these: what a reconnection and a handshake reset.     *)
(***************************************************************************)
EXTENDS StreamDecoder, SequencesExt

CONSTANTS
    LinkFrameIds,  \* number of values of frameId (2^16)
    MaxFrames,     \* frames the device starts
    MaxRects,      \* RECT messages of a frame
    MaxParts,      \* chunks of a RECT
    MaxControl,    \* control messages sent between frame messages
    MaxSessions,   \* reconnections
    MaxFaults,     \* faults of the byte stream
    MaxWire        \* packets under way

ASSUME BoundsAssumption ==
    /\ {MaxFrames, LinkFrameIds, MaxParts, MaxMessageParts} \subseteq Nat
    /\ MaxFrames < LinkFrameIds     \* a frameId is not reused within a run
    /\ MaxParts <= MaxMessageParts

VARIABLES
    sending,       \* the device's open frame: [open, frame, kind, rects, bytes]
    frames,        \* frames started
    fullNext,      \* the next frame must be FULL
    mustAbort,     \* part of a RECT went out and the rest did not
    stream,        \* packets under way, oldest first
    faults,        \* faults so far
    controls,      \* control messages so far
    sessions,      \* reconnections so far
    handshaking,   \* the HELLO of this connection was not handled yet
    finished,      \* frames whose END went out, oldest first
    finishedAtReconnect, \* how many of them when the connection was made
    undisturbed,   \* nothing went wrong since the last delivered packet
    preceded,      \* the packet before the latest BEGIN arrived undisturbed
    whole,         \* so did every packet of that frame since
    \* the host's FrameAssembler, under names of its own
    asmState, asmBegin, asmRects, asmBytes, hasBase, asmReceived, committedFrames

Assembler == INSTANCE FrameAssembler WITH
    FrameIdMod <- LinkFrameIds, frameState <- asmState, begin <- asmBegin,
    rectCount <- asmRects, byteCount <- asmBytes,
    hasCommittedBase <- hasBase, received <- asmReceived, committed <- committedFrames

asmVars == <<asmState, asmBegin, asmRects, asmBytes, hasBase, asmReceived, committedFrames>>

senderVars == <<sending, frames, fullNext, mustAbort, seq, finished>>
sessionVars == <<sessions, handshaking, finishedAtReconnect>>
linkBounds == <<faults, controls>>
\* What happened to the byte stream, kept to state the properties.
historyVars == <<undisturbed, preceded, whole>>

frameLinkVars == <<senderVars, sessionVars, linkBounds, historyVars, stream, decoderVars, asmVars>>

NothingSent == [open |-> FALSE, frame |-> 0, kind |-> "FULL", rects |-> <<>>, bytes |-> 0]

FrameLinkInit ==
    /\ DecoderInit
    /\ Assembler!AssemblerInit
    /\ seq = 0
    /\ sending = NothingSent
    /\ frames = 0
    /\ fullNext = TRUE
    /\ mustAbort = FALSE
    /\ stream = <<>>
    /\ faults = 0
    /\ controls = 0
    /\ sessions = 0
    /\ handshaking = FALSE
    /\ finished = <<>>
    /\ finishedAtReconnect = 0
    /\ undisturbed = FALSE
    /\ preceded = FALSE
    /\ whole = FALSE

-----------------------------------------------------------------------------
(* The messages of the device.                                             *)

BeginMsg(f, k, valid) ==
    [type |-> "BEGIN", parts |-> 1, frame |-> f, kind |-> k, valid |-> valid]
\* A RECT of frame f is named by the pixels that were sent before it.
RectMsg(f, at, n) == [type |-> "RECT", parts |-> n, frame |-> f, at |-> at]
EndMsg(f, rects, bytes, aborted) ==
    [type |-> "END", parts |-> 1, frame |-> f, rects |-> rects, bytes |-> bytes,
     aborted |-> aborted]
ControlMsg == [type |-> "PING", parts |-> 1]
HelloMsg == [type |-> "HELLO", parts |-> 1]

\* The first n packets of m reach the stream.
Emit(m, n) ==
    /\ Len(stream) + n <= MaxWire
    /\ EncodeStream(m, n)
    /\ stream' = stream \o Packets(m, n)

-----------------------------------------------------------------------------
(* The device.  A session sends data once its handshake is complete.       *)

\* BEGIN; when the sink refuses it the frame is dropped and the next is FULL.
\* A BEGIN that is not valid comes from a peer with a format this host does
\* not know: the device's own RemoteDisplay always announces one it does.
BeginFrame(kind, valid, n) ==
    /\ ~handshaking
    /\ ~sending.open
    /\ frames < MaxFrames
    /\ fullNext => kind = "FULL"
    /\ Emit(BeginMsg(frames + 1, kind, valid), n)
    /\ frames' = frames + 1
    /\ fullNext' = (n = 0)
    /\ sending' = IF n = 1
                  THEN [open |-> TRUE, frame |-> frames + 1, kind |-> kind, rects |-> <<>>,
                        bytes |-> 0]
                  ELSE NothingSent
    /\ UNCHANGED <<mustAbort, finished, sessionVars, linkBounds, historyVars, decoderVars, asmVars>>

\* A RECT of `parts` chunks, of which the sink takes n.
SendRectMessage(parts, n) ==
    /\ ~handshaking
    /\ sending.open /\ ~mustAbort
    /\ Len(sending.rects) < MaxRects
    /\ LET m == RectMsg(sending.frame, sending.bytes, parts)
       IN  /\ Emit(m, n)
           /\ IF n = parts
              THEN /\ sending' = [sending EXCEPT !.rects = Append(@, m), !.bytes = @ + parts]
                   /\ UNCHANGED <<mustAbort, fullNext>>
              ELSE /\ mustAbort' = TRUE
                   /\ fullNext' = TRUE
                   /\ UNCHANGED sending
    /\ UNCHANGED <<frames, finished, sessionVars, linkBounds, historyVars, decoderVars, asmVars>>

FinishedFrame ==
    [frameId |-> sending.frame, kind |-> sending.kind,
     rects |-> [i \in DOMAIN sending.rects |-> Payload(sending.rects[i])]]

\* END, or END(ABORTED); when the sink refuses it the next frame is FULL.
EndFrame(aborted, n) ==
    /\ ~handshaking
    /\ sending.open
    /\ mustAbort => aborted
    /\ Emit(EndMsg(sending.frame, Len(sending.rects), sending.bytes, aborted), n)
    /\ finished' = IF n = 1 /\ ~aborted THEN Append(finished, FinishedFrame) ELSE finished
    /\ sending' = NothingSent
    /\ mustAbort' = FALSE
    /\ fullNext' = (fullNext \/ aborted \/ n = 0)
    /\ UNCHANGED <<frames, sessionVars, linkBounds, historyVars, decoderVars, asmVars>>

\* PING, PONG, ACK and the rest may go out between two messages of a frame.
SendControl ==
    /\ ~handshaking
    /\ controls < MaxControl
    /\ Emit(ControlMsg, 1)
    /\ controls' = controls + 1
    /\ UNCHANGED <<sending, frames, fullNext, mustAbort, finished, faults, sessionVars,
                   historyVars, decoderVars, asmVars>>

-----------------------------------------------------------------------------
(* The byte stream and the receiver's feed().  Nothing is fed while the    *)
(* callbacks of an earlier packet are running.                             *)

NoCallback == callbacks = <<>>

Deliver ==
    /\ NoCallback
    /\ stream # <<>>
    /\ VerifiedPacket(Head(stream))
    /\ stream' = Tail(stream)
    /\ undisturbed' = TRUE
    /\ LET p == Head(stream)
       IN  IF p.type = "BEGIN"
           THEN preceded' = undisturbed /\ whole' = p.chunk.msg.valid
           ELSE whole' = (whole /\ undisturbed) /\ UNCHANGED preceded
    /\ UNCHANGED <<senderVars, sessionVars, linkBounds, asmVars>>

Disturb == undisturbed' = FALSE /\ UNCHANGED <<preceded, whole>>

StreamFault ==
    /\ stream # <<>>
    /\ faults < MaxFaults
    /\ faults' = faults + 1
    /\ stream' = Tail(stream)
    /\ Disturb

\* Lost bytes or a damaged magic: the packet leaves no trace of its own.
Lose ==
    /\ NoCallback
    /\ StreamFault
    /\ UNCHANGED <<senderVars, sessionVars, controls, decoderVars, asmVars>>

Damage ==
    /\ NoCallback
    /\ StreamFault
    /\ \/ BadHeader
       \/ \E s \in 0..(SeqSpace - 1) : CrcMismatch(s)
    /\ UNCHANGED <<senderVars, sessionVars, controls, asmVars>>

\* The stream has been silent for 500 ms inside a message.
StallTimeout ==
    /\ NoCallback
    /\ assembling
    /\ OnTimeout
    /\ Disturb
    /\ UNCHANGED <<senderVars, sessionVars, linkBounds, stream, asmVars>>

-----------------------------------------------------------------------------
(* The session.                                                            *)

\* Both ends see the transport come back: onTransportConnected resets decoder
\* and assembler and sends HELLO with SEQ 0.  Bytes of the old connection may
\* still be in the driver's buffers, ahead of it (a second HELLO among them is
\* left to the session model).
Reconnect ==
    /\ NoCallback
    /\ sessions < MaxSessions
    /\ Len(stream) < MaxWire
    /\ \A i \in DOMAIN stream : stream[i].type # "HELLO"
    /\ sessions' = sessions + 1
    /\ handshaking' = TRUE
    /\ finishedAtReconnect' = Len(finished)
    /\ seq' = 1 % SeqSpace
    /\ stream' = Append(stream, Packet(HelloMsg, 1, 0))
    /\ sending' = NothingSent
    /\ mustAbort' = FALSE
    /\ fullNext' = TRUE
    /\ DecoderReset
    /\ Assembler!AssemblerReset
    /\ Disturb
    /\ UNCHANGED <<frames, finished, linkBounds>>

\* completeHandshake at both ends: SEQ restarts from 0 in both directions and
\* the assembler forgets what it got before.
CompleteHandshake ==
    /\ handshaking' = FALSE
    /\ seq' = 0
    /\ expectedSeq' = 0
    /\ Assembler!AssemblerReset
    /\ UNCHANGED <<sending, frames, fullNext, mustAbort, finished, sessions,
                   finishedAtReconnect>>

RunCallback ==
    /\ callbacks # <<>>
    /\ callbacks' = Tail(callbacks)
    /\ UNCHANGED <<messageType, payload, stream, linkBounds, historyVars>>
    /\ LET c == Head(callbacks)
       IN  \/ /\ c.kind = "message" /\ c.type = "HELLO" /\ handshaking
              /\ CompleteHandshake
           \/ /\ \/ c.kind = "error" /\ Assembler!OnStreamError
                 \/ /\ c.kind = "message" /\ c.type = "BEGIN"
                    /\ Assembler!HandleBegin(c.payload[1].msg)
                 \/ /\ c.kind = "message" /\ c.type = "RECT"
                    /\ \E verdict \in BOOLEAN : Assembler!HandleRect(c.payload, verdict)
                 \/ /\ c.kind = "message" /\ c.type = "END"
                    /\ Assembler!HandleEnd(c.payload[1].msg)
                 \/ /\ c.kind = "message" /\ c.type \in {"PING", "HELLO"}
                    /\ c.type = "HELLO" => ~handshaking
                    /\ UNCHANGED asmVars
              /\ UNCHANGED <<senderVars, sessionVars, expectedSeq>>

-----------------------------------------------------------------------------
FrameLinkNext ==
    \/ \E kind \in {"FULL", "PARTIAL"}, valid \in BOOLEAN, n \in 0..1 :
          BeginFrame(kind, valid, n)
    \/ \E parts \in 1..MaxParts : \E n \in 0..parts : SendRectMessage(parts, n)
    \/ \E aborted \in BOOLEAN, n \in 0..1 : EndFrame(aborted, n)
    \/ SendControl
    \/ Deliver
    \/ Lose
    \/ Damage
    \/ StallTimeout
    \/ Reconnect
    \/ RunCallback

FrameLinkSpec == FrameLinkInit /\ [][FrameLinkNext]_frameLinkVars

-----------------------------------------------------------------------------
(* Properties.                                                             *)

ShownUpTo ==
    IF committedFrames = <<>> THEN 1
    ELSE 1 + CHOOSE i \in DOMAIN finished : finished[i] = Last(committedFrames)

Delivery == INSTANCE FrameDelivery WITH
    epochStart  <- finishedAtReconnect,
    established <- ~handshaking,
    shown       <- committedFrames,
    nextShown   <- ShownUpTo,
    base        <- hasBase

\* The host shows finished frames only, whole, in order and once; the first
\* after a reset is FULL; nothing from before the connection is shown once its
\* handshake is complete (FrameAssembler::handleEnd, ProtocolEndpoint resets).
DeliversFinishedFrames == Delivery!Spec

Finished(m) == \E i \in DOMAIN finished :
    /\ finished[i].frameId = m.frame
    /\ finished[i].kind = "FULL" \/ hasBase

\* The END of a finished frame arrives.
EndArrives ==
    /\ NoCallback /\ stream # <<>>
    /\ stream' = Tail(stream) /\ undisturbed'
    /\ Head(stream).type = "END"
    /\ Finished(Head(stream).chunk.msg)

\* The END of a finished frame is handed to the assembler.
EndRuns ==
    /\ callbacks # <<>>
    /\ callbacks' = Tail(callbacks)
    /\ Head(callbacks).kind = "message"
    /\ Head(callbacks).type = "END"
    /\ Finished(Head(callbacks).payload[1].msg)

\* A fault costs no frame but those it touches: a frame all of whose packets
\* arrive, after a packet that arrived, is committed whatever came before
\* (resynchronisation in StreamDecoder::process, FrameAssembler::handleBegin).
UntouchedFrameCommits ==
    [][/\ EndArrives /\ whole' /\ preceded => callbacks' # <<>> /\ Last(callbacks').kind = "message"
       /\ EndRuns /\ whole /\ preceded =>
              Len(committedFrames') = Len(committedFrames) + 1]_frameLinkVars
=============================================================================

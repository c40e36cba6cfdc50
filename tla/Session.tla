------------------------------- MODULE Session -------------------------------
(***************************************************************************)
(* shared/protocol/protocol_endpoint at both ends of a link: handshake,    *)
(* deferred HELLO, timeouts, requests with ACK and retry, and on the       *)
(* device (esp32/main/main.cpp) the slot for an ACK that could not be sent *)
(* and the sink that asks what the upper layer heard.                      *)
(*                                                                         *)
(* The host runs its endpoint in one thread.  On the device the RX task    *)
(* (which holds decoderMutex_ for a whole feed), the session task, the     *)
(* transport's link task and the frame sender interleave; a callback runs  *)
(* outside the locks, and so is a step of its own.                         *)
(*                                                                         *)
(* Time is only what the timeouts can tell: one that fires when it could   *)
(* still be answered is a trouble, and troubles are bounded.               *)
(***************************************************************************)
EXTENDS Integers, Sequences, FiniteSets, TLC

CONSTANTS
    SeqSpace,      \* values of SEQ
    MaxWire,       \* packets under way in one direction
    MaxSends,      \* 1 + ack_max_retries
    MaxRequests,   \* requests of the host application
    MaxStreams,    \* chunked messages of the device
    MaxTroubles    \* lost packets, refusals, lost links, reopened ports,
                   \*   timeouts that fire early, together

ASSUME SessionAssumption ==
    /\ SeqSpace \in Nat /\ SeqSpace > 1
    /\ {MaxWire, MaxSends} \subseteq Nat \ {0}
    /\ {MaxRequests, MaxStreams, MaxTroubles} \subseteq Nat

Ends == {"pc", "dev"}
Peer(e) == IF e = "pc" THEN "dev" ELSE "pc"
States == {"Disconnected", "Connecting", "Connected"}

VARIABLES
    state, txSeq, expected, sessionFailed, pendingHello, \* of each endpoint
    heard,         \* the last onSessionState each upper layer was told
    pendingAck,    \* the host's request that waits for its ACK
    pendingReply,  \* the device's ACK that could not be sent
    wire,          \* packets under way to each end
    up,            \* the bytes get through
    linked,        \* what the transport last reported to each end
    linkPc, tickPc,\* where the link task and the session task of an end are
    copied,        \* the reply drainPendingReply works on
    stream,        \* the device's chunked message: [sending, stale]
    drained,       \* the HELLO the device's drainPendingHello works on: "none", "live",
                   \*   or "stale" when its session ended meanwhile
    issued, streams, troubles, \* counters
    executed, confirmed \* requests the device ran, the host saw acknowledged

endVars == <<state, txSeq, expected, sessionFailed, pendingHello, heard>>
ackVars == <<pendingAck, pendingReply, executed, confirmed>>
linkVars == <<up, linked>>
taskVars == <<linkPc, tickPc, copied>>
boundVars == <<issued, streams, troubles>>
handVars == <<stream, drained>>
vars == <<endVars, ackVars, linkVars, taskVars, boundVars, handVars, wire>>

NoAck == [request |-> 0, seq |-> 0, sends |-> 0]
NoReply == -1
NoStream == [sending |-> FALSE, stale |-> FALSE]

Init ==
    /\ state = [e \in Ends |-> "Disconnected"]
    /\ heard = [e \in Ends |-> "Disconnected"]
    /\ txSeq = [e \in Ends |-> 0] /\ expected = [e \in Ends |-> 0]
    /\ sessionFailed = [e \in Ends |-> FALSE]
    /\ pendingHello = [e \in Ends |-> FALSE]
    /\ pendingAck = NoAck /\ pendingReply = NoReply
    /\ wire = [e \in Ends |-> <<>>]
    /\ up = FALSE
    /\ linked = [e \in Ends |-> FALSE]
    /\ linkPc = [e \in Ends |-> "idle"] /\ tickPc = [e \in Ends |-> "idle"]
    /\ copied = NoReply
    /\ stream = NoStream /\ drained = "none"
    /\ issued = 0 /\ streams = 0 /\ troubles = 0
    /\ executed = {} /\ confirmed = {}

-----------------------------------------------------------------------------
Succ(s) == (s + 1) % SeqSpace
Packet(type, seq, about) == [type |-> type, seq |-> seq, about |-> about]

Trouble == troubles < MaxTroubles /\ troubles' = troubles + 1 /\ UNCHANGED <<issued, streams>>
NoTrouble == UNCHANGED boundVars

\* The host's worker thread does one thing at a time.
Free(e) == e = "pc" => linkPc[e] = "idle" /\ tickPc[e] = "idle"

\* sendMutex_ is held for a whole message, which only the device's frames make long.
Sending(e) == e = "dev" /\ stream.sending

\* TransportSink asks whether the session is alive; the device answers with
\* what onSessionState told last.
SinkTakes(e) == up /\ linked[e] /\ heard[e] # "Disconnected" /\ Len(wire[Peer(e)]) < MaxWire

On(f, e, v) == [f EXCEPT ![e] = v]
Sent(e, p) == wire' = [wire EXCEPT ![Peer(e)] = Append(@, p)]
Tell(e, s) == heard' = On(heard, e, s)

-----------------------------------------------------------------------------
(* A session ends or begins: epoch, slots and counters.                    *)

\* A new epoch: what a task is about to send is of an earlier session.
NewEpoch(e) ==
    /\ stream' = IF e = "dev" /\ stream.sending THEN [stream EXCEPT !.stale = TRUE] ELSE stream
    /\ drained' = IF e = "dev" /\ drained = "live" THEN "stale" ELSE drained

\* The slots are emptied; the reply slot of main.cpp is not one of them.
ClearSlots(e) ==
    /\ pendingHello' = On(pendingHello, e, FALSE)
    /\ pendingAck' = IF e = "pc" THEN NoAck ELSE pendingAck
    /\ NewEpoch(e)
    /\ UNCHANGED <<pendingReply, executed, confirmed>>

\* SEQ restarts in both directions, the decoder and the assembler are reset.
ResetSeq(e) == txSeq' = On(txSeq, e, 0) /\ expected' = On(expected, e, 0)

\* onTransportConnected, its locked part.
OnTransportConnected(e) ==
    /\ ClearSlots(e) /\ ResetSeq(e)
    /\ sessionFailed' = On(sessionFailed, e, FALSE)
    /\ state' = On(state, e, "Connecting")
    /\ linkPc' = On(linkPc, e, IF state[e] = "Connecting" THEN "hello" ELSE "tellConnecting")
    /\ UNCHANGED <<heard, tickPc, copied>>

\* onTransportDisconnected, its locked part.
OnTransportDisconnected(e) ==
    /\ ClearSlots(e) /\ ResetSeq(e)
    /\ state' = On(state, e, "Disconnected")
    /\ linkPc' = On(linkPc, e, IF state[e] = "Disconnected" THEN "idle" ELSE "tellDisconnected")
    /\ UNCHANGED <<heard, sessionFailed, tickPc, copied>>

\* failSession, its locked part; a session fails once.
FailSession(e) ==
    IF sessionFailed[e]
    THEN tickPc' = On(tickPc, e, "idle") /\ UNCHANGED <<endVars, ackVars, handVars>>
    ELSE /\ ClearSlots(e) /\ ResetSeq(e)
         /\ sessionFailed' = On(sessionFailed, e, TRUE)
         /\ state' = On(state, e, "Disconnected")
         /\ tickPc' = On(tickPc, e, IF state[e] = "Disconnected" THEN "idle" ELSE "tell")
         /\ UNCHANGED heard

\* completeHandshake: SEQ restarts, an unanswered request is forgotten, and the
\* upper layer is told within the feed.  The deferred HELLO stays in its slot.
CompleteHandshake(e) ==
    /\ ResetSeq(e)
    /\ pendingAck' = IF e = "pc" THEN NoAck ELSE pendingAck
    /\ state' = On(state, e, "Connected")
    /\ Tell(e, "Connected")

-----------------------------------------------------------------------------
(* The transport.                                                          *)

\* The device's link task opens the transport and reports it; the host's
\* worker does so too, but waits for a HELLO.
LinkUp ==
    /\ ~up /\ \A e \in Ends : ~linked[e] /\ linkPc[e] = "idle" /\ Free(e)
    /\ up' = TRUE
    /\ linked' = [e \in Ends |-> TRUE]
    /\ OnTransportConnected("dev")
    /\ NoTrouble /\ UNCHANGED wire

\* What the host has read already stays in rxBuf_, over a reconnection too.
LinkLost ==
    /\ up /\ Trouble
    /\ up' = FALSE
    /\ \E rxBuf \in {<<>>, wire["pc"]} : wire' = [pc |-> rxBuf, dev |-> <<>>]
    /\ UNCHANGED <<endVars, ackVars, linked, taskVars, handVars>>

NoticesLoss(e) ==
    /\ ~up /\ linked[e] /\ linkPc[e] = "idle" /\ Free(e)
    /\ linked' = On(linked, e, FALSE)
    /\ OnTransportDisconnected(e)
    /\ NoTrouble /\ UNCHANGED <<up, wire>>

\* The host closes and opens its serial port: the device sees nothing of it.
HostReopens ==
    /\ up /\ linked["pc"] /\ Free("pc") /\ Trouble
    /\ OnTransportDisconnected("pc")
    /\ \E rxBuf \in {<<>>, wire["pc"]} : wire' = [wire EXCEPT !["pc"] = rxBuf]
    /\ UNCHANGED linkVars

TellLink(e) ==
    /\ linkPc[e] \in {"tellConnecting", "tellDisconnected"}
    /\ Tell(e, IF linkPc[e] = "tellConnecting" THEN "Connecting" ELSE "Disconnected")
    /\ linkPc' = On(linkPc, e, IF linkPc[e] = "tellConnecting" THEN "hello" ELSE "idle")
    /\ UNCHANGED <<state, txSeq, expected, sessionFailed, pendingHello, ackVars,
                    linkVars, tickPc, copied, boundVars, wire, handVars>>

\* HELLO sent, or left in its slot when the sink or sendMutex_ is busy.
Hello(e, taken) ==
    IF taken
    THEN /\ Sent(e, Packet("HELLO", txSeq[e], 0))
         /\ UNCHANGED pendingHello
    ELSE /\ pendingHello' = On(pendingHello, e, TRUE)
         /\ UNCHANGED <<wire>>

\* A sink that could take a packet may refuse it; that is a trouble.
Refusal(takes, taken) ==
    \/ taken = takes /\ NoTrouble
    \/ takes /\ ~taken /\ Trouble

SendHello(e) == \E taken \in BOOLEAN :
    /\ linkPc[e] = "hello"
    /\ linkPc' = On(linkPc, e, "idle")
    /\ Refusal(state[e] # "Disconnected" /\ ~Sending(e) /\ SinkTakes(e), taken)
    /\ Hello(e, taken)
    /\ txSeq' = IF taken THEN On(txSeq, e, Succ(txSeq[e])) ELSE txSeq
    /\ UNCHANGED <<state, expected, sessionFailed, heard, ackVars, linkVars, tickPc,
                    copied, handVars>>

-----------------------------------------------------------------------------
(* The receiver: one packet and all its handler does, under decoderMutex_. *)

Ignore == UNCHANGED <<state, txSeq, heard, sessionFailed, pendingHello, ackVars, handVars>>

\* A HELLO while one waits for it.
HelloCompletes(e) ==
    /\ state[e] = "Connecting"
    /\ CompleteHandshake(e)
    /\ UNCHANGED <<sessionFailed, pendingHello, pendingReply, executed, confirmed, handVars>>

\* Mutant of PassiveRecovery: failSession is not armed for the new session.
RecoveryStaysFailed(e, taken, rest) ==
    /\ state[e] = "Disconnected"
    /\ ResetSeq(e)
    /\ pendingAck' = IF e = "pc" THEN NoAck ELSE pendingAck
    /\ NewEpoch(e)
    /\ pendingHello' = On(pendingHello, e, ~taken)
    /\ wire' = IF taken THEN [rest EXCEPT ![Peer(e)] = Append(@, Packet("HELLO", 0, 0))] ELSE rest
    /\ state' = On(state, e, IF taken THEN "Connected" ELSE "Connecting")
    /\ Tell(e, IF taken THEN "Connected" ELSE "Connecting")
    /\ UNCHANGED <<sessionFailed, pendingReply, executed, confirmed>>

\* A HELLO to an end that lost its session: it starts one, answers, and is
\* connected at once if the answer went out.
PassiveRecovery(e, taken, rest) ==
    /\ state[e] = "Disconnected"
    /\ sessionFailed' = On(sessionFailed, e, FALSE)
    /\ ResetSeq(e)
    /\ pendingAck' = IF e = "pc" THEN NoAck ELSE pendingAck
    /\ NewEpoch(e)
    /\ pendingHello' = On(pendingHello, e, ~taken)
    /\ wire' = IF taken THEN [rest EXCEPT ![Peer(e)] = Append(@, Packet("HELLO", 0, 0))] ELSE rest
    /\ state' = On(state, e, IF taken THEN "Connected" ELSE "Connecting")
    /\ Tell(e, IF taken THEN "Connected" ELSE "Connecting")
    /\ UNCHANGED <<pendingReply, executed, confirmed>>

\* The device runs a request and acknowledges it at once or through the slot.
RunRequest(e, p, taken, rest) ==
    /\ e = "dev"
    /\ executed' = executed \cup {p.about}
    /\ IF taken
       THEN /\ wire' = [rest EXCEPT !["pc"] = Append(@, Packet("ACK", txSeq[e], p.seq))]
            /\ txSeq' = On(txSeq, e, Succ(txSeq[e]))
            /\ UNCHANGED pendingReply
       ELSE /\ wire' = rest
            /\ pendingReply' = p.seq
            /\ UNCHANGED txSeq
    /\ UNCHANGED <<state, heard, sessionFailed, pendingHello, pendingAck, confirmed,
                    handVars>>

\* An ACK counts for the request whose SEQ it names.
HandleAck(p) ==
    /\ IF pendingAck # NoAck /\ pendingAck.seq = p.about
       THEN /\ confirmed' = confirmed \cup {pendingAck.request}
            /\ pendingAck' = NoAck
       ELSE UNCHANGED <<confirmed, pendingAck>>
    /\ UNCHANGED <<state, txSeq, heard, sessionFailed, pendingHello, pendingReply,
                    executed, handVars>>

InSequence(e, p) == p.type = "HELLO" \/ p.seq = expected[e]

Feed(e) == \E taken \in BOOLEAN :
    /\ wire[e] # <<>> /\ linked[e] /\ Free(e)
    /\ UNCHANGED <<linkVars, taskVars>>
    /\ LET p == Head(wire[e])
           rest == [wire EXCEPT ![e] = Tail(@)]
           room == up /\ ~Sending(e) /\ Len(wire[Peer(e)]) < MaxWire
       IN  \/ /\ p.type = "HELLO" /\ InSequence(e, p)
              /\ Refusal(room, taken)
              /\ PassiveRecovery(e, taken, rest)
           \/ /\ p.type = "HELLO" /\ InSequence(e, p)
              /\ HelloCompletes(e)
              /\ ~taken /\ wire' = rest /\ NoTrouble
           \/ /\ p.type = "REQUEST" /\ InSequence(e, p) /\ state[e] # "Disconnected"
              /\ Refusal(room /\ heard[e] # "Disconnected", taken)
              /\ RunRequest(e, p, taken, rest)
              /\ expected' = On(expected, e, Succ(p.seq))
           \/ /\ p.type = "ACK" /\ InSequence(e, p) /\ state[e] # "Disconnected"
              /\ HandleAck(p)
              /\ expected' = On(expected, e, Succ(p.seq))
              /\ ~taken /\ wire' = rest /\ NoTrouble
           \/ /\ \/ p.type = "HELLO" /\ state[e] = "Connected"
                 \/ p.type # "HELLO" /\ (~InSequence(e, p) \/ state[e] = "Disconnected")
                 \/ p.type = "FRAME"
              /\ Ignore
              /\ expected' = On(expected, e, Succ(p.seq))
              /\ ~taken /\ wire' = rest /\ NoTrouble

Lose(e) ==
    /\ wire[e] # <<>> /\ Trouble
    /\ wire' = [wire EXCEPT ![e] = Tail(@)]
    /\ UNCHANGED <<endVars, ackVars, linkVars, taskVars, handVars>>

-----------------------------------------------------------------------------
(* tick().                                                                 *)

\* No HELLO is under way or about to be sent, and no task is between two steps:
\* a timeout lasts longer than any of these.
NoHelloComes == \A e \in Ends :
    /\ \A i \in DOMAIN wire[e] : wire[e][i].type # "HELLO"
    /\ linkPc[e] = "idle" /\ tickPc[e] \in {"idle", "reply"}
    /\ ~(pendingHello[e] /\ state[e] = "Connecting" /\ heard[e] # "Disconnected")

\* A connected end pings every 2 s when its sink takes it, and a connected end that
\* is sending a frame does not count the silence of its peer.
PeerIsSilent(e) ==
    /\ state[Peer(e)] # "Connected" \/ heard[Peer(e)] = "Disconnected"
    /\ wire[e] = <<>> /\ ~Sending(e) /\ NoHelloComes

TimedOut(e) ==
    \/ state[e] = "Connecting" /\ NoHelloComes
    \/ state[e] = "Connected" /\ PeerIsSilent(e)

\* The state is read and the time found to be over; failSession takes its locks
\* later and does not look again.
TickTimeout(e) ==
    /\ Free(e) /\ tickPc[e] = "idle" /\ state[e] # "Disconnected"
    /\ IF TimedOut(e) THEN NoTrouble ELSE Trouble
    /\ tickPc' = On(tickPc, e, "fail")
    /\ UNCHANGED <<endVars, ackVars, linkVars, linkPc, copied, wire, handVars>>

TickFail(e) ==
    /\ tickPc[e] = "fail"
    /\ FailSession(e)
    /\ NoTrouble /\ UNCHANGED <<linkVars, linkPc, copied, wire>>

TellTick(e) ==
    /\ tickPc[e] = "tell"
    /\ Tell(e, "Disconnected")
    /\ tickPc' = On(tickPc, e, "idle")
    /\ UNCHANGED <<state, txSeq, expected, sessionFailed, pendingHello, ackVars,
                    linkVars, linkPc, copied, boundVars, wire, handVars>>

\* drainPendingHello: once the deferred HELLO is out the handshake counts as done.  On
\* the host nothing comes between the two.
HostDrainsHello ==
    /\ Free("pc") /\ pendingHello["pc"] /\ state["pc"] = "Connecting"
    /\ SinkTakes("pc")
    /\ Sent("pc", Packet("HELLO", txSeq["pc"], 0))
    /\ pendingHello' = On(pendingHello, "pc", FALSE)
    /\ CompleteHandshake("pc")
    /\ NoTrouble
    /\ UNCHANGED <<sessionFailed, pendingReply, executed, confirmed, linkVars, taskVars,
                    handVars>>

\* The device's session task copies the slot ...
DrainHello ==
    /\ tickPc["dev"] = "idle" /\ pendingHello["dev"] /\ state["dev"] = "Connecting"
    /\ drained' = "live"
    /\ tickPc' = On(tickPc, "dev", "drain")
    /\ NoTrouble
    /\ UNCHANGED <<endVars, ackVars, linkVars, linkPc, copied, wire, stream>>

\* ... sends the HELLO if its session is still on, else tries again at another tick ...
DrainSends == \E taken \in BOOLEAN :
    /\ tickPc["dev"] = "drain"
    /\ Refusal(/\ drained = "live" /\ state["dev"] # "Disconnected"
               /\ ~Sending("dev") /\ SinkTakes("dev"), taken)
    /\ tickPc' = On(tickPc, "dev", IF taken THEN "clear" ELSE "idle")
    /\ IF taken
       THEN /\ Sent("dev", Packet("HELLO", txSeq["dev"], 0))
            /\ txSeq' = On(txSeq, "dev", Succ(txSeq["dev"]))
            /\ UNCHANGED drained
       ELSE drained' = "none" /\ UNCHANGED <<wire, txSeq>>
    /\ UNCHANGED <<state, expected, sessionFailed, pendingHello, heard, ackVars, linkVars,
                    linkPc, copied, stream>>

\* ... clears the slot if it still holds that HELLO ...
DrainClears ==
    /\ tickPc["dev"] = "clear"
    /\ LET own == drained = "live" /\ pendingHello["dev"]
       IN  /\ pendingHello' = On(pendingHello, "dev", pendingHello["dev"] /\ ~own)
           /\ tickPc' = On(tickPc, "dev", IF own THEN "complete" ELSE "idle")
    /\ drained' = "none"
    /\ NoTrouble
    /\ UNCHANGED <<state, txSeq, expected, sessionFailed, heard, ackVars, linkVars, linkPc,
                    copied, wire, stream>>

\* ... and completes the handshake of whatever session waits for one by then.
DrainCompletes ==
    /\ tickPc["dev"] = "complete"
    /\ IF state["dev"] = "Connecting"
       THEN CompleteHandshake("dev")
       ELSE UNCHANGED <<state, txSeq, expected, heard, pendingAck>>
    /\ tickPc' = On(tickPc, "dev", "idle")
    /\ NoTrouble
    /\ UNCHANGED <<sessionFailed, pendingHello, pendingReply, executed, confirmed, linkVars,
                    linkPc, copied, handVars, wire>>

\* The ACK did not come: the request is sent again, under a SEQ of its own.
RetryRequest ==
    /\ Free("pc") /\ state["pc"] = "Connected"
    /\ pendingAck # NoAck /\ pendingAck.sends < MaxSends
    /\ SinkTakes("pc")
    /\ Sent("pc", Packet("REQUEST", txSeq["pc"], pendingAck.request))
    /\ pendingAck' = [pendingAck EXCEPT !.seq = txSeq["pc"], !.sends = @ + 1]
    /\ txSeq' = On(txSeq, "pc", Succ(txSeq["pc"]))
    /\ NoTrouble
    /\ UNCHANGED <<state, expected, sessionFailed, pendingHello, heard, pendingReply,
                    executed, confirmed, linkVars, taskVars, handVars>>

\* Mutant of GiveUpRequest: one attempt too many is asked for.
GiveUpLate ==
    /\ Free("pc") /\ state["pc"] = "Connected"
    /\ pendingAck.sends > MaxSends
    /\ pendingAck' = NoAck
    /\ NoTrouble
    /\ UNCHANGED <<endVars, pendingReply, executed, confirmed, linkVars, taskVars, wire, handVars>>

GiveUpRequest ==
    /\ Free("pc") /\ state["pc"] = "Connected"
    /\ pendingAck.sends = MaxSends
    /\ pendingAck' = NoAck
    /\ NoTrouble
    /\ UNCHANGED <<endVars, pendingReply, executed, confirmed, linkVars, taskVars, wire,
                    handVars>>

-----------------------------------------------------------------------------
(* The host's worker and the applications.                                 *)

\* SerialWorker::pumpLoop: not connected for 7 s, longer than the device takes to
\* notice that the host is silent.
Probe ==
    /\ linked["pc"] /\ Free("pc") /\ state["pc"] # "Connected"
    /\ IF NoHelloComes /\ ~(state["dev"] = "Connected" /\ PeerIsSilent("dev"))
       THEN NoTrouble ELSE Trouble
    /\ OnTransportConnected("pc")
    /\ UNCHANGED <<linkVars, wire>>

Request ==
    /\ Free("pc") /\ state["pc"] = "Connected" /\ SinkTakes("pc")
    /\ issued < MaxRequests /\ issued' = issued + 1 /\ UNCHANGED <<streams, troubles>>
    /\ Sent("pc", Packet("REQUEST", txSeq["pc"], issued + 1))
    /\ pendingAck' = [request |-> issued + 1, seq |-> txSeq["pc"], sends |-> 1]
    /\ txSeq' = On(txSeq, "pc", Succ(txSeq["pc"]))
    /\ UNCHANGED <<state, expected, sessionFailed, pendingHello, heard, pendingReply,
                    executed, confirmed, linkVars, taskVars, handVars>>

\* A chunked message of two packets: connected at the first, and never asked again.
StreamPacket(next) ==
    /\ SinkTakes("dev")
    /\ Sent("dev", Packet("FRAME", txSeq["dev"], 0))
    /\ txSeq' = On(txSeq, "dev", Succ(txSeq["dev"]))
    /\ stream' = next
    /\ UNCHANGED <<state, expected, sessionFailed, pendingHello, heard, ackVars,
                    linkVars, taskVars, drained>>

StreamBegin ==
    /\ state["dev"] = "Connected" /\ stream = NoStream
    /\ streams < MaxStreams /\ streams' = streams + 1 /\ UNCHANGED <<issued, troubles>>
    /\ StreamPacket([sending |-> TRUE, stale |-> FALSE])

StreamEnd ==
    /\ stream.sending
    /\ StreamPacket(NoStream) /\ NoTrouble

\* The sink refuses a packet, or finds the session dead.  The SEQ of the packet is
\* taken back, unless the session is not the one the message began in.
StreamFails ==
    /\ stream.sending
    /\ IF SinkTakes("dev") THEN Trouble ELSE NoTrouble
    /\ stream' = NoStream
    /\ \/ UNCHANGED txSeq
       \/ stream.stale /\ txSeq' = On(txSeq, "dev", Succ(txSeq["dev"]))
    /\ UNCHANGED <<state, expected, sessionFailed, pendingHello, heard, ackVars,
                    linkVars, taskVars, drained, wire>>

-----------------------------------------------------------------------------
(* main.cpp: drainPendingReply in the session task of the device.          *)

DropReply ==
    /\ tickPc["dev"] = "idle" /\ pendingReply # NoReply /\ state["dev"] # "Connected"
    /\ pendingReply' = NoReply
    /\ NoTrouble
    /\ UNCHANGED <<endVars, pendingAck, executed, confirmed, linkVars, taskVars, wire,
                    handVars>>

CopyReply ==
    /\ tickPc["dev"] = "idle" /\ pendingReply # NoReply /\ state["dev"] = "Connected"
    /\ copied' = pendingReply
    /\ tickPc' = On(tickPc, "dev", "reply")
    /\ NoTrouble
    /\ UNCHANGED <<endVars, ackVars, linkVars, linkPc, wire, handVars>>

\* The blocking send waits for sendMutex_.  What is in the slot by then is
\* dropped with the reply that was copied from it.
SendReply == \E taken \in BOOLEAN :
    /\ tickPc["dev"] = "reply" /\ ~Sending("dev")
    /\ tickPc' = On(tickPc, "dev", "idle")
    /\ copied' = NoReply
    /\ Refusal(state["dev"] = "Connected" /\ SinkTakes("dev"), taken)
    /\ IF taken
       THEN /\ Sent("dev", Packet("ACK", txSeq["dev"], copied))
            /\ txSeq' = On(txSeq, "dev", Succ(txSeq["dev"]))
       ELSE UNCHANGED <<wire, txSeq>>
    /\ pendingReply' = IF taken \/ state["dev"] # "Connected" THEN NoReply ELSE pendingReply
    /\ UNCHANGED <<state, expected, sessionFailed, pendingHello, heard, pendingAck,
                    executed, confirmed, linkVars, linkPc, handVars>>

-----------------------------------------------------------------------------
Next ==
    \/ LinkUp \/ LinkLost \/ HostReopens \/ Probe
    \/ \E e \in Ends :
          \/ NoticesLoss(e) \/ TellLink(e) \/ SendHello(e) \/ Feed(e) \/ Lose(e)
          \/ TickTimeout(e) \/ TickFail(e) \/ TellTick(e)
    \/ HostDrainsHello \/ DrainHello \/ DrainSends \/ DrainClears \/ DrainCompletes
    \/ Request \/ RetryRequest \/ GiveUpRequest
    \/ StreamBegin \/ StreamEnd \/ StreamFails
    \/ DropReply \/ CopyReply \/ SendReply

\* Every task loops: the link task reopens the transport, the RX task reads what
\* came, the session task and the host's worker tick.  A timeout fires when
\* nothing answers, and a message that was begun goes on.  A turn of sessionLoop
\* drains the reply once and then ticks: a reply that is refused for ever keeps no
\* tick from running (strong fairness).
Fairness ==
    /\ WF_vars(LinkUp) /\ WF_vars(Probe /\ troubles' = troubles)
    /\ \A e \in Ends :
          /\ WF_vars(NoticesLoss(e)) /\ WF_vars(TellLink(e)) /\ WF_vars(SendHello(e))
          /\ WF_vars(Feed(e)) /\ SF_vars(TickTimeout(e) /\ troubles' = troubles)
          /\ WF_vars(TickFail(e)) /\ WF_vars(TellTick(e))
    /\ SF_vars(HostDrainsHello) /\ SF_vars(DrainHello)
    /\ WF_vars(DrainSends /\ troubles' = troubles)
    /\ WF_vars(DrainClears) /\ WF_vars(DrainCompletes)
    /\ WF_vars(RetryRequest) /\ WF_vars(GiveUpRequest)
    /\ WF_vars(StreamEnd) /\ WF_vars(StreamFails /\ troubles' = troubles)
    /\ WF_vars(DropReply) /\ WF_vars(CopyReply) /\ WF_vars(SendReply)

Spec == Init /\ [][Next]_vars
FairSpec == Spec /\ Fairness

-----------------------------------------------------------------------------
(* Properties.                                                             *)

\* handleAck: an ACK of an earlier session counts for nothing in a later one.  (The
\* code breaks it: the epoch it compares is the host's own and on no packet, SEQ
\* starts at 0 again, and what the device still holds of the earlier session, a
\* request under way or an ACK in its slot, is answered in the new one.)
AcksOfThisSession == confirmed \subseteq executed

\* Whatever was lost, refused or timed out, both ends are connected in the end and
\* their upper layers know it: no failure leaves them waiting for each other.
SessionRecovers ==
    <>[](\A e \in Ends : state[e] = "Connected" /\ heard[e] # "Disconnected")

\* A request does not wait for ever: it is acknowledged, given up, or forgotten with
\* its session.
RequestsEnd == pendingAck # NoAck ~> pendingAck = NoAck
=============================================================================

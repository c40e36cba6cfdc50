---------------------------- MODULE FrameLinkProofs ----------------------------
(***************************************************************************)
(* The frame link implements FrameDelivery, for any number of frames,      *)
(* messages, sessions and faults and any space of packet numbers.  That    *)
(* nothing wrong is shown does not need the numbers of packets at all:     *)
(* pixels that were lost can never be made up for, so that the sum in      *)
(* FRAME_END tells.  They are needed for the second half, that a frame     *)
(* which nothing has touched is shown.                                     *)
(***************************************************************************)
EXTENDS FrameLink, SequenceLemmas, TLAPS

-----------------------------------------------------------------------------
(* Messages, packets and frames.                                           *)

Kinds == {"FULL", "PARTIAL"}
Begins == [type : {"BEGIN"}, parts : {1}, frame : Nat, kind : Kinds, valid : BOOLEAN]
Rects == [type : {"RECT"}, parts : Nat \ {0}, frame : Nat, at : Nat]
Ends == [type : {"END"}, parts : {1}, frame : Nat, rects : Nat, bytes : Nat, aborted : BOOLEAN]
Messages == Begins \cup Rects \cup Ends \cup {ControlMsg, HelloMsg}

PacketOK(p) ==
    /\ p.chunk.msg \in Messages
    /\ p.type = p.chunk.msg.type
    /\ p.chunk.part \in 1..p.chunk.msg.parts
    /\ p.chunk = Chunk(p.chunk.msg, p.chunk.part)
    /\ p.chunked <=> p.chunk.part < p.chunk.msg.parts

Framed(m) == m.type \in {"BEGIN", "RECT", "END"}

\* The pixels of a frame are counted in the order they are sent: packet p of a RECT carries
\* the one after Start(p).
Start(p) == p.chunk.msg.at + p.chunk.part - 1
Stop(p) == p.chunk.msg.at + p.chunk.part

\* Packet p is sent before packet q.
Before(p, q) ==
    LET m == p.chunk.msg
        n == q.chunk.msg
    IN  Framed(m) /\ Framed(n) =>
            \/ m.frame < n.frame
            \/ /\ m.frame = n.frame /\ m.type # "END" /\ n.type # "BEGIN"
               /\ m.type = "RECT" /\ n.type = "RECT" => Stop(p) <= Start(q)

\* The frames that were finished or may be: their RECTs, one after the other.
Makings == {finished[i] : i \in DOMAIN finished}
             \cup (IF sending.open /\ ~mustAbort THEN {FinishedFrame} ELSE {})

RectAt(F, j) == F.rects[j][1].msg
Upto(F, j) == IF j = 0 THEN 0 ELSE RectAt(F, j).at + RectAt(F, j).parts
Size(F) == Upto(F, Len(F.rects))

MadeOK(F) ==
    /\ F = [frameId |-> F.frameId, kind |-> F.kind, rects |-> F.rects]
    /\ F.kind \in Kinds
    /\ \A j \in DOMAIN F.rects :
          /\ RectAt(F, j) \in Rects
          /\ RectAt(F, j).frame = F.frameId
          /\ RectAt(F, j).at = Upto(F, j - 1)
          /\ F.rects[j] = Payload(RectAt(F, j))
    /\ \A j, k \in DOMAIN F.rects : j < k => Upto(F, j) <= RectAt(F, k).at

-----------------------------------------------------------------------------
(* The invariant.                                                          *)

\* What the decoder hands over, and nothing while it assembles.  Only RECTs have more than
\* one packet.
Handed == callbacks[Len(callbacks)]
HandedMessage == callbacks # <<>> /\ Handed.kind = "message"
CallbacksOK ==
    /\ HandedMessage => payload = <<>>
    /\ payload # <<>> => messageType = "RECT"
    /\ \/ callbacks = <<>>
       \/ callbacks = <<Error>>
       \/ /\ HandedMessage
          /\ callbacks = <<Handed>> \/ (callbacks = <<Error, Handed>> /\ Handed.type # "RECT")
          /\ Handed = MessageOf(Handed.type, Handed.payload)
          /\ Handed.payload # <<>>
          /\ Handed.type # "RECT" =>
                Handed.payload[1].msg \in Messages /\ Handed.type = Handed.payload[1].msg.type

TypesOK ==
    /\ asmBytes \in Nat
    /\ IsSeq(stream) /\ IsSeq(payload) /\ IsSeq(finished) /\ IsSeq(committedFrames)
    /\ IsSeq(asmReceived) /\ IsSeq(sending.rects)
    /\ \A F \in Makings : IsSeq(F.rects)
    /\ HandedMessage => IsSeq(Handed.payload)

\* Messages that come to the assembler, those of RECTs that were handed over left out.
Coming == {stream[i].chunk.msg : i \in DOMAIN stream}
            \cup (IF HandedMessage /\ Handed.type # "RECT" THEN {Handed.payload[1].msg} ELSE {})

StreamOK ==
    /\ \A i \in DOMAIN stream : PacketOK(stream[i])
    /\ \A i, j \in DOMAIN stream : i < j => Before(stream[i], stream[j])
    /\ HandedMessage /\ Handed.type = "BEGIN" =>
          LET m == Handed.payload[1].msg
          IN  \A i \in DOMAIN stream :
                 LET n == stream[i].chunk.msg
                 IN  Framed(n) => n.frame >= m.frame /\ (n.type = "BEGIN" => n.frame > m.frame)

\* The frames of the device have numbers that grow.
FramesOK ==
    /\ frames \in 0..MaxFrames
    /\ finishedAtReconnect \in 0..Len(finished)
    /\ \A i \in DOMAIN finished : finished[i].frameId \in 1..frames
    /\ \A i, j \in DOMAIN finished : i < j => finished[i].frameId < finished[j].frameId
    /\ \A m \in Coming : Framed(m) => m.frame \in 1..frames
    /\ sending.open =>
          /\ sending.frame = frames /\ frames > 0
          /\ ~handshaking
          /\ \A i \in DOMAIN finished : finished[i].frameId < frames
          /\ \A m \in Coming : m.type = "END" => m.frame < frames

SendingOK ==
    /\ mustAbort \in BOOLEAN
    /\ sending \in [open : BOOLEAN, frame : Nat, kind : Kinds, rects : Seq(Rects), bytes : Nat]
    /\ sending.open =>
          /\ sending.bytes = Size(FinishedFrame)
          /\ MadeOK(FinishedFrame)
          /\ ~mustAbort =>
                \A i \in DOMAIN stream :
                   stream[i].type = "RECT" /\ stream[i].chunk.msg.frame = frames
                     => Stop(stream[i]) <= sending.bytes
MadeFrames == \A i \in DOMAIN finished : MadeOK(finished[i])

\* What comes of a frame that was finished, or may be, is what it is made of.
ComesAsMade ==
    \A F \in Makings :
       /\ \A m \in Coming :
             m.type = "BEGIN" /\ m.frame = F.frameId => m.kind = F.kind
       /\ \A m \in Coming :
             m.type = "RECT" /\ m.frame = F.frameId => \E j \in DOMAIN F.rects : m = RectAt(F, j)
       /\ \A m \in Coming :
             m.type = "END" /\ ~m.aborted /\ m.frame = F.frameId => m.bytes = Size(F)
EndsAreFinished ==
    \A m \in Coming : m.type = "END" /\ ~m.aborted =>
       \E i \in DOMAIN finished : finished[i].frameId = m.frame

InFrame == asmState = "InFrame"
LastShown == IF committedFrames = <<>> THEN 0 ELSE committedFrames[Len(committedFrames)].frameId

\* The frame the host is in is newer than the last one it showed and older than all that begin
\* behind it; none of them is from before the connection, once it is established.
Newer(f) ==
    /\ f > LastShown
    /\ ~handshaking => \A i \in 1..finishedAtReconnect : finished[i].frameId < f
HostInOrder ==
    /\ committedFrames # <<>> =>
          \E i \in DOMAIN finished : finished[i] = committedFrames[Len(committedFrames)]
    /\ InFrame => asmBegin.frameId \in 1..frames /\ Newer(asmBegin.frameId)
    /\ \A m \in Coming :
          /\ m.type = "BEGIN" => Newer(m.frame) /\ (InFrame => m.frame > asmBegin.frameId)
          /\ m.type = "RECT" /\ InFrame => m.frame >= asmBegin.frameId

HandshakeOK ==
    /\ \A i \in DOMAIN stream : stream[i].type = "HELLO" => handshaking /\ i = Len(stream)
    /\ HandedMessage /\ Handed.type = "HELLO" => handshaking /\ stream = <<>>

\* The END of F is still to come, or to be sent.
Live(F) ==
    \/ sending.open /\ ~mustAbort /\ sending.frame = F.frameId
    \/ \E m \in Coming : m.type = "END" /\ ~m.aborted /\ m.frame = F.frameId

\* The pixels the assembler was not handed yet, and how many the host has of its frame.
Pending == IF HandedMessage /\ Handed.type = "RECT" THEN Handed.payload ELSE payload
Got == asmBytes + Len(Pending)

Ahead(F, n) ==
    \A i \in DOMAIN stream :
       stream[i].type = "RECT" /\ stream[i].chunk.msg.frame = F.frameId => Start(stream[i]) >= n

\* The host has the frame as far as it was sent, but for what comes.
Exact(F) ==
    LET n == Len(asmReceived)
    IN  /\ n <= Len(F.rects)
        /\ \A j \in 1..n : asmReceived[j] = F.rects[j]
        /\ asmBytes = Upto(F, n)
        /\ Pending # <<>> =>
              /\ n < Len(F.rects)
              /\ Len(Pending) <= Len(F.rects[n + 1])
              /\ \A k \in DOMAIN Pending : Pending[k] = F.rects[n + 1][k]
              /\ payload = <<>> <=> Len(Pending) = Len(F.rects[n + 1])

\* Or it misses some of it, and what comes is not enough.
Misses(F) == Got < Size(F) /\ Ahead(F, Got + 1)

HostHasFrame ==
    InFrame =>
       \A F \in Makings : F.frameId = asmBegin.frameId =>
          /\ F.kind = asmBegin.kind
          /\ Live(F) => Got <= Size(F) /\ Ahead(F, Got) /\ (Exact(F) \/ Misses(F))

LinkInv ==
    /\ TypesOK /\ CallbacksOK /\ StreamOK /\ FramesOK /\ SendingOK /\ MadeFrames /\ ComesAsMade
    /\ EndsAreFinished /\ HostInOrder /\ HandshakeOK /\ HostHasFrame
-----------------------------------------------------------------------------
(* Messages and packets.                                                   *)

LEMMA SmallMod == ASSUME NEW f \in 0..MaxFrames PROVE f % LinkFrameIds = f
BY BoundsAssumption

LEMMA MessageTyped ==
    ASSUME NEW m \in Messages
    PROVE  /\ m.parts \in Nat \ {0}
           /\ m.type \in {"BEGIN", "RECT", "END", "PING", "HELLO"}
           /\ m.type # "RECT" => m.parts = 1
           /\ m.type = "BEGIN" <=> m \in Begins
           /\ m.type = "RECT" <=> m \in Rects
           /\ m.type = "END" <=> m \in Ends
BY DEF Messages, Begins, Rects, Ends, ControlMsg, HelloMsg

LEMMA PayloadIs ==
    ASSUME NEW m, m.parts \in Nat \ {0}
    PROVE  /\ IsSeq(Payload(m)) /\ Len(Payload(m)) = m.parts /\ DOMAIN Payload(m) = 1..m.parts
           /\ \A k \in 1..m.parts : Payload(m)[k] = Chunk(m, k)
           /\ Payload(m)[1].msg = m
<1>1. Payload(m) = [k \in 1..m.parts |-> Payload(m)[k]] BY DEF Payload
<1>2. IsSeq(Payload(m)) /\ Len(Payload(m)) = m.parts BY <1>1, FunctionSeq
<1>3. \A k \in 1..m.parts : Payload(m)[k] = Chunk(m, k) BY DEF Payload
<1>4. Payload(m)[1].msg = m
  <2>1. 1 \in 1..m.parts OBVIOUS
  <2>2. Payload(m)[1] = Chunk(m, 1) BY <1>3, <2>1
  <2>3. Chunk(m, 1).msg = m BY DEF Chunk
  <2> QED BY <2>2, <2>3
<1> QED BY <1>2, <1>3, <1>4 DEF Payload

LEMMA PacketIs ==
    ASSUME NEW m \in Messages, NEW k \in 1..m.parts, NEW s
    PROVE  /\ PacketOK(Packet(m, k, s))
           /\ Packet(m, k, s).chunk = Chunk(m, k)
           /\ Packet(m, k, s).type = m.type
           /\ Chunk(m, k).msg = m /\ Chunk(m, k).part = k
<1>1. Packet(m, k, s).chunked <=> k < m.parts BY DEF Packet
<1>2. Packet(m, k, s).chunk = Chunk(m, k) /\ Packet(m, k, s).type = m.type BY DEF Packet
<1>3. Chunk(m, k).msg = m /\ Chunk(m, k).part = k BY DEF Chunk
<1> QED BY <1>1, <1>2, <1>3 DEF PacketOK

\* The packets of m that the sink took are behind those of the stream.
LEMMA Emitted ==
    ASSUME NEW m \in Messages, NEW n \in 0..m.parts, Emit(m, n), IsSeq(stream)
    PROVE  /\ IsSeq(stream') /\ Len(stream') = Len(stream) + n
           /\ \A i \in DOMAIN stream : i \in DOMAIN stream' /\ stream'[i] = stream[i]
           /\ \A i \in DOMAIN stream' \ DOMAIN stream :
                 /\ i - Len(stream) \in 1..n
                 /\ PacketOK(stream'[i])
                 /\ stream'[i].type = m.type
                 /\ stream'[i].chunk = Chunk(m, i - Len(stream))
                 /\ stream'[i].chunk.msg = m
                 /\ stream'[i].chunk.part = i - Len(stream)
<1>1. m.parts \in Nat \ {0} BY MessageTyped
<1> DEFINE P == Packets(m, n)
<1>2. IsSeq(P) /\ Len(P) = n /\ DOMAIN P = 1..n
  <2>1. P = [k \in 1..n |-> P[k]] BY DEF Packets
  <2> HIDE DEF P
  <2>2. IsSeq(P) /\ Len(P) = n BY <2>1, <1>1, FunctionSeq
  <2> QED BY <2>2, SeqIndices
<1>3. \A k \in 1..n : P[k] = Packet(m, k, seq) BY DEF Packets
<1>4. stream' = stream \o P BY DEF Emit
<1> HIDE DEF P
<1>5. /\ IsSeq(stream') /\ Len(stream') = Len(stream) + n
      /\ \A i \in DOMAIN stream : i \in DOMAIN stream' /\ stream'[i] = stream[i]
      /\ \A i \in DOMAIN stream' \ DOMAIN stream :
            i - Len(stream) \in 1..n /\ stream'[i] = P[i - Len(stream)]
  <2>1. /\ IsSeq(stream \o P) /\ Len(stream \o P) = Len(stream) + Len(P)
        /\ \A i \in DOMAIN stream : i \in DOMAIN (stream \o P) /\ (stream \o P)[i] = stream[i]
        /\ \A i \in DOMAIN (stream \o P) \ DOMAIN stream :
              i - Len(stream) \in DOMAIN P /\ (stream \o P)[i] = P[i - Len(stream)]
    BY <1>2, ConcatKeeps
  <2> QED BY <1>2, <1>4, <2>1
<1>6. ASSUME NEW i \in DOMAIN stream' \ DOMAIN stream
      PROVE  /\ PacketOK(stream'[i])
             /\ stream'[i].type = m.type
             /\ stream'[i].chunk = Chunk(m, i - Len(stream))
             /\ stream'[i].chunk.msg = m
             /\ stream'[i].chunk.part = i - Len(stream)
  <2> DEFINE k == i - Len(stream)
  <2>1. k \in 1..n /\ stream'[i] = P[k] BY <1>5
  <2> HIDE DEF k
  <2>2. k \in 1..m.parts BY <2>1, <1>1
  <2>3. stream'[i] = Packet(m, k, seq) BY <2>1, <1>3
  <2>4. /\ PacketOK(stream'[i]) /\ stream'[i].type = m.type /\ stream'[i].chunk = Chunk(m, k)
        /\ stream'[i].chunk.msg = m /\ stream'[i].chunk.part = k
    BY <2>2, <2>3, PacketIs
  <2> QED BY <2>4 DEF k
<1> QED BY <1>5, <1>6

\* The frames that are made have RECTs one after the other.
LEMMA MadeIs ==
    ASSUME NEW F, MadeOK(F), IsSeq(F.rects)
    PROVE  /\ \A j \in 0..Len(F.rects) : Upto(F, j) \in Nat /\ Upto(F, j) <= Size(F)
           /\ \A j \in 0..Len(F.rects) : Upto(F, j) = Size(F) => j = Len(F.rects)
<1>1. Len(F.rects) \in Nat /\ DOMAIN F.rects = 1..Len(F.rects) BY SeqIndices
<1>2. \A j \in 1..Len(F.rects) :
         RectAt(F, j).at \in Nat /\ RectAt(F, j).parts \in Nat \ {0}
  BY <1>1 DEF MadeOK, Rects
<1>3. \A j \in 0..Len(F.rects) : Upto(F, j) \in Nat BY <1>1, <1>2 DEF Upto
<1>4. \A j \in 1..Len(F.rects) : Upto(F, j) > 0 BY <1>1, <1>2 DEF Upto
<1>5. \A j, k \in 1..Len(F.rects) : j < k => Upto(F, j) < Upto(F, k)
  <2>1. \A j, k \in 1..Len(F.rects) : j < k => Upto(F, j) <= RectAt(F, k).at
    BY <1>1 DEF MadeOK
  <2>2. \A k \in 1..Len(F.rects) : Upto(F, k) = RectAt(F, k).at + RectAt(F, k).parts
    BY <1>1 DEF Upto
  <2>3. ASSUME NEW j \in 1..Len(F.rects), NEW k \in 1..Len(F.rects), j < k
        PROVE  Upto(F, j) < Upto(F, k)
    <3>1. PICK u, v, a, p : /\ u = Upto(F, j) /\ v = Upto(F, k)
                            /\ a = RectAt(F, k).at /\ p = RectAt(F, k).parts
      OBVIOUS
    <3>2. u <= a /\ v = a + p BY <2>1, <2>2, <2>3, <3>1
    <3>3. a \in Nat /\ p \in Nat \ {0} BY <1>2, <3>1
    <3>4. j \in 0..Len(F.rects) BY <1>1
    <3>5. u \in Nat BY <1>3, <3>1, <3>4
    <3>6. u < v BY <3>2, <3>3, <3>5
    <3> QED BY <3>1, <3>6
  <2> QED BY <2>3
<1>6. \A j \in 0..Len(F.rects) : j < Len(F.rects) => Upto(F, j) < Size(F)
  BY <1>1, <1>3, <1>4, <1>5 DEF Size, Upto
<1> QED BY <1>1, <1>3, <1>6 DEF Size
-----------------------------------------------------------------------------
(* A message is sent.                                                      *)

\* The device's message m is behind what is under way.
Behind(m) ==
    Framed(m) =>
       /\ \A i \in DOMAIN stream :
             LET o == stream[i].chunk.msg
             IN  Framed(o) =>
                    \/ o.frame < m.frame
                    \/ /\ o.frame = m.frame /\ o.type # "END" /\ m.type # "BEGIN"
                       /\ o.type = "RECT" /\ m.type = "RECT" => Stop(stream[i]) <= m.at
       /\ HandedMessage /\ Handed.type = "BEGIN" =>
             LET o == Handed.payload[1].msg
             IN  m.frame >= o.frame /\ (m.type = "BEGIN" => m.frame > o.frame)

LEMMA Sends ==
    ASSUME LinkInv, NEW m \in Messages, NEW n \in 0..m.parts, Emit(m, n), Behind(m),
           UNCHANGED <<decoderVars, asmVars, sessionVars>>, ~handshaking, m.type # "HELLO"
    PROVE  /\ IsSeq(stream') /\ CallbacksOK' /\ StreamOK' /\ HandshakeOK'
           /\ Coming' \subseteq Coming \cup {m}
           /\ n = 0 => Coming' = Coming
           /\ n > 0 => Coming' = Coming \cup {m}
<1> DEFINE L == Len(stream)
<1>1. IsSeq(stream) /\ L \in Nat /\ DOMAIN stream = 1..L BY SeqIndices DEF LinkInv, TypesOK
<1>2. /\ IsSeq(stream') /\ Len(stream') = L + n
      /\ \A i \in DOMAIN stream : i \in DOMAIN stream' /\ stream'[i] = stream[i]
      /\ \A i \in DOMAIN stream' \ DOMAIN stream :
            /\ i - L \in 1..n
            /\ PacketOK(stream'[i])
            /\ stream'[i].type = m.type
            /\ stream'[i].chunk.msg = m
            /\ stream'[i].chunk.part = i - L
  BY <1>1, Emitted
<1>3. DOMAIN stream' = 1..(L + n) BY <1>2, SeqIndices
<1>4. m.parts \in Nat \ {0} /\ (m.type # "RECT" => m.parts = 1) /\ (m.type = "RECT" => m \in Rects)
  BY MessageTyped
<1> HIDE DEF L
<1>5. CallbacksOK' BY DEF LinkInv, CallbacksOK, decoderVars, HandedMessage, Handed
<1>6. (HandedMessage' <=> HandedMessage) /\ Handed' = Handed BY DEF decoderVars, HandedMessage, Handed
<1>7. Coming' \subseteq Coming \cup {m} /\ (n = 0 => Coming' = Coming)
      /\ (n > 0 => Coming' = Coming \cup {m})
  <2>1. {stream[i].chunk.msg : i \in DOMAIN stream} \subseteq {stream'[i].chunk.msg : i \in DOMAIN stream'}
    BY <1>2
  <2>2. {stream'[i].chunk.msg : i \in DOMAIN stream'}
          \subseteq {stream[i].chunk.msg : i \in DOMAIN stream} \cup {m}
    BY <1>2
  <2>3. n = 0 => {stream'[i].chunk.msg : i \in DOMAIN stream'}
                   \subseteq {stream[i].chunk.msg : i \in DOMAIN stream}
    BY <1>1, <1>2, <1>3
  <2>4. n > 0 => m \in {stream'[i].chunk.msg : i \in DOMAIN stream'}
    <3>1. n > 0 => L + 1 \in DOMAIN stream' \ DOMAIN stream BY <1>1, <1>3, <1>4
    <3> QED BY <3>1, <1>2
  <2> QED BY <2>1, <2>2, <2>3, <2>4, <1>6 DEF Coming
<1>8. \A i \in DOMAIN stream' : PacketOK(stream'[i]) BY <1>2 DEF LinkInv, StreamOK
<1>9. ASSUME NEW i \in DOMAIN stream', NEW j \in DOMAIN stream', i < j
      PROVE  Before(stream'[i], stream'[j])
  <2>1. CASE j \in DOMAIN stream
    <3>1. i \in DOMAIN stream BY <1>1, <1>3, <1>9, <2>1
    <3> QED BY <2>1, <3>1, <1>2, <1>9 DEF LinkInv, StreamOK
  <2>2. CASE i \in DOMAIN stream /\ j \notin DOMAIN stream
    <3>1. stream'[i] = stream[i] /\ stream'[j].chunk.msg = m /\ stream'[j].chunk.part >= 1
      BY <2>2, <1>1, <1>2, <1>4
    <3>2. PacketOK(stream[i]) BY <2>2 DEF LinkInv, StreamOK
    <3>3. stream[i].chunk.msg.type = "RECT" => Stop(stream[i]) \in Int
      <4>1. stream[i].chunk.msg.type = "RECT" => stream[i].chunk.msg \in Rects BY <3>2, MessageTyped DEF PacketOK
      <4> QED BY <3>2, <4>1 DEF PacketOK, Stop, Rects
    <3>4. m.type = "RECT" => Start(stream'[j]) >= m.at
      BY <3>1, <1>1, <1>2, <1>3, <1>4, <2>2 DEF Start, Rects
    <3>5. m.type = "RECT" => m.at \in Nat /\ Start(stream'[j]) \in Int
      BY <3>1, <1>1, <1>2, <1>3, <1>4, <2>2 DEF Start, Rects
    <3> QED BY <3>1, <3>3, <3>4, <3>5, <2>2 DEF Behind, Before
  <2>3. CASE i \notin DOMAIN stream /\ j \notin DOMAIN stream
    <3>1. i - L \in 1..n /\ j - L \in 1..n /\ i - L < j - L BY <2>3, <1>1, <1>2, <1>3, <1>9
    <3>2. m.type = "RECT" BY <3>1, <1>4
    <3>3. stream'[i].chunk.msg = m /\ stream'[j].chunk.msg = m
          /\ stream'[i].chunk.part = i - L /\ stream'[j].chunk.part = j - L
      BY <2>3, <1>2
    <3>4. Stop(stream'[i]) <= Start(stream'[j]) BY <3>1, <3>2, <3>3, <1>1, <1>4 DEF Start, Stop, Rects
    <3> QED BY <3>2, <3>3, <3>4 DEF Before
  <2> QED BY <2>1, <2>2, <2>3
<1>10. StreamOK'
  <2>1. ASSUME HandedMessage', Handed'.type = "BEGIN", NEW i \in DOMAIN stream',
               Framed(stream'[i].chunk.msg)
        PROVE  /\ stream'[i].chunk.msg.frame >= Handed'.payload[1].msg.frame
               /\ stream'[i].chunk.msg.type = "BEGIN" =>
                     stream'[i].chunk.msg.frame > Handed'.payload[1].msg.frame
    <3>1. CASE i \in DOMAIN stream BY <2>1, <3>1, <1>2, <1>6 DEF LinkInv, StreamOK
    <3>2. CASE i \notin DOMAIN stream BY <2>1, <3>2, <1>2, <1>6 DEF Behind
    <3> QED BY <3>1, <3>2
  <2> QED BY <1>8, <1>9, <2>1, <1>6 DEF StreamOK
<1>11. HandshakeOK'
  <2>1. \A i \in DOMAIN stream' : stream'[i].type # "HELLO" BY <1>2 DEF LinkInv, HandshakeOK
  <2>2. ~(HandedMessage' /\ Handed'.type = "HELLO") BY <1>6 DEF LinkInv, HandshakeOK
  <2> QED BY <2>1, <2>2 DEF HandshakeOK
<1> QED BY <1>2, <1>5, <1>7, <1>10, <1>11
-----------------------------------------------------------------------------
(* The device.                                                             *)

LEMMA ComingIs ==
    ASSUME LinkInv
    PROVE  /\ Coming \subseteq Messages
           /\ \A i \in DOMAIN stream :
                 stream[i].chunk.msg \in Coming /\ stream[i].type = stream[i].chunk.msg.type
           /\ HandedMessage /\ Handed.type # "RECT" =>
                 Handed.payload[1].msg \in Coming /\ Handed.payload[1].msg.type = Handed.type
           /\ \A m \in Coming : Framed(m) => m.frame \in 1..frames
<1>1. \A i \in DOMAIN stream : stream[i].chunk.msg \in Messages /\ stream[i].type = stream[i].chunk.msg.type
  BY DEF LinkInv, StreamOK, PacketOK
<1>2. HandedMessage /\ Handed.type # "RECT" =>
         Handed.payload[1].msg \in Messages /\ Handed.payload[1].msg.type = Handed.type
  <2>1. HandedMessage => callbacks # <<>> /\ callbacks # <<Error>>
    BY DEF HandedMessage, Handed, Error
  <2> QED BY <2>1 DEF LinkInv, CallbacksOK
<1> QED BY <1>1, <1>2 DEF Coming, LinkInv, FramesOK

LEMMA FrameNumbers ==
    ASSUME LinkInv
    PROVE  /\ frames \in Nat /\ LastShown \in 0..frames
           /\ InFrame => asmBegin.frameId \in 1..frames
           /\ \A F \in Makings : F.frameId \in 1..frames
           /\ sending.open => FinishedFrame.frameId = frames
<1>1. frames \in 0..MaxFrames /\ MaxFrames \in Nat BY BoundsAssumption DEF LinkInv, FramesOK
<1>2. \A i \in DOMAIN finished : finished[i].frameId \in 1..frames BY DEF LinkInv, FramesOK
<1>3. LastShown \in 0..frames BY <1>1, <1>2 DEF LinkInv, HostInOrder, LastShown
<1>4. sending.open => FinishedFrame.frameId = frames /\ frames \in 1..frames
  <2>1. sending.open => sending.frame = frames /\ frames > 0 BY DEF LinkInv, FramesOK
  <2> QED BY <1>1, <2>1 DEF FinishedFrame
<1>5. \A F \in Makings : F.frameId \in 1..frames BY <1>2, <1>4 DEF Makings
<1> QED BY <1>1, <1>3, <1>4, <1>5 DEF LinkInv, HostInOrder

LEMMA MakingIs ==
    ASSUME LinkInv, NEW F, F \in Makings
    PROVE  /\ MadeOK(F) /\ IsSeq(F.rects) /\ Size(F) \in Nat /\ F.frameId \in 1..frames
           /\ Len(F.rects) \in Nat /\ DOMAIN F.rects = 1..Len(F.rects)
           /\ \A j \in 0..Len(F.rects) : Upto(F, j) \in Nat /\ Upto(F, j) <= Size(F)
           /\ \A j \in 0..Len(F.rects) : Upto(F, j) = Size(F) => j = Len(F.rects)
<1>1. MadeOK(F) /\ IsSeq(F.rects)
  BY DEF Makings, LinkInv, TypesOK, SendingOK, MadeFrames
<1>2. Len(F.rects) \in Nat /\ DOMAIN F.rects = 1..Len(F.rects) BY <1>1, SeqIndices
<1>3. Len(F.rects) \in 0..Len(F.rects) BY <1>2
<1> QED BY <1>1, <1>2, <1>3, MadeIs, FrameNumbers DEF Size

LEMMA GotIs == ASSUME LinkInv PROVE IsSeq(Pending) /\ Len(Pending) \in Nat /\ Got \in Nat
<1>1. IsSeq(Pending) BY DEF Pending, LinkInv, TypesOK
<1> QED BY <1>1, SeqIndices DEF Got, LinkInv, TypesOK

\* What the host has of a frame stays when messages are sent, be they of other frames or of
\* pixels it does not have.
LEMMA HostKeeps ==
    ASSUME LinkInv, UNCHANGED <<decoderVars, asmVars>>,
           NEW F, F \in Makings, InFrame, F.frameId = asmBegin.frameId, Live(F),
           IsSeq(stream), Size(F) \in Nat,
           \A i \in DOMAIN stream' : stream'[i].type = "RECT" /\ stream'[i].chunk.msg.frame = F.frameId =>
              \/ \E j \in DOMAIN stream : stream[j] = stream'[i]
              \/ Start(stream'[i]) \in Int /\ Start(stream'[i]) >= Size(F)
    PROVE  /\ F.kind = asmBegin'.kind
           /\ (Got <= Size(F))' /\ Ahead(F, Got)' /\ (Exact(F) \/ Misses(F))'
<1>1. Got <= Size(F) /\ Ahead(F, Got) /\ (Exact(F) \/ Misses(F)) /\ F.kind = asmBegin.kind
  BY DEF LinkInv, HostHasFrame
<1>2. Pending' = Pending /\ Got' = Got
  BY DEF Pending, Got, HandedMessage, Handed, decoderVars, asmVars
<1>3. IsSeq(Pending) BY DEF Pending, LinkInv, TypesOK
<1>4. Got \in Nat BY <1>3, SeqIndices DEF Got, LinkInv, TypesOK
<1>5. Ahead(F, Got)' BY <1>1, <1>2, <1>4 DEF Ahead
<1>6. Exact(F) => Exact(F)' BY <1>2 DEF Exact, decoderVars, asmVars, Upto, RectAt
<1>7. Misses(F) => Misses(F)'
  <2>1. ASSUME Misses(F) PROVE Ahead(F, Got + 1)' /\ (Got < Size(F))'
    BY <2>1, <1>2, <1>4 DEF Ahead, Misses, Size, Upto, RectAt
  <2> QED BY <2>1 DEF Misses
<1> QED BY <1>1, <1>2, <1>5, <1>6, <1>7 DEF asmVars, Size, Upto, RectAt

LEMMA BeginPreserves ==
    ASSUME LinkInv, NEW kind \in Kinds, NEW valid \in BOOLEAN, NEW n \in 0..1,
           BeginFrame(kind, valid, n)
    PROVE  LinkInv'
<1> DEFINE m == BeginMsg(frames + 1, kind, valid)
<1>1. /\ ~handshaking /\ ~sending.open /\ frames < MaxFrames /\ frames' = frames + 1
      /\ UNCHANGED <<mustAbort, finished, sessionVars, decoderVars, asmVars>>
      /\ Emit(m, n)
  BY DEF BeginFrame
<1>2. m \in Messages /\ m.type = "BEGIN" /\ m.frame = frames + 1 /\ m.parts = 1 /\ m.kind = kind
  BY FrameNumbers DEF BeginMsg, Messages, Begins
<1> HIDE DEF m
<1>3. Behind(m) BY <1>2, ComingIs, FrameNumbers DEF Behind, Framed
<1>4. /\ IsSeq(stream') /\ CallbacksOK' /\ StreamOK' /\ HandshakeOK'
      /\ Coming' \subseteq Coming \cup {m}
  BY <1>1, <1>2, <1>3, Sends
<1>5. frames \in Nat /\ MaxFrames \in Nat BY <1>1, FrameNumbers, BoundsAssumption
<1>6. \/ n = 1 /\ sending' = [open |-> TRUE, frame |-> frames + 1, kind |-> kind, rects |-> <<>>, bytes |-> 0]
      \/ n = 0 /\ sending' = NothingSent
  BY DEF BeginFrame
<1>7. sending'.rects = <<>> /\ IsSeq(sending'.rects)
  <2>1. sending'.rects = <<>> BY <1>6 DEF NothingSent
  <2> QED BY <2>1, NothingIsSeq
<1>8. \A F \in Makings' :
         \/ F \in Makings
         \/ n = 1 /\ F.frameId = frames + 1 /\ F.kind = kind /\ F.rects = <<>> /\ F = FinishedFrame'
  <2>1. n = 1 => FinishedFrame' = [frameId |-> frames + 1, kind |-> kind, rects |-> <<>>]
    <3>1. n = 1 => FinishedFrame' = [frameId |-> frames + 1, kind |-> kind,
                                     rects |-> [i \in DOMAIN <<>> |-> Payload(<<>>[i])]]
      BY <1>6 DEF FinishedFrame
    <3>2. [i \in DOMAIN <<>> |-> Payload(<<>>[i])] = <<>> OBVIOUS
    <3> QED BY <3>1, <3>2, <1>5
  <2>2. ~sending'.open => n = 0 BY <1>6
  <2> QED BY <1>1, <2>1, <2>2, <1>6 DEF Makings, NothingSent
<1>9. TypesOK'
  <2>1. \A F \in Makings : IsSeq(F.rects) BY DEF LinkInv, TypesOK
  <2>3. ASSUME NEW F \in Makings' PROVE IsSeq(F.rects)
    <3>1. CASE F \in Makings BY <2>1, <3>1
    <3>2. CASE F.rects = <<>> BY <3>2, NothingIsSeq
    <3> QED BY <1>8, <3>1, <3>2
  <2> QED BY <1>1, <1>4, <1>7, <2>3 DEF LinkInv, TypesOK, asmVars, decoderVars, HandedMessage, Handed
<1>10. FramesOK'
  <2>1. \A o \in Coming' : Framed(o) => o.frame \in 1..frames' BY <1>1, <1>2, <1>4, <1>5, ComingIs
  <2>2. sending'.open => \A o \in Coming' : o.type = "END" => o.frame < frames'
    BY <1>1, <1>2, <1>4, <1>5, ComingIs DEF Framed
  <2> QED BY <1>1, <1>5, <1>6, <2>1, <2>2 DEF LinkInv, FramesOK, sessionVars, NothingSent
<1>11. SendingOK'
  <2>1. mustAbort' \in BOOLEAN BY <1>1 DEF LinkInv, SendingOK
  <2>2. ASSUME sending'.open
        PROVE  /\ sending'.bytes = 0 /\ FinishedFrame'.rects = <<>> /\ FinishedFrame'.kind = kind
    <3>1. sending' = [open |-> TRUE, frame |-> frames + 1, kind |-> kind, rects |-> <<>>, bytes |-> 0]
      BY <1>6, <2>2 DEF NothingSent
    <3>2. [i \in DOMAIN <<>> |-> Payload(<<>>[i])] = <<>> OBVIOUS
    <3> QED BY <3>1, <3>2 DEF FinishedFrame
  <2>3. ASSUME sending'.open PROVE Size(FinishedFrame') = 0 /\ MadeOK(FinishedFrame')
    <3>1. PICK F : F = FinishedFrame' OBVIOUS
    <3>2. F.rects = <<>> /\ F.kind = kind BY <2>2, <2>3, <3>1
    <3>3. Size(F) = 0 BY <3>2 DEF Size, Upto
    <3>4. DOMAIN F.rects = {} BY <3>2
    <3>5. F = [frameId |-> F.frameId, kind |-> F.kind, rects |-> F.rects] BY <3>1 DEF FinishedFrame
    <3>6. MadeOK(F) BY <3>2, <3>4, <3>5 DEF MadeOK
    <3> QED BY <3>1, <3>3, <3>6
  <2>4. \A i \in DOMAIN stream' :
           stream'[i].type = "RECT" => stream'[i].chunk.msg.frame # frames'
    <3>1. \A i \in DOMAIN stream' :
             stream'[i].chunk.msg \in Coming' /\ stream'[i].type = stream'[i].chunk.msg.type
      BY <1>4 DEF Coming, StreamOK, PacketOK
    <3> QED BY <3>1, <1>1, <1>2, <1>4, <1>5, ComingIs DEF Framed
  <2>5. sending' \in [open : BOOLEAN, frame : Nat, kind : Kinds, rects : Seq(Rects), bytes : Nat]
    <3> DEFINE Q == Seq(Rects)
    <3>1. <<>> \in Q OBVIOUS
    <3> HIDE DEF Q
    <3>2. sending' = NothingSent
             => sending' \in [open : BOOLEAN, frame : Nat, kind : Kinds, rects : Q, bytes : Nat]
      BY <3>1 DEF NothingSent, Kinds
    <3>3. sending' = [open |-> TRUE, frame |-> frames + 1, kind |-> kind, rects |-> <<>>, bytes |-> 0]
             => sending' \in [open : BOOLEAN, frame : Nat, kind : Kinds, rects : Q, bytes : Nat]
      BY <3>1, <1>5
    <3> QED BY <3>2, <3>3, <1>6 DEF Q
  <2> QED BY <2>1, <2>2, <2>3, <2>4, <2>5 DEF SendingOK
<1>12. MadeFrames' BY <1>1 DEF MadeFrames, LinkInv
<1>13. ComesAsMade'
  <2>1. ASSUME NEW F \in Makings', NEW o \in Coming', Framed(o), o.frame = F.frameId
        PROVE  \/ F \in Makings /\ o \in Coming
               \/ o = m /\ F.kind = kind
    BY <1>2, <1>4, <1>5, <1>8, <2>1, ComingIs, MakingIs
  <2> QED BY <2>1, <1>2 DEF ComesAsMade, LinkInv, Framed
<1>14. EndsAreFinished' BY <1>1, <1>2, <1>4 DEF EndsAreFinished, LinkInv
<1>15. HostInOrder'
  <2>1. Newer(frames + 1)
    BY FrameNumbers DEF Newer, LinkInv, FramesOK
  <2>2. \A f : Newer(f) => Newer(f)' BY <1>1 DEF Newer, LastShown, asmVars, sessionVars
  <2>3. InFrame => frames + 1 > asmBegin.frameId BY FrameNumbers
  <2>4. \A f : f = frames + 1 => Newer(f)' BY <2>1, <2>2
  <2>5. InFrame' <=> InFrame BY <1>1 DEF InFrame, asmVars
  <2>6. InFrame' => asmBegin'.frameId \in 1..frames' /\ Newer(asmBegin.frameId)'
    BY <1>1, <1>5, <2>2, <2>5, FrameNumbers DEF asmVars, LinkInv, HostInOrder
  <2>7. ASSUME NEW o \in Coming'
        PROVE  /\ o.type = "BEGIN" => Newer(o.frame)' /\ (InFrame' => o.frame > asmBegin'.frameId)
               /\ o.type = "RECT" /\ InFrame' => o.frame >= asmBegin'.frameId
    <3>1. CASE o \in Coming BY <1>1, <2>2, <2>5, <3>1 DEF asmVars, LinkInv, HostInOrder
    <3>2. CASE o = m BY <1>1, <1>2, <2>3, <2>4, <2>5, <3>2 DEF asmVars
    <3> QED BY <1>4, <3>1, <3>2
  <2> QED BY <1>1, <2>6, <2>7 DEF HostInOrder, LinkInv, asmVars
<1>16. HostHasFrame'
  <2> SUFFICES ASSUME InFrame', NEW F \in Makings', F.frameId = asmBegin'.frameId
               PROVE  /\ F.kind = asmBegin'.kind
                      /\ Live(F)' => (Got <= Size(F))' /\ Ahead(F, Got)' /\ (Exact(F) \/ Misses(F))'
    BY DEF HostHasFrame
  <2>1. InFrame /\ F.frameId = asmBegin.frameId /\ F.frameId # frames + 1 /\ F \in Makings
    BY <1>1, <1>5, <1>8, FrameNumbers DEF InFrame, asmVars
  <2>2. F.kind = asmBegin'.kind BY <2>1, <1>1 DEF LinkInv, HostHasFrame, asmVars
  <2>3. ASSUME Live(F)' PROVE Live(F)
    <3>1. ~(sending'.open /\ sending'.frame = F.frameId) BY <1>6, <2>1 DEF NothingSent
    <3> QED BY <2>3, <3>1, <1>2, <1>4 DEF Live
  <2>4. ASSUME NEW i \in DOMAIN stream',
               stream'[i].type = "RECT", stream'[i].chunk.msg.frame = F.frameId
        PROVE  \E j \in DOMAIN stream : stream[j] = stream'[i]
    <3>1. IsSeq(stream) BY DEF LinkInv, TypesOK
    <3>2. i \in DOMAIN stream \/ stream'[i].type = "BEGIN" BY <1>1, <1>2, <3>1, Emitted
    <3> QED BY <3>1, <3>2, <2>4, <1>1, <1>2, Emitted
  <2>5. IsSeq(stream) BY DEF LinkInv, TypesOK
  <2>6. Size(F) \in Nat BY <2>1, MakingIs
  <2>7. UNCHANGED <<decoderVars, asmVars>> BY <1>1
  <2> QED BY <2>1, <2>2, <2>3, <2>4, <2>5, <2>6, <2>7, HostKeeps
<1> QED BY <1>4, <1>9, <1>10, <1>11, <1>12, <1>13, <1>14, <1>15, <1>16 DEF LinkInv

\* G is the frame F with one more RECT.
Grown(F, m, G) ==
    /\ m.frame = F.frameId /\ m.at = Size(F)
    /\ G = [frameId |-> G.frameId, kind |-> G.kind, rects |-> G.rects]
    /\ G.kind = F.kind /\ G.frameId = F.frameId /\ G.rects = Append(F.rects, Payload(m))

LEMMA MadeGrows ==
    ASSUME NEW F, MadeOK(F), IsSeq(F.rects), NEW m \in Rects, NEW G, Grown(F, m, G)
    PROVE  /\ MadeOK(G) /\ IsSeq(G.rects) /\ Len(G.rects) = Len(F.rects) + 1
           /\ Size(F) \in Nat /\ Size(G) = Size(F) + m.parts
           /\ \A j \in 1..Len(F.rects) : G.rects[j] = F.rects[j] /\ RectAt(G, j) = RectAt(F, j)
           /\ \A j \in 0..Len(F.rects) : Upto(G, j) = Upto(F, j)
           /\ RectAt(G, Len(G.rects)) = m
<1>0. /\ m.frame = F.frameId /\ m.at = Size(F)
      /\ G = [frameId |-> G.frameId, kind |-> G.kind, rects |-> G.rects]
      /\ G.kind = F.kind /\ G.frameId = F.frameId /\ G.rects = Append(F.rects, Payload(m))
  BY DEF Grown
<1> USE <1>0
<1> DEFINE n == Len(F.rects)
<1>1. n \in Nat /\ DOMAIN F.rects = 1..n BY SeqIndices
<1>2. /\ IsSeq(G.rects) /\ Len(G.rects) = n + 1 /\ DOMAIN G.rects = 1..(n + 1)
      /\ \A j \in 1..n : G.rects[j] = F.rects[j]
      /\ G.rects[n + 1] = Payload(m)
  BY <1>1, AppendKeeps, SeqIndices
<1> HIDE DEF n
<1>3. m.parts \in Nat \ {0} BY DEF Rects
<1>4. RectAt(G, n + 1) = m
  <2>1. Payload(m)[1].msg = m BY <1>3, PayloadIs
  <2> QED BY <1>2, <2>1 DEF RectAt
<1>5. \A j \in 1..n : RectAt(G, j) = RectAt(F, j) BY <1>2 DEF RectAt
<1>6. \A j \in 0..n : Upto(G, j) = Upto(F, j) /\ Upto(F, j) \in Nat /\ Upto(F, j) <= Size(F)
  BY <1>1, <1>5, MadeIs DEF Upto, n
<1>7. Size(G) = m.at + m.parts BY <1>1, <1>2, <1>4 DEF Size, Upto
<1>8. Size(F) \in Nat BY <1>1, <1>6 DEF Size, n
<1>9. \A j \in 1..n : Upto(G, j) <= m.at BY <1>1, <1>6
<1>10. MadeOK(G)
  <2>1. ASSUME NEW j \in 1..(n + 1)
        PROVE  /\ RectAt(G, j) \in Rects /\ RectAt(G, j).frame = G.frameId
               /\ RectAt(G, j).at = Upto(G, j - 1)
               /\ G.rects[j] = Payload(RectAt(G, j))
    <3>1. CASE j \in 1..n
      <4>0. j - 1 \in 0..n BY <1>1, <3>1
      <4>1. Upto(G, j - 1) = Upto(F, j - 1) BY <1>6, <4>0
      <4> QED BY <1>1, <1>2, <1>5, <3>1, <4>1 DEF MadeOK
    <3>2. CASE j = n + 1
      <4>1. Upto(G, j - 1) = Size(F)
        <5>1. Upto(G, j - 1) = Upto(F, n) BY <1>1, <1>6, <3>2
        <5> QED BY <5>1 DEF Size, n
      <4> QED BY <1>1, <1>2, <1>4, <3>2, <4>1
    <3> QED BY <1>1, <3>1, <3>2
  <2>2. ASSUME NEW j \in 1..(n + 1), NEW k \in 1..(n + 1), j < k
        PROVE  Upto(G, j) <= RectAt(G, k).at
    <3>1. CASE k \in 1..n
      <4>1. j \in 1..n BY <1>1, <2>2, <3>1
      <4>2. Upto(F, j) <= RectAt(F, k).at BY <1>1, <2>2, <3>1, <4>1 DEF MadeOK
      <4> QED BY <1>1, <1>5, <1>6, <3>1, <4>1, <4>2
    <3>2. CASE k = n + 1 BY <1>1, <1>4, <1>9, <2>2, <3>2
    <3> QED BY <1>1, <3>1, <3>2
  <2>3. G.kind \in Kinds /\ G = [frameId |-> G.frameId, kind |-> G.kind, rects |-> G.rects]
    BY DEF MadeOK
  <2> QED BY <1>2, <2>1, <2>2, <2>3 DEF MadeOK
<1> QED BY <1>1, <1>2, <1>4, <1>5, <1>6, <1>7, <1>8, <1>10 DEF n

LEMMA PayloadsAppend ==
    ASSUME NEW q \in Seq(Rects), NEW m \in Rects, NEW p, p = Append(q, m)
    PROVE  [i \in DOMAIN p |-> Payload(p[i])] = Append([i \in DOMAIN q |-> Payload(q[i])], Payload(m))
<1> DEFINE n == Len(q)
           f == [i \in 1..n |-> Payload(q[i])]
           S == {Payload(q[i]) : i \in 1..n} \cup {Payload(m)}
<1>1. n \in Nat /\ DOMAIN q = 1..n OBVIOUS
<1>2. DOMAIN p = 1..(n + 1) /\ (\A i \in 1..n : p[i] = q[i]) /\ p[n + 1] = m OBVIOUS
<1>3. f \in [1..n -> S] OBVIOUS
<1>4. f \in Seq(S) /\ Len(f) = n
  <2> HIDE DEF f, S, n
  <2> QED BY <1>1, <1>3
<1>5. \A i \in 1..n : f[i] = Payload(q[i]) OBVIOUS
<1>6. Payload(m) \in S OBVIOUS
<1> HIDE DEF f, S, n
<1>7. Append(f, Payload(m)) = [i \in 1..(n + 1) |-> Append(f, Payload(m))[i]]
  <2>1. PICK a : a = Append(f, Payload(m)) OBVIOUS
  <2>2. a \in Seq(S) /\ Len(a) = n + 1 BY <1>1, <1>4, <1>6, <2>1
  <2>3. a \in [1..(n + 1) -> S] BY <2>2
  <2>4. a = [i \in 1..(n + 1) |-> a[i]] BY <2>3
  <2> QED BY <2>1, <2>4
<1>8. \A i \in 1..(n + 1) : Append(f, Payload(m))[i] = Payload(p[i]) BY <1>1, <1>2, <1>4, <1>5, <1>6
<1>9. Append(f, Payload(m)) = [i \in 1..(n + 1) |-> Payload(p[i])] BY <1>7, <1>8
<1> QED BY <1>1, <1>2, <1>9 DEF f

LEMMA RectPreserves ==
    ASSUME LinkInv, NEW parts \in 1..MaxParts, NEW n \in 0..parts, SendRectMessage(parts, n)
    PROVE  LinkInv'
<1> DEFINE m == RectMsg(sending.frame, sending.bytes, parts)
<1>1. /\ ~handshaking /\ sending.open /\ ~mustAbort /\ sending.frame = frames
      /\ UNCHANGED <<frames, finished, sessionVars, decoderVars, asmVars>>
      /\ Emit(m, n)
  BY DEF SendRectMessage, LinkInv, FramesOK
<1>2. PICK G : G = FinishedFrame OBVIOUS
<1>3. /\ G \in Makings /\ G.frameId = frames /\ MadeOK(G) /\ IsSeq(G.rects)
      /\ sending.bytes = Size(G) /\ Size(G) \in Nat /\ frames \in Nat /\ frames > 0
  <2>1. G \in Makings BY <1>1, <1>2 DEF Makings
  <2> QED BY <1>1, <1>2, <2>1, MakingIs, FrameNumbers DEF LinkInv, SendingOK, FramesOK
<1>4. parts \in Nat \ {0} BY BoundsAssumption
<1>5. m \in Rects /\ m.type = "RECT" /\ m.frame = frames /\ m.at = Size(G) /\ m.parts = parts
  BY <1>1, <1>3, <1>4 DEF RectMsg, Rects
<1>6. \/ /\ n = parts /\ UNCHANGED mustAbort
         /\ sending' = [sending EXCEPT !.rects = Append(@, m), !.bytes = @ + parts]
      \/ n # parts /\ mustAbort' = TRUE /\ UNCHANGED sending
  BY DEF SendRectMessage
<1> HIDE DEF m
<1>7. m \in Messages BY <1>5 DEF Messages
<1>8. Behind(m)
  <2>1. ASSUME NEW i \in DOMAIN stream, Framed(stream[i].chunk.msg)
        PROVE  LET o == stream[i].chunk.msg
               IN  \/ o.frame < m.frame
                   \/ /\ o.frame = m.frame /\ o.type # "END" /\ m.type # "BEGIN"
                      /\ o.type = "RECT" /\ m.type = "RECT" => Stop(stream[i]) <= m.at
    <3> DEFINE o == stream[i].chunk.msg
    <3>1. o \in Coming /\ o.frame \in 1..frames /\ stream[i].type = o.type BY <2>1, ComingIs
    <3>2. o.type = "END" => o.frame < frames BY <1>1, <3>1 DEF LinkInv, FramesOK
    <3>3. o.type = "RECT" /\ o.frame = frames => Stop(stream[i]) <= m.at
      BY <1>1, <1>3, <1>5, <3>1 DEF LinkInv, SendingOK
    <3> QED BY <1>3, <1>5, <3>1, <3>2, <3>3
  <2>2. HandedMessage /\ Handed.type = "BEGIN" => m.frame >= Handed.payload[1].msg.frame
    BY <1>3, <1>5, ComingIs DEF Framed
  <2> QED BY <1>5, <2>1, <2>2 DEF Behind
<1>9. /\ IsSeq(stream') /\ CallbacksOK' /\ StreamOK' /\ HandshakeOK'
      /\ Coming' \subseteq Coming \cup {m}
  BY <1>1, <1>4, <1>5, <1>7, <1>8, Sends
\* The packets of m.
<1>10. \A i \in DOMAIN stream' :
          \/ i \in DOMAIN stream /\ stream'[i] = stream[i]
          \/ /\ stream'[i].chunk.msg = m
             /\ Start(stream'[i]) \in Int /\ Start(stream'[i]) >= Size(G)
             /\ Stop(stream'[i]) <= Size(G) + n
  <2>1. IsSeq(stream) BY DEF LinkInv, TypesOK
  <2>2. \A i \in DOMAIN stream' :
          \/ i \in DOMAIN stream /\ stream'[i] = stream[i]
          \/ stream'[i].chunk.msg = m /\ stream'[i].chunk.part \in 1..n
    BY <1>1, <1>5, <1>7, <2>1, Emitted
  <2> QED BY <2>2, <1>3, <1>4, <1>5 DEF Start, Stop
\* The frame as it is now.
<1>11. PICK H : H = FinishedFrame' OBVIOUS
<1>12. n = parts =>
          /\ H.frameId = frames /\ H.kind = G.kind /\ H.rects = Append(G.rects, Payload(m))
  <2> SUFFICES ASSUME n = parts
               PROVE  H.frameId = frames /\ H.kind = G.kind /\ H.rects = Append(G.rects, Payload(m))
    OBVIOUS
  <2>1. H.frameId = G.frameId /\ H.kind = G.kind
    <3>1. sending'.frame = sending.frame /\ sending'.kind = sending.kind
      BY <1>6 DEF LinkInv, SendingOK
    <3> QED BY <3>1, <1>2, <1>11 DEF FinishedFrame
  <2>2. sending'.rects = Append(sending.rects, m) BY <1>6 DEF LinkInv, SendingOK
  <2>3. sending.rects \in Seq(Rects) BY DEF LinkInv, SendingOK
  <2>4. H.rects = Append(G.rects, Payload(m))
    BY <1>2, <1>5, <1>11, <2>2, <2>3, PayloadsAppend DEF FinishedFrame
  <2> QED BY <1>3, <2>1, <2>4
<1>13. n = parts =>
          /\ MadeOK(H) /\ IsSeq(H.rects) /\ Len(H.rects) = Len(G.rects) + 1
          /\ Size(H) = Size(G) + n
          /\ \A j \in DOMAIN G.rects : G.rects[j] = H.rects[j] /\ RectAt(G, j) = RectAt(H, j)
          /\ \A j \in 0..Len(G.rects) : Upto(G, j) = Upto(H, j)
          /\ \E j \in DOMAIN H.rects : RectAt(H, j) = m
  <2>1. DOMAIN G.rects = 1..Len(G.rects) /\ Len(G.rects) \in Nat BY <1>3, SeqIndices
  <2> SUFFICES ASSUME n = parts
               PROVE  /\ MadeOK(H) /\ IsSeq(H.rects) /\ Len(H.rects) = Len(G.rects) + 1
                      /\ Size(H) = Size(G) + n
                      /\ \A j \in DOMAIN G.rects : G.rects[j] = H.rects[j] /\ RectAt(G, j) = RectAt(H, j)
                      /\ \A j \in 0..Len(G.rects) : Upto(G, j) = Upto(H, j)
                      /\ \E j \in DOMAIN H.rects : RectAt(H, j) = m
    OBVIOUS
  <2>2. /\ MadeOK(H) /\ IsSeq(H.rects) /\ Len(H.rects) = Len(G.rects) + 1
        /\ Size(H) = Size(G) + n
        /\ \A j \in 1..Len(G.rects) : H.rects[j] = G.rects[j] /\ RectAt(H, j) = RectAt(G, j)
        /\ \A j \in 0..Len(G.rects) : Upto(H, j) = Upto(G, j)
        /\ RectAt(H, Len(H.rects)) = m
    <3>1. H = [frameId |-> H.frameId, kind |-> H.kind, rects |-> H.rects] BY <1>11 DEF FinishedFrame
    <3>2. H.frameId = G.frameId /\ H.kind = G.kind /\ H.rects = Append(G.rects, Payload(m))
      BY <1>3, <1>12
    <3>3. MadeOK(G) /\ IsSeq(G.rects) /\ m.frame = G.frameId /\ m.at = Size(G) /\ m.parts = n
      BY <1>3, <1>5
    <3>4. m \in Rects BY <1>5
    <3> HIDE DEF m
    <3>5. PICK k : k = m OBVIOUS
    <3>6. k \in Rects BY <3>4, <3>5
    <3>8. Grown(G, k, H) BY <3>1, <3>2, <3>3, <3>5 DEF Grown
    <3>9. MadeOK(G) /\ IsSeq(G.rects) BY <3>3
    <3>7. /\ MadeOK(H) /\ IsSeq(H.rects) /\ Len(H.rects) = Len(G.rects) + 1
          /\ Size(H) = Size(G) + k.parts
          /\ \A j \in 1..Len(G.rects) : H.rects[j] = G.rects[j] /\ RectAt(H, j) = RectAt(G, j)
          /\ \A j \in 0..Len(G.rects) : Upto(H, j) = Upto(G, j)
          /\ RectAt(H, Len(H.rects)) = k
      BY <3>6, <3>8, <3>9, MadeGrows
    <3> QED BY <3>3, <3>5, <3>7
  <2>3. DOMAIN H.rects = 1..Len(H.rects) BY <2>2, SeqIndices
  <2>4. Len(H.rects) \in DOMAIN H.rects BY <2>1, <2>2, <2>3
  <2> QED BY <2>1, <2>2, <2>4
<1>14. \A F \in Makings' :
          \/ /\ F \in Makings /\ F.frameId < frames
             /\ ~(sending'.open /\ sending'.frame = F.frameId)
          \/ n = parts /\ F = H
  <2>1. \A i \in DOMAIN finished : finished[i].frameId < frames BY <1>1 DEF LinkInv, FramesOK
  <2>2. sending'.frame = frames BY <1>1, <1>6 DEF LinkInv, SendingOK
  <2>3. \A F \in Makings' : F \in {finished[i] : i \in DOMAIN finished} \/ (n = parts /\ F = H)
    BY <1>1, <1>6, <1>11 DEF Makings
  <2>4. \A i \in DOMAIN finished : finished[i].frameId # frames BY <2>1, <1>3 DEF LinkInv, FramesOK
  <2> QED BY <2>1, <2>2, <2>3, <2>4 DEF Makings
<1>15. TypesOK'
  <2>1. ASSUME NEW F \in Makings' PROVE IsSeq(F.rects)
    BY <1>13, <1>14 DEF LinkInv, TypesOK
  <2>2. sending.rects \in Seq(Rects) /\ IsSeq(sending.rects) BY DEF LinkInv, SendingOK, TypesOK
  <2>3. IsSeq(sending'.rects)
    <3>1. IsSeq(Append(sending.rects, m)) BY <2>2, AppendKeeps
    <3>2. sending'.rects = Append(sending.rects, m) \/ sending'.rects = sending.rects
      BY <1>6 DEF LinkInv, SendingOK
    <3> QED BY <2>2, <3>1, <3>2
  <2> QED BY <1>1, <1>9, <2>1, <2>3 DEF LinkInv, TypesOK, asmVars, decoderVars, HandedMessage, Handed
<1>16. sending'.open /\ sending'.frame = frames
  BY <1>1, <1>6 DEF LinkInv, SendingOK
<1>17. FramesOK'
  <2>1. \A o \in Coming' : Framed(o) => o.frame \in 1..frames' BY <1>1, <1>3, <1>5, <1>9, ComingIs
  <2>2. \A o \in Coming' : o.type = "END" => o.frame < frames'
    BY <1>1, <1>5, <1>9 DEF LinkInv, FramesOK
  <2> QED BY <1>1, <1>16, <2>1, <2>2 DEF LinkInv, FramesOK, sessionVars
<1>18. SendingOK'
  <2>1. sending' \in [open : BOOLEAN, frame : Nat, kind : Kinds, rects : Seq(Rects), bytes : Nat]
    <3> DEFINE R == [open : BOOLEAN, frame : Nat, kind : Kinds, rects : Seq(Rects), bytes : Nat]
    <3>1. sending \in R BY DEF LinkInv, SendingOK
    <3>2. PICK t : t = [sending EXCEPT !.rects = Append(sending.rects, m)] OBVIOUS
    <3>3. Append(sending.rects, m) \in Seq(Rects) BY <1>5, <3>1
    <3>4. t \in R BY <3>1, <3>2, <3>3
    <3>5. PICK b : b = sending.bytes + parts OBVIOUS
    <3>6. b \in Nat
      <4>1. sending.bytes \in Nat BY <3>1
      <4> QED BY <1>4, <3>5, <4>1
    <3>7. [t EXCEPT !.bytes = b] \in R BY <3>4, <3>6
    <3>8. sending' = [t EXCEPT !.bytes = b] \/ sending' = sending BY <1>6, <3>2, <3>5, Zenon
    <3> QED BY <3>1, <3>7, <3>8
  <2>2. mustAbort' \in BOOLEAN BY <1>6 DEF LinkInv, SendingOK
  <2>3. sending'.bytes = Size(H) /\ MadeOK(H)
    <3>1. CASE n = parts BY <1>3, <1>6, <1>13, <3>1 DEF LinkInv, SendingOK
    <3>2. CASE n # parts
      <4>1. H = G /\ sending' = sending BY <1>2, <1>6, <1>11, <3>2 DEF FinishedFrame
      <4> QED BY <4>1, <1>3
    <3> QED BY <3>1, <3>2
  <2>4. ASSUME ~mustAbort', NEW i \in DOMAIN stream', stream'[i].type = "RECT",
               stream'[i].chunk.msg.frame = frames
        PROVE  Stop(stream'[i]) <= sending'.bytes
    <3>1. n = parts /\ sending'.bytes = Size(G) + n BY <1>3, <1>6, <2>4 DEF LinkInv, SendingOK
    <3>2. CASE i \in DOMAIN stream /\ stream'[i] = stream[i]
      <4>1. Stop(stream[i]) <= Size(G) BY <1>1, <1>3, <2>4, <3>2 DEF LinkInv, SendingOK
      <4>2. PacketOK(stream[i]) /\ stream[i].chunk.msg \in Rects
        BY <2>4, <3>2, ComingIs, MessageTyped DEF LinkInv, StreamOK
      <4>3. Stop(stream[i]) \in Int BY <4>2 DEF PacketOK, Stop, Rects
      <4> QED BY <1>3, <1>4, <3>1, <3>2, <4>1, <4>3
    <3> QED BY <1>10, <3>1, <3>2
  <2> QED BY <1>1, <1>11, <2>1, <2>2, <2>3, <2>4 DEF SendingOK
<1>19. MadeFrames' BY <1>1 DEF MadeFrames, LinkInv
<1>20. ComesAsMade'
  <2>1. ASSUME NEW F \in Makings', NEW o \in Coming', Framed(o), o.frame = F.frameId, F # H
        PROVE  F \in Makings /\ o \in Coming
    BY <1>3, <1>5, <1>9, <1>14, <2>1, MakingIs
  <2>2. ASSUME NEW o \in Coming', Framed(o), o.frame = frames, n = parts
        PROVE  /\ o.type = "BEGIN" => o.kind = H.kind
               /\ o.type = "RECT" => \E j \in DOMAIN H.rects : o = RectAt(H, j)
               /\ o.type # "END"
    <3>1. CASE o = m BY <1>5, <1>13, <2>2, <3>1
    <3>2. CASE o \in Coming
      <4>1. o.type # "END" BY <1>1, <1>3, <2>2, <3>2 DEF LinkInv, FramesOK
      <4>2. o.type = "BEGIN" => o.kind = G.kind BY <1>3, <2>2, <3>2 DEF LinkInv, ComesAsMade
      <4>3. o.type = "RECT" => \E j \in DOMAIN G.rects : o = RectAt(G, j)
        BY <1>3, <2>2, <3>2 DEF LinkInv, ComesAsMade
      <4>4. DOMAIN G.rects \subseteq DOMAIN H.rects
        <5>1. /\ DOMAIN G.rects = 1..Len(G.rects) /\ Len(G.rects) \in Nat
              /\ DOMAIN H.rects = 1..(Len(G.rects) + 1)
          BY <1>3, <1>13, <2>2, SeqIndices
        <5> QED BY <5>1
      <4> QED BY <1>12, <1>13, <2>2, <4>1, <4>2, <4>3, <4>4
    <3> QED BY <1>9, <3>1, <3>2
  <2>3. ASSUME NEW F \in Makings', NEW o \in Coming', Framed(o), o.frame = F.frameId
        PROVE  /\ o.type = "BEGIN" => o.kind = F.kind
               /\ o.type = "RECT" => \E j \in DOMAIN F.rects : o = RectAt(F, j)
               /\ o.type = "END" /\ ~o.aborted => o.bytes = Size(F)
    <3>1. CASE F = H /\ n = parts BY <1>12, <2>2, <2>3, <3>1
    <3>2. CASE F # H BY <2>1, <2>3, <3>2 DEF LinkInv, ComesAsMade
    <3>3. CASE F \in Makings /\ F.frameId < frames
      <4>1. o \in Coming BY <1>3, <1>5, <1>9, <2>3, <3>3, MakingIs
      <4> QED BY <2>3, <3>3, <4>1 DEF LinkInv, ComesAsMade
    <3> QED BY <1>14, <3>1, <3>2, <3>3
  <2> QED BY <2>3 DEF ComesAsMade, Framed
<1>21. EndsAreFinished' BY <1>1, <1>5, <1>9 DEF EndsAreFinished, LinkInv
<1>22. HostInOrder'
  <2>2. \A f : Newer(f) => Newer(f)' BY <1>1 DEF Newer, LastShown, asmVars, sessionVars
  <2>3. InFrame => frames >= asmBegin.frameId BY FrameNumbers
  <2>5. InFrame' <=> InFrame BY <1>1 DEF InFrame, asmVars
  <2>6. InFrame' => asmBegin'.frameId \in 1..frames' /\ Newer(asmBegin.frameId)'
    BY <1>1, <2>2, <2>5, FrameNumbers DEF asmVars, LinkInv, HostInOrder
  <2>7. ASSUME NEW o \in Coming'
        PROVE  /\ o.type = "BEGIN" => Newer(o.frame)' /\ (InFrame' => o.frame > asmBegin'.frameId)
               /\ o.type = "RECT" /\ InFrame' => o.frame >= asmBegin'.frameId
    <3>1. CASE o \in Coming BY <1>1, <2>2, <2>5, <3>1 DEF asmVars, LinkInv, HostInOrder
    <3>2. CASE o = m BY <1>1, <1>5, <2>3, <2>5, <3>2 DEF asmVars
    <3> QED BY <1>9, <3>1, <3>2
  <2> QED BY <1>1, <2>6, <2>7 DEF HostInOrder, LinkInv, asmVars
<1>23. HostHasFrame'
  <2> SUFFICES ASSUME InFrame', NEW F \in Makings', F.frameId = asmBegin'.frameId
               PROVE  /\ F.kind = asmBegin'.kind
                      /\ Live(F)' => (Got <= Size(F))' /\ Ahead(F, Got)' /\ (Exact(F) \/ Misses(F))'
    BY DEF HostHasFrame
  <2>1. InFrame /\ F.frameId = asmBegin.frameId BY <1>1 DEF InFrame, asmVars
  <2>2. IsSeq(stream) BY DEF LinkInv, TypesOK
  <2>3. UNCHANGED <<decoderVars, asmVars>> BY <1>1
  <2>4. CASE F \in Makings /\ F.frameId < frames /\ ~(sending'.open /\ sending'.frame = F.frameId)
    <3>1. F.kind = asmBegin'.kind BY <2>1, <2>4, <1>1 DEF LinkInv, HostHasFrame, asmVars
    <3>2. ASSUME Live(F)' PROVE Live(F) BY <3>2, <2>4, <1>5, <1>9 DEF Live
    <3>3. ASSUME NEW i \in DOMAIN stream',
                 stream'[i].type = "RECT", stream'[i].chunk.msg.frame = F.frameId
          PROVE  \E j \in DOMAIN stream : stream[j] = stream'[i]
      <4>1. F.frameId # frames BY <2>4, <1>3, MakingIs
      <4> QED BY <1>5, <1>10, <3>3, <4>1
    <3>4. Size(F) \in Nat BY <2>4, MakingIs
    <3> QED BY <2>1, <2>2, <2>3, <2>4, <3>1, <3>2, <3>3, <3>4, HostKeeps
  <2>5. CASE n = parts /\ F = H
    <3>1. G.frameId = asmBegin.frameId BY <1>3, <1>12, <2>1, <2>5
    <3>2. Live(G) BY <1>1, <1>3 DEF Live
    <3>3. \A i \in DOMAIN stream' :
             stream'[i].type = "RECT" /\ stream'[i].chunk.msg.frame = G.frameId =>
                \/ \E j \in DOMAIN stream : stream[j] = stream'[i]
                \/ Start(stream'[i]) \in Int /\ Start(stream'[i]) >= Size(G)
      BY <1>10
    <3>4. /\ G.kind = asmBegin'.kind
          /\ (Got <= Size(G))' /\ Ahead(G, Got)' /\ (Exact(G) \/ Misses(G))'
      BY <1>3, <2>1, <2>2, <2>3, <3>1, <3>2, <3>3, HostKeeps
    <3>5. F.kind = G.kind /\ F.frameId = G.frameId BY <1>3, <1>12, <2>5
    <3>6. Size(F) = Size(G) + n /\ n \in Nat BY <1>4, <1>13, <2>5
    <3>7. Got' \in Nat
      <4>1. Got \in Nat BY GotIs
      <4> QED BY <1>1, <4>1 DEF Got, Pending, HandedMessage, Handed, decoderVars, asmVars
    <3>8. Ahead(F, Got)' BY <3>4, <3>5 DEF Ahead
    <3>9. Misses(G)' => Misses(F)' 
      <4>1. Size(G) \in Nat BY <1>3, MakingIs
      <4>2. Size(F)' = Size(F) /\ Size(G)' = Size(G) BY DEF Size, Upto, RectAt
      <4>3. Ahead(G, Got + 1)' => Ahead(F, Got + 1)' BY <3>5 DEF Ahead
      <4>4. Got' < Size(G) => Got' < Size(F) BY <3>6, <3>7, <4>1
      <4> QED BY <4>2, <4>3, <4>4 DEF Misses
    <3>10. Exact(G)' => Exact(F)'
      <4>1. /\ Len(G.rects) \in Nat /\ DOMAIN G.rects = 1..Len(G.rects)
            /\ Len(F.rects) = Len(G.rects) + 1
            /\ \A j \in 1..Len(G.rects) : G.rects[j] = F.rects[j]
            /\ \A j \in 0..Len(G.rects) : Upto(G, j) = Upto(F, j)
        BY <1>3, <1>13, <2>5, SeqIndices
      <4>2. IsSeq(asmReceived') BY <1>1 DEF LinkInv, TypesOK, asmVars
      <4>3. Len(asmReceived') \in Nat BY <4>2, SeqIndices
      <4>4. PICK k : k = Len(asmReceived') OBVIOUS
      <4>5. ASSUME Exact(G)'
            PROVE  /\ k <= Len(F.rects)
                   /\ \A j \in 1..k : asmReceived'[j] = F.rects[j]
                   /\ asmBytes' = Upto(F, k)
                   /\ Pending' # <<>> =>
                         /\ k < Len(F.rects)
                         /\ Len(Pending') <= Len(F.rects[k + 1])
                         /\ \A i \in DOMAIN Pending' : Pending'[i] = F.rects[k + 1][i]
                         /\ payload' = <<>> <=> Len(Pending') = Len(F.rects[k + 1])
        <5>1. /\ k <= Len(G.rects)
              /\ \A j \in 1..k : asmReceived'[j] = G.rects[j]
              /\ asmBytes' = Upto(G, k)
              /\ Pending' # <<>> =>
                    /\ k < Len(G.rects)
                    /\ Len(Pending') <= Len(G.rects[k + 1])
                    /\ \A i \in DOMAIN Pending' : Pending'[i] = G.rects[k + 1][i]
                    /\ payload' = <<>> <=> Len(Pending') = Len(G.rects[k + 1])
          BY <4>4, <4>5 DEF Exact, Upto, RectAt
        <5>2. k \in Nat BY <4>3, <4>4
        <5>3. k \in 0..Len(G.rects) /\ k <= Len(F.rects) BY <4>1, <5>1, <5>2
        <5>4. \A j \in 1..k : j \in 1..Len(G.rects) BY <4>1, <5>1, <5>2
        <5>5. k < Len(G.rects) => k + 1 \in 1..Len(G.rects) /\ k < Len(F.rects)
          BY <4>1, <5>2
        <5> QED BY <4>1, <5>1, <5>3, <5>4, <5>5
      <4>6. ASSUME Exact(G)' PROVE Exact(F)'
        <5>1. /\ Len(asmReceived') <= Len(F.rects)
              /\ \A j \in 1..Len(asmReceived') : asmReceived'[j] = F.rects[j]
              /\ Pending' # <<>> =>
                    /\ Len(asmReceived') < Len(F.rects)
                    /\ Len(Pending') <= Len(F.rects[Len(asmReceived') + 1])
                    /\ \A i \in DOMAIN Pending' : Pending'[i] = F.rects[Len(asmReceived') + 1][i]
                    /\ payload' = <<>> <=> Len(Pending') = Len(F.rects[Len(asmReceived') + 1])
          BY <4>4, <4>5, <4>6
        <5>2. asmBytes' = Upto(F, Len(asmReceived')) BY <4>4, <4>5, <4>6
        <5>3. asmBytes' = Upto(F, Len(asmReceived))' BY <5>2 DEF Upto, RectAt
        <5> QED BY <5>1, <5>3 DEF Exact
      <4> QED BY <4>6
    <3> QED BY <1>3, <3>4, <3>5, <3>6, <3>7, <3>8, <3>9, <3>10
  <2> QED BY <1>14, <2>4, <2>5
<1> QED BY <1>9, <1>15, <1>17, <1>18, <1>19, <1>20, <1>21, <1>22, <1>23 DEF LinkInv

LEMMA EndPreserves ==
    ASSUME LinkInv, NEW aborted \in BOOLEAN, NEW n \in 0..1, EndFrame(aborted, n)
    PROVE  LinkInv'
<1> DEFINE m == EndMsg(sending.frame, Len(sending.rects), sending.bytes, aborted)
<1>1. /\ ~handshaking /\ sending.open /\ (mustAbort => aborted) /\ sending.frame = frames
      /\ UNCHANGED <<frames, sessionVars, decoderVars, asmVars>>
      /\ sending' = NothingSent /\ mustAbort' = FALSE
      /\ Emit(m, n)
  BY DEF EndFrame, LinkInv, FramesOK
<1>2. PICK G : G = FinishedFrame OBVIOUS
<1>3. G.frameId = frames /\ sending.bytes = Size(G) /\ frames \in Nat /\ frames > 0
  BY <1>1, <1>2, FrameNumbers DEF LinkInv, SendingOK, FramesOK
<1>4. ~aborted => G \in Makings BY <1>1, <1>2 DEF Makings
<1>5. m \in Ends /\ m.type = "END" /\ m.frame = frames /\ m.parts = 1
      /\ m.bytes = Size(G) /\ m.aborted = aborted
  <2>1. sending.bytes \in Nat /\ Len(sending.rects) \in Nat BY DEF LinkInv, SendingOK
  <2> QED BY <1>1, <1>3, <2>1 DEF EndMsg, Ends
<1>6. \/ n = 1 /\ ~aborted /\ finished' = Append(finished, G)
      \/ ~(n = 1 /\ ~aborted) /\ UNCHANGED finished
  BY <1>2 DEF EndFrame
<1> HIDE DEF m
<1>7. m \in Messages BY <1>5 DEF Messages
<1>8. Behind(m)
  <2>1. \A i \in DOMAIN stream :
           LET o == stream[i].chunk.msg
           IN  Framed(o) => o.frame < frames \/ (o.frame = frames /\ o.type # "END")
    BY <1>1, <1>3, ComingIs DEF LinkInv, FramesOK
  <2>2. HandedMessage /\ Handed.type = "BEGIN" => frames >= Handed.payload[1].msg.frame
    BY <1>3, ComingIs DEF Framed
  <2> QED BY <1>5, <2>1, <2>2 DEF Behind
<1>9. /\ IsSeq(stream') /\ CallbacksOK' /\ StreamOK' /\ HandshakeOK'
      /\ Coming' \subseteq Coming \cup {m}
      /\ n = 0 => Coming' = Coming
  BY <1>1, <1>5, <1>7, <1>8, Sends
<1>10. /\ IsSeq(finished') /\ Len(finished) \in Nat /\ Len(finished') \in Nat
       /\ Len(finished) <= Len(finished')
       /\ DOMAIN finished = 1..Len(finished) /\ DOMAIN finished' = 1..Len(finished')
       /\ \A i \in DOMAIN finished : i \in DOMAIN finished' /\ finished'[i] = finished[i]
       /\ \A i \in DOMAIN finished' :
             \/ i \in DOMAIN finished
             \/ i = Len(finished) + 1 /\ ~aborted /\ finished'[i] = G
       /\ n = 1 /\ ~aborted => Len(finished) + 1 \in DOMAIN finished' /\ finished'[Len(finished) + 1] = G
  <2>1. IsSeq(finished) BY DEF LinkInv, TypesOK
  <2>2. Len(finished) \in Nat /\ DOMAIN finished = 1..Len(finished) BY <2>1, SeqIndices
  <2>3. CASE n = 1 /\ ~aborted
    <3>1. /\ IsSeq(finished') /\ Len(finished') = Len(finished) + 1
          /\ \A i \in DOMAIN finished : finished'[i] = finished[i]
          /\ finished'[Len(finished) + 1] = G
      <4>1. finished' = Append(finished, G) BY <1>6, <2>3
      <4>2. /\ IsSeq(Append(finished, G)) /\ Len(Append(finished, G)) = Len(finished) + 1
            /\ \A i \in DOMAIN finished : Append(finished, G)[i] = finished[i]
            /\ Append(finished, G)[Len(finished) + 1] = G
        BY <2>1, AppendKeeps
      <4> QED BY <4>1, <4>2
    <3>2. DOMAIN finished' = 1..(Len(finished) + 1) BY <3>1, SeqIndices
    <3> QED BY <2>2, <2>3, <3>1, <3>2
  <2>4. CASE ~(n = 1 /\ ~aborted) BY <1>6, <2>1, <2>2, <2>4
  <2> QED BY <2>3, <2>4
<1>11. Makings' \subseteq Makings
  <2>1. \A F \in Makings' : \E i \in DOMAIN finished' : F = finished'[i]
    BY <1>1 DEF Makings, NothingSent
  <2> QED BY <1>4, <1>10, <2>1 DEF Makings
<1>12. \A F \in Makings : F.frameId = frames => F = G
  BY <1>1, <1>2, <1>3 DEF Makings, LinkInv, FramesOK
<1>13. TypesOK'
  <2>1. IsSeq(sending'.rects) BY <1>1, NothingIsSeq DEF NothingSent
  <2> QED BY <1>1, <1>9, <1>10, <1>11, <2>1
      DEF LinkInv, TypesOK, asmVars, decoderVars, HandedMessage, Handed
<1>14. FramesOK'
  <2>1. \A o \in Coming' : Framed(o) => o.frame \in 1..frames' BY <1>1, <1>3, <1>5, <1>9, ComingIs
  <2>2. \A i \in DOMAIN finished' : finished'[i].frameId \in 1..frames
    BY <1>3, <1>10 DEF LinkInv, FramesOK
  <2>3. ASSUME NEW i \in DOMAIN finished', NEW j \in DOMAIN finished', i < j
        PROVE  finished'[i].frameId < finished'[j].frameId
    <3>1. i \in DOMAIN finished BY <1>10, <2>3
    <3>2. CASE j \in DOMAIN finished BY <1>10, <2>3, <3>1, <3>2 DEF LinkInv, FramesOK
    <3>3. CASE j \notin DOMAIN finished
      <4>1. finished'[j].frameId = frames BY <1>3, <1>10, <3>3
      <4> QED BY <1>1, <1>10, <3>1, <4>1 DEF LinkInv, FramesOK
    <3> QED BY <3>2, <3>3
  <2>4. ~sending'.open BY <1>1 DEF NothingSent
  <2>5. finishedAtReconnect' \in 0..Len(finished')
    BY <1>1, <1>10 DEF LinkInv, FramesOK, sessionVars
  <2> QED BY <1>1, <2>1, <2>2, <2>3, <2>4, <2>5 DEF LinkInv, FramesOK
<1>15. SendingOK'
  <2>1. <<>> \in Seq(Rects) OBVIOUS
  <2> DEFINE Q == Seq(Rects)
  <2> HIDE DEF Q
  <2>2. NothingSent \in [open : BOOLEAN, frame : Nat, kind : Kinds, rects : Q, bytes : Nat]
    BY <2>1 DEF NothingSent, Kinds, Q
  <2>3. ~sending'.open BY <1>1 DEF NothingSent
  <2> QED BY <1>1, <2>2, <2>3 DEF SendingOK, Q
<1>16. MadeFrames' BY <1>4, <1>10, MakingIs DEF MadeFrames, LinkInv
<1>17. ComesAsMade'
  <2>1. ASSUME NEW F \in Makings', NEW o \in Coming', Framed(o), o.frame = F.frameId
        PROVE  F \in Makings /\ (o \in Coming \/ (o = m /\ F = G))
    BY <1>5, <1>9, <1>11, <1>12, <2>1
  <2> QED BY <2>1, <1>5 DEF ComesAsMade, LinkInv, Framed
<1>18. EndsAreFinished'
  <2>1. ASSUME NEW o \in Coming', o.type = "END", ~o.aborted
        PROVE  \E i \in DOMAIN finished' : finished'[i].frameId = o.frame
    <3>1. CASE o \in Coming BY <1>10, <2>1, <3>1 DEF LinkInv, EndsAreFinished
    <3>2. CASE o = m /\ n = 1 BY <1>3, <1>5, <1>10, <2>1, <3>2
    <3> QED BY <1>9, <3>1, <3>2
  <2> QED BY <2>1 DEF EndsAreFinished
<1>19. HostInOrder'
  <2>1. \A i \in 1..finishedAtReconnect : finished'[i] = finished[i]
    BY <1>10 DEF LinkInv, FramesOK
  <2>2. \A f : Newer(f) => Newer(f)' BY <1>1, <2>1 DEF Newer, LastShown, asmVars, sessionVars
  <2>5. InFrame' <=> InFrame BY <1>1 DEF InFrame, asmVars
  <2>6. InFrame' => asmBegin'.frameId \in 1..frames' /\ Newer(asmBegin.frameId)'
    BY <1>1, <2>2, <2>5, FrameNumbers DEF asmVars, LinkInv, HostInOrder
  <2>7. ASSUME NEW o \in Coming'
        PROVE  /\ o.type = "BEGIN" => Newer(o.frame)' /\ (InFrame' => o.frame > asmBegin'.frameId)
               /\ o.type = "RECT" /\ InFrame' => o.frame >= asmBegin'.frameId
    BY <1>1, <1>5, <1>9, <2>2, <2>5 DEF asmVars, LinkInv, HostInOrder
  <2>8. committedFrames' # <<>> =>
           \E i \in DOMAIN finished' : finished'[i] = committedFrames'[Len(committedFrames')]
    BY <1>1, <1>10 DEF LinkInv, HostInOrder, asmVars
  <2> QED BY <1>1, <2>6, <2>7, <2>8 DEF HostInOrder, asmVars
<1>20. HostHasFrame'
  <2> SUFFICES ASSUME InFrame', NEW F \in Makings', F.frameId = asmBegin'.frameId
               PROVE  /\ F.kind = asmBegin'.kind
                      /\ Live(F)' => (Got <= Size(F))' /\ Ahead(F, Got)' /\ (Exact(F) \/ Misses(F))'
    BY DEF HostHasFrame
  <2>1. InFrame /\ F.frameId = asmBegin.frameId /\ F \in Makings BY <1>1, <1>11 DEF InFrame, asmVars
  <2>2. F.kind = asmBegin'.kind BY <2>1, <1>1 DEF LinkInv, HostHasFrame, asmVars
  <2>3. ASSUME Live(F)' PROVE Live(F)
    <3>1. PICK o \in Coming' : o.type = "END" /\ ~o.aborted /\ o.frame = F.frameId
      BY <1>1, <2>3 DEF Live, NothingSent
    <3>2. o = m => ~mustAbort /\ F.frameId = frames BY <1>1, <1>5, <3>1 DEF LinkInv, SendingOK
    <3> QED BY <1>1, <1>9, <3>1, <3>2 DEF Live
  <2>4. ASSUME NEW i \in DOMAIN stream',
               stream'[i].type = "RECT", stream'[i].chunk.msg.frame = F.frameId
        PROVE  \E j \in DOMAIN stream : stream[j] = stream'[i]
    <3>1. IsSeq(stream) BY DEF LinkInv, TypesOK
    <3>2. i \in DOMAIN stream \/ stream'[i].type = "END" BY <1>1, <1>5, <1>7, <3>1, Emitted
    <3> QED BY <3>1, <3>2, <2>4, <1>1, <1>5, <1>7, Emitted
  <2>5. IsSeq(stream) BY DEF LinkInv, TypesOK
  <2>6. Size(F) \in Nat BY <2>1, MakingIs
  <2>7. UNCHANGED <<decoderVars, asmVars>> BY <1>1
  <2> QED BY <2>1, <2>2, <2>3, <2>4, <2>5, <2>6, <2>7, HostKeeps
<1> QED BY <1>9, <1>13, <1>14, <1>15, <1>16, <1>17, <1>18, <1>19, <1>20 DEF LinkInv

LEMMA ControlPreserves == ASSUME LinkInv, SendControl PROVE LinkInv'
<1>1. /\ ~handshaking /\ Emit(ControlMsg, 1)
      /\ UNCHANGED <<sending, frames, mustAbort, finished, sessionVars, decoderVars, asmVars>>
  BY DEF SendControl
<1>2. PICK m : m = ControlMsg OBVIOUS
<1>3. m \in Messages /\ m.type = "PING" /\ m.parts = 1 BY <1>2 DEF Messages, ControlMsg
<1>4. ~Framed(m) BY <1>3 DEF Framed
<1>5. /\ IsSeq(stream') /\ CallbacksOK' /\ StreamOK' /\ HandshakeOK'
      /\ Coming' \subseteq Coming \cup {m}
  <2>1. Behind(m) BY <1>4 DEF Behind
  <2> QED BY <1>1, <1>2, <1>3, <2>1, Sends
<1>6. \A o \in Coming' : o.type \in {"BEGIN", "RECT", "END"} => o \in Coming BY <1>3, <1>5
<1>7. \A i \in DOMAIN stream' : stream'[i].type = "RECT" => \E j \in DOMAIN stream : stream[j] = stream'[i]
  <2>1. IsSeq(stream) BY DEF LinkInv, TypesOK
  <2>2. \A i \in DOMAIN stream' :
           (i \in DOMAIN stream /\ stream'[i] = stream[i]) \/ stream'[i].type = "PING"
    BY <1>1, <1>2, <1>3, <2>1, Emitted
  <2> QED BY <2>2
<1>8. Makings' = Makings /\ FinishedFrame' = FinishedFrame BY <1>1 DEF Makings, FinishedFrame
<1>9. TypesOK'
  BY <1>1, <1>5, <1>8 DEF LinkInv, TypesOK, asmVars, decoderVars, HandedMessage, Handed
<1>10. FramesOK' BY <1>1, <1>6 DEF LinkInv, FramesOK, Framed, sessionVars
<1>11. SendingOK' BY <1>1, <1>7, <1>8 DEF LinkInv, SendingOK
<1>12. MadeFrames' BY <1>1 DEF LinkInv, MadeFrames
<1>13. ComesAsMade' BY <1>6, <1>8 DEF LinkInv, ComesAsMade
<1>14. EndsAreFinished' BY <1>1, <1>6 DEF LinkInv, EndsAreFinished
<1>15. HostInOrder'
  <2>1. \A f : Newer(f) => Newer(f)' BY <1>1 DEF Newer, LastShown, asmVars, sessionVars
  <2>2. InFrame' <=> InFrame BY <1>1 DEF InFrame, asmVars
  <2>3. InFrame' => asmBegin'.frameId \in 1..frames' /\ Newer(asmBegin.frameId)'
    BY <1>1, <2>1, <2>2, FrameNumbers DEF asmVars, LinkInv, HostInOrder
  <2>4. ASSUME NEW o \in Coming'
        PROVE  /\ o.type = "BEGIN" => Newer(o.frame)' /\ (InFrame' => o.frame > asmBegin'.frameId)
               /\ o.type = "RECT" /\ InFrame' => o.frame >= asmBegin'.frameId
    BY <1>1, <1>6, <2>1, <2>2 DEF asmVars, LinkInv, HostInOrder
  <2> QED BY <1>1, <2>3, <2>4 DEF HostInOrder, LinkInv, asmVars
<1>16. HostHasFrame'
  <2> SUFFICES ASSUME InFrame', NEW F \in Makings', F.frameId = asmBegin'.frameId
               PROVE  /\ F.kind = asmBegin'.kind
                      /\ Live(F)' => (Got <= Size(F))' /\ Ahead(F, Got)' /\ (Exact(F) \/ Misses(F))'
    BY DEF HostHasFrame
  <2>1. InFrame /\ F.frameId = asmBegin.frameId /\ F \in Makings BY <1>1, <1>8 DEF InFrame, asmVars
  <2>2. F.kind = asmBegin'.kind BY <2>1, <1>1 DEF LinkInv, HostHasFrame, asmVars
  <2>3. Live(F)' => Live(F) BY <1>1, <1>6 DEF Live
  <2>4. IsSeq(stream) BY DEF LinkInv, TypesOK
  <2>5. Size(F) \in Nat BY <2>1, MakingIs
  <2>6. UNCHANGED <<decoderVars, asmVars>> BY <1>1
  <2> QED BY <1>7, <2>1, <2>2, <2>3, <2>4, <2>5, <2>6, HostKeeps
<1> QED BY <1>5, <1>9, <1>10, <1>11, <1>12, <1>13, <1>14, <1>15, <1>16 DEF LinkInv
-----------------------------------------------------------------------------
(* The byte stream and the decoder.                                        *)

LEMMA PixelIs ==
    ASSUME LinkInv, NEW F \in Makings, NEW i \in DOMAIN stream,
           stream[i].type = "RECT", stream[i].chunk.msg.frame = F.frameId
    PROVE  /\ Start(stream[i]) \in Nat /\ Stop(stream[i]) = Start(stream[i]) + 1
           /\ Stop(stream[i]) <= Size(F)
           /\ \E j \in 1..Len(F.rects) :
                 /\ stream[i].chunk.msg = RectAt(F, j)
                 /\ RectAt(F, j).at <= Start(stream[i]) /\ Stop(stream[i]) <= Upto(F, j)
<1> DEFINE m == stream[i].chunk.msg
<1>1. m \in Coming /\ m.type = "RECT" /\ m \in Rects BY ComingIs, MessageTyped
<1>2. PICK j \in DOMAIN F.rects : m = RectAt(F, j) BY <1>1 DEF LinkInv, ComesAsMade
<1>3. j \in 1..Len(F.rects) /\ Len(F.rects) \in Nat /\ Upto(F, j) <= Size(F) /\ Upto(F, j) \in Nat
      /\ Size(F) \in Nat
  BY <1>2, MakingIs
<1>4. stream[i].chunk.part \in 1..m.parts BY DEF LinkInv, StreamOK, PacketOK
<1>5. m.at \in Nat /\ m.parts \in Nat \ {0} BY <1>1 DEF Rects
<1>6. Upto(F, j) = m.at + m.parts BY <1>2, <1>3 DEF Upto
<1>7. Start(stream[i]) = m.at + stream[i].chunk.part - 1 /\ Stop(stream[i]) = m.at + stream[i].chunk.part
  BY DEF Start, Stop
<1> HIDE DEF m
<1>8. Start(stream[i]) \in Nat /\ Stop(stream[i]) = Start(stream[i]) + 1 /\ m.at <= Start(stream[i])
      /\ Stop(stream[i]) <= Upto(F, j)
  BY <1>4, <1>5, <1>6, <1>7
<1> QED BY <1>2, <1>3, <1>8 DEF m

Skips == stream # <<>> /\ stream' = Tail(stream)

\* What becomes of the message that is assembled and of the packet at hand.
Drops ==
    /\ payload' = <<>> /\ callbacks' = <<Error>>
    /\ Skips \/ (payload # <<>> /\ stream' = stream)
Keeps == Skips /\ UNCHANGED <<payload, messageType>> /\ callbacks' \in {<<>>, <<Error>>}
HandsOver(p) ==
    /\ Skips /\ p.type # "RECT" /\ payload' = <<>>
    /\ \/ payload = <<>> /\ callbacks' = <<MessageOf(p.type, <<p.chunk>>)>>
       \/ payload # <<>> /\ callbacks' = <<Error, MessageOf(p.type, <<p.chunk>>)>>
TakesPixel(p) ==
    /\ Skips /\ p.type = "RECT"
    /\ \/ /\ p.chunked /\ payload' = Append(payload, p.chunk)
          /\ messageType' = "RECT" /\ callbacks' = <<>>
       \/ /\ ~p.chunked /\ payload' = <<>>
          /\ callbacks' = <<MessageOf("RECT", Append(payload, p.chunk))>>

Receive == Deliver \/ Lose \/ Damage \/ StallTimeout

LEMMA Receives ==
    ASSUME LinkInv, Receive
    PROVE  /\ callbacks = <<>> /\ UNCHANGED <<senderVars, sessionVars, asmVars>>
           /\ Drops \/ Keeps \/ (stream # <<>> /\ (HandsOver(stream[1]) \/ TakesPixel(stream[1])))
<1>1. callbacks = <<>> /\ UNCHANGED <<senderVars, sessionVars, asmVars>>
  BY DEF Receive, Deliver, Lose, Damage, StallTimeout, NoCallback
<1> SUFFICES Drops \/ Keeps \/ (stream # <<>> /\ (HandsOver(stream[1]) \/ TakesPixel(stream[1])))
  BY <1>1
<1>2. CASE StallTimeout BY <1>2, Zenon DEF StallTimeout, OnTimeout, AbortMessage, assembling, Drops
<1>3. CASE Lose BY <1>1, <1>3 DEF Lose, StreamFault, decoderVars, Keeps, Skips
<1>4. CASE Damage
  <2>1. Skips BY <1>4 DEF Damage, StreamFault, Skips
  <2>2. CASE BadHeader BY <2>1, <2>2, Zenon DEF BadHeader, Keeps
  <2>3. CASE \E q \in 0..(SeqSpace - 1) : CrcMismatch(q)
    BY <2>1, <2>3, Zenon DEF CrcMismatch, AbortMessage, Drops
  <2> QED BY <1>4, <2>2, <2>3 DEF Damage
<1>5. CASE Deliver
  <2>1. Skips BY <1>5 DEF Deliver, Skips
  <2>2. PICK p : p = Head(stream) OBVIOUS
  <2>3. p = stream[1] /\ PacketOK(p) /\ IsSeq(stream)
    <3>1. IsSeq(stream) BY DEF LinkInv, TypesOK
    <3>2. Head(stream) = stream[1] /\ 1 \in DOMAIN stream BY <2>1, <3>1, TailKeeps DEF Skips
    <3> QED BY <2>2, <3>1, <3>2 DEF LinkInv, StreamOK
  <2>4. p.chunked => p.type = "RECT"
    <3>1. p.chunk.msg.type # "RECT" => p.chunk.msg.parts = 1 BY <2>3, MessageTyped DEF PacketOK
    <3>2. p.chunk.msg.parts = 1 => ~(p.chunk.part < p.chunk.msg.parts) BY <2>3 DEF PacketOK
    <3> QED BY <2>3, <3>1, <3>2 DEF PacketOK
  <2>5. payload # <<>> => messageType = "RECT" BY DEF LinkInv, CallbacksOK
  <2>6. CASE AbortMessage /\ callbacks' = <<Error>> BY <2>1, <2>6, Zenon DEF AbortMessage, Drops
  <2>7. CASE payload = <<>> /\ AtBoundary(p, <<>>)
    <3>1. <<p.chunk>> = Append(payload, p.chunk) BY <2>7
    <3>2. Append(<<>>, MessageOf(p.type, <<p.chunk>>)) = <<MessageOf(p.type, <<p.chunk>>)>> OBVIOUS
    <3>3. CASE p.type = "RECT"
      BY <2>1, <2>3, <2>7, <3>1, <3>2, <3>3, Zenon DEF AtBoundary, AbortMessage, TakesPixel, Skips
    <3>4. CASE p.type # "RECT"
      BY <2>1, <2>3, <2>4, <2>7, <3>2, <3>4, Zenon DEF AtBoundary, AbortMessage, HandsOver, Skips
    <3> QED BY <3>3, <3>4
  <2>8. CASE payload # <<>> /\ p.type # messageType /\ AtBoundary(p, <<Error>>)
    <3>1. Append(<<Error>>, MessageOf(p.type, <<p.chunk>>)) = <<Error, MessageOf(p.type, <<p.chunk>>)>>
      <4>1. PICK e, a : e = Error /\ a = MessageOf(p.type, <<p.chunk>>) OBVIOUS
      <4>2. Append(<<e>>, a) = <<e, a>> BY AppendToOne
      <4> QED BY <4>1, <4>2, Zenon
    <3>2. ~p.chunked BY <2>4, <2>5, <2>8, Zenon
    <3> QED BY <2>1, <2>3, <2>5, <2>8, <3>1, <3>2, Zenon DEF AtBoundary, AbortMessage, HandsOver, Skips
  <2>9. CASE /\ payload # <<>> /\ p.type = messageType
             /\ \/ p.chunked /\ payload' = Append(payload, p.chunk) /\ UNCHANGED <<messageType, callbacks>>
                \/ /\ ~p.chunked /\ AbortMessage
                   /\ callbacks' = <<MessageOf(messageType, Append(payload, p.chunk))>>
    BY <1>1, <2>1, <2>3, <2>5, <2>9 DEF AbortMessage, TakesPixel, Skips
  <2>10. VerifiedPacket(p) BY <1>5, <2>2 DEF Deliver
  <2> QED BY <1>1, <2>6, <2>7, <2>8, <2>9, <2>10 DEF VerifiedPacket, HandleVerifiedPacket, assembling
<1> QED BY <1>1, <1>2, <1>3, <1>4, <1>5 DEF Receive

\* What the assembler is handed, and what it still waits for.
LEMMA Outcomes ==
    ASSUME LinkInv, Receive
    PROVE  /\ ~HandedMessage /\ Pending = payload
           /\ Drops => ~HandedMessage' /\ Pending' = <<>>
           /\ Keeps => ~HandedMessage' /\ Pending' = payload
           /\ \A p : HandsOver(p) =>
                 /\ HandedMessage' /\ Handed' = MessageOf(p.type, <<p.chunk>>)
                 /\ Handed'.type = p.type /\ Handed'.payload = <<p.chunk>> /\ Pending' = <<>>
           /\ \A p : TakesPixel(p) =>
                 /\ Pending' = Append(payload, p.chunk)
                 /\ p.chunked => ~HandedMessage'
                 /\ ~p.chunked =>
                       /\ HandedMessage' /\ Handed' = MessageOf("RECT", Pending')
                       /\ Handed'.type = "RECT" /\ Handed'.payload = Pending'
<1>1. callbacks = <<>> BY Receives
<1>2. ~HandedMessage /\ Pending = payload BY <1>1 DEF HandedMessage, Pending
<1>3. callbacks' = <<>> => ~HandedMessage' BY DEF HandedMessage
<1>4. callbacks' = <<Error>> => ~HandedMessage' BY DEF HandedMessage, Handed, Error
<1>5. \A a : callbacks' = <<a>> => callbacks' # <<>> /\ Handed' = a BY DEF Handed
<1>6. \A a, e : callbacks' = <<e, a>> => callbacks' # <<>> /\ Handed' = a BY DEF Handed
<1>7. \A t, q : /\ MessageOf(t, q).kind = "message"
                /\ MessageOf(t, q).type = t /\ MessageOf(t, q).payload = q
  BY DEF MessageOf
<1>8. Drops => ~HandedMessage' /\ Pending' = <<>> BY <1>4 DEF Drops, Pending
<1>9. Keeps => ~HandedMessage' /\ Pending' = payload BY <1>3, <1>4 DEF Keeps, Pending
<1>10. ASSUME NEW p, HandsOver(p)
       PROVE  /\ HandedMessage' /\ Handed' = MessageOf(p.type, <<p.chunk>>)
              /\ Handed'.type = p.type /\ Handed'.payload = <<p.chunk>> /\ Pending' = <<>>
  <2>1. callbacks' # <<>> /\ Handed' = MessageOf(p.type, <<p.chunk>>)
    BY <1>5, <1>6, <1>10 DEF HandsOver
  <2>2. HandedMessage' BY <2>1, <1>7 DEF HandedMessage
  <2>3. Handed'.type = p.type /\ Handed'.payload = <<p.chunk>> BY <2>1, <1>7
  <2>4. Pending' = <<>> BY <1>10, <2>3 DEF HandsOver, Pending
  <2> QED BY <2>1, <2>2, <2>3, <2>4
<1>11. ASSUME NEW p, TakesPixel(p)
       PROVE  /\ Pending' = Append(payload, p.chunk)
              /\ p.chunked => ~HandedMessage'
              /\ ~p.chunked =>
                    /\ HandedMessage' /\ Handed' = MessageOf("RECT", Pending')
                    /\ Handed'.type = "RECT" /\ Handed'.payload = Pending'
  <2>1. CASE p.chunked
    <3>1. callbacks' = <<>> /\ payload' = Append(payload, p.chunk) BY <1>11, <2>1 DEF TakesPixel
    <3> QED BY <1>3, <2>1, <3>1 DEF Pending
  <2>2. CASE ~p.chunked
    <3>1. callbacks' = <<MessageOf("RECT", Append(payload, p.chunk))>> BY <1>11, <2>2 DEF TakesPixel
    <3>2. callbacks' # <<>> /\ Handed' = MessageOf("RECT", Append(payload, p.chunk)) BY <1>5, <3>1
    <3>3. HandedMessage' BY <1>7, <3>2 DEF HandedMessage
    <3>4. Handed'.type = "RECT" /\ Handed'.payload = Append(payload, p.chunk) BY <1>7, <3>2
    <3> QED BY <2>2, <3>2, <3>3, <3>4 DEF Pending
  <2> QED BY <2>1, <2>2
<1> QED BY <1>2, <1>8, <1>9, <1>10, <1>11

\* The stream is what it was, or its first packet has left it.
LEMMA Advances ==
    ASSUME LinkInv, Receive
    PROVE  /\ IsSeq(stream') /\ DOMAIN stream' = 1..Len(stream') /\ Len(stream') \in Nat
           /\ \E d \in {0, 1} :
                 /\ d = 0 => stream' = stream /\ ~Skips
                 /\ d = 1 => Skips /\ 1 \in DOMAIN stream
                 /\ Len(stream) = Len(stream') + d
                 /\ \A i \in DOMAIN stream' : i + d \in DOMAIN stream /\ stream'[i] = stream[i + d]
<1>1. IsSeq(stream) BY DEF LinkInv, TypesOK
<1>2. Len(stream) \in Nat /\ DOMAIN stream = 1..Len(stream) BY <1>1, SeqIndices
<1>3. CASE Skips
  <2>1. PICK t : t = Tail(stream) OBVIOUS
  <2>2. /\ IsSeq(t) /\ Len(t) = Len(stream) - 1 /\ 1 \in DOMAIN stream
        /\ \A i \in DOMAIN t : i + 1 \in DOMAIN stream /\ t[i] = stream[i + 1]
    BY <1>1, <1>3, <2>1, TailKeeps DEF Skips
  <2>3. stream' = t BY <1>3, <2>1 DEF Skips
  <2>4. DOMAIN t = 1..Len(t) /\ Len(t) \in Nat BY <2>2, SeqIndices
  <2>5. \A i \in DOMAIN stream' : i + 1 \in DOMAIN stream /\ stream'[i] = stream[i + 1]
    BY <2>2, <2>3
  <2>6. Len(stream) = Len(stream') + 1
    <3>1. Len(stream) = Len(t) + 1 BY <1>2, <2>2
    <3> QED BY <2>3, <3>1
  <2>7. \E d \in {1} :
           /\ d = 0 => stream' = stream /\ ~Skips
           /\ d = 1 => Skips /\ 1 \in DOMAIN stream
           /\ Len(stream) = Len(stream') + d
           /\ \A i \in DOMAIN stream' : i + d \in DOMAIN stream /\ stream'[i] = stream[i + d]
    BY <1>3, <2>2, <2>5, <2>6
  <2> QED BY <2>2, <2>3, <2>4, <2>7
<1>4. CASE stream' = stream /\ ~Skips
  <2>1. \A i \in DOMAIN stream' : i + 0 \in DOMAIN stream /\ stream'[i] = stream[i + 0]
    BY <1>2, <1>4
  <2>2. Len(stream) = Len(stream') + 0 BY <1>2, <1>4
  <2>3. \E d \in {0} :
           /\ d = 0 => stream' = stream /\ ~Skips
           /\ d = 1 => Skips /\ 1 \in DOMAIN stream
           /\ Len(stream) = Len(stream') + d
           /\ \A i \in DOMAIN stream' : i + d \in DOMAIN stream /\ stream'[i] = stream[i + d]
    BY <1>4, <2>1, <2>2
  <2> QED BY <1>1, <1>2, <1>4, <2>3
<1>5. Skips \/ stream' = stream BY Receives DEF Drops, Keeps, HandsOver, TakesPixel
<1> QED BY <1>3, <1>4, <1>5

\* The pixel that follows those the host has is the next chunk of the frame.
LEMMA NextPixel ==
    ASSUME LinkInv, ~HandedMessage, NEW F \in Makings, Exact(F), NEW i \in DOMAIN stream,
           stream[i].type = "RECT", stream[i].chunk.msg.frame = F.frameId, Start(stream[i]) = Got
    PROVE  LET n == Len(asmReceived)
               k == Len(payload)
           IN  /\ n \in Nat /\ k \in Nat /\ n < Len(F.rects)
               /\ Len(F.rects[n + 1]) \in Nat /\ k < Len(F.rects[n + 1])
               /\ stream[i].chunk = F.rects[n + 1][k + 1]
               /\ stream[i].chunked <=> k + 1 < Len(F.rects[n + 1])
<1> DEFINE n == Len(asmReceived)
           k == Len(payload)
           m == stream[i].chunk.msg
           part == stream[i].chunk.part
<1>1. n \in Nat /\ k \in Nat BY SeqIndices DEF LinkInv, TypesOK
<1>2. Pending = payload BY DEF Pending
<1>3. /\ n <= Len(F.rects) /\ asmBytes = Upto(F, n)
      /\ k # 0 => n < Len(F.rects) /\ k <= Len(F.rects[n + 1]) /\ k # Len(F.rects[n + 1])
  <2>1. k # 0 => payload # <<>> BY NonEmpty DEF LinkInv, TypesOK
  <2> QED BY <1>2, <2>1 DEF Exact
<1>4. /\ MadeOK(F) /\ Len(F.rects) \in Nat /\ DOMAIN F.rects = 1..Len(F.rects)
      /\ \A j \in 0..Len(F.rects) : Upto(F, j) \in Nat
  BY MakingIs
<1>5. PICK j \in 1..Len(F.rects) :
         m = RectAt(F, j) /\ RectAt(F, j).at <= Start(stream[i]) /\ Stop(stream[i]) <= Upto(F, j)
  BY PixelIs
<1>6. Start(stream[i]) \in Nat /\ Stop(stream[i]) = Start(stream[i]) + 1 BY PixelIs
<1>7. ASSUME NEW l \in 1..Len(F.rects)
      PROVE  /\ RectAt(F, l).at \in Nat /\ RectAt(F, l).parts \in Nat \ {0}
             /\ Upto(F, l) = RectAt(F, l).at + RectAt(F, l).parts
             /\ Len(F.rects[l]) = RectAt(F, l).parts
             /\ RectAt(F, l).at = Upto(F, l - 1)
             /\ F.rects[l] = Payload(RectAt(F, l))
  <2>1. RectAt(F, l) \in Rects /\ RectAt(F, l).at = Upto(F, l - 1) /\ F.rects[l] = Payload(RectAt(F, l))
    BY <1>4 DEF MadeOK
  <2>2. RectAt(F, l).at \in Nat /\ RectAt(F, l).parts \in Nat \ {0} BY <2>1 DEF Rects
  <2>3. Len(F.rects[l]) = RectAt(F, l).parts BY <2>1, <2>2, PayloadIs
  <2>4. Upto(F, l) = RectAt(F, l).at + RectAt(F, l).parts BY DEF Upto
  <2> QED BY <2>1, <2>2, <2>3, <2>4
<1>8. Start(stream[i]) = Upto(F, n) + k BY <1>2, <1>3 DEF Got
<1> HIDE DEF n, k, m, part
<1>9. n < j
  <2> SUFFICES ASSUME j <= n PROVE FALSE BY <1>1, <1>4
  <2>1. Upto(F, n) \in Nat /\ Upto(F, j) \in Nat BY <1>1, <1>3, <1>4
  <2>2. CASE j = n BY <1>1, <1>5, <1>6, <1>8, <2>1, <2>2
  <2>3. CASE j < n
    <3>1. n \in 1..Len(F.rects) BY <1>1, <1>3, <1>4, <2>3
    <3>2. Upto(F, j) <= RectAt(F, n).at BY <1>4, <2>3, <3>1 DEF MadeOK
    <3>3. /\ RectAt(F, n).at \in Nat /\ RectAt(F, n).parts \in Nat
          /\ Upto(F, n) = RectAt(F, n).at + RectAt(F, n).parts
      BY <1>7, <3>1
    <3>4. Upto(F, j) <= Upto(F, n) BY <2>1, <3>2, <3>3
    <3> QED BY <1>1, <1>5, <1>6, <1>8, <2>1, <3>4
  <2> QED BY <1>1, <1>4, <2>2, <2>3
<1>10. n < Len(F.rects) /\ n + 1 \in 1..Len(F.rects) BY <1>1, <1>4, <1>9
<1>11. RectAt(F, n + 1).at = Upto(F, n)
  <2>1. (n + 1) - 1 = n BY <1>1
  <2> QED BY <1>7, <1>10, <2>1
<1>12. k < RectAt(F, n + 1).parts
  <2>1. Len(F.rects[n + 1]) = RectAt(F, n + 1).parts /\ RectAt(F, n + 1).parts \in Nat \ {0}
    BY <1>7, <1>10
  <2> QED BY <1>1, <1>3, <2>1
<1>13. j = n + 1
  <2> SUFFICES ASSUME n + 1 < j PROVE FALSE BY <1>1, <1>4, <1>9
  <2>1. Upto(F, n + 1) <= RectAt(F, j).at BY <1>4, <1>10 DEF MadeOK
  <2>2. Upto(F, n + 1) = Upto(F, n) + RectAt(F, n + 1).parts /\ RectAt(F, n + 1).parts \in Nat
    BY <1>7, <1>10, <1>11
  <2>3. RectAt(F, j).at <= Upto(F, n) + k BY <1>5, <1>8
  <2>4. Upto(F, n) \in Nat /\ RectAt(F, j).at \in Nat BY <1>1, <1>3, <1>4, <1>7
  <2> QED BY <1>1, <1>12, <2>1, <2>2, <2>3, <2>4
<1>14. part = k + 1
  <2>1. Start(stream[i]) = m.at + part - 1 BY DEF Start, m, part
  <2>2. m.at = Upto(F, n) BY <1>5, <1>11, <1>13
  <2>3. part \in 1..m.parts BY DEF LinkInv, StreamOK, PacketOK, m, part
  <2>4. Upto(F, n) \in Nat /\ m.parts \in Nat BY <1>1, <1>3, <1>4, <1>5, <1>7
  <2> QED BY <1>1, <1>8, <2>1, <2>2, <2>3, <2>4
<1>15. stream[i].chunk = Chunk(m, part) /\ (stream[i].chunked <=> part < m.parts)
  BY DEF LinkInv, StreamOK, PacketOK, m, part
<1>16. /\ Len(F.rects[n + 1]) = m.parts /\ m.parts \in Nat \ {0} /\ F.rects[n + 1] = Payload(m)
  BY <1>5, <1>7, <1>10, <1>13
<1>17. k + 1 \in 1..m.parts BY <1>1, <1>5, <1>12, <1>13, <1>16
<1>18. F.rects[n + 1][k + 1] = Chunk(m, k + 1) BY <1>16, <1>17, PayloadIs
<1> QED BY <1>1, <1>5, <1>10, <1>12, <1>13, <1>14, <1>15, <1>16, <1>18 DEF n, k

LEMMA ReceivePreserves == ASSUME LinkInv, Receive PROVE LinkInv'
<1>1. callbacks = <<>> /\ UNCHANGED <<senderVars, sessionVars, asmVars>> BY Receives
<1>2. /\ IsSeq(stream') /\ DOMAIN stream' = 1..Len(stream') /\ Len(stream') \in Nat
      /\ Len(stream) \in Nat /\ DOMAIN stream = 1..Len(stream)
  BY Advances, SeqIndices DEF LinkInv, TypesOK
<1>3. PICK d \in {0, 1} :
         /\ d = 0 => stream' = stream /\ ~Skips
         /\ d = 1 => Skips /\ 1 \in DOMAIN stream
         /\ Len(stream) = Len(stream') + d
         /\ \A i \in DOMAIN stream' : i + d \in DOMAIN stream /\ stream'[i] = stream[i + d]
  BY Advances
<1>4. PICK p : p = stream[1] OBVIOUS
<1>5. Drops \/ Keeps \/ (HandsOver(p) \/ TakesPixel(p)) BY <1>4, Receives
<1>6. d = 1 => PacketOK(p) /\ p.chunk.msg \in Coming /\ p.type = p.chunk.msg.type
  BY <1>3, <1>4, ComingIs DEF LinkInv, StreamOK
<1>7. (HandsOver(p) \/ TakesPixel(p)) => d = 1 BY <1>3 DEF HandsOver, TakesPixel
<1>8. HandedMessage' /\ Handed'.type # "RECT"
         => HandsOver(p) /\ Handed'.type = p.type /\ Handed'.payload[1] = p.chunk
  <2>1. HandedMessage' /\ Handed'.type # "RECT" => HandsOver(p) BY <1>5, Outcomes
  <2>2. HandsOver(p) => Handed'.type = p.type /\ Handed'.payload = <<p.chunk>> BY Outcomes
  <2>3. <<p.chunk>>[1] = p.chunk OBVIOUS
  <2> QED BY <2>1, <2>2, <2>3
<1>9. Coming' \subseteq Coming
  <2>1. \A i \in DOMAIN stream' : stream'[i].chunk.msg \in Coming BY <1>3 DEF Coming
  <2>2. HandedMessage' /\ Handed'.type # "RECT" => Handed'.payload[1].msg \in Coming
    BY <1>6, <1>7, <1>8
  <2> QED BY <2>1, <2>2 DEF Coming
<1>10. CallbacksOK'
  <2>1. CASE Drops BY <2>1, Outcomes DEF CallbacksOK, Drops
  <2>2. CASE Keeps
    <3>1. payload # <<>> => messageType = "RECT" BY DEF LinkInv, CallbacksOK
    <3> QED BY <2>2, <3>1, Outcomes DEF CallbacksOK, Keeps
  <2>3. CASE HandsOver(p)
    <3>1. /\ HandedMessage' /\ Handed' = MessageOf(p.type, <<p.chunk>>)
          /\ Handed'.type = p.type /\ Handed'.payload = <<p.chunk>> /\ payload' = <<>>
      BY <2>3, Outcomes DEF HandsOver
    <3>2. p.type # "RECT" /\ (callbacks' = <<Handed'>> \/ callbacks' = <<Error, Handed'>>)
      BY <2>3, <3>1 DEF HandsOver
    <3>3. Handed'.payload # <<>> /\ Handed'.payload[1] = p.chunk BY <3>1
    <3>4. p.chunk.msg \in Messages /\ p.type = p.chunk.msg.type BY <1>6, <1>7, <2>3 DEF PacketOK
    <3> QED BY <3>1, <3>2, <3>3, <3>4 DEF CallbacksOK
  <2>4. CASE TakesPixel(p)
    <3>1. IsSeq(payload) BY DEF LinkInv, TypesOK
    <3>2. Append(payload, p.chunk) # <<>>
      <4>1. /\ IsSeq(Append(payload, p.chunk))
            /\ Len(Append(payload, p.chunk)) = Len(payload) + 1 /\ Len(payload) \in Nat
        BY <3>1, AppendKeeps, SeqIndices
      <4> QED BY <4>1, NonEmpty
    <3>3. CASE p.chunked BY <2>4, <3>3, Outcomes DEF TakesPixel, CallbacksOK
    <3>4. CASE ~p.chunked
      <4>1. /\ HandedMessage' /\ Handed' = MessageOf("RECT", Handed'.payload) /\ Handed'.type = "RECT"
            /\ Handed'.payload # <<>> /\ payload' = <<>>
        BY <2>4, <3>2, <3>4, Outcomes DEF TakesPixel
      <4>2. callbacks' = <<Handed'>> BY <2>4, <3>4, Outcomes DEF TakesPixel
      <4> QED BY <4>1, <4>2 DEF CallbacksOK
    <3> QED BY <3>3, <3>4
  <2> QED BY <1>5, <2>1, <2>2, <2>3, <2>4
<1>11. Makings' = Makings /\ FinishedFrame' = FinishedFrame
  BY <1>1 DEF Makings, FinishedFrame, senderVars
<1>12. TypesOK'
  <2>1. IsSeq(payload) BY DEF LinkInv, TypesOK
  <2>2. IsSeq(<<p.chunk>>) /\ IsSeq(Append(payload, p.chunk)) BY <2>1, SingleSeq, AppendKeeps
  <2>3. IsSeq(payload')
    <3>1. payload' = <<>> => IsSeq(payload') BY NothingIsSeq
    <3> QED BY <1>5, <2>1, <2>2, <3>1 DEF Drops, Keeps, HandsOver, TakesPixel
  <2>4. HandedMessage' => IsSeq(Handed'.payload) BY <1>5, <2>2, Outcomes
  <2> QED BY <1>1, <1>2, <1>11, <2>3, <2>4 DEF LinkInv, TypesOK, asmVars, senderVars
<1>13. StreamOK'
  <2>1. \A i \in DOMAIN stream' : PacketOK(stream'[i]) BY <1>3 DEF LinkInv, StreamOK
  <2>2. \A i, j \in DOMAIN stream' : i < j => Before(stream'[i], stream'[j])
    <3>1. \A i, j \in DOMAIN stream' : i < j => i + d < j + d BY <1>2
    <3> QED BY <1>3, <3>1 DEF LinkInv, StreamOK
  <2>3. ASSUME HandedMessage', Handed'.type = "BEGIN", NEW i \in DOMAIN stream',
               Framed(stream'[i].chunk.msg)
        PROVE  /\ stream'[i].chunk.msg.frame >= Handed'.payload[1].msg.frame
               /\ stream'[i].chunk.msg.type = "BEGIN" =>
                     stream'[i].chunk.msg.frame > Handed'.payload[1].msg.frame
    <3> DEFINE q == stream'[i]
    <3>1. d = 1 /\ Handed'.payload[1].msg = p.chunk.msg /\ p.chunk.msg.type = "BEGIN"
      BY <1>6, <1>7, <1>8, <2>3
    <3>2. q = stream[i + 1] /\ i + 1 \in DOMAIN stream /\ 1 < i + 1 BY <1>2, <1>3, <3>1
    <3>3. Before(p, q) BY <1>3, <1>4, <3>1, <3>2 DEF LinkInv, StreamOK
    <3>4. p.chunk.msg.frame \in 1..frames /\ q.chunk.msg.frame \in 1..frames
      BY <1>6, <2>3, <3>1, <3>2, ComingIs DEF Framed
    <3>5. frames \in Nat BY FrameNumbers
    <3> QED BY <2>3, <3>1, <3>3, <3>4, <3>5 DEF Before, Framed
  <2> QED BY <2>1, <2>2, <2>3 DEF StreamOK
<1>14. FramesOK' BY <1>1, <1>9 DEF LinkInv, FramesOK, senderVars, sessionVars
<1>15. SendingOK' BY <1>1, <1>3, <1>11 DEF LinkInv, SendingOK, senderVars
<1>16. MadeFrames' BY <1>1 DEF LinkInv, MadeFrames, senderVars
<1>17. ComesAsMade' BY <1>9, <1>11 DEF LinkInv, ComesAsMade
<1>18. EndsAreFinished' BY <1>1, <1>9 DEF LinkInv, EndsAreFinished, senderVars
<1>19. HostInOrder'
  <2>1. \A f : Newer(f) => Newer(f)' BY <1>1 DEF Newer, LastShown, asmVars, sessionVars, senderVars
  <2>2. InFrame' <=> InFrame BY <1>1 DEF InFrame, asmVars
  <2>3. InFrame' => asmBegin'.frameId \in 1..frames' /\ Newer(asmBegin.frameId)'
    BY <1>1, <2>1, <2>2, FrameNumbers DEF asmVars, senderVars, LinkInv, HostInOrder
  <2>4. ASSUME NEW o \in Coming'
        PROVE  /\ o.type = "BEGIN" => Newer(o.frame)' /\ (InFrame' => o.frame > asmBegin'.frameId)
               /\ o.type = "RECT" /\ InFrame' => o.frame >= asmBegin'.frameId
    BY <1>1, <1>9, <2>1, <2>2 DEF asmVars, LinkInv, HostInOrder
  <2> QED BY <1>1, <2>3, <2>4 DEF HostInOrder, LinkInv, asmVars, senderVars
<1>20. HandshakeOK'
  <2>1. \A i \in DOMAIN stream' : stream'[i].type = "HELLO" => handshaking' /\ i = Len(stream')
    <3>1. ASSUME NEW i \in DOMAIN stream', stream'[i].type = "HELLO" PROVE handshaking' /\ i = Len(stream')
      <4>1. handshaking /\ i + d = Len(stream) BY <1>3, <3>1 DEF LinkInv, HandshakeOK
      <4> QED BY <1>1, <1>2, <1>3, <4>1 DEF sessionVars
    <3> QED BY <3>1
  <2>2. ASSUME HandedMessage', Handed'.type = "HELLO" PROVE handshaking' /\ stream' = <<>>
    <3>1. d = 1 /\ p.type = "HELLO" BY <1>7, <1>8, <2>2
    <3>2. handshaking /\ 1 = Len(stream) BY <1>3, <1>4, <3>1 DEF LinkInv, HandshakeOK
    <3>3. Len(stream') = 0 BY <1>2, <1>3, <3>1, <3>2
    <3> QED BY <1>1, <1>2, <3>2, <3>3, NonEmpty DEF sessionVars
  <2> QED BY <2>1, <2>2 DEF HandshakeOK
<1>21. HostHasFrame'
  <2> SUFFICES ASSUME InFrame', NEW F \in Makings', F.frameId = asmBegin'.frameId
               PROVE  /\ F.kind = asmBegin'.kind
                      /\ Live(F)' => (Got <= Size(F))' /\ Ahead(F, Got)' /\ (Exact(F) \/ Misses(F))'
    BY DEF HostHasFrame
  <2>1. InFrame /\ F.frameId = asmBegin.frameId /\ F \in Makings BY <1>1, <1>11 DEF InFrame, asmVars
  <2>2. F.kind = asmBegin'.kind BY <2>1, <1>1 DEF LinkInv, HostHasFrame, asmVars
  <2> SUFFICES ASSUME Live(F)'
               PROVE  (Got <= Size(F))' /\ Ahead(F, Got)' /\ (Exact(F) \/ Misses(F))'
    BY <2>2
  <2>3. Live(F) BY <1>1, <1>9 DEF Live, senderVars
  <2>4. Got <= Size(F) /\ Ahead(F, Got) /\ (Exact(F) \/ Misses(F))
    BY <2>1, <2>3 DEF LinkInv, HostHasFrame
  <2>5. Got \in Nat /\ Size(F) \in Nat BY <2>1, GotIs, MakingIs
  <2>6. \A N \in Nat : Ahead(F, N) => Ahead(F, N)' BY <1>3 DEF Ahead
  <2>7. Pending = payload /\ ~HandedMessage BY Outcomes
  <2>8. IsSeq(payload) /\ Len(payload) \in Nat /\ asmBytes \in Nat BY SeqIndices DEF LinkInv, TypesOK
  <2>9. \A i \in DOMAIN stream' :
            stream'[i].type = "RECT" /\ stream'[i].chunk.msg.frame = F.frameId =>
               Start(stream'[i]) \in Nat /\ Start(stream'[i]) >= Got
    BY <1>3, <2>1, <2>4, PixelIs DEF Ahead
  \* Nothing is taken and nothing dropped: what was lost on the way shows later.
  <2>10. CASE Pending' = payload /\ (payload' = <<>> <=> payload = <<>>)
    <3>1. Got' = Got BY <1>1, <2>7, <2>10 DEF Got, asmVars
    <3>2. Exact(F) => Exact(F)'
      BY <1>1, <2>7, <2>10 DEF Exact, asmVars, Upto, RectAt
    <3>3. Misses(F) => Misses(F)'
      <4>1. Got + 1 \in Nat BY <2>5
      <4>2. ASSUME Misses(F) PROVE (Got < Size(F))' /\ Ahead(F, Got + 1)'
        <5>1. \A N \in Nat : N = Got' + 1 => Ahead(F, N)' BY <2>6, <3>1, <4>1, <4>2 DEF Misses
        <5>2. (Got < Size(F))' BY <3>1, <4>2 DEF Misses, Size, Upto, RectAt
        <5> QED BY <3>1, <4>1, <5>1, <5>2 DEF Ahead
      <4> QED BY <4>2 DEF Misses
    <3>4. Ahead(F, Got)' BY <2>4, <2>5, <2>6, <3>1 DEF Ahead
    <3> QED BY <2>4, <3>1, <3>2, <3>3, <3>4 DEF Size, Upto, RectAt
  \* Pixels are dropped.
  <2>11. CASE Pending' = <<>> /\ payload # <<>>
    <3>1. Len(payload) > 0 BY <2>8, <2>11, NonEmpty
    <3>2. Got' = asmBytes /\ Got = asmBytes + Len(payload)
      <4>1. Len(Pending') = 0 BY <2>11
      <4>2. Got' = asmBytes + Len(Pending') BY <1>1 DEF Got, asmVars
      <4> QED BY <2>7, <2>8, <4>1, <4>2 DEF Got
    <3>3. Got' < Got /\ Got' \in Nat BY <2>8, <3>1, <3>2
    <3>4. \A i \in DOMAIN stream' :
             stream'[i].type = "RECT" /\ stream'[i].chunk.msg.frame = F.frameId =>
                Start(stream'[i]) >= Got' + 1 /\ Start(stream'[i]) >= Got'
      BY <2>5, <2>9, <3>3
    <3>5. Ahead(F, Got + 1)' /\ Ahead(F, Got)' BY <3>4 DEF Ahead
    <3>6. (Got < Size(F))' BY <2>4, <2>5, <3>3 DEF Size, Upto, RectAt
    <3>7. (Got <= Size(F))' BY <2>4, <2>5, <3>3 DEF Size, Upto, RectAt
    <3> QED BY <3>5, <3>6, <3>7 DEF Misses
  <2>12. CASE TakesPixel(p)
    <3>1. /\ d = 1 /\ p = stream[1] /\ 1 \in DOMAIN stream /\ p.type = "RECT"
          /\ PacketOK(p) /\ p.chunk.msg \in Coming /\ p.chunk.msg.type = "RECT"
      BY <1>3, <1>4, <1>6, <1>7, <2>12 DEF TakesPixel
    <3>2. p.chunk.msg.frame = F.frameId
      <4>1. p.chunk.msg.frame \in 1..frames /\ frames \in Nat /\ F.frameId \in 1..frames
        BY <2>1, <3>1, ComingIs, FrameNumbers DEF Framed
      <4>2. p.chunk.msg.frame >= F.frameId BY <2>1, <3>1 DEF LinkInv, HostInOrder
      <4>3. CASE sending.open /\ sending.frame = F.frameId
        BY <4>1, <4>2, <4>3 DEF LinkInv, FramesOK
      <4>4. CASE \E o \in Coming : o.type = "END" /\ o.frame = F.frameId
        <5>1. PICK i \in DOMAIN stream :
                 stream[i].chunk.msg.type = "END" /\ stream[i].chunk.msg.frame = F.frameId
          BY <2>7, <4>4 DEF Coming
        <5>2. 1 < i BY <1>2, <3>1, <5>1
        <5>3. Before(p, stream[i]) BY <3>1, <5>1, <5>2 DEF LinkInv, StreamOK
        <5> QED BY <3>1, <4>1, <4>2, <5>1, <5>3 DEF Before, Framed
      <4> QED BY <2>3, <4>3, <4>4 DEF Live
    <3>3. /\ Start(p) \in Nat /\ Stop(p) = Start(p) + 1 /\ Stop(p) <= Size(F) /\ Start(p) >= Got
      BY <2>1, <2>4, <3>1, <3>2, PixelIs DEF Ahead
    <3>4. Got' = Got + 1 /\ Len(Pending') = Len(payload) + 1 /\ IsSeq(Pending')
          /\ (\A l \in DOMAIN payload : Pending'[l] = payload[l])
          /\ Pending'[Len(payload) + 1] = p.chunk
      <4>1. Pending' = Append(payload, p.chunk) BY <2>12, Outcomes
      <4>2. /\ IsSeq(Append(payload, p.chunk)) /\ Len(Append(payload, p.chunk)) = Len(payload) + 1
            /\ (\A l \in DOMAIN payload : Append(payload, p.chunk)[l] = payload[l])
            /\ Append(payload, p.chunk)[Len(payload) + 1] = p.chunk
        BY <2>8, AppendKeeps
      <4>3. Got' = asmBytes + Len(Pending') BY <1>1 DEF Got, asmVars
      <4> QED BY <2>7, <2>8, <4>1, <4>2, <4>3 DEF Got
    <3>5. \A i \in DOMAIN stream' :
             stream'[i].type = "RECT" /\ stream'[i].chunk.msg.frame = F.frameId =>
                Start(stream'[i]) \in Nat /\ Start(stream'[i]) >= Stop(p)
      <4>1. ASSUME NEW i \in DOMAIN stream', stream'[i].type = "RECT",
                   stream'[i].chunk.msg.frame = F.frameId
            PROVE  Start(stream'[i]) >= Stop(p)
        <5>1. i + 1 \in DOMAIN stream /\ stream'[i] = stream[i + 1] /\ 1 < i + 1 BY <1>2, <1>3, <3>1
        <5>2. Before(p, stream[i + 1]) BY <3>1, <5>1 DEF LinkInv, StreamOK
        <5>3. stream[i + 1].chunk.msg.type = "RECT" BY <4>1, <5>1, ComingIs
        <5>4. F.frameId \in Nat BY <2>1, FrameNumbers
        <5>5. Start(stream[i + 1]) \in Nat BY <2>1, <4>1, <5>1, PixelIs
        <5> QED BY <3>1, <3>2, <3>3, <4>1, <5>1, <5>2, <5>3, <5>4, <5>5 DEF Before, Framed
      <4> QED BY <2>9, <4>1
    <3>6. Ahead(F, Got)'
      <4>1. \A i \in DOMAIN stream' :
               stream'[i].type = "RECT" /\ stream'[i].chunk.msg.frame = F.frameId =>
                  Start(stream'[i]) >= Got'
        BY <2>5, <3>3, <3>4, <3>5
      <4> QED BY <4>1 DEF Ahead
    <3>7. (Got <= Size(F))' BY <2>5, <3>3, <3>4 DEF Size, Upto, RectAt
    <3>8. CASE Exact(F) /\ Start(p) = Got
      <4> DEFINE n == Len(asmReceived)
                 k == Len(payload)
      <4>1. /\ n \in Nat /\ k \in Nat /\ n < Len(F.rects)
            /\ Len(F.rects[n + 1]) \in Nat /\ k < Len(F.rects[n + 1])
            /\ p.chunk = F.rects[n + 1][k + 1]
            /\ p.chunked <=> k + 1 < Len(F.rects[n + 1])
        BY <2>1, <2>7, <3>1, <3>2, <3>8, NextPixel
      <4>2. asmReceived' = asmReceived /\ asmBytes' = asmBytes BY <1>1 DEF asmVars
      <4>3. /\ \A j \in 1..n : asmReceived[j] = F.rects[j]
            /\ asmBytes = Upto(F, n)
            /\ \A l \in DOMAIN payload : payload[l] = F.rects[n + 1][l]
        <5>1. DOMAIN payload = {} \/ payload # <<>> BY <2>8, SeqIndices, NonEmpty
        <5> QED BY <2>7, <3>8, <5>1 DEF Exact
      <4>4. DOMAIN payload = 1..k /\ DOMAIN Pending' = 1..(k + 1) BY <2>8, <3>4, SeqIndices
      <4>5. \A l \in DOMAIN Pending' : Pending'[l] = F.rects[n + 1][l]
        BY <3>4, <4>1, <4>3, <4>4
      <4>6. payload' = <<>> <=> Len(Pending') = Len(F.rects[n + 1])
        <5>1. p.chunked <=> payload' # <<>>
          <6>1. p.chunked => payload' = Append(payload, p.chunk) BY <2>12 DEF TakesPixel
          <6>2. ~p.chunked => payload' = <<>> BY <2>12 DEF TakesPixel
          <6>3. Len(Append(payload, p.chunk)) > 0 /\ IsSeq(Append(payload, p.chunk))
            BY <2>8, AppendKeeps
          <6>4. Append(payload, p.chunk) # <<>> BY <6>3, NonEmpty
          <6> QED BY <6>1, <6>2, <6>4
        <5> QED BY <3>4, <4>1, <5>1
      <4>7. Len(Pending') <= Len(F.rects[n + 1]) BY <3>4, <4>1
      <4>8. n <= Len(F.rects) BY <2>1, <4>1, MakingIs
      <4> HIDE DEF k
      <4>9. Exact(F)' BY <4>1, <4>2, <4>3, <4>5, <4>6, <4>7, <4>8 DEF Exact, Upto, RectAt
      <4> QED BY <3>6, <3>7, <4>9
    <3>9. CASE ~(Exact(F) /\ Start(p) = Got)
      <4>1. Start(p) >= Got + 1
        <5>1. CASE Start(p) # Got BY <2>5, <3>3, <5>1
        <5>2. CASE Misses(F) BY <3>1, <3>2, <5>2 DEF Misses, Ahead
        <5> QED BY <2>4, <3>9, <5>1, <5>2
      <4>2. (Got < Size(F))' BY <2>5, <3>3, <3>4, <4>1 DEF Size, Upto, RectAt
      <4>3. \A i \in DOMAIN stream' :
               stream'[i].type = "RECT" /\ stream'[i].chunk.msg.frame = F.frameId =>
                  Start(stream'[i]) >= Got' + 1
        BY <2>5, <3>3, <3>4, <3>5, <4>1
      <4>4. Ahead(F, Got + 1)' BY <4>3 DEF Ahead
      <4> QED BY <3>6, <3>7, <4>2, <4>4 DEF Misses
    <3> QED BY <3>8, <3>9
  <2>13. CASE ~TakesPixel(p)
    <3>1. Drops => Pending' = <<>> /\ payload' = <<>> BY Outcomes DEF Drops
    <3>2. Keeps => Pending' = payload /\ payload' = payload BY Outcomes DEF Keeps
    <3>3. HandsOver(p) => Pending' = <<>> /\ payload' = <<>> BY Outcomes DEF HandsOver
    <3> QED BY <1>5, <2>10, <2>11, <2>13, <3>1, <3>2, <3>3
  <2> QED BY <2>12, <2>13
<1> QED BY <1>10, <1>12, <1>13, <1>14, <1>15, <1>16, <1>17, <1>18, <1>19, <1>20, <1>21 DEF LinkInv
-----------------------------------------------------------------------------
(* The session and the assembler.                                          *)

LEMMA ReconnectPreserves == ASSUME LinkInv, Reconnect PROVE LinkInv'
<1>1. /\ callbacks = <<>> /\ callbacks' = <<>> /\ payload' = <<>>
      /\ \A i \in DOMAIN stream : stream[i].type # "HELLO"
      /\ stream' = Append(stream, Packet(HelloMsg, 1, 0))
      /\ handshaking' = TRUE /\ finishedAtReconnect' = Len(finished)
      /\ sending' = NothingSent /\ mustAbort' = FALSE
      /\ UNCHANGED <<frames, finished>>
  BY DEF Reconnect, NoCallback, DecoderReset, AbortMessage
<1>2. /\ asmState' = "Idle" /\ asmBytes' = 0 /\ asmReceived' = <<>> /\ UNCHANGED committedFrames
  BY DEF Reconnect, Assembler!AssemblerReset
<1>3. ~HandedMessage /\ ~HandedMessage' /\ ~InFrame'
  BY <1>1, <1>2 DEF HandedMessage, InFrame
<1>4. IsSeq(stream) /\ IsSeq(finished) /\ Len(finished) \in Nat /\ Len(stream) \in Nat
      /\ DOMAIN stream = 1..Len(stream)
  BY SeqIndices DEF LinkInv, TypesOK
<1>5. PICK h : h = Packet(HelloMsg, 1, 0) OBVIOUS
<1>6. PacketOK(h) /\ h.type = "HELLO" /\ h.chunk.msg = HelloMsg /\ HelloMsg.type = "HELLO"
  <2>1. HelloMsg \in Messages /\ HelloMsg.parts = 1 /\ HelloMsg.type = "HELLO"
    BY DEF Messages, HelloMsg
  <2>2. 1 \in 1..HelloMsg.parts BY <2>1
  <2>3. PacketOK(Packet(HelloMsg, 1, 0)) /\ Packet(HelloMsg, 1, 0).chunk = Chunk(HelloMsg, 1)
        /\ Packet(HelloMsg, 1, 0).type = HelloMsg.type /\ Chunk(HelloMsg, 1).msg = HelloMsg
    BY <2>1, <2>2, PacketIs
  <2> QED BY <1>5, <2>1, <2>3
<1>7. /\ IsSeq(stream') /\ DOMAIN stream' = 1..(Len(stream) + 1)
      /\ Len(stream') = Len(stream) + 1
      /\ \A i \in DOMAIN stream : stream'[i] = stream[i]
      /\ stream'[Len(stream) + 1] = h
  <2>1. /\ IsSeq(Append(stream, h)) /\ Len(Append(stream, h)) = Len(stream) + 1
        /\ \A i \in DOMAIN stream : Append(stream, h)[i] = stream[i]
        /\ Append(stream, h)[Len(stream) + 1] = h
    BY <1>4, AppendKeeps
  <2>2. stream' = Append(stream, h) BY <1>1, <1>5
  <2> QED BY <2>1, <2>2, SeqIndices
<1>8. \A i \in DOMAIN stream' :
         \/ i \in DOMAIN stream /\ stream'[i] = stream[i]
         \/ i = Len(stream') /\ stream'[i] = h
  BY <1>4, <1>7
<1>9. ~Framed(HelloMsg) BY <1>6 DEF Framed
<1>10. \A m \in Coming' : m = HelloMsg \/ m \in Coming BY <1>3, <1>6, <1>8 DEF Coming
<1>11. \A m \in Coming' : Framed(m) \/ m.type \in {"BEGIN", "RECT", "END"} => m \in Coming
  BY <1>6, <1>9, <1>10
<1>12. Makings' \subseteq Makings BY <1>1 DEF Makings, NothingSent
<1>13. TypesOK'
  <2>1. IsSeq(payload') /\ IsSeq(asmReceived') BY <1>1, <1>2, NothingIsSeq
  <2>2. IsSeq(sending'.rects) BY <1>1, NothingIsSeq DEF NothingSent
  <2> QED BY <1>1, <1>2, <1>3, <1>7, <1>12, <2>1, <2>2 DEF LinkInv, TypesOK
<1>14. CallbacksOK' BY <1>1, <1>3 DEF CallbacksOK
<1>15. StreamOK'
  <2>1. \A i \in DOMAIN stream' : PacketOK(stream'[i]) BY <1>6, <1>8 DEF LinkInv, StreamOK
  <2>2. ASSUME NEW i \in DOMAIN stream', NEW j \in DOMAIN stream', i < j
        PROVE  Before(stream'[i], stream'[j])
    <3>1. CASE j = Len(stream') BY <1>4, <1>6, <1>7, <1>9, <3>1 DEF Before
    <3>2. CASE j # Len(stream')
      <4>1. j \in DOMAIN stream /\ i \in DOMAIN stream BY <1>4, <1>7, <2>2, <3>2
      <4> QED BY <1>7, <2>2, <4>1 DEF LinkInv, StreamOK
    <3> QED BY <3>1, <3>2
  <2> QED BY <1>3, <2>1, <2>2 DEF StreamOK
<1>16. FramesOK'
  <2>1. ~sending'.open BY <1>1 DEF NothingSent
  <2>2. \A m \in Coming' : Framed(m) => m.frame \in 1..frames' BY <1>1, <1>11, ComingIs
  <2> QED BY <1>1, <1>4, <2>1, <2>2 DEF LinkInv, FramesOK
<1>17. SendingOK'
  <2> DEFINE Q == Seq(Rects)
  <2>1. <<>> \in Q OBVIOUS
  <2> HIDE DEF Q
  <2>2. NothingSent \in [open : BOOLEAN, frame : Nat, kind : Kinds, rects : Q, bytes : Nat]
    BY <2>1 DEF NothingSent, Kinds
  <2>3. ~sending'.open BY <1>1 DEF NothingSent
  <2> QED BY <1>1, <2>2, <2>3 DEF SendingOK, Q
<1>18. MadeFrames' BY <1>1 DEF LinkInv, MadeFrames
<1>19. ComesAsMade' BY <1>11, <1>12 DEF LinkInv, ComesAsMade
<1>20. EndsAreFinished' BY <1>1, <1>11 DEF LinkInv, EndsAreFinished
<1>21. HostInOrder'
  <2>1. \A f : Newer(f) => Newer(f)' BY <1>1, <1>2 DEF Newer, LastShown
  <2>2. \A m \in Coming' : m.type = "BEGIN" => Newer(m.frame)'
    BY <1>11, <2>1 DEF LinkInv, HostInOrder
  <2> QED BY <1>1, <1>2, <1>3, <2>2 DEF LinkInv, HostInOrder
<1>22. HandshakeOK' BY <1>1, <1>3, <1>8 DEF HandshakeOK
<1>23. HostHasFrame' BY <1>3 DEF HostHasFrame
<1> QED BY <1>13, <1>14, <1>15, <1>16, <1>17, <1>18, <1>19, <1>20, <1>21, <1>22, <1>23 DEF LinkInv

\* A callback is an error, with a message behind it or not, or the message handed over.
LEMMA Runs ==
    ASSUME LinkInv, RunCallback
    PROVE  /\ CallbacksOK'
           /\ \/ /\ Head(callbacks).kind = "error" /\ (HandedMessage' <=> HandedMessage)
                 /\ HandedMessage => Handed' = Handed
              \/ /\ HandedMessage /\ Head(callbacks) = Handed /\ Handed.kind = "message"
                 /\ callbacks = <<Handed>> /\ ~HandedMessage' /\ payload = <<>> /\ Handed.payload # <<>>
<1>1. /\ callbacks # <<>> /\ callbacks' = Tail(callbacks) /\ UNCHANGED <<messageType, payload>>
  BY DEF RunCallback
<1>2. (HandedMessage => payload = <<>>) /\ (payload # <<>> => messageType = "RECT")
  BY DEF LinkInv, CallbacksOK
<1>3. Error.kind = "error" BY DEF Error
<1>4. CASE callbacks = <<Error>>
  <2>1. callbacks' = <<>> /\ Head(callbacks) = Error BY <1>1, <1>4
  <2>2. ~HandedMessage BY <1>3, <1>4 DEF HandedMessage, Handed
  <2>3. ~HandedMessage' BY <2>1 DEF HandedMessage
  <2> QED BY <1>1, <1>2, <1>3, <2>1, <2>2, <2>3 DEF CallbacksOK
<1>5. CASE HandedMessage /\ callbacks = <<Handed>>
  <2>1. PICK a : a = Handed OBVIOUS
  <2>2. Tail(<<a>>) = <<>> /\ Head(<<a>>) = a OBVIOUS
  <2>3. callbacks' = <<>> /\ Head(callbacks) = Handed BY <1>1, <1>5, <2>1, <2>2
  <2>4. ~HandedMessage' BY <2>3 DEF HandedMessage
  <2>5. Handed.kind = "message" BY <1>5 DEF HandedMessage
  <2>6. Handed.payload # <<>> BY <1>1, <1>3, <1>5, <2>5 DEF LinkInv, CallbacksOK
  <2> QED BY <1>1, <1>2, <1>5, <2>3, <2>4, <2>5, <2>6 DEF CallbacksOK
<1>6. CASE HandedMessage /\ callbacks = <<Error, Handed>> /\ Handed.type # "RECT"
  <2>1. PICK e, a : e = Error /\ a = Handed OBVIOUS
  <2>2. Tail(<<e, a>>) = <<a>> /\ Head(<<e, a>>) = e OBVIOUS
  <2>3. callbacks' = <<a>> /\ Head(callbacks) = Error BY <1>1, <1>6, <2>1, <2>2
  <2>4. Handed' = a BY <2>3 DEF Handed
  <2>5. a.kind = "message" BY <1>6, <2>1 DEF HandedMessage
  <2>6. HandedMessage' BY <2>3, <2>4, <2>5 DEF HandedMessage
  <2>7. callbacks # <<Error>> BY <1>6
  <2>8. /\ a = MessageOf(a.type, a.payload) /\ a.payload # <<>> /\ a.type # "RECT"
        /\ a.payload[1].msg \in Messages /\ a.type = a.payload[1].msg.type
    BY <1>1, <1>6, <2>1, <2>7 DEF LinkInv, CallbacksOK
  <2>9. CallbacksOK'
    <3>1. callbacks' = <<Handed'>> BY <2>3, <2>4
    <3>2. payload' = <<>> BY <1>1, <1>2, <1>6
    <3> QED BY <2>4, <2>6, <2>8, <3>1, <3>2 DEF CallbacksOK
  <2> QED BY <1>3, <1>6, <2>1, <2>3, <2>4, <2>6, <2>9
<1> QED BY <1>1, <1>4, <1>5, <1>6 DEF LinkInv, CallbacksOK

\* What a callback leaves as it is: all but the assembler and the handshake.
LEMMA RunKeeps ==
    ASSUME LinkInv, RunCallback
    PROVE  /\ UNCHANGED <<sending, frames, mustAbort, finished, finishedAtReconnect, stream, payload>>
           /\ Coming' \subseteq Coming /\ Makings' = Makings
           /\ handshaking' => handshaking
           /\ CallbacksOK' /\ StreamOK' /\ FramesOK' /\ SendingOK' /\ MadeFrames' /\ ComesAsMade'
           /\ EndsAreFinished'
           /\ \A F : Live(F)' => Live(F)
           /\ \A F, N : Ahead(F, N) => Ahead(F, N)'
           /\ HandedMessage' => Handed' = Handed /\ HandedMessage
<1>1. /\ UNCHANGED <<sending, frames, mustAbort, finished, finishedAtReconnect, stream, payload>>
      /\ handshaking' => handshaking
  <2>1. UNCHANGED <<stream, payload>> BY DEF RunCallback
  <2>2. UNCHANGED <<sending, frames, mustAbort, finished, finishedAtReconnect>>
    BY DEF RunCallback, CompleteHandshake, senderVars, sessionVars
  <2>3. handshaking' = FALSE \/ UNCHANGED handshaking
    BY DEF RunCallback, CompleteHandshake, sessionVars
  <2> QED BY <2>1, <2>2, <2>3
<1>2. HandedMessage' => Handed' = Handed /\ HandedMessage BY Runs
<1>3. Coming' \subseteq Coming BY <1>1, <1>2 DEF Coming
<1>4. Makings' = Makings /\ FinishedFrame' = FinishedFrame BY <1>1 DEF Makings, FinishedFrame
<1>5. StreamOK' BY <1>1, <1>2 DEF LinkInv, StreamOK
<1>6. FramesOK' BY <1>1, <1>3 DEF LinkInv, FramesOK
<1>7. SendingOK' BY <1>1, <1>4 DEF LinkInv, SendingOK
<1>8. MadeFrames' BY <1>1 DEF LinkInv, MadeFrames
<1>9. ComesAsMade' BY <1>3, <1>4 DEF LinkInv, ComesAsMade
<1>10. EndsAreFinished' BY <1>1, <1>3 DEF LinkInv, EndsAreFinished
<1>11. \A F : Live(F)' => Live(F) BY <1>1, <1>3 DEF Live
<1>12. \A F, N : Ahead(F, N) => Ahead(F, N)' BY <1>1 DEF Ahead
<1> QED BY <1>1, <1>2, <1>3, <1>4, <1>5, <1>6, <1>7, <1>8, <1>9, <1>10, <1>11, <1>12, Runs

\* It remains to look at the assembler.
LEMMA RunsTo ==
    ASSUME LinkInv, RunCallback, asmBytes' \in Nat, IsSeq(asmReceived'), IsSeq(committedFrames'),
           HandshakeOK', HostInOrder', HostHasFrame'
    PROVE  LinkInv'
<1>1. TypesOK' BY RunKeeps DEF LinkInv, TypesOK
<1> QED BY <1>1, RunKeeps DEF LinkInv

LEMMA HandshakeStays == ASSUME LinkInv, RunCallback, UNCHANGED handshaking PROVE HandshakeOK'
BY RunKeeps DEF LinkInv, HandshakeOK

LEMMA NewerStays ==
    ASSUME LinkInv, RunCallback, UNCHANGED <<handshaking, committedFrames>>
    PROVE  \A f : Newer(f) => Newer(f)'
BY RunKeeps DEF Newer, LastShown

\* The assembler ignores a message, or gives its frame up.
LEMMA AsidePreserves ==
    ASSUME LinkInv, RunCallback, UNCHANGED <<handshaking, committedFrames, asmBytes, asmReceived>>,
           \/ ~InFrame'
           \/ UNCHANGED <<asmState, asmBegin>> /\ ~(HandedMessage /\ ~HandedMessage' /\ Handed.type = "RECT")
    PROVE  LinkInv'
<1>1. HostInOrder'
  <2>1. InFrame' => InFrame /\ asmBegin' = asmBegin BY DEF InFrame
  <2>2. InFrame' => asmBegin'.frameId \in 1..frames' /\ Newer(asmBegin.frameId)'
    BY <2>1, NewerStays, RunKeeps DEF LinkInv, HostInOrder
  <2>3. \A m \in Coming' :
           /\ m.type = "BEGIN" => Newer(m.frame)' /\ (InFrame' => m.frame > asmBegin'.frameId)
           /\ m.type = "RECT" /\ InFrame' => m.frame >= asmBegin'.frameId
    BY <2>1, NewerStays, RunKeeps DEF LinkInv, HostInOrder
  <2> QED BY <2>1, <2>2, <2>3, RunKeeps DEF LinkInv, HostInOrder
<1>2. HostHasFrame'
  <2> SUFFICES ASSUME InFrame', NEW F \in Makings', F.frameId = asmBegin'.frameId
               PROVE  /\ F.kind = asmBegin'.kind
                      /\ Live(F)' => (Got <= Size(F))' /\ Ahead(F, Got)' /\ (Exact(F) \/ Misses(F))'
    BY DEF HostHasFrame
  <2>1. InFrame /\ asmBegin' = asmBegin /\ F \in Makings /\ F.frameId = asmBegin.frameId
    BY RunKeeps DEF InFrame
  <2>2. Pending' = Pending
    <3>1. payload' = payload BY RunKeeps
    <3>2. CASE HandedMessage' BY <3>1, <3>2, RunKeeps DEF Pending
    <3>3. CASE ~HandedMessage' BY <3>1, <3>3, <2>1 DEF Pending, InFrame
    <3> QED BY <3>2, <3>3
  <2>3. Got' = Got BY <2>2 DEF Got
  <2>4. Got \in Nat BY GotIs
  <2> SUFFICES ASSUME Live(F)'
               PROVE  (Got <= Size(F))' /\ Ahead(F, Got)' /\ (Exact(F) \/ Misses(F))'
    BY <2>1 DEF LinkInv, HostHasFrame
  <2>5. Got <= Size(F) /\ Ahead(F, Got) /\ (Exact(F) \/ Misses(F))
    BY <2>1, RunKeeps DEF LinkInv, HostHasFrame
  <2>6. Ahead(F, Got)' BY <2>3, <2>5, RunKeeps DEF Ahead
  <2>7. Exact(F) => Exact(F)' BY <2>2, RunKeeps DEF Exact, Upto, RectAt
  <2>8. Misses(F) => Misses(F)'
    <3>1. ASSUME Misses(F) PROVE (Got < Size(F))' /\ Ahead(F, Got + 1)'
      BY <2>3, <3>1, RunKeeps DEF Misses, Ahead, Size, Upto, RectAt
    <3> QED BY <3>1 DEF Misses
  <2> QED BY <2>3, <2>5, <2>6, <2>7, <2>8 DEF Size, Upto, RectAt
<1> QED BY <1>1, <1>2, HandshakeStays, RunsTo DEF LinkInv, TypesOK

LEMMA HandedBegins ==
    ASSUME LinkInv, RunCallback, Head(callbacks).kind = "message", Head(callbacks).type = "BEGIN",
           UNCHANGED <<senderVars, sessionVars>>,
           Assembler!HandleBegin(Head(callbacks).payload[1].msg)
    PROVE  LinkInv'
<1> DEFINE m == Handed.payload[1].msg
<1>1. /\ HandedMessage /\ Handed.type = "BEGIN" /\ ~HandedMessage' /\ payload = <<>>
      /\ Assembler!HandleBegin(m) /\ UNCHANGED <<handshaking, finished, frames>>
  BY Runs DEF senderVars, sessionVars
<1>2. m \in Coming /\ m.type = "BEGIN" /\ m \in Begins /\ m.frame \in 1..frames /\ frames \in Nat
      /\ frames \in 0..MaxFrames
  BY <1>1, ComingIs, MessageTyped, FrameNumbers DEF Framed, LinkInv, FramesOK
<1> HIDE DEF m
<1>3. CASE ~m.valid
  <2>1. UNCHANGED <<committedFrames, asmBytes, asmReceived>> /\ ~InFrame'
    BY <1>1, <1>3 DEF Assembler!HandleBegin, Assembler!Discard, Assembler!Ignore,
                      Assembler!assemblerVars, InFrame
  <2> QED BY <1>1, <2>1, AsidePreserves
<1>4. CASE m.valid
  <2>1. /\ asmState' = "InFrame" /\ asmBytes' = 0 /\ asmReceived' = <<>> /\ UNCHANGED committedFrames
        /\ asmBegin' = [frameId |-> m.frame, kind |-> m.kind]
    BY <1>1, <1>4 DEF Assembler!HandleBegin, Assembler!StartFrame
  <2>2. asmBegin'.frameId = m.frame /\ asmBegin'.kind = m.kind BY <2>1
  <2>3. \A o \in Coming' : \E i \in DOMAIN stream : o = stream[i].chunk.msg
    BY <1>1, RunKeeps DEF Coming
  <2>4. \A o \in Coming' : Framed(o) => o.frame >= m.frame /\ (o.type = "BEGIN" => o.frame > m.frame)
    BY <1>1, <2>3 DEF LinkInv, StreamOK, m
  <2>5. HostInOrder'
    <3>1. Newer(m.frame) BY <1>2 DEF LinkInv, HostInOrder
    <3>2. InFrame' => asmBegin'.frameId \in 1..frames' /\ (\A f : f = asmBegin'.frameId => Newer(f)')
      BY <1>1, <1>2, <2>1, <2>2, <3>1, NewerStays
    <3>3. \A o \in Coming' :
             /\ o.type = "BEGIN" => Newer(o.frame)' /\ (InFrame' => o.frame > asmBegin'.frameId)
             /\ o.type = "RECT" /\ InFrame' => o.frame >= asmBegin'.frameId
      BY <1>1, <2>1, <2>2, <2>4, NewerStays, RunKeeps DEF LinkInv, HostInOrder, Framed
    <3> QED BY <2>1, <3>2, <3>3, RunKeeps DEF LinkInv, HostInOrder
  <2>6. HostHasFrame'
    <3> SUFFICES ASSUME InFrame', NEW F \in Makings', F.frameId = asmBegin'.frameId
                 PROVE  /\ F.kind = asmBegin'.kind
                        /\ (Got <= Size(F))' /\ Ahead(F, Got)' /\ Exact(F)'
      BY DEF HostHasFrame
    <3>1. F \in Makings /\ F.frameId = m.frame BY <2>2, RunKeeps
    <3>2. F.kind = asmBegin'.kind BY <1>2, <2>2, <3>1 DEF LinkInv, ComesAsMade
    <3>3. Pending' = <<>> /\ payload' = <<>> BY <1>1, RunKeeps DEF Pending
    <3>4. Got' = 0
      <4>1. Len(Pending') = 0 BY <3>3
      <4> QED BY <2>1, <4>1 DEF Got
    <3>5. Size(F) \in Nat /\ Len(F.rects) \in Nat BY <3>1, MakingIs
    <3>6. Ahead(F, Got)'
      <4>1. \A i \in DOMAIN stream' :
               stream'[i].type = "RECT" /\ stream'[i].chunk.msg.frame = F.frameId => Start(stream'[i]) >= Got'
        BY <3>1, <3>4, RunKeeps, PixelIs
      <4> QED BY <4>1 DEF Ahead
    <3>7. Exact(F)'
      <4>1. Len(asmReceived') = 0 BY <2>1
      <4>2. asmBytes' = Upto(F, 0) BY <2>1 DEF Upto
      <4> QED BY <3>3, <3>5, <4>1, <4>2 DEF Exact, Upto, RectAt
    <3>8. (Got <= Size(F))' BY <3>4, <3>5 DEF Size, Upto, RectAt
    <3> QED BY <3>2, <3>6, <3>7, <3>8
  <2>7. IsSeq(asmReceived') BY <2>1, NothingIsSeq
  <2>8. IsSeq(committedFrames') BY <2>1 DEF LinkInv, TypesOK
  <2> QED BY <1>1, <2>1, <2>5, <2>6, <2>7, <2>8, HandshakeStays, RunsTo
<1> QED BY <1>2, <1>3, <1>4 DEF Begins

LEMMA HandedRects ==
    ASSUME LinkInv, RunCallback, Head(callbacks).kind = "message", Head(callbacks).type = "RECT",
           UNCHANGED <<senderVars, sessionVars>>, NEW verdict \in BOOLEAN,
           Assembler!HandleRect(Head(callbacks).payload, verdict)
    PROVE  LinkInv'
<1> DEFINE q == Handed.payload
<1>1. /\ HandedMessage /\ Handed.type = "RECT" /\ ~HandedMessage' /\ payload = <<>> /\ q # <<>>
      /\ Assembler!HandleRect(q, verdict) /\ UNCHANGED <<handshaking, finished, frames>>
  BY Runs DEF senderVars, sessionVars
<1>2. IsSeq(q) /\ Len(q) \in Nat /\ DOMAIN q = 1..Len(q) /\ Pending = q
  BY <1>1, SeqIndices DEF LinkInv, TypesOK, Pending
<1> HIDE DEF q
<1>3. CASE ~InFrame'
  <2>1. UNCHANGED <<committedFrames, asmBytes, asmReceived>>
    BY <1>1, <1>3 DEF Assembler!HandleRect, Assembler!Discard, Assembler!Ignore,
                      Assembler!assemblerVars, InFrame
  <2> QED BY <1>1, <1>3, <2>1, AsidePreserves
<1>4. CASE InFrame'
  <2>1. /\ InFrame /\ asmBytes' = asmBytes + Len(q) /\ asmReceived' = Append(asmReceived, q)
        /\ UNCHANGED <<asmBegin, committedFrames>>
    BY <1>1, <1>4 DEF Assembler!HandleRect, Assembler!Discard, Assembler!Ignore,
                      Assembler!assemblerVars, InFrame
  <2>2. HostInOrder'
    <3>1. asmBegin'.frameId \in 1..frames' /\ Newer(asmBegin.frameId)'
      BY <1>1, <2>1, NewerStays DEF LinkInv, HostInOrder
    <3>2. \A o \in Coming' :
             /\ o.type = "BEGIN" => Newer(o.frame)' /\ (InFrame' => o.frame > asmBegin'.frameId)
             /\ o.type = "RECT" /\ InFrame' => o.frame >= asmBegin'.frameId
      BY <1>1, <2>1, NewerStays, RunKeeps DEF LinkInv, HostInOrder
    <3> QED BY <2>1, <3>1, <3>2, RunKeeps DEF LinkInv, HostInOrder
  <2>3. asmBytes \in Nat /\ IsSeq(asmReceived) BY DEF LinkInv, TypesOK
  <2>4. /\ IsSeq(asmReceived') /\ Len(asmReceived') = Len(asmReceived) + 1 /\ Len(asmReceived) \in Nat
        /\ \A j \in 1..Len(asmReceived) : asmReceived'[j] = asmReceived[j]
        /\ asmReceived'[Len(asmReceived) + 1] = q
    <3>1. /\ IsSeq(Append(asmReceived, q)) /\ Len(Append(asmReceived, q)) = Len(asmReceived) + 1
          /\ \A j \in DOMAIN asmReceived : Append(asmReceived, q)[j] = asmReceived[j]
          /\ Append(asmReceived, q)[Len(asmReceived) + 1] = q
      BY <2>3, AppendKeeps
    <3>2. Len(asmReceived) \in Nat /\ DOMAIN asmReceived = 1..Len(asmReceived) BY <2>3, SeqIndices
    <3> QED BY <2>1, <3>1, <3>2
  <2>5. HostHasFrame'
    <3> SUFFICES ASSUME NEW F \in Makings', F.frameId = asmBegin'.frameId
                 PROVE  /\ F.kind = asmBegin'.kind
                        /\ Live(F)' => (Got <= Size(F))' /\ Ahead(F, Got)' /\ (Exact(F) \/ Misses(F))'
      BY DEF HostHasFrame
    <3>1. F \in Makings /\ F.frameId = asmBegin.frameId BY <2>1, RunKeeps
    <3> SUFFICES ASSUME Live(F)'
                 PROVE  (Got <= Size(F))' /\ Ahead(F, Got)' /\ (Exact(F) \/ Misses(F))'
      BY <2>1, <3>1 DEF LinkInv, HostHasFrame
    <3>2. Got <= Size(F) /\ Ahead(F, Got) /\ (Exact(F) \/ Misses(F))
      BY <2>1, <3>1, RunKeeps DEF LinkInv, HostHasFrame
    <3>3. Pending' = <<>> /\ payload' = <<>> BY <1>1, RunKeeps DEF Pending
    <3>4. Got' = Got /\ Got \in Nat
      <4>1. Len(Pending') = 0 BY <3>3
      <4> QED BY <1>2, <2>1, <2>3, <4>1 DEF Got
    <3>5. Ahead(F, Got)' BY <3>2, <3>4, RunKeeps DEF Ahead
    <3>6. Misses(F) => Misses(F)'
      <4>1. ASSUME Misses(F) PROVE (Got < Size(F))' /\ Ahead(F, Got + 1)'
        BY <3>4, <4>1, RunKeeps DEF Misses, Ahead, Size, Upto, RectAt
      <4> QED BY <4>1 DEF Misses
    <3>7. ASSUME Exact(F) PROVE Exact(F)'
      <4> DEFINE n == Len(asmReceived)
      <4>1. /\ n < Len(F.rects) /\ Len(q) = Len(F.rects[n + 1])
            /\ \A k \in DOMAIN q : q[k] = F.rects[n + 1][k]
            /\ \A j \in 1..n : asmReceived[j] = F.rects[j]
            /\ asmBytes = Upto(F, n) /\ n \in Nat
        BY <1>1, <1>2, <2>4, <3>7 DEF Exact
      <4>2. /\ MadeOK(F) /\ Len(F.rects) \in Nat /\ DOMAIN F.rects = 1..Len(F.rects)
            /\ \A j \in 0..Len(F.rects) : Upto(F, j) \in Nat
        BY <3>1, MakingIs
      <4> HIDE DEF n
      <4>3. n + 1 \in DOMAIN F.rects /\ n \in 0..Len(F.rects) /\ (n + 1) - 1 = n BY <4>1, <4>2
      <4>4. PICK m : m = RectAt(F, n + 1) OBVIOUS
      <4>5. /\ m \in Rects /\ m.at = Upto(F, (n + 1) - 1) /\ F.rects[n + 1] = Payload(m)
        BY <4>2, <4>3, <4>4 DEF MadeOK
      <4>6. m.parts \in Nat \ {0} /\ m.at \in Nat BY <4>5 DEF Rects
      <4>7. /\ IsSeq(F.rects[n + 1]) /\ Len(F.rects[n + 1]) = m.parts
        BY <4>5, <4>6, PayloadIs
      <4>8. q = F.rects[n + 1] BY <1>2, <4>1, <4>7, SameSeq
      <4>9. Upto(F, n + 1) = Upto(F, n) + Len(q)
        <5>1. Upto(F, n + 1) = m.at + m.parts BY <4>1, <4>4 DEF Upto
        <5> QED BY <4>1, <4>3, <4>5, <4>7, <5>1
      <4>10. asmBytes' = Upto(F, n + 1) BY <2>1, <4>1, <4>9
      <4>11. Len(asmReceived') = n + 1 /\ n + 1 <= Len(F.rects) BY <2>4, <4>1, <4>2 DEF n
      <4>12. \A j \in 1..(n + 1) : asmReceived'[j] = F.rects[j] BY <2>4, <4>1, <4>8 DEF n
      <4> QED BY <3>3, <4>10, <4>11, <4>12 DEF Exact, Upto, RectAt
    <3> QED BY <3>2, <3>4, <3>5, <3>6, <3>7 DEF Size, Upto, RectAt
  <2>6. asmBytes' \in Nat BY <1>2, <2>1, <2>3
  <2>7. IsSeq(committedFrames') BY <2>1 DEF LinkInv, TypesOK
  <2> QED BY <1>1, <2>2, <2>4, <2>5, <2>6, <2>7, HandshakeStays, RunsTo
<1> QED BY <1>3, <1>4

\* The frame that is committed is the one the device finished.
LEMMA CommitsFinished ==
    ASSUME LinkInv, HandedMessage, Handed.type = "END", InFrame,
           Assembler!EndMatches(Handed.payload[1].msg)
    PROVE  \E i \in DOMAIN finished :
              /\ finished[i] = [frameId |-> asmBegin.frameId, kind |-> asmBegin.kind, rects |-> asmReceived]
              /\ finished[i].frameId = asmBegin.frameId
              /\ finished[i].kind = asmBegin.kind
<1> DEFINE m == Handed.payload[1].msg
<1>1. m \in Coming /\ m.type = "END" /\ m.frame \in 1..frames /\ frames \in Nat
  BY ComingIs, FrameNumbers DEF Framed
<1>2. ~m.aborted /\ m.frame = asmBegin.frameId /\ m.bytes = asmBytes
  <2>1. {m.frame, asmBegin.frameId} \subseteq 0..MaxFrames
    <3>1. frames \in 0..MaxFrames BY DEF LinkInv, FramesOK
    <3>2. asmBegin.frameId \in 1..frames BY FrameNumbers
    <3> QED BY <1>1, <3>1, <3>2, BoundsAssumption
  <2> QED BY <2>1, SmallMod DEF Assembler!EndMatches, Assembler!SameId
<1>3. PICK i \in DOMAIN finished : finished[i].frameId = m.frame BY <1>1, <1>2 DEF LinkInv, EndsAreFinished
<1>4. PICK F : F = finished[i] OBVIOUS
<1>5. F \in Makings /\ F.frameId = asmBegin.frameId BY <1>2, <1>3, <1>4 DEF Makings
<1>6. asmBytes = Size(F) BY <1>1, <1>2, <1>5 DEF LinkInv, ComesAsMade
<1>7. Live(F) BY <1>1, <1>2, <1>5 DEF Live
<1>8. F.kind = asmBegin.kind /\ (Exact(F) \/ Misses(F)) BY <1>5, <1>7 DEF LinkInv, HostHasFrame
<1>9. Got = Size(F) /\ Size(F) \in Nat
  <2>1. Pending = <<>> BY DEF Pending, LinkInv, CallbacksOK
  <2>2. Len(Pending) = 0 BY <2>1
  <2> QED BY <1>5, <1>6, <2>2, MakingIs DEF Got
<1>10. Exact(F) BY <1>8, <1>9 DEF Misses
<1> DEFINE n == Len(asmReceived)
<1>11. n \in Nat /\ IsSeq(asmReceived) /\ DOMAIN asmReceived = 1..n BY SeqIndices DEF LinkInv, TypesOK
<1>12. n <= Len(F.rects) /\ Upto(F, n) = Size(F) /\ (\A j \in 1..n : asmReceived[j] = F.rects[j])
  BY <1>6, <1>10 DEF Exact
<1> HIDE DEF n
<1>13. n = Len(F.rects) /\ IsSeq(F.rects)
  <2>1. n \in 0..Len(F.rects) BY <1>5, <1>11, <1>12, MakingIs
  <2> QED BY <1>5, <1>12, <2>1, MakingIs
<1>14. asmReceived = F.rects BY <1>11, <1>12, <1>13, SameSeq DEF n
<1>15. F = [frameId |-> F.frameId, kind |-> F.kind, rects |-> F.rects] BY <1>5, MakingIs DEF MadeOK
<1> QED BY <1>4, <1>5, <1>8, <1>14, <1>15

LEMMA HandedEnds ==
    ASSUME LinkInv, RunCallback, Head(callbacks).kind = "message", Head(callbacks).type = "END",
           UNCHANGED <<senderVars, sessionVars>>,
           Assembler!HandleEnd(Head(callbacks).payload[1].msg)
    PROVE  LinkInv'
<1> DEFINE m == Handed.payload[1].msg
<1>1. /\ HandedMessage /\ Handed.type = "END" /\ ~HandedMessage' /\ payload = <<>>
      /\ Assembler!HandleEnd(m) /\ UNCHANGED <<handshaking, finished, frames>>
  BY Runs DEF senderVars, sessionVars
<1> HIDE DEF m
<1>2. ~InFrame'
  BY <1>1 DEF Assembler!HandleEnd, Assembler!Discard, Assembler!Ignore, Assembler!Commit,
              Assembler!assemblerVars, InFrame
<1>3. CASE ~(InFrame /\ Assembler!EndMatches(m))
  <2>1. UNCHANGED <<committedFrames, asmBytes, asmReceived>>
    BY <1>1, <1>3 DEF Assembler!HandleEnd, Assembler!Discard, Assembler!Ignore, Assembler!assemblerVars, InFrame
  <2> QED BY <1>1, <1>2, <2>1, AsidePreserves
<1>4. CASE InFrame /\ Assembler!EndMatches(m)
  <2>1. PICK C : C = [frameId |-> asmBegin.frameId, kind |-> asmBegin.kind, rects |-> asmReceived] OBVIOUS
  <2>2. asmBytes' = 0 /\ asmReceived' = <<>> /\ committedFrames' = Append(committedFrames, C)
    BY <1>1, <1>4, <2>1 DEF Assembler!HandleEnd, Assembler!Commit, InFrame
  <2>3. C.frameId = asmBegin.frameId BY <2>1
  <2>4. PICK i \in DOMAIN finished : finished[i] = C BY <1>1, <1>4, <2>1, CommitsFinished DEF m
  <2>5. /\ IsSeq(committedFrames') /\ committedFrames' # <<>>
        /\ committedFrames'[Len(committedFrames')] = C
    <3>1. IsSeq(committedFrames) /\ Len(committedFrames) \in Nat BY SeqIndices DEF LinkInv, TypesOK
    <3>2. /\ IsSeq(Append(committedFrames, C)) /\ Len(Append(committedFrames, C)) = Len(committedFrames) + 1
          /\ Append(committedFrames, C)[Len(committedFrames) + 1] = C
      BY <3>1, AppendKeeps
    <3>3. Append(committedFrames, C) # <<>> BY <3>1, <3>2, NonEmpty
    <3> QED BY <2>2, <3>2, <3>3
  <2>6. LastShown' = asmBegin.frameId BY <2>3, <2>5 DEF LastShown
  <2>7. HostInOrder'
    <3>1. \A o \in Coming' : o.type = "BEGIN" => Newer(o.frame)'
      BY <1>1, <1>4, <2>6, RunKeeps DEF LinkInv, HostInOrder, Newer
    <3> QED BY <1>1, <1>2, <2>4, <2>5, <3>1 DEF HostInOrder
  <2>8. HostHasFrame' BY <1>2 DEF HostHasFrame
  <2>9. IsSeq(asmReceived') BY <2>2, NothingIsSeq
  <2> QED BY <1>1, <2>2, <2>5, <2>7, <2>8, <2>9, HandshakeStays, RunsTo
<1> QED BY <1>3, <1>4

LEMMA HandshakePreserves ==
    ASSUME LinkInv, RunCallback, Head(callbacks).kind = "message", Head(callbacks).type = "HELLO",
           CompleteHandshake
    PROVE  LinkInv'
<1>1. HandedMessage /\ Handed.type = "HELLO" /\ ~HandedMessage' BY Runs
<1>2. stream' = <<>> BY <1>1, RunKeeps DEF LinkInv, HandshakeOK
<1>3. Coming' = {} BY <1>1, <1>2 DEF Coming
<1>4. /\ asmState' = "Idle" /\ asmBytes' = 0 /\ asmReceived' = <<>> /\ UNCHANGED committedFrames
  BY DEF CompleteHandshake, Assembler!AssemblerReset
<1>5. ~InFrame' BY <1>4 DEF InFrame
<1>6. HostInOrder' BY <1>3, <1>4, <1>5, RunKeeps DEF LinkInv, HostInOrder
<1>7. HostHasFrame' BY <1>5 DEF HostHasFrame
<1>8. HandshakeOK' BY <1>1, <1>2 DEF HandshakeOK
<1>9. IsSeq(asmReceived') /\ IsSeq(committedFrames') BY <1>4, NothingIsSeq DEF LinkInv, TypesOK
<1> QED BY <1>4, <1>6, <1>7, <1>8, <1>9, RunsTo

LEMMA CallbackPreserves == ASSUME LinkInv, RunCallback PROVE LinkInv'
<1> DEFINE c == Head(callbacks)
<1>1. CASE c.kind = "message" /\ c.type = "HELLO" /\ CompleteHandshake
  BY <1>1, HandshakePreserves
<1>2. ASSUME UNCHANGED <<senderVars, sessionVars>>
      PROVE  UNCHANGED handshaking
  BY <1>2 DEF sessionVars
<1>3. CASE c.kind = "error" /\ Assembler!OnStreamError /\ UNCHANGED <<senderVars, sessionVars>>
  <2>1. UNCHANGED <<committedFrames, asmBytes, asmReceived>>
    BY <1>3 DEF Assembler!OnStreamError, Assembler!Discard, Assembler!Ignore, Assembler!assemblerVars
  <2>2. ~InFrame'
    BY <1>3 DEF Assembler!OnStreamError, Assembler!Discard, Assembler!Ignore, Assembler!assemblerVars, InFrame
  <2> QED BY <1>2, <1>3, <2>1, <2>2, AsidePreserves
<1>4. CASE /\ c.kind = "message" /\ c.type = "BEGIN" /\ Assembler!HandleBegin(c.payload[1].msg)
           /\ UNCHANGED <<senderVars, sessionVars>>
  BY <1>4, HandedBegins
<1>5. CASE /\ c.kind = "message" /\ c.type = "RECT"
           /\ \E verdict \in BOOLEAN : Assembler!HandleRect(c.payload, verdict)
           /\ UNCHANGED <<senderVars, sessionVars>>
  BY <1>5, HandedRects
<1>6. CASE /\ c.kind = "message" /\ c.type = "END" /\ Assembler!HandleEnd(c.payload[1].msg)
           /\ UNCHANGED <<senderVars, sessionVars>>
  BY <1>6, HandedEnds
<1>7. CASE /\ c.kind = "message" /\ c.type \in {"PING", "HELLO"} /\ UNCHANGED asmVars
           /\ UNCHANGED <<senderVars, sessionVars>>
  <2>1. HandedMessage => Handed.type # "RECT" BY <1>7, Runs
  <2>2. UNCHANGED <<committedFrames, asmBytes, asmReceived, asmState, asmBegin>> BY <1>7 DEF asmVars
  <2> QED BY <1>2, <1>7, <2>1, <2>2, AsidePreserves
<1> QED BY <1>1, <1>3, <1>4, <1>5, <1>6, <1>7 DEF RunCallback
-----------------------------------------------------------------------------
LEMMA LinkStarts == FrameLinkInit => LinkInv
<1> SUFFICES ASSUME FrameLinkInit PROVE LinkInv OBVIOUS
<1>1. /\ callbacks = <<>> /\ payload = <<>> /\ stream = <<>> /\ finished = <<>> /\ frames = 0
      /\ committedFrames = <<>> /\ asmReceived = <<>> /\ asmBytes = 0 /\ asmState = "Idle"
      /\ sending = NothingSent /\ mustAbort = FALSE /\ finishedAtReconnect = 0
  BY DEF FrameLinkInit, DecoderInit, Assembler!AssemblerInit
<1>2. ~HandedMessage /\ ~InFrame /\ ~sending.open BY <1>1 DEF HandedMessage, InFrame, NothingSent
<1>3. Makings = {} /\ Coming = {} BY <1>1, <1>2 DEF Makings, Coming
<1>4. TypesOK
  <2>1. IsSeq(sending.rects) BY <1>1, NothingIsSeq DEF NothingSent
  <2>2. \A q : q = <<>> => IsSeq(q) BY NothingIsSeq
  <2> QED BY <1>1, <1>2, <1>3, <2>1, <2>2 DEF TypesOK
<1>5. CallbacksOK BY <1>1, <1>2 DEF CallbacksOK
<1>6. StreamOK BY <1>1, <1>2 DEF StreamOK
<1>7. FramesOK BY <1>1, <1>2, <1>3, BoundsAssumption DEF FramesOK
<1>8. SendingOK
  <2> DEFINE Q == Seq(Rects)
  <2>1. <<>> \in Q OBVIOUS
  <2> HIDE DEF Q
  <2>2. NothingSent \in [open : BOOLEAN, frame : Nat, kind : Kinds, rects : Q, bytes : Nat]
    BY <2>1 DEF NothingSent, Kinds
  <2> QED BY <1>1, <1>2, <2>2 DEF SendingOK, Q
<1>9. MadeFrames /\ ComesAsMade /\ EndsAreFinished
  BY <1>1, <1>3 DEF MadeFrames, ComesAsMade, EndsAreFinished
<1>10. HostInOrder /\ HandshakeOK /\ HostHasFrame
  BY <1>1, <1>2, <1>3 DEF HostInOrder, HandshakeOK, HostHasFrame
<1> QED BY <1>4, <1>5, <1>6, <1>7, <1>8, <1>9, <1>10 DEF LinkInv

LEMMA LinkSteps == LinkInv /\ [FrameLinkNext]_frameLinkVars => LinkInv'
<1> SUFFICES ASSUME LinkInv, [FrameLinkNext]_frameLinkVars PROVE LinkInv' OBVIOUS
<1>1. ASSUME NEW kind \in {"FULL", "PARTIAL"}, NEW valid \in BOOLEAN, NEW n \in 0..1,
             BeginFrame(kind, valid, n)
      PROVE  LinkInv'
  BY <1>1, BeginPreserves DEF Kinds
<1>2. ASSUME NEW parts \in 1..MaxParts, NEW n \in 0..parts, SendRectMessage(parts, n)
      PROVE  LinkInv'
  BY <1>2, RectPreserves
<1>3. ASSUME NEW aborted \in BOOLEAN, NEW n \in 0..1, EndFrame(aborted, n)
      PROVE  LinkInv'
  BY <1>3, EndPreserves
<1>4. CASE SendControl BY <1>4, ControlPreserves
<1>5. CASE Deliver \/ Lose \/ Damage \/ StallTimeout BY <1>5, ReceivePreserves DEF Receive
<1>6. CASE Reconnect BY <1>6, ReconnectPreserves
<1>7. CASE RunCallback BY <1>7, CallbackPreserves
<1>8. CASE UNCHANGED frameLinkVars
  <2>1. /\ UNCHANGED <<sending, frames, mustAbort, finished, finishedAtReconnect, handshaking, stream>>
        /\ UNCHANGED <<decoderVars, asmVars>>
    BY <1>8 DEF frameLinkVars, senderVars, sessionVars
  <2>2. HandedMessage' = HandedMessage /\ Handed' = Handed /\ Coming' = Coming /\ Makings' = Makings
        /\ FinishedFrame' = FinishedFrame /\ InFrame' = InFrame /\ LastShown' = LastShown
        /\ Pending' = Pending /\ Got' = Got
    BY <2>1 DEF HandedMessage, Handed, Coming, Makings, FinishedFrame, InFrame, LastShown, Pending, Got,
                decoderVars, asmVars
  <2>3. TypesOK' /\ CallbacksOK' /\ StreamOK' /\ FramesOK' /\ SendingOK' /\ MadeFrames' /\ ComesAsMade'
    BY <2>1, <2>2 DEF LinkInv, TypesOK, CallbacksOK, StreamOK, FramesOK, SendingOK, MadeFrames,
                      ComesAsMade, decoderVars, asmVars
  <2>4. EndsAreFinished' /\ HostInOrder' /\ HandshakeOK'
    BY <2>1, <2>2 DEF LinkInv, EndsAreFinished, HostInOrder, HandshakeOK, Newer, asmVars
  <2>5. HostHasFrame'
    BY <2>1, <2>2 DEF LinkInv, HostHasFrame, Live, Ahead, Exact, Misses, decoderVars, asmVars
  <2> QED BY <2>3, <2>4, <2>5 DEF LinkInv
<1> QED BY <1>1, <1>2, <1>3, <1>4, <1>5, <1>6, <1>7, <1>8 DEF FrameLinkNext

\* The invariant the refinement rests on: what is under way, what the host has and what the
\* device sent fit together (FrameAssembler, StreamDecoder and RemoteDisplay as one system).
THEOREM LinkInvariant == FrameLinkSpec => []LinkInv
BY LinkStarts, LinkSteps, PTL DEF FrameLinkSpec
-----------------------------------------------------------------------------
(* FrameDelivery.                                                          *)

\* A finished frame has one place among the finished frames.
LEMMA OnePlace ==
    ASSUME NEW q, DOMAIN q = 1..Len(q), Len(q) \in Nat,
           \A j \in DOMAIN q : q[j].frameId \in Nat,
           \A j, k \in DOMAIN q : j < k => q[j].frameId < q[k].frameId,
           NEW i \in DOMAIN q, NEW C, q[i] = C
    PROVE  (CHOOSE j \in DOMAIN q : q[j] = C) = i
<1>1. ASSUME NEW j \in DOMAIN q, q[j] = C PROVE j = i
  <2>1. ~(j < i) BY <1>1
  <2>2. ~(i < j) BY <1>1
  <2> QED BY <2>1, <2>2
<1>2. PICK k : k = CHOOSE j \in DOMAIN q : q[j] = C OBVIOUS
<1>3. k \in DOMAIN q /\ q[k] = C BY <1>2
<1> QED BY <1>1, <1>2, <1>3

LEMMA FinishedInOrder ==
    ASSUME LinkInv
    PROVE  /\ DOMAIN finished = 1..Len(finished) /\ Len(finished) \in Nat /\ IsSeq(finished)
           /\ \A j \in DOMAIN finished : finished[j].frameId \in Nat
           /\ \A j, k \in DOMAIN finished : j < k => finished[j].frameId < finished[k].frameId
BY SeqIndices, FrameNumbers DEF LinkInv, TypesOK, FramesOK

LEMMA ShownIs ==
    ASSUME LinkInv, committedFrames # <<>>
    PROVE  \E i \in DOMAIN finished :
              finished[i] = Last(committedFrames) /\ finished[i].frameId = LastShown /\ ShownUpTo = 1 + i
<1>1. PICK i \in DOMAIN finished : finished[i] = committedFrames[Len(committedFrames)]
  BY DEF LinkInv, HostInOrder
<1>2. finished[i] = Last(committedFrames) BY <1>1 DEF Last
<1>3. (CHOOSE j \in DOMAIN finished : finished[j] = Last(committedFrames)) = i
  BY <1>2, OnePlace, FinishedInOrder
<1>4. ShownUpTo = 1 + i BY <1>3 DEF ShownUpTo
<1> QED BY <1>1, <1>2, <1>4 DEF LastShown

\* What the host and the session see of a step.
seenVars == <<finished, finishedAtReconnect, handshaking, committedFrames, hasBase>>

LEMMA Unseen == ASSUME UNCHANGED seenVars PROVE UNCHANGED Delivery!vars
BY DEF seenVars, Delivery!vars, ShownUpTo

LEMMA EndDelivers ==
    ASSUME LinkInv, LinkInv', NEW aborted \in BOOLEAN, NEW n \in 0..1, EndFrame(aborted, n)
    PROVE  Delivery!Next \/ UNCHANGED Delivery!vars
<1>1. UNCHANGED <<finishedAtReconnect, handshaking, committedFrames, hasBase>>
  BY DEF EndFrame, sessionVars, asmVars
<1>2. CASE UNCHANGED finished BY <1>1, <1>2, Unseen DEF seenVars
<1>3. CASE finished' # finished
  <2>1. PICK G : G = FinishedFrame /\ finished' = Append(finished, G) BY <1>3 DEF EndFrame
  <2>2. /\ Len(finished') = Len(finished) + 1 /\ finished'[Len(finished) + 1] = G
        /\ DOMAIN finished' = DOMAIN finished \cup {Len(finished) + 1}
        /\ \A i \in DOMAIN finished : finished'[i] = finished[i]
    <3>1. /\ Len(Append(finished, G)) = Len(finished) + 1 /\ Append(finished, G)[Len(finished) + 1] = G
          /\ DOMAIN Append(finished, G) = DOMAIN finished \cup {Len(finished) + 1}
          /\ \A i \in DOMAIN finished : Append(finished, G)[i] = finished[i]
      BY FinishedInOrder, AppendKeeps
    <3> QED BY <2>1, <3>1
  <2>3. Delivery!Last(finished') = G BY <2>2 DEF Delivery!Last
  <2>4. ShownUpTo' = ShownUpTo
    <3>1. CASE committedFrames = <<>> BY <1>1, <3>1 DEF ShownUpTo
    <3>2. CASE committedFrames # <<>>
      <4>1. PICK i \in DOMAIN finished : finished[i] = Last(committedFrames) /\ ShownUpTo = 1 + i
        BY <3>2, ShownIs
      <4>2. PICK r, C : r = finished' /\ C = Last(committedFrames) OBVIOUS
      <4>3. /\ DOMAIN r = 1..Len(r) /\ Len(r) \in Nat
            /\ \A j \in DOMAIN r : r[j].frameId \in Nat
            /\ \A j, k \in DOMAIN r : j < k => r[j].frameId < r[k].frameId
        <5>1. /\ IsSeq(finished') /\ frames' \in 0..MaxFrames
              /\ \A j \in DOMAIN finished' : finished'[j].frameId \in 1..frames'
              /\ \A j, k \in DOMAIN finished' : j < k => finished'[j].frameId < finished'[k].frameId
          BY DEF LinkInv, TypesOK, FramesOK
        <5> QED BY <4>2, <5>1, SeqIndices, BoundsAssumption
      <4>4. i \in DOMAIN r /\ r[i] = C BY <2>2, <4>1, <4>2
      <4>5. (CHOOSE j \in DOMAIN r : r[j] = C) = i BY <4>3, <4>4, OnePlace
      <4> QED BY <1>1, <3>2, <4>1, <4>2, <4>5 DEF ShownUpTo
    <3> QED BY <3>1, <3>2
  <2>5. Delivery!Finish
    BY <1>1, <1>3, <2>1, <2>3, <2>4 DEF Delivery!Finish
  <2> QED BY <2>5 DEF Delivery!Next
<1> QED BY <1>2, <1>3

LEMMA CommitDelivers ==
    ASSUME LinkInv, LinkInv', HandedMessage, Handed.type = "END", InFrame,
           Assembler!EndMatches(Handed.payload[1].msg), Assembler!Commit(Handed.payload[1].msg),
           UNCHANGED <<finished, finishedAtReconnect, handshaking>>
    PROVE  Delivery!Show
<1>1. PICK C : C = [frameId |-> asmBegin.frameId, kind |-> asmBegin.kind, rects |-> asmReceived] OBVIOUS
<1>2. PICK i \in DOMAIN finished :
         finished[i] = C /\ finished[i].frameId = asmBegin.frameId /\ finished[i].kind = asmBegin.kind
  BY <1>1, CommitsFinished
<1>3. committedFrames' = Append(committedFrames, finished[i]) /\ hasBase' = TRUE
  BY <1>1, <1>2 DEF Assembler!Commit
<1>4. finished[i].kind = "FULL" \/ hasBase BY <1>2 DEF Assembler!EndMatches
<1>5. finished[i].frameId > LastShown
      /\ (~handshaking => \A j \in 1..finishedAtReconnect : finished[j].frameId < finished[i].frameId)
  BY <1>2 DEF LinkInv, HostInOrder, Newer
<1>6. i \in Nat /\ i <= Len(finished) /\ Len(finished) \in Nat /\ i >= 1 BY FinishedInOrder
<1>7. ShownUpTo \in Nat /\ ShownUpTo <= i
  <2>1. CASE committedFrames = <<>> BY <1>6, <2>1 DEF ShownUpTo
  <2>2. CASE committedFrames # <<>>
    <3>1. PICK k \in DOMAIN finished : finished[k].frameId = LastShown /\ ShownUpTo = 1 + k BY <2>2, ShownIs
    <3>2. k < i
      <4>1. ~(i < k) /\ i # k BY <1>5, <3>1, FinishedInOrder
      <4> QED BY <1>6, <3>1, <4>1, FinishedInOrder
    <3> QED BY <1>6, <3>1, <3>2, FinishedInOrder
  <2> QED BY <2>1, <2>2
<1>8. ~handshaking => i > finishedAtReconnect
  <2>1. ASSUME ~handshaking, i <= finishedAtReconnect PROVE FALSE
    <3>1. i \in 1..finishedAtReconnect BY <1>6, <2>1 DEF LinkInv, FramesOK
    <3> QED BY <1>5, <2>1, <3>1, FinishedInOrder
  <2> QED BY <1>6, <2>1 DEF LinkInv, FramesOK
<1>9. ShownUpTo' = i + 1
  <2>1. committedFrames' # <<>> /\ Last(committedFrames)' = finished[i]
    <3>1. IsSeq(committedFrames) /\ Len(committedFrames) \in Nat BY SeqIndices DEF LinkInv, TypesOK
    <3>2. PICK D, r : D = finished[i] /\ r = Append(committedFrames, D) OBVIOUS
    <3>3. IsSeq(r) /\ Len(r) = Len(committedFrames) + 1 /\ r[Len(committedFrames) + 1] = D
      BY <3>1, <3>2, AppendKeeps
    <3>4. r # <<>> BY <3>1, <3>3, NonEmpty
    <3>5. committedFrames' = r BY <1>3, <3>2
    <3> QED BY <3>2, <3>3, <3>4, <3>5 DEF Last
  <2>2. PICK q, D : q = finished /\ D = finished[i] OBVIOUS
  <2>3. (CHOOSE j \in DOMAIN q : q[j] = D) = i BY <2>2, OnePlace, FinishedInOrder
  <2>4. finished' = q /\ Last(committedFrames)' = D /\ committedFrames' # <<>> BY <2>1, <2>2
  <2>5. ShownUpTo' = 1 + CHOOSE j \in DOMAIN q : q[j] = D BY <2>4, Zenon DEF ShownUpTo
  <2>6. ShownUpTo' = 1 + i BY <2>3, <2>5
  <2> QED BY <1>6, <2>6
<1> QED BY <1>3, <1>4, <1>6, <1>7, <1>8, <1>9 DEF Delivery!Show

LEMMA CallbackDelivers ==
    ASSUME LinkInv, LinkInv', RunCallback
    PROVE  Delivery!Next \/ UNCHANGED Delivery!vars
<1> DEFINE c == Head(callbacks)
<1>1. CASE handshaking /\ CompleteHandshake
  <2>1. /\ handshaking' = FALSE /\ hasBase' = FALSE
        /\ UNCHANGED <<finished, finishedAtReconnect, committedFrames>>
    BY <1>1 DEF CompleteHandshake, Assembler!AssemblerReset
  <2>2. ShownUpTo' = ShownUpTo BY <2>1 DEF ShownUpTo
  <2>3. Delivery!Establish BY <1>1, <2>1, <2>2 DEF Delivery!Establish
  <2> QED BY <2>3 DEF Delivery!Next
<1>2. CASE /\ c.kind = "message" /\ c.type = "END" /\ Assembler!HandleEnd(c.payload[1].msg)
           /\ UNCHANGED <<senderVars, sessionVars>>
  <2>1. HandedMessage /\ c = Handed /\ Handed.type = "END" BY <1>2, Runs
  <2>2. UNCHANGED <<finished, finishedAtReconnect, handshaking>> BY <1>2 DEF senderVars, sessionVars
  <2>3. CASE InFrame /\ Assembler!EndMatches(c.payload[1].msg) /\ Assembler!Commit(c.payload[1].msg)
    BY <2>1, <2>2, <2>3, CommitDelivers DEF Delivery!Next
  <2>4. CASE UNCHANGED <<committedFrames, hasBase>> BY <2>2, <2>4, Unseen DEF seenVars
  <2> QED BY <1>2, <2>3, <2>4
      DEF Assembler!HandleEnd, Assembler!Ignore, Assembler!Discard, Assembler!assemblerVars, InFrame
<1>3. CASE UNCHANGED <<senderVars, sessionVars, committedFrames, hasBase>>
  BY <1>3, Unseen DEF seenVars, senderVars, sessionVars
<1>4. ASSUME Assembler!OnStreamError PROVE UNCHANGED <<committedFrames, hasBase>>
  BY <1>4 DEF Assembler!OnStreamError, Assembler!Ignore, Assembler!Discard, Assembler!assemblerVars
<1>5. ASSUME NEW m, Assembler!HandleBegin(m) PROVE UNCHANGED <<committedFrames, hasBase>>
  BY <1>5 DEF Assembler!HandleBegin, Assembler!StartFrame, Assembler!Ignore, Assembler!Discard,
              Assembler!assemblerVars
<1>6. ASSUME NEW chunks, NEW verdict, Assembler!HandleRect(chunks, verdict)
      PROVE  UNCHANGED <<committedFrames, hasBase>>
  BY <1>6 DEF Assembler!HandleRect, Assembler!Ignore, Assembler!Discard, Assembler!assemblerVars
<1> QED BY <1>1, <1>2, <1>3, <1>4, <1>5, <1>6 DEF RunCallback, asmVars

LEMMA ReconnectDelivers == ASSUME Reconnect PROVE Delivery!Reconnect
<1>1. /\ handshaking' = TRUE /\ finishedAtReconnect' = Len(finished) /\ hasBase' = FALSE
      /\ UNCHANGED <<finished, committedFrames>>
  BY DEF Reconnect, Assembler!AssemblerReset
<1>2. ShownUpTo' = ShownUpTo BY <1>1 DEF ShownUpTo
<1> QED BY <1>1, <1>2 DEF Delivery!Reconnect

LEMMA LinkStepDelivers ==
    LinkInv /\ LinkInv' /\ [FrameLinkNext]_frameLinkVars => [Delivery!Next]_(Delivery!vars)
<1> SUFFICES ASSUME LinkInv, LinkInv', [FrameLinkNext]_frameLinkVars
             PROVE  Delivery!Next \/ UNCHANGED Delivery!vars
  OBVIOUS
<1>1. CASE UNCHANGED seenVars BY <1>1, Unseen
<1>2. ASSUME NEW kind, NEW valid, NEW n, BeginFrame(kind, valid, n) PROVE UNCHANGED seenVars
  BY <1>2 DEF BeginFrame, seenVars, sessionVars, asmVars
<1>3. ASSUME NEW parts, NEW n, SendRectMessage(parts, n) PROVE UNCHANGED seenVars
  BY <1>3 DEF SendRectMessage, seenVars, sessionVars, asmVars
<1>4. ASSUME NEW aborted \in BOOLEAN, NEW n \in 0..1, EndFrame(aborted, n)
      PROVE  Delivery!Next \/ UNCHANGED Delivery!vars
  BY <1>4, EndDelivers
<1>5. ASSUME SendControl \/ Deliver \/ Lose \/ Damage \/ StallTimeout PROVE UNCHANGED seenVars
  BY <1>5 DEF SendControl, Deliver, Lose, Damage, StallTimeout, seenVars, senderVars, sessionVars, asmVars
<1>6. CASE Reconnect BY <1>6, ReconnectDelivers DEF Delivery!Next
<1>7. CASE RunCallback BY <1>7, CallbackDelivers
<1>8. ASSUME UNCHANGED frameLinkVars PROVE UNCHANGED seenVars
  BY <1>8 DEF frameLinkVars, seenVars, senderVars, sessionVars, asmVars
<1> QED BY <1>1, <1>2, <1>3, <1>4, <1>5, <1>6, <1>7, <1>8 DEF FrameLinkNext

\* The link shows finished frames only, whole, in order and once, whatever the byte stream
\* loses or damages (FrameAssembler::handleEnd, ProtocolEndpoint's resets).
THEOREM LinkDelivers == FrameLinkSpec => DeliversFinishedFrames
<1>1. FrameLinkInit => Delivery!Init
  BY DEF FrameLinkInit, Assembler!AssemblerInit, Delivery!Init, ShownUpTo
<1> QED BY <1>1, LinkInvariant, LinkStepDelivers, PTL DEF FrameLinkSpec, DeliversFinishedFrames, Delivery!Spec
-----------------------------------------------------------------------------
(* A frame that nothing touches is committed.  Here the numbers of packets *)
(* do matter: while nothing is lost they go on from one to the next.       *)

\* The numbers of the packets under way, and what the decoder makes of them.
NumbersOK ==
    /\ seq \in 0..(SeqSpace - 1)
    /\ \A i, j \in DOMAIN stream : j = i + 1 /\ stream[j].type # "HELLO" =>
          stream[j].seq = Succ(stream[i].seq)
    /\ \A i \in DOMAIN stream : i = Len(stream) => seq = Succ(stream[i].seq)
    /\ undisturbed =>
          /\ stream = <<>> => seq = expectedSeq
          /\ 1 \in DOMAIN stream /\ stream[1].type # "HELLO" => stream[1].seq = expectedSeq

\* What FRAME_END says of the messages, and the BEGIN that was refused.
CountsOK ==
    /\ InFrame => asmRects = Len(asmReceived)
    /\ \A F \in Makings, m \in Coming :
          m.type = "END" /\ ~m.aborted /\ m.frame = F.frameId => m.rects = Len(F.rects)
    /\ \A m \in Coming : m.type = "END" /\ m.aborted =>
          \A i \in DOMAIN finished : finished[i].frameId # m.frame
    /\ HandedMessage /\ Handed.type = "BEGIN" /\ whole => Handed.payload[1].msg.valid

\* Frame f goes on at place j of the stream, with its pixel n: with a packet that is under way
\* or, behind the last one, with what the device sends next.
GoesOn(j, f, n) ==
    \/ /\ j \in DOMAIN stream /\ stream[j].type = "RECT"
       /\ f = stream[j].chunk.msg.frame /\ n = Start(stream[j])
    \/ /\ j \in DOMAIN stream /\ stream[j].type = "END" /\ ~stream[j].chunk.msg.aborted
       /\ f = stream[j].chunk.msg.frame /\ n = stream[j].chunk.msg.bytes
    \/ /\ j = Len(stream) + 1 /\ sending.open /\ ~mustAbort
       /\ f = sending.frame /\ n = sending.bytes

\* Pixel n of frame f follows packet p.
LeadsTo(p, f, n) ==
    /\ p.type # "END" /\ p.chunk.msg.frame = f
    /\ p.type = "BEGIN" => n = 0
    /\ p.type = "RECT" => n = Stop(p)

\* Nothing of a frame is between places i and j.
Clear(i, j) == \A k \in DOMAIN stream : i < k /\ k < j => ~Framed(stream[k].chunk.msg)

\* Each frame is one piece: no pixel is left out between two packets of it.
OnePiece ==
    /\ \A j, f, n : GoesOn(j, f, n) =>
          \A i \in DOMAIN stream :
             i < j /\ Framed(stream[i].chunk.msg) /\ Clear(i, j) => LeadsTo(stream[i], f, n)
    /\ \A i, j \in DOMAIN stream : j = i + 1 /\ stream[j].chunk.part > 1 => stream[i].type = "RECT"
    /\ \A j \in DOMAIN stream : stream[j].type = "RECT" => stream[j].chunk.msg.parts <= MaxParts
    /\ HandedMessage /\ Handed.type = "END" => \A j, f, n : GoesOn(j, f, n) => ~Clear(0, j)

\* The END of frame f is still to come, or to be sent.
LiveNumber(f) ==
    \/ sending.open /\ ~mustAbort /\ sending.frame = f
    \/ \E m \in Coming : m.type = "END" /\ ~m.aborted /\ m.frame = f

\* The host waits for pixel n of frame f.
HostAt(f, n) ==
    \/ /\ HandedMessage /\ Handed.type = "BEGIN"
       /\ Handed.payload[1].msg.frame = f /\ n = 0
    \/ /\ ~(HandedMessage /\ Handed.type = "BEGIN")
       /\ InFrame /\ asmBegin.frameId = f /\ Got = n
       /\ callbacks # <<>> => HandedMessage /\ callbacks = <<Handed>>

\* As long as nothing has touched the frame, the host waits for what comes.
Good == whole /\ preceded
HostReady ==
    Good =>
       /\ undisturbed =>
             \A j, f, n : GoesOn(j, f, n) /\ Clear(0, j) /\ LiveNumber(f) => HostAt(f, n)
       /\ HandedMessage /\ Handed.type = "END" /\ ~Handed.payload[1].msg.aborted =>
             HostAt(Handed.payload[1].msg.frame, Handed.payload[1].msg.bytes)

FlowInv == LinkInv /\ NumbersOK /\ CountsOK /\ OnePiece /\ HostReady
-----------------------------------------------------------------------------
(* The numbers of packets.                                                 *)

LEMMA MultipleAnd ==
    ASSUME NEW S \in Nat \ {0}, NEW q \in Nat, NEW r \in 0..(S - 1)
    PROVE  (S * q + r) % S = r
OBVIOUS

LEMMA SuccMod ==
    ASSUME NEW S \in Nat \ {0}, NEW a \in Nat
    PROVE  ((a % S) + 1) % S = (a + 1) % S
<1>1. PICK r \in 0..(S - 1), q \in Nat : a % S = r /\ a = S * q + r
  <2>1. a % S \in 0..(S - 1) /\ a = S * (a \div S) + (a % S) /\ a \div S \in Nat OBVIOUS
  <2> QED BY <2>1
<1>2. CASE r + 1 < S
  <2>1. (r + 1) % S = r + 1 BY <1>2
  <2>2. a + 1 = S * q + (r + 1) BY <1>1
  <2>3. r + 1 \in 0..(S - 1) BY <1>2
  <2>4. (S * q + (r + 1)) % S = r + 1 BY <2>3, MultipleAnd
  <2> QED BY <1>1, <2>1, <2>2, <2>4
<1>3. CASE r + 1 = S
  <2>1. S % S = 0 OBVIOUS
  <2>2. a + 1 = S * q + S BY <1>1, <1>3
  <2>3. a + 1 = S * (q + 1) + 0 BY <2>2
  <2>4. q + 1 \in Nat /\ 0 \in 0..(S - 1) OBVIOUS
  <2>5. (S * (q + 1) + 0) % S = 0 BY <2>4, MultipleAnd
  <2> QED BY <1>1, <1>3, <2>1, <2>3, <2>5
<1> QED BY <1>2, <1>3

LEMMA SuccIs ==
    /\ \A a \in Nat : Succ(a % SeqSpace) = (a + 1) % SeqSpace
    /\ \A a \in 0..(SeqSpace - 1) : a % SeqSpace = a
    /\ \A a \in Nat : a % SeqSpace \in 0..(SeqSpace - 1)
<1>1. SeqSpace \in Nat \ {0} BY SeqSpaceAssumption
<1>2. ASSUME NEW a \in Nat PROVE Succ(a % SeqSpace) = (a + 1) % SeqSpace
  BY <1>1, SuccMod DEF Succ
<1>3. \A a \in 0..(SeqSpace - 1) : a % SeqSpace = a BY <1>1
<1>4. \A a \in Nat : a % SeqSpace \in 0..(SeqSpace - 1) BY <1>1
<1> QED BY <1>2, <1>3, <1>4

LEMMA EmittedNumbers ==
    ASSUME NEW m \in Messages, NEW n \in 0..m.parts, Emit(m, n), IsSeq(stream)
    PROVE  \A i \in DOMAIN stream' \ DOMAIN stream :
              stream'[i].seq = (seq + (i - Len(stream)) - 1) % SeqSpace
<1> DEFINE P == Packets(m, n)
<1>1. IsSeq(P) /\ Len(P) = n /\ DOMAIN P = 1..n
  <2>1. P = [k \in 1..n |-> P[k]] BY DEF Packets
  <2> HIDE DEF P
  <2>2. IsSeq(P) /\ Len(P) = n BY <2>1, FunctionSeq
  <2> QED BY <2>2, SeqIndices
<1>2. \A k \in 1..n : P[k].seq = (seq + k - 1) % SeqSpace BY DEF Packets, Packet
<1>3. stream' = stream \o P BY DEF Emit
<1> HIDE DEF P
<1>4. \A i \in DOMAIN (stream \o P) \ DOMAIN stream :
         i - Len(stream) \in DOMAIN P /\ (stream \o P)[i] = P[i - Len(stream)]
  BY <1>1, ConcatKeeps
<1> QED BY <1>1, <1>2, <1>3, <1>4

\* Packets that are sent take the next numbers.
LEMMA NumbersGrow ==
    ASSUME LinkInv, NumbersOK, NEW m \in Messages, NEW n \in 0..m.parts, Emit(m, n),
           UNCHANGED <<undisturbed, expectedSeq>>
    PROVE  NumbersOK'
<1> DEFINE L == Len(stream)
<1>1. IsSeq(stream) /\ L \in Nat /\ DOMAIN stream = 1..L /\ (stream = <<>> <=> L = 0)
  BY SeqIndices, NonEmpty DEF LinkInv, TypesOK
<1>2. m.parts \in Nat /\ n \in Nat BY MessageTyped
<1>3. /\ IsSeq(stream') /\ Len(stream') = L + n
      /\ \A i \in DOMAIN stream : i \in DOMAIN stream' /\ stream'[i] = stream[i]
  BY <1>1, Emitted
<1>4. \A i \in DOMAIN stream' \ DOMAIN stream : stream'[i].seq = (seq + (i - L) - 1) % SeqSpace
  BY <1>1, <1>2, EmittedNumbers
<1>5. DOMAIN stream' = 1..(L + n) /\ (stream' = <<>> <=> L + n = 0) BY <1>3, SeqIndices, NonEmpty
<1> HIDE DEF L
<1>6. seq' = (seq + n) % SeqSpace BY DEF Emit, EncodeStream
<1>7. seq \in Nat /\ SeqSpace \in Nat \ {0} /\ seq % SeqSpace = seq
  <2>1. seq \in 0..(SeqSpace - 1) BY DEF NumbersOK
  <2>2. seq % SeqSpace = seq BY <2>1, SuccIs
  <2> QED BY <2>1, <2>2, SeqSpaceAssumption
<1>8. seq' \in 0..(SeqSpace - 1)
  <2>1. PICK a \in Nat : a = seq + n BY <1>2, <1>7
  <2>2. a % SeqSpace \in 0..(SeqSpace - 1) BY SuccIs
  <2> QED BY <1>6, <2>1, <2>2
<1>9. \A i \in (L + 1)..(L + n) : Succ(stream'[i].seq) = (seq + (i - L)) % SeqSpace
  <2>1. ASSUME NEW i \in (L + 1)..(L + n) PROVE Succ(stream'[i].seq) = (seq + (i - L)) % SeqSpace
    <3>1. i \in DOMAIN stream' \ DOMAIN stream BY <1>1, <1>2, <1>5
    <3>2. PICK a \in Nat : a = seq + (i - L) - 1 BY <1>1, <1>2, <1>7
    <3>3. stream'[i].seq = a % SeqSpace BY <1>4, <3>1, <3>2
    <3>4. a + 1 = seq + (i - L) BY <1>1, <1>7, <3>2
    <3>5. Succ(a % SeqSpace) = (a + 1) % SeqSpace BY SuccIs
    <3> QED BY <3>3, <3>4, <3>5
  <2> QED BY <2>1
<1>10. \A i, j \in DOMAIN stream' : j = i + 1 /\ stream'[j].type # "HELLO" =>
          stream'[j].seq = Succ(stream'[i].seq)
  <2>1. ASSUME NEW i \in DOMAIN stream', NEW j \in DOMAIN stream', j = i + 1, stream'[j].type # "HELLO"
        PROVE  stream'[j].seq = Succ(stream'[i].seq)
    <3>1. CASE j \in DOMAIN stream
      <4>1. i \in DOMAIN stream BY <1>1, <1>5, <2>1, <3>1
      <4> QED BY <1>3, <2>1, <3>1, <4>1 DEF NumbersOK
    <3>2. CASE i = L
      <4>1. i \in DOMAIN stream /\ j \notin DOMAIN stream /\ j - L = 1 BY <1>1, <1>5, <2>1, <3>2
      <4>2. stream'[j].seq = (seq + 1 - 1) % SeqSpace BY <1>4, <4>1
      <4>3. stream'[j].seq = seq BY <1>7, <4>2
      <4>4. seq = Succ(stream[i].seq) BY <3>2, <4>1 DEF NumbersOK, L
      <4> QED BY <1>3, <4>1, <4>3, <4>4
    <3>3. CASE i > L
      <4>1. i \in (L + 1)..(L + n) /\ j \notin DOMAIN stream BY <1>1, <1>2, <1>5, <2>1, <3>3
      <4>2. stream'[j].seq = (seq + (j - L) - 1) % SeqSpace BY <1>4, <4>1
      <4>3. (seq + (j - L) - 1) = seq + (i - L) BY <1>1, <1>7, <2>1, <4>1
      <4> QED BY <1>9, <4>1, <4>2, <4>3
    <3> QED BY <1>1, <1>2, <1>5, <2>1, <3>1, <3>2, <3>3
  <2> QED BY <2>1
<1>11. \A i \in DOMAIN stream' : i = Len(stream') => seq' = Succ(stream'[i].seq)
  <2>1. ASSUME NEW i \in DOMAIN stream', i = L + n PROVE seq' = Succ(stream'[i].seq)
    <3>1. CASE n = 0
      <4>1. i \in DOMAIN stream /\ i = L /\ seq' = seq BY <1>1, <1>5, <1>6, <1>7, <2>1, <3>1
      <4> QED BY <1>3, <4>1 DEF NumbersOK, L
    <3>2. CASE n # 0
      <4>1. i \in (L + 1)..(L + n) /\ i - L = n BY <1>1, <1>2, <2>1, <3>2
      <4> QED BY <1>6, <1>9, <4>1
    <3> QED BY <3>1, <3>2
  <2> QED BY <1>3, <2>1
<1>12. ASSUME undisturbed'
       PROVE  /\ stream' = <<>> => seq' = expectedSeq'
              /\ 1 \in DOMAIN stream' /\ stream'[1].type # "HELLO" => stream'[1].seq = expectedSeq'
  <2>1. /\ stream = <<>> => seq = expectedSeq
        /\ 1 \in DOMAIN stream /\ stream[1].type # "HELLO" => stream[1].seq = expectedSeq
    BY <1>12 DEF NumbersOK
  <2>2. stream' = <<>> => n = 0 /\ stream = <<>> BY <1>1, <1>2, <1>5
  <2>3. n = 0 => seq' = seq BY <1>6, <1>7
  <2>4. CASE 1 \in DOMAIN stream BY <1>3, <2>1, <2>2, <2>3, <2>4
  <2>5. CASE 1 \notin DOMAIN stream
    <3>1. L = 0 /\ stream = <<>> BY <1>1, <2>5
    <3>2. 1 \in DOMAIN stream' => stream'[1].seq = (seq + (1 - 0) - 1) % SeqSpace BY <1>4, <2>5, <3>1
    <3>3. seq + (1 - 0) - 1 = seq BY <1>7
    <3> QED BY <1>7, <2>1, <2>2, <2>3, <3>1, <3>2, <3>3
  <2> QED BY <2>4, <2>5
<1> QED BY <1>8, <1>10, <1>11, <1>12 DEF NumbersOK

LEMMA NumbersReceived == ASSUME LinkInv, NumbersOK, Receive PROVE NumbersOK'
<1>1. UNCHANGED seq BY Receives DEF senderVars
<1>2. IsSeq(stream') /\ DOMAIN stream' = 1..Len(stream') /\ Len(stream') \in Nat BY Advances
<1>3. PICK d \in {0, 1} :
         /\ d = 0 => stream' = stream /\ ~Skips
         /\ d = 1 => Skips /\ 1 \in DOMAIN stream
         /\ Len(stream) = Len(stream') + d
         /\ \A i \in DOMAIN stream' : i + d \in DOMAIN stream /\ stream'[i] = stream[i + d]
  BY Advances
<1>4. \A i, j \in DOMAIN stream' : j = i + 1 /\ stream'[j].type # "HELLO" =>
         stream'[j].seq = Succ(stream'[i].seq)
  <2>1. \A i, j \in DOMAIN stream' : j = i + 1 => j + d = (i + d) + 1 BY <1>2
  <2> QED BY <1>3, <2>1 DEF NumbersOK
<1>5. \A i \in DOMAIN stream' : i = Len(stream') => seq' = Succ(stream'[i].seq)
  BY <1>1, <1>2, <1>3 DEF NumbersOK
<1>6. ASSUME undisturbed'
      PROVE  /\ stream' = <<>> => seq' = expectedSeq'
             /\ 1 \in DOMAIN stream' /\ stream'[1].type # "HELLO" => stream'[1].seq = expectedSeq'
  <2>1. Deliver BY <1>6 DEF Receive, Lose, Damage, StallTimeout, StreamFault, Disturb
  <2>2. d = 1 BY <1>3, <2>1 DEF Deliver, Skips
  <2>3. 1 \in DOMAIN stream /\ Head(stream) = stream[1]
    <3>1. IsSeq(stream) BY DEF LinkInv, TypesOK
    <3> QED BY <1>3, <2>2, <3>1, TailKeeps DEF Skips
  <2>4. expectedSeq' = Succ(stream[1].seq) BY <2>1, <2>3 DEF Deliver, VerifiedPacket
  <2>5. ASSUME stream' = <<>> PROVE seq' = expectedSeq'
    <3>1. Len(stream') = 0 BY <1>2, <2>5, NonEmpty
    <3>2. seq = Succ(stream[1].seq) BY <1>3, <2>2, <2>3, <3>1 DEF NumbersOK
    <3> QED BY <1>1, <2>4, <3>2
  <2>6. ASSUME 1 \in DOMAIN stream', stream'[1].type # "HELLO" PROVE stream'[1].seq = expectedSeq'
    <3>1. 2 \in DOMAIN stream /\ stream'[1] = stream[2] /\ 2 = 1 + 1 BY <1>3, <2>2, <2>6
    <3>2. stream[2].seq = Succ(stream[1].seq) BY <2>3, <2>6, <3>1 DEF NumbersOK
    <3> QED BY <2>4, <3>1, <3>2
  <2> QED BY <2>5, <2>6
<1> QED BY <1>1, <1>4, <1>5, <1>6 DEF NumbersOK

LEMMA NumbersRestart == ASSUME LinkInv, NumbersOK, Reconnect PROVE NumbersOK'
<1>1. /\ ~undisturbed' /\ seq' = 1 % SeqSpace
      /\ stream' = Append(stream, Packet(HelloMsg, 1, 0))
  BY DEF Reconnect, Disturb
<1>2. PICK h : h = Packet(HelloMsg, 1, 0) OBVIOUS
<1>3. h.type = "HELLO" /\ h.seq = 0 % SeqSpace
  <2>1. h.type = "HELLO" /\ h.seq = (0 + 1 - 1) % SeqSpace BY <1>2 DEF Packet, HelloMsg
  <2>2. 0 + 1 - 1 = 0 OBVIOUS
  <2> QED BY <2>1, <2>2
<1>4. seq' = Succ(h.seq) /\ seq' \in 0..(SeqSpace - 1)
  <2>1. Succ(0 % SeqSpace) = (0 + 1) % SeqSpace /\ 1 % SeqSpace \in 0..(SeqSpace - 1) BY SuccIs
  <2>2. 0 + 1 = 1 OBVIOUS
  <2> QED BY <1>1, <1>3, <2>1, <2>2
<1>5. /\ Len(stream') = Len(stream) + 1 /\ stream'[Len(stream) + 1] = h
      /\ \A i \in DOMAIN stream : stream'[i] = stream[i]
      /\ DOMAIN stream' = DOMAIN stream \cup {Len(stream) + 1} /\ DOMAIN stream = 1..Len(stream)
      /\ Len(stream) \in Nat
  <2>1. IsSeq(stream) BY DEF LinkInv, TypesOK
  <2>2. stream' = Append(stream, h) BY <1>1, <1>2
  <2> QED BY <2>1, <2>2, LongerByOne, SeqIndices
<1>6. \A i, j \in DOMAIN stream' : j = i + 1 /\ stream'[j].type # "HELLO" =>
         stream'[j].seq = Succ(stream'[i].seq)
  <2>1. ASSUME NEW i \in DOMAIN stream', NEW j \in DOMAIN stream', j = i + 1, stream'[j].type # "HELLO"
        PROVE  i \in DOMAIN stream /\ j \in DOMAIN stream
    BY <1>3, <1>5, <2>1
  <2> QED BY <1>5, <2>1 DEF NumbersOK
<1>7. \A i \in DOMAIN stream' : i = Len(stream') => seq' = Succ(stream'[i].seq) BY <1>4, <1>5
<1> QED BY <1>1, <1>4, <1>6, <1>7 DEF NumbersOK

LEMMA NumbersRun == ASSUME LinkInv, NumbersOK, RunCallback PROVE NumbersOK'
<1>1. UNCHANGED <<stream, undisturbed>> BY DEF RunCallback, historyVars
<1>2. CASE UNCHANGED <<seq, expectedSeq>> BY <1>1, <1>2 DEF NumbersOK
<1>3. CASE /\ Head(callbacks).kind = "message" /\ Head(callbacks).type = "HELLO"
           /\ CompleteHandshake
  <2>1. HandedMessage /\ Handed.type = "HELLO" BY <1>3, Runs
  <2>2. stream' = <<>> BY <1>1, <2>1 DEF LinkInv, HandshakeOK
  <2>3. DOMAIN stream' = {} BY <2>2
  <2>4. seq' = 0 /\ expectedSeq' = 0 BY <1>3 DEF CompleteHandshake
  <2>5. seq' \in 0..(SeqSpace - 1) BY <2>4, SeqSpaceAssumption
  <2> QED BY <2>2, <2>3, <2>4, <2>5 DEF NumbersOK
<1> QED BY <1>2, <1>3 DEF RunCallback, senderVars
-----------------------------------------------------------------------------
(* What FRAME_END says.                                                    *)

LEMMA SendsComing ==
    ASSUME LinkInv, NEW m \in Messages, NEW n \in 0..m.parts, Emit(m, n), UNCHANGED decoderVars
    PROVE  /\ Coming' \subseteq Coming \cup {m} /\ (n = 0 => Coming' \subseteq Coming)
           /\ (HandedMessage' <=> HandedMessage) /\ Handed' = Handed
<1>1. IsSeq(stream) /\ Len(stream) \in Nat /\ DOMAIN stream = 1..Len(stream)
  BY SeqIndices DEF LinkInv, TypesOK
<1>2. (HandedMessage' <=> HandedMessage) /\ Handed' = Handed BY DEF decoderVars, HandedMessage, Handed
<1>3. /\ \A i \in DOMAIN stream : stream'[i] = stream[i]
      /\ \A i \in DOMAIN stream' \ DOMAIN stream :
            i - Len(stream) \in 1..n /\ stream'[i].chunk.msg = m
  BY <1>1, Emitted
<1>4. {stream'[i].chunk.msg : i \in DOMAIN stream'}
         \subseteq {stream[i].chunk.msg : i \in DOMAIN stream} \cup {m}
  BY <1>3
<1>5. n = 0 => {stream'[i].chunk.msg : i \in DOMAIN stream'}
                  \subseteq {stream[i].chunk.msg : i \in DOMAIN stream}
  BY <1>3
<1> QED BY <1>2, <1>4, <1>5 DEF Coming

LEMMA CountsBegin ==
    ASSUME LinkInv, CountsOK, NEW kind \in Kinds, NEW valid \in BOOLEAN, NEW n \in 0..1,
           BeginFrame(kind, valid, n)
    PROVE  CountsOK'
<1>1. PICK m : m = BeginMsg(frames + 1, kind, valid) OBVIOUS
<1>2. /\ ~sending.open /\ frames < MaxFrames /\ UNCHANGED <<finished, decoderVars, asmVars, whole>>
      /\ Emit(m, n) /\ frames' = frames + 1
      /\ \/ sending'.frame = frames + 1
         \/ ~sending'.open
  BY <1>1 DEF BeginFrame, historyVars, NothingSent
<1>3. m \in Messages /\ m.type = "BEGIN" /\ m.parts = 1
  BY <1>1, FrameNumbers DEF BeginMsg, Messages, Begins
<1>4. /\ Coming' \subseteq Coming \cup {m}
      /\ (HandedMessage' <=> HandedMessage) /\ Handed' = Handed
  BY <1>2, <1>3, SendsComing
<1>5. \A o \in Coming' : o.type = "END" => o \in Coming /\ o.frame \in 1..frames
  BY <1>3, <1>4, ComingIs DEF Framed
<1>6. frames \in Nat BY FrameNumbers
<1>7. \A F \in Makings' : F \in Makings \/ F.frameId = frames + 1
  <2>1. sending'.open => FinishedFrame'.frameId = frames + 1 BY <1>2, <1>6 DEF FinishedFrame
  <2> QED BY <1>2, <2>1 DEF Makings
<1>8. \A F \in Makings', o \in Coming' :
         o.type = "END" /\ ~o.aborted /\ o.frame = F.frameId => o.rects = Len(F.rects)
  BY <1>5, <1>6, <1>7 DEF CountsOK
<1> QED BY <1>2, <1>4, <1>5, <1>8 DEF CountsOK, InFrame, asmVars

LEMMA CountsRect ==
    ASSUME LinkInv, CountsOK, NEW parts \in 1..MaxParts, NEW n \in 0..parts,
           SendRectMessage(parts, n)
    PROVE  CountsOK'
<1>1. PICK m : m = RectMsg(sending.frame, sending.bytes, parts) OBVIOUS
<1>2. /\ sending.open /\ UNCHANGED <<frames, finished, decoderVars, asmVars, whole>>
      /\ Emit(m, n) /\ sending'.frame = sending.frame
  BY <1>1 DEF SendRectMessage, historyVars, LinkInv, SendingOK
<1>3. sending.frame = frames /\ frames \in Nat /\ \A o \in Coming : o.type = "END" => o.frame < frames
  BY <1>2, FrameNumbers DEF LinkInv, FramesOK
<1>4. m \in Messages /\ m.type = "RECT" /\ m.parts = parts
  <2>1. parts \in Nat \ {0} BY BoundsAssumption
  <2>2. sending.bytes \in Nat BY DEF LinkInv, SendingOK
  <2> QED BY <1>1, <1>3, <2>1, <2>2 DEF RectMsg, Messages, Rects
<1>5. /\ Coming' \subseteq Coming \cup {m}
      /\ (HandedMessage' <=> HandedMessage) /\ Handed' = Handed
  BY <1>2, <1>4, SendsComing
<1>6. \A o \in Coming' : o.type = "END" => o \in Coming /\ o.frame < frames BY <1>3, <1>4, <1>5
<1>7. \A F \in Makings' : F \in Makings \/ F.frameId = frames
  <2>1. FinishedFrame'.frameId = frames
    BY <1>2, <1>3 DEF FinishedFrame
  <2> QED BY <1>2, <2>1 DEF Makings
<1>8. \A F \in Makings', o \in Coming' :
         o.type = "END" /\ ~o.aborted /\ o.frame = F.frameId => o.rects = Len(F.rects)
  BY <1>3, <1>6, <1>7 DEF CountsOK
<1> QED BY <1>2, <1>5, <1>6, <1>8 DEF CountsOK, InFrame, asmVars

LEMMA CountsEnd ==
    ASSUME LinkInv, CountsOK, NEW aborted \in BOOLEAN, NEW n \in 0..1, EndFrame(aborted, n)
    PROVE  CountsOK'
<1>1. PICK m : m = EndMsg(sending.frame, Len(sending.rects), sending.bytes, aborted) OBVIOUS
<1>2. /\ sending.open /\ UNCHANGED <<frames, decoderVars, asmVars, whole>>
      /\ Emit(m, n) /\ ~sending'.open /\ (mustAbort => aborted)
      /\ finished' = IF n = 1 /\ ~aborted THEN Append(finished, FinishedFrame) ELSE finished
  BY <1>1 DEF EndFrame, historyVars, NothingSent
<1>3. /\ sending.frame = frames /\ frames \in Nat
      /\ \A o \in Coming : o.type = "END" => o.frame < frames
      /\ \A i \in DOMAIN finished : finished[i].frameId < frames
      /\ FinishedFrame.frameId = frames
  BY <1>2, FrameNumbers DEF LinkInv, FramesOK
<1>4. /\ m \in Messages /\ m.type = "END" /\ m.parts = 1 /\ m.frame = frames
      /\ m.aborted = aborted /\ m.rects = Len(sending.rects)
  <2>1. sending.bytes \in Nat /\ Len(sending.rects) \in Nat BY SeqIndices DEF LinkInv, SendingOK, TypesOK
  <2> QED BY <1>1, <1>3, <2>1 DEF EndMsg, Messages, Ends
<1>5. /\ Coming' \subseteq Coming \cup {m} /\ (n = 0 => Coming' \subseteq Coming)
      /\ (HandedMessage' <=> HandedMessage) /\ Handed' = Handed
  BY <1>2, <1>4, SendsComing
<1>6. IsSeq(finished) BY DEF LinkInv, TypesOK
<1>7. \A i \in DOMAIN finished' :
         \/ i \in DOMAIN finished /\ finished'[i] = finished[i]
         \/ n = 1 /\ ~aborted /\ finished'[i] = FinishedFrame
  <2>1. CASE n = 1 /\ ~aborted
    <3>1. PICK F : F = FinishedFrame OBVIOUS
    <3>2. finished' = Append(finished, F) BY <1>2, <2>1, <3>1
    <3> QED BY <1>6, <2>1, <3>1, <3>2, LongerByOne
  <2>2. CASE ~(n = 1 /\ ~aborted) BY <1>2, <2>2
  <2> QED BY <2>1, <2>2
<1>8. \A F \in Makings' : F \in {finished[i] : i \in DOMAIN finished} \/ (n = 1 /\ ~aborted /\ F = FinishedFrame)
  BY <1>2, <1>7 DEF Makings
<1>9. Len(FinishedFrame.rects) = Len(sending.rects)
  <2>1. IsSeq(sending.rects) BY DEF LinkInv, TypesOK
  <2>2. PICK q, k : q = FinishedFrame.rects /\ k = Len(sending.rects) OBVIOUS
  <2>3. k \in Nat /\ DOMAIN sending.rects = 1..k BY <2>1, <2>2, SeqIndices
  <2>4. q = [i \in DOMAIN sending.rects |-> Payload(sending.rects[i])] BY <2>2 DEF FinishedFrame
  <2>5. q = [i \in 1..k |-> q[i]] BY <2>3, <2>4
  <2> QED BY <2>2, <2>3, <2>5, FunctionSeq
<1>10. ASSUME NEW F \in Makings', NEW o \in Coming', o.type = "END", ~o.aborted, o.frame = F.frameId
       PROVE  o.rects = Len(F.rects)
  <2>1. CASE o = m
    <3>1. F.frameId = frames BY <1>4, <1>10, <2>1
    <3>2. F = FinishedFrame BY <1>3, <1>8, <3>1
    <3> QED BY <1>4, <1>9, <2>1, <3>2
  <2>2. CASE o # m
    <3>1. o \in Coming /\ o.frame < frames BY <1>3, <1>5, <1>10, <2>2
    <3>2. F # FinishedFrame BY <1>3, <1>10, <3>1
    <3>3. F \in Makings BY <1>8, <3>2 DEF Makings
    <3> QED BY <1>10, <3>1, <3>3 DEF CountsOK
  <2> QED BY <2>1, <2>2
<1>11. ASSUME NEW o \in Coming', o.type = "END", o.aborted, NEW i \in DOMAIN finished'
       PROVE  finished'[i].frameId # o.frame
  <2>1. CASE o = m
    <3>1. aborted BY <1>4, <1>11, <2>1
    <3> QED BY <1>3, <1>4, <1>7, <2>1, <3>1
  <2>2. CASE o # m
    <3>1. o \in Coming /\ o.frame < frames BY <1>3, <1>5, <1>11, <2>2
    <3> QED BY <1>3, <1>7, <1>11, <3>1 DEF CountsOK
  <2> QED BY <2>1, <2>2
<1> QED BY <1>2, <1>5, <1>10, <1>11 DEF CountsOK, InFrame, asmVars

LEMMA CountsControl == ASSUME LinkInv, CountsOK, SendControl PROVE CountsOK'
<1>1. PICK m : m = ControlMsg OBVIOUS
<1>2. Emit(m, 1) /\ UNCHANGED <<sending, mustAbort, finished, decoderVars, asmVars, whole>>
  BY <1>1 DEF SendControl, historyVars
<1>3. m \in Messages /\ m.type = "PING" /\ m.parts = 1 BY <1>1 DEF Messages, ControlMsg
<1>4. /\ Coming' \subseteq Coming \cup {m}
      /\ (HandedMessage' <=> HandedMessage) /\ Handed' = Handed
  BY <1>2, <1>3, SendsComing
<1>5. \A o \in Coming' : o.type = "END" => o \in Coming BY <1>3, <1>4
<1>6. Makings' = Makings BY <1>2 DEF Makings, FinishedFrame
<1> QED BY <1>2, <1>4, <1>5, <1>6 DEF CountsOK, InFrame, asmVars

\* What is handed over was the first of the packets under way.
LEMMA HandsFirst ==
    ASSUME LinkInv, Receive
    PROVE  /\ Coming' \subseteq Coming /\ Makings' = Makings
           /\ HandedMessage' => Deliver
           /\ HandedMessage' /\ Handed'.type # "RECT" =>
                 /\ HandsOver(stream[1]) /\ 1 \in DOMAIN stream
                 /\ Handed'.type = stream[1].type /\ Handed'.payload[1] = stream[1].chunk
<1>1. PICK d \in {0, 1} :
         /\ d = 1 => Skips /\ 1 \in DOMAIN stream
         /\ d = 0 => ~Skips
         /\ \A i \in DOMAIN stream' : i + d \in DOMAIN stream /\ stream'[i] = stream[i + d]
  BY Advances
<1>2. PICK p : p = stream[1] OBVIOUS
<1>3. ASSUME HandedMessage', Handed'.type # "RECT"
      PROVE  /\ HandsOver(p) /\ 1 \in DOMAIN stream
             /\ Handed'.type = p.type /\ Handed'.payload[1] = p.chunk
  <2>1. HandsOver(p) BY <1>2, <1>3, Receives, Outcomes
  <2>2. Handed'.type = p.type /\ Handed'.payload = <<p.chunk>> BY <2>1, Outcomes
  <2>3. 1 \in DOMAIN stream BY <1>1, <2>1 DEF HandsOver
  <2> QED BY <2>1, <2>2, <2>3
<1>4. Coming' \subseteq Coming
  <2>1. \A i \in DOMAIN stream' : stream'[i].chunk.msg \in Coming BY <1>1 DEF Coming
  <2>2. HandedMessage' /\ Handed'.type # "RECT" => Handed'.payload[1].msg \in Coming
    BY <1>2, <1>3 DEF Coming
  <2> QED BY <2>1, <2>2 DEF Coming
<1>5. Makings' = Makings BY Receives DEF Makings, FinishedFrame, senderVars
<1>6. HandedMessage' => Deliver
  <2>1. callbacks' \in {<<>>, <<Error>>} => ~HandedMessage'
    BY DEF HandedMessage, Handed, Error
  <2>2. callbacks = <<>> BY Receives
  <2>3. Lose \/ Damage \/ StallTimeout => callbacks' \in {<<>>, <<Error>>}
    <3>1. Lose => callbacks' = <<>> BY <2>2 DEF Lose, decoderVars
    <3>2. Damage => callbacks' = <<Error>> BY Zenon DEF Damage, BadHeader, CrcMismatch
    <3>3. StallTimeout => callbacks' = <<Error>> BY Zenon DEF StallTimeout, OnTimeout
    <3> QED BY <3>1, <3>2, <3>3
  <2> QED BY <2>1, <2>3 DEF Receive
<1> QED BY <1>2, <1>3, <1>4, <1>5, <1>6

LEMMA CountsReceived == ASSUME LinkInv, CountsOK, Receive PROVE CountsOK'
<1>1. UNCHANGED <<finished, asmVars>> BY Receives DEF senderVars
<1>2. ASSUME HandedMessage', Handed'.type = "BEGIN", whole' PROVE Handed'.payload[1].msg.valid
  <2>1. Deliver /\ Handed'.payload[1] = stream[1].chunk /\ stream[1].type = "BEGIN" /\ 1 \in DOMAIN stream
    BY <1>2, HandsFirst
  <2>2. Head(stream) = stream[1] OBVIOUS
  <2>3. whole' = stream[1].chunk.msg.valid BY <2>1, <2>2 DEF Deliver
  <2> QED BY <1>2, <2>1, <2>3
<1> QED BY <1>1, <1>2, HandsFirst DEF CountsOK, InFrame, asmVars

LEMMA CountsRestart == ASSUME LinkInv, CountsOK, Reconnect PROVE CountsOK'
<1>1. /\ asmState' = "Idle" /\ callbacks' = <<>> /\ sending' = NothingSent /\ UNCHANGED finished
      /\ stream' = Append(stream, Packet(HelloMsg, 1, 0))
  BY DEF Reconnect, DecoderReset, Assembler!AssemblerReset
<1>2. ~InFrame' /\ ~HandedMessage' BY <1>1 DEF InFrame, HandedMessage
<1>3. Makings' \subseteq Makings BY <1>1 DEF Makings, NothingSent
<1>4. \A m \in Coming' : m.type = "END" => m \in Coming
  <2>1. PICK h : h = Packet(HelloMsg, 1, 0) OBVIOUS
  <2>2. h.chunk.msg.type = "HELLO" BY <2>1 DEF Packet, Chunk, HelloMsg
  <2>3. IsSeq(stream) BY DEF LinkInv, TypesOK
  <2>4. stream' = Append(stream, h) BY <1>1, <2>1
  <2>5. \A i \in DOMAIN stream' : (i \in DOMAIN stream /\ stream'[i] = stream[i]) \/ stream'[i] = h
    BY <2>3, <2>4, LongerByOne
  <2> QED BY <1>2, <2>2, <2>5 DEF Coming
<1> QED BY <1>1, <1>2, <1>3, <1>4 DEF CountsOK

LEMMA CountsRun == ASSUME LinkInv, CountsOK, RunCallback PROVE CountsOK'
<1>1. /\ Coming' \subseteq Coming /\ Makings' = Makings /\ UNCHANGED <<finished, whole>>
      /\ HandedMessage' => Handed' = Handed /\ HandedMessage
  BY RunKeeps DEF RunCallback, historyVars
<1>2. InFrame' => asmRects' = Len(asmReceived')
  <2> DEFINE c == Head(callbacks)
  <2>1. IsSeq(asmReceived) BY DEF LinkInv, TypesOK
  <2>2. CASE CompleteHandshake \/ Assembler!OnStreamError \/ UNCHANGED asmVars
    BY <2>2 DEF CompleteHandshake, Assembler!AssemblerReset, Assembler!OnStreamError, Assembler!Discard,
                Assembler!Ignore, Assembler!assemblerVars, InFrame, asmVars, CountsOK
  <2>3. CASE Assembler!HandleBegin(c.payload[1].msg)
    <3>1. CASE Assembler!Discard \/ Assembler!Ignore
      BY <3>1 DEF Assembler!Discard, Assembler!Ignore, Assembler!assemblerVars, InFrame, CountsOK
    <3>2. CASE Assembler!StartFrame(c.payload[1].msg) BY <3>2 DEF Assembler!StartFrame
    <3> QED BY <2>3, <3>1, <3>2 DEF Assembler!HandleBegin
  <2>4. ASSUME NEW verdict \in BOOLEAN, Assembler!HandleRect(c.payload, verdict)
        PROVE  InFrame' => asmRects' = Len(asmReceived')
    <3>1. CASE Assembler!Discard \/ Assembler!Ignore
      BY <3>1 DEF Assembler!Discard, Assembler!Ignore, Assembler!assemblerVars, InFrame, CountsOK
    <3>2. CASE /\ InFrame /\ asmRects' = asmRects + 1 /\ asmReceived' = Append(asmReceived, c.payload)
      <4>1. Len(Append(asmReceived, c.payload)) = Len(asmReceived) + 1 BY <2>1, AppendKeeps
      <4> QED BY <3>2, <4>1 DEF CountsOK
    <3> QED BY <2>4, <3>1, <3>2 DEF Assembler!HandleRect, InFrame
  <2>5. CASE Assembler!HandleEnd(c.payload[1].msg)
    BY <2>5 DEF Assembler!HandleEnd, Assembler!Discard, Assembler!Ignore, Assembler!Commit,
                Assembler!assemblerVars, InFrame, CountsOK
  <2> QED BY <2>2, <2>3, <2>4, <2>5 DEF RunCallback
<1> QED BY <1>1, <1>2 DEF CountsOK
-----------------------------------------------------------------------------
(* A frame is one piece.                                                   *)

LEMMA PlacesAre ==
    ASSUME LinkInv, NEW j, NEW f, NEW n, GoesOn(j, f, n)
    PROVE  j \in 1..(Len(stream) + 1) /\ f \in 1..frames
<1>1. Len(stream) \in Nat /\ DOMAIN stream = 1..Len(stream) BY SeqIndices DEF LinkInv, TypesOK
<1>2. j \in 1..(Len(stream) + 1) BY <1>1 DEF GoesOn
<1>3. j \in DOMAIN stream /\ stream[j].type \in {"RECT", "END"} => stream[j].chunk.msg.frame \in 1..frames
  BY ComingIs DEF Framed
<1>4. sending.open => sending.frame \in 1..frames BY FrameNumbers DEF LinkInv, FramesOK
<1> QED BY <1>2, <1>3, <1>4 DEF GoesOn

StreamGrows ==
    /\ IsSeq(stream')
    /\ \A i \in DOMAIN stream : i \in DOMAIN stream' /\ stream'[i] = stream[i]
    /\ \A i, j \in DOMAIN stream' :
          j = i + 1 /\ stream'[j].chunk.part > 1 /\ j \notin DOMAIN stream => stream'[i].type = "RECT"
    /\ \A j \in DOMAIN stream' \ DOMAIN stream :
          stream'[j].type = "RECT" => stream'[j].chunk.msg.parts <= MaxParts

\* A place where a frame goes on was one before, or it is right behind a packet of the frame.
OldPlace(j, f, n) ==
    \E k \in 1..(Len(stream) + 1) :
       /\ GoesOn(k, f, n) /\ k <= j
       /\ \A i \in DOMAIN stream' : k <= i /\ i < j => ~Framed(stream'[i].chunk.msg)
NewPlace(j, f, n) ==
    \E i \in DOMAIN stream' :
       j = i + 1 /\ Framed(stream'[i].chunk.msg) /\ LeadsTo(stream'[i], f, n)
PlacesFollow == \A j, f, n : GoesOn(j, f, n)' => OldPlace(j, f, n) \/ NewPlace(j, f, n)

\* Nothing comes between an old place and what it follows.
LEMMA OldPlaceIs ==
    ASSUME LinkInv, StreamGrows, NEW j, NEW f, NEW n, j \in Nat, OldPlace(j, f, n)
    PROVE  \E k \in 1..(Len(stream) + 1) :
              /\ GoesOn(k, f, n)
              /\ \A i \in DOMAIN stream' : i < j /\ Framed(stream'[i].chunk.msg) =>
                    i \in DOMAIN stream /\ i < k /\ stream'[i] = stream[i]
              /\ \A i \in Nat : Clear(i, j)' => Clear(i, k)
<1>1. /\ Len(stream) \in Nat /\ DOMAIN stream = 1..Len(stream)
      /\ Len(stream') \in Nat /\ DOMAIN stream' = 1..Len(stream')
  BY SeqIndices DEF LinkInv, TypesOK, StreamGrows
<1>2. PICK k \in 1..(Len(stream) + 1) :
         /\ GoesOn(k, f, n) /\ k <= j
         /\ \A i \in DOMAIN stream' : k <= i /\ i < j => ~Framed(stream'[i].chunk.msg)
  BY DEF OldPlace
<1>3. ASSUME NEW i \in DOMAIN stream', i < j, Framed(stream'[i].chunk.msg)
      PROVE  i \in DOMAIN stream /\ i < k /\ stream'[i] = stream[i]
  <2>1. i < k BY <1>1, <1>2, <1>3
  <2>2. i \in DOMAIN stream BY <1>1, <1>2, <2>1
  <2> QED BY <2>1, <2>2 DEF StreamGrows
<1>4. ASSUME NEW i \in Nat, Clear(i, j)' PROVE Clear(i, k)
  <2>1. ASSUME NEW l \in DOMAIN stream, i < l, l < k PROVE ~Framed(stream[l].chunk.msg)
    <3>1. l \in DOMAIN stream' /\ stream'[l] = stream[l] BY DEF StreamGrows
    <3>2. l < j BY <1>1, <1>2, <2>1
    <3> QED BY <1>4, <2>1, <3>1, <3>2 DEF Clear
  <2> QED BY <2>1 DEF Clear
<1> QED BY <1>2, <1>3, <1>4

LEMMA PiecesGrow ==
    ASSUME LinkInv, OnePiece, StreamGrows, PlacesFollow,
           HandedMessage' => HandedMessage /\ Handed' = Handed
    PROVE  OnePiece'
<1>1. /\ Len(stream) \in Nat /\ DOMAIN stream = 1..Len(stream)
      /\ Len(stream') \in Nat /\ DOMAIN stream' = 1..Len(stream')
  BY SeqIndices DEF LinkInv, TypesOK, StreamGrows
<1>2. \A j, f, n : GoesOn(j, f, n)' => j \in Nat BY <1>1 DEF GoesOn
<1>3. ASSUME NEW j, NEW f, NEW n, GoesOn(j, f, n)', NEW i \in DOMAIN stream', i < j,
             Framed(stream'[i].chunk.msg), Clear(i, j)'
      PROVE  LeadsTo(stream'[i], f, n)
  <2>0. j \in Nat /\ i \in Nat BY <1>1, <1>2, <1>3
  <2>1. CASE OldPlace(j, f, n)
    <3>1. PICK k \in 1..(Len(stream) + 1) :
             /\ GoesOn(k, f, n)
             /\ \A l \in DOMAIN stream' : l < j /\ Framed(stream'[l].chunk.msg) =>
                   l \in DOMAIN stream /\ l < k /\ stream'[l] = stream[l]
             /\ \A l \in Nat : Clear(l, j)' => Clear(l, k)
      BY <2>0, <2>1, OldPlaceIs
    <3>2. i \in DOMAIN stream /\ i < k /\ stream'[i] = stream[i] /\ Clear(i, k)
      BY <1>3, <2>0, <3>1
    <3> QED BY <1>3, <3>1, <3>2 DEF OnePiece
  <2>2. CASE NewPlace(j, f, n)
    <3>1. PICK l \in DOMAIN stream' :
             j = l + 1 /\ Framed(stream'[l].chunk.msg) /\ LeadsTo(stream'[l], f, n)
      BY <2>2 DEF NewPlace
    <3>2. ~(i < l) BY <1>1, <1>3, <3>1 DEF Clear
    <3>3. i = l BY <1>1, <1>3, <3>1, <3>2
    <3> QED BY <3>1, <3>3
  <2> QED BY <1>3, <2>1, <2>2 DEF PlacesFollow
<1>4. \A i, j \in DOMAIN stream' : j = i + 1 /\ stream'[j].chunk.part > 1 => stream'[i].type = "RECT"
  <2>1. ASSUME NEW i \in DOMAIN stream', NEW j \in DOMAIN stream', j = i + 1,
               stream'[j].chunk.part > 1, j \in DOMAIN stream
        PROVE  stream'[i].type = "RECT"
    <3>1. i \in DOMAIN stream BY <1>1, <2>1
    <3>2. stream'[i] = stream[i] /\ stream'[j] = stream[j] BY <2>1, <3>1 DEF StreamGrows
    <3> QED BY <2>1, <3>1, <3>2 DEF OnePiece
  <2> QED BY <2>1 DEF StreamGrows
<1>5. \A j \in DOMAIN stream' : stream'[j].type = "RECT" => stream'[j].chunk.msg.parts <= MaxParts
  BY DEF StreamGrows, OnePiece
<1>6. ASSUME HandedMessage', Handed'.type = "END", NEW j, NEW f, NEW n, GoesOn(j, f, n)'
      PROVE  ~Clear(0, j)'
  <2>0. j \in Nat BY <1>2, <1>6
  <2>1. CASE OldPlace(j, f, n)
    <3>1. PICK k \in 1..(Len(stream) + 1) :
             GoesOn(k, f, n) /\ \A l \in Nat : Clear(l, j)' => Clear(l, k)
      BY <2>0, <2>1, OldPlaceIs
    <3>2. ~Clear(0, k) BY <1>6, <3>1 DEF OnePiece
    <3> QED BY <3>1, <3>2
  <2>2. CASE NewPlace(j, f, n) BY <1>1, <2>2 DEF NewPlace, Clear
  <2> QED BY <1>6, <2>1, <2>2 DEF PlacesFollow
<1> QED BY <1>3, <1>4, <1>5, <1>6 DEF OnePiece

\* What the host waits for does not change while the device sends.
LEMMA ReadyGrows ==
    ASSUME LinkInv, HostReady, StreamGrows, PlacesFollow,
           UNCHANGED <<decoderVars, asmVars, historyVars>>,
           \A f \in 1..frames : LiveNumber(f)' => LiveNumber(f)
    PROVE  HostReady'
<1>1. /\ Len(stream) \in Nat /\ DOMAIN stream = 1..Len(stream)
      /\ Len(stream') \in Nat /\ DOMAIN stream' = 1..Len(stream')
  BY SeqIndices DEF LinkInv, TypesOK, StreamGrows
<1>2. /\ UNCHANGED <<callbacks, payload, asmBytes, asmBegin, asmState>>
      /\ UNCHANGED <<whole, preceded, undisturbed>>
  BY DEF decoderVars, asmVars, historyVars
<1>3. (HandedMessage' <=> HandedMessage) /\ Handed' = Handed BY <1>2 DEF HandedMessage, Handed
<1>4. (InFrame' <=> InFrame) /\ Got' = Got /\ (Good' <=> Good)
  BY <1>2, <1>3 DEF InFrame, Got, Pending, Good
<1>5. \A f, n : HostAt(f, n) => HostAt(f, n)' BY <1>2, <1>3, <1>4 DEF HostAt
<1>6. ASSUME Good, undisturbed, NEW j, NEW f, NEW n, GoesOn(j, f, n)', Clear(0, j)', LiveNumber(f)'
      PROVE  HostAt(f, n)
  <2>0. j \in Nat BY <1>1, <1>6 DEF GoesOn
  <2>1. OldPlace(j, f, n)
    <3>1. ~NewPlace(j, f, n) BY <1>1, <1>6 DEF NewPlace, Clear
    <3> QED BY <1>6, <3>1 DEF PlacesFollow
  <2>2. PICK k \in 1..(Len(stream) + 1) :
           GoesOn(k, f, n) /\ \A l \in Nat : Clear(l, j)' => Clear(l, k)
    BY <2>0, <2>1, OldPlaceIs
  <2>3. Clear(0, k) BY <1>6, <2>2
  <2>4. LiveNumber(f) BY <1>6, <2>2, PlacesAre
  <2> QED BY <1>6, <2>2, <2>3, <2>4 DEF HostReady
<1>7. ASSUME Good, HandedMessage, Handed.type = "END", ~Handed.payload[1].msg.aborted
      PROVE  HostAt(Handed.payload[1].msg.frame, Handed.payload[1].msg.bytes)
  BY <1>7 DEF HostReady
<1>8. ASSUME Good', undisturbed', NEW j, NEW f, NEW n, GoesOn(j, f, n)', Clear(0, j)', LiveNumber(f)'
      PROVE  HostAt(f, n)'
  BY <1>2, <1>4, <1>5, <1>6, <1>8
<1>9. ASSUME Good', HandedMessage', Handed'.type = "END", ~Handed'.payload[1].msg.aborted
      PROVE  HostAt(Handed.payload[1].msg.frame, Handed.payload[1].msg.bytes)'
  <2>1. PICK f, n : f = Handed.payload[1].msg.frame /\ n = Handed.payload[1].msg.bytes OBVIOUS
  <2>2. HostAt(f, n)' BY <1>3, <1>4, <1>5, <1>7, <1>9, <2>1
  <2>3. f = Handed'.payload[1].msg.frame /\ n = Handed'.payload[1].msg.bytes BY <1>3, <2>1
  <2> QED BY <2>2, <2>3 DEF HostAt
<1> QED BY <1>8, <1>9 DEF HostReady

\* The packets of m go behind those under way.
LEMMA StreamSends ==
    ASSUME LinkInv, NEW m \in Messages, NEW n \in 0..m.parts, Emit(m, n),
           m.type = "RECT" => m.parts <= MaxParts
    PROVE  /\ StreamGrows /\ Len(stream) \in Nat /\ DOMAIN stream = 1..Len(stream)
           /\ Len(stream') = Len(stream) + n /\ DOMAIN stream' = 1..(Len(stream) + n)
           /\ \A i \in (Len(stream) + 1)..(Len(stream) + n) :
                 /\ stream'[i].type = m.type /\ stream'[i].chunk.msg = m
                 /\ stream'[i].chunk.part = i - Len(stream)
           /\ \A j \in DOMAIN stream : \A f, k : GoesOn(j, f, k)' => OldPlace(j, f, k)
<1> DEFINE L == Len(stream)
<1>1. IsSeq(stream) /\ L \in Nat /\ DOMAIN stream = 1..L BY SeqIndices DEF LinkInv, TypesOK
<1>2. m.parts \in Nat /\ n \in Nat /\ (m.type # "RECT" => m.parts = 1) BY MessageTyped
<1>3. /\ IsSeq(stream') /\ Len(stream') = L + n
      /\ \A i \in DOMAIN stream : i \in DOMAIN stream' /\ stream'[i] = stream[i]
      /\ \A i \in DOMAIN stream' \ DOMAIN stream :
            /\ i - L \in 1..n
            /\ stream'[i].type = m.type /\ stream'[i].chunk.msg = m
            /\ stream'[i].chunk.part = i - L
  BY <1>1, Emitted
<1>4. DOMAIN stream' = 1..(L + n) BY <1>3, SeqIndices
<1> HIDE DEF L
<1>5. ASSUME NEW i \in DOMAIN stream', NEW j \in DOMAIN stream', j = i + 1,
             stream'[j].chunk.part > 1, j \notin DOMAIN stream
      PROVE  stream'[i].type = "RECT"
  <2>1. j - L \in 1..n /\ j - L > 1 BY <1>3, <1>5
  <2>2. m.type = "RECT" BY <1>2, <2>1
  <2>3. i \in DOMAIN stream' \ DOMAIN stream BY <1>1, <1>4, <1>5, <2>1
  <2> QED BY <1>3, <2>2, <2>3
<1>6. StreamGrows BY <1>3, <1>5 DEF StreamGrows
<1>7. ASSUME NEW j \in DOMAIN stream, NEW f, NEW k, GoesOn(j, f, k)' PROVE OldPlace(j, f, k)
  <2>1. j \in 1..(L + 1) /\ j # Len(stream') + 1 /\ stream'[j] = stream[j] BY <1>1, <1>2, <1>3
  <2>2. GoesOn(j, f, k) BY <1>7, <2>1 DEF GoesOn, Start
  <2>3. \A i \in DOMAIN stream' : ~(j <= i /\ i < j) BY <1>1, <1>4
  <2> QED BY <2>1, <2>2, <2>3 DEF OldPlace, L
<1>8. \A i \in (L + 1)..(L + n) : i \in DOMAIN stream' \ DOMAIN stream BY <1>1, <1>2, <1>4
<1> QED BY <1>1, <1>3, <1>4, <1>6, <1>7, <1>8 DEF L

LEMMA BeginPlaces ==
    ASSUME LinkInv, NEW kind \in Kinds, NEW valid \in BOOLEAN, NEW n \in 0..1,
           BeginFrame(kind, valid, n)
    PROVE  /\ StreamGrows /\ PlacesFollow
           /\ \A f \in 1..frames : LiveNumber(f)' => LiveNumber(f)
<1>1. PICK m : m = BeginMsg(frames + 1, kind, valid) OBVIOUS
<1>2. /\ ~sending.open /\ Emit(m, n) /\ frames \in Nat /\ UNCHANGED decoderVars
      /\ \/ n = 1 /\ sending'.frame = frames + 1 /\ sending'.bytes = 0
         \/ ~sending'.open
  BY <1>1, FrameNumbers DEF BeginFrame, NothingSent
<1>3. m \in Messages /\ m.type = "BEGIN" /\ m.parts = 1 /\ m.frame = frames + 1
  BY <1>1, <1>2 DEF BeginMsg, Messages, Begins
<1> DEFINE L == Len(stream)
<1>4. /\ StreamGrows /\ L \in Nat /\ DOMAIN stream = 1..L
      /\ Len(stream') = L + n /\ DOMAIN stream' = 1..(L + n)
      /\ \A i \in (L + 1)..(L + n) : stream'[i].type = "BEGIN" /\ stream'[i].chunk.msg = m
      /\ \A j \in DOMAIN stream : \A f, k : GoesOn(j, f, k)' => OldPlace(j, f, k)
  BY <1>2, <1>3, StreamSends
<1>5. Coming' \subseteq Coming \cup {m} BY <1>2, <1>3, SendsComing
<1> HIDE DEF L
<1>6. ASSUME NEW j, NEW f, NEW k, GoesOn(j, f, k)', j \notin DOMAIN stream PROVE NewPlace(j, f, k)
  <2>1. j \in DOMAIN stream' => stream'[j].type = "BEGIN" BY <1>4, <1>6
  <2>2. /\ j = Len(stream') + 1 /\ sending'.open /\ f = sending'.frame /\ k = sending'.bytes
    BY <1>6, <2>1 DEF GoesOn
  <2>3. n = 1 /\ f = frames + 1 /\ k = 0 BY <1>2, <2>2
  <2>4. /\ L + 1 \in DOMAIN stream' /\ j = (L + 1) + 1
        /\ stream'[L + 1].type = "BEGIN" /\ stream'[L + 1].chunk.msg = m
    BY <1>4, <2>2, <2>3
  <2>5. LeadsTo(stream'[L + 1], f, k) BY <1>3, <2>3, <2>4 DEF LeadsTo
  <2>6. Framed(stream'[L + 1].chunk.msg) BY <1>3, <2>4 DEF Framed
  <2> QED BY <2>4, <2>5, <2>6 DEF NewPlace
<1>7. PlacesFollow BY <1>4, <1>6 DEF PlacesFollow
<1>8. \A f \in 1..frames : LiveNumber(f)' => LiveNumber(f) BY <1>2, <1>3, <1>5 DEF LiveNumber
<1> QED BY <1>4, <1>7, <1>8

LEMMA RectPlaces ==
    ASSUME LinkInv, NEW parts \in 1..MaxParts, NEW n \in 0..parts, SendRectMessage(parts, n)
    PROVE  /\ StreamGrows /\ PlacesFollow
           /\ \A f \in 1..frames : LiveNumber(f)' => LiveNumber(f)
<1>1. PICK m : m = RectMsg(sending.frame, sending.bytes, parts) OBVIOUS
<1>2. /\ sending.open /\ ~mustAbort /\ Emit(m, n) /\ UNCHANGED decoderVars
      /\ sending'.frame = sending.frame
      /\ \/ n = parts /\ sending'.bytes = sending.bytes + parts
         \/ mustAbort'
  BY <1>1 DEF SendRectMessage, LinkInv, SendingOK
<1>3. parts \in Nat \ {0} /\ n \in Nat /\ sending.bytes \in Nat /\ sending.frame \in Nat /\ MaxParts \in Nat
  BY BoundsAssumption DEF LinkInv, SendingOK
<1>4. /\ m \in Messages /\ m.type = "RECT" /\ m.parts = parts /\ m.parts <= MaxParts
      /\ m.frame = sending.frame /\ m.at = sending.bytes
  BY <1>1, <1>3 DEF RectMsg, Messages, Rects
<1> DEFINE L == Len(stream)
<1>5. /\ StreamGrows /\ L \in Nat /\ DOMAIN stream = 1..L
      /\ Len(stream') = L + n /\ DOMAIN stream' = 1..(L + n)
      /\ \A i \in (L + 1)..(L + n) :
            /\ stream'[i].type = "RECT" /\ stream'[i].chunk.msg = m
            /\ stream'[i].chunk.part = i - L
      /\ \A j \in DOMAIN stream : \A f, k : GoesOn(j, f, k)' => OldPlace(j, f, k)
  BY <1>2, <1>4, StreamSends
<1>6. Coming' \subseteq Coming \cup {m} BY <1>2, <1>4, SendsComing
<1>7. GoesOn(L + 1, sending.frame, sending.bytes) BY <1>2 DEF GoesOn
<1> HIDE DEF L
<1>8. ASSUME NEW j, NEW f, NEW k, GoesOn(j, f, k)', j \notin DOMAIN stream
      PROVE  OldPlace(j, f, k) \/ NewPlace(j, f, k)
  <2>1. \/ j \in DOMAIN stream' /\ f = m.frame /\ k = m.at + (j - L) - 1
        \/ j = L + n + 1 /\ n = parts /\ f = m.frame /\ k = m.at + parts
    <3>1. CASE j \in DOMAIN stream'
      <4>1. j \in (L + 1)..(L + n) BY <1>5, <1>8, <3>1
      <4>2. stream'[j].type = "RECT" /\ stream'[j].chunk.msg = m /\ stream'[j].chunk.part = j - L
        BY <1>5, <4>1
      <4>3. f = m.frame /\ k = Start(stream'[j])
        BY <1>3, <1>5, <1>8, <4>1, <4>2 DEF GoesOn, Start
      <4> QED BY <3>1, <4>2, <4>3 DEF Start
    <3>2. CASE j \notin DOMAIN stream'
      BY <1>2, <1>4, <1>5, <1>8, <3>2 DEF GoesOn
    <3> QED BY <3>1, <3>2
  <2>2. j \in (L + 1)..(L + n + 1) /\ f = m.frame /\ k = m.at + (j - L) - 1
    BY <1>3, <1>4, <1>5, <1>8, <2>1
  <2>3. CASE j = L + 1
    <3>1. f = sending.frame /\ k = sending.bytes /\ j \in 1..(L + 1) BY <1>3, <1>4, <1>5, <2>2, <2>3
    <3>2. \A i \in DOMAIN stream' : ~(j <= i /\ i < j) BY <1>3, <1>5, <2>2
    <3>3. j <= j BY <1>5, <2>3
    <3>4. GoesOn(j, f, k) BY <1>7, <2>3, <3>1
    <3> QED BY <3>1, <3>2, <3>3, <3>4 DEF OldPlace, L
  <2>4. CASE j # L + 1
    <3>1. PICK i \in (L + 1)..(L + n) : j = i + 1 BY <1>3, <1>5, <2>2, <2>4
    <3>2. /\ stream'[i].type = "RECT" /\ stream'[i].chunk.msg = m /\ stream'[i].chunk.part = i - L
          /\ i \in DOMAIN stream'
      BY <1>3, <1>5, <3>1
    <3>3. k = Stop(stream'[i]) BY <1>3, <1>4, <1>5, <2>2, <3>1, <3>2 DEF Stop
    <3>4. LeadsTo(stream'[i], f, k) BY <2>2, <3>2, <3>3 DEF LeadsTo
    <3>5. Framed(stream'[i].chunk.msg) BY <1>4, <3>2 DEF Framed
    <3> QED BY <3>1, <3>2, <3>4, <3>5 DEF NewPlace
  <2> QED BY <2>3, <2>4
<1>9. PlacesFollow BY <1>5, <1>8 DEF PlacesFollow
<1>10. \A f \in 1..frames : LiveNumber(f)' => LiveNumber(f) BY <1>2, <1>4, <1>6 DEF LiveNumber
<1> QED BY <1>5, <1>9, <1>10

LEMMA EndPlaces ==
    ASSUME LinkInv, NEW aborted \in BOOLEAN, NEW n \in 0..1, EndFrame(aborted, n)
    PROVE  /\ StreamGrows /\ PlacesFollow
           /\ \A f \in 1..frames : LiveNumber(f)' => LiveNumber(f)
<1>1. PICK m : m = EndMsg(sending.frame, Len(sending.rects), sending.bytes, aborted) OBVIOUS
<1>2. /\ sending.open /\ Emit(m, n) /\ UNCHANGED decoderVars /\ ~sending'.open
      /\ mustAbort => aborted
  BY <1>1 DEF EndFrame, NothingSent
<1>3. /\ m \in Messages /\ m.type = "END" /\ m.parts = 1 /\ m.frame = sending.frame
      /\ m.aborted = aborted /\ m.bytes = sending.bytes
  <2>1. sending.bytes \in Nat /\ sending.frame \in Nat /\ Len(sending.rects) \in Nat
    BY SeqIndices DEF LinkInv, SendingOK, TypesOK
  <2> QED BY <1>1, <2>1 DEF EndMsg, Messages, Ends
<1> DEFINE L == Len(stream)
<1>4. /\ StreamGrows /\ L \in Nat /\ DOMAIN stream = 1..L
      /\ Len(stream') = L + n /\ DOMAIN stream' = 1..(L + n)
      /\ \A i \in (L + 1)..(L + n) : stream'[i].type = "END" /\ stream'[i].chunk.msg = m
      /\ \A j \in DOMAIN stream : \A f, k : GoesOn(j, f, k)' => OldPlace(j, f, k)
  BY <1>2, <1>3, StreamSends
<1>5. Coming' \subseteq Coming \cup {m} BY <1>2, <1>3, SendsComing
<1>6. ~mustAbort => GoesOn(L + 1, sending.frame, sending.bytes) BY <1>2 DEF GoesOn
<1> HIDE DEF L
<1>7. ASSUME NEW j, NEW f, NEW k, GoesOn(j, f, k)', j \notin DOMAIN stream PROVE OldPlace(j, f, k)
  <2>1. j \in DOMAIN stream' BY <1>2, <1>7 DEF GoesOn
  <2>2. j = L + 1 /\ j \in 1..(L + 1) BY <1>4, <1>7, <2>1
  <2>3. stream'[j].type = "END" /\ stream'[j].chunk.msg = m BY <1>4, <2>1, <2>2
  <2>4. ~m.aborted /\ f = m.frame /\ k = m.bytes BY <1>2, <1>7, <2>3 DEF GoesOn
  <2>5. GoesOn(j, f, k) BY <1>2, <1>3, <1>6, <2>2, <2>4
  <2>6. \A i \in DOMAIN stream' : ~(j <= i /\ i < j) BY <1>4, <2>2
  <2>7. j <= j BY <1>4, <2>2
  <2> QED BY <2>2, <2>5, <2>6, <2>7 DEF OldPlace, L
<1>8. PlacesFollow BY <1>4, <1>7 DEF PlacesFollow
<1>9. \A f \in 1..frames : LiveNumber(f)' => LiveNumber(f)
  BY <1>2, <1>3, <1>5 DEF LiveNumber
<1> QED BY <1>4, <1>8, <1>9

LEMMA ControlPlaces ==
    ASSUME LinkInv, SendControl
    PROVE  /\ StreamGrows /\ PlacesFollow
           /\ \A f \in 1..frames : LiveNumber(f)' => LiveNumber(f)
<1>1. PICK m : m = ControlMsg OBVIOUS
<1>2. Emit(m, 1) /\ UNCHANGED <<sending, mustAbort, decoderVars>> BY <1>1 DEF SendControl
<1>3. m \in Messages /\ m.type = "PING" /\ m.parts = 1 BY <1>1 DEF Messages, ControlMsg
<1> DEFINE L == Len(stream)
<1>4. /\ StreamGrows /\ L \in Nat /\ DOMAIN stream = 1..L
      /\ Len(stream') = L + 1 /\ DOMAIN stream' = 1..(L + 1)
      /\ \A i \in (L + 1)..(L + 1) : stream'[i].type = "PING" /\ stream'[i].chunk.msg = m
      /\ \A j \in DOMAIN stream : \A f, k : GoesOn(j, f, k)' => OldPlace(j, f, k)
  BY <1>2, <1>3, StreamSends
<1>5. Coming' \subseteq Coming \cup {m} BY <1>2, <1>3, SendsComing
<1> HIDE DEF L
<1>6. ASSUME NEW j, NEW f, NEW k, GoesOn(j, f, k)', j \notin DOMAIN stream PROVE OldPlace(j, f, k)
  <2>1. j \in DOMAIN stream' => stream'[j].type = "PING" BY <1>4, <1>6
  <2>2. j = L + 2 /\ sending.open /\ ~mustAbort /\ f = sending.frame /\ k = sending.bytes
    BY <1>2, <1>4, <1>6, <2>1 DEF GoesOn
  <2>3. GoesOn(L + 1, f, k) BY <2>2 DEF GoesOn, L
  <2>4. ~Framed(stream'[L + 1].chunk.msg) BY <1>3, <1>4 DEF Framed
  <2>5. \A i \in DOMAIN stream' : L + 1 <= i /\ i < j => i = L + 1 BY <1>4, <2>2
  <2>6. L + 1 \in 1..(L + 1) /\ L + 1 <= j BY <1>4, <2>2
  <2> QED BY <2>3, <2>4, <2>5, <2>6 DEF OldPlace, L
<1>7. PlacesFollow BY <1>4, <1>6 DEF PlacesFollow
<1>8. \A f \in 1..frames : LiveNumber(f)' => LiveNumber(f) BY <1>2, <1>3, <1>5 DEF LiveNumber
<1> QED BY <1>4, <1>7, <1>8

LEMMA RestartPlaces ==
    ASSUME LinkInv, Reconnect
    PROVE  /\ StreamGrows /\ PlacesFollow /\ ~HandedMessage' /\ ~undisturbed'
<1>1. /\ callbacks' = <<>> /\ ~undisturbed' /\ sending' = NothingSent
      /\ stream' = Append(stream, Packet(HelloMsg, 1, 0))
  BY DEF Reconnect, DecoderReset, Disturb
<1>2. ~HandedMessage' /\ ~sending'.open BY <1>1 DEF HandedMessage, NothingSent
<1>3. PICK h : h = Packet(HelloMsg, 1, 0) OBVIOUS
<1>4. h.type = "HELLO" /\ h.chunk.part = 1 BY <1>3 DEF Packet, Chunk, HelloMsg
<1>5. /\ IsSeq(stream') /\ Len(stream') = Len(stream) + 1 /\ stream'[Len(stream) + 1] = h
      /\ \A i \in DOMAIN stream : stream'[i] = stream[i]
      /\ DOMAIN stream' = DOMAIN stream \cup {Len(stream) + 1} /\ DOMAIN stream = 1..Len(stream)
      /\ Len(stream) \in Nat
  <2>1. IsSeq(stream) BY DEF LinkInv, TypesOK
  <2>2. PICK r : r = stream' OBVIOUS
  <2>3. r = Append(stream, h) BY <1>1, <1>3, <2>2
  <2>4. IsSeq(r) BY <2>1, <2>3, LongerByOne
  <2>5. /\ Len(r) = Len(stream) + 1 /\ r[Len(stream) + 1] = h
        /\ \A i \in DOMAIN stream : r[i] = stream[i]
    BY <2>1, <2>3, LongerByOne
  <2>6. DOMAIN r = DOMAIN stream \cup {Len(stream) + 1} BY <2>1, <2>3, LongerByOne
  <2>7. Len(stream) \in Nat /\ DOMAIN stream = 1..Len(stream) BY <2>1, SeqIndices
  <2> QED BY <2>2, <2>4, <2>5, <2>6, <2>7
<1>6. StreamGrows BY <1>4, <1>5 DEF StreamGrows
<1>7. ASSUME NEW j, NEW f, NEW n, GoesOn(j, f, n)' PROVE OldPlace(j, f, n)
  <2>1. j \in DOMAIN stream' /\ stream'[j].type # "HELLO" BY <1>2, <1>7 DEF GoesOn
  <2>2. j \in DOMAIN stream /\ stream'[j] = stream[j] BY <1>4, <1>5, <2>1
  <2>3. GoesOn(j, f, n) BY <1>2, <1>7, <2>2 DEF GoesOn, Start
  <2>4. \A i \in DOMAIN stream' : ~(j <= i /\ i < j) BY <1>5, <2>2
  <2>5. j \in 1..(Len(stream) + 1) /\ j <= j BY <1>5, <2>2
  <2> QED BY <2>3, <2>4, <2>5 DEF OldPlace
<1> QED BY <1>1, <1>2, <1>6, <1>7 DEF PlacesFollow

\* The stream is shorter by d packets at its front.
Shifted(d) ==
    /\ d = 0 => stream' = stream /\ ~Skips
    /\ d = 1 => Skips /\ 1 \in DOMAIN stream
    /\ \A i \in DOMAIN stream' : i + d \in DOMAIN stream /\ stream'[i] = stream[i + d]
    /\ \A j, f, n : GoesOn(j, f, n)' => j \in Nat \ {0} /\ GoesOn(j + d, f, n)
    /\ \A i, j \in Nat : Clear(i, j)' => Clear(i + d, j + d)

LEMMA Shifts ==
    ASSUME LinkInv, Receive
    PROVE  /\ \E d \in {0, 1} : Shifted(d)
           /\ DOMAIN stream' = 1..Len(stream') /\ Len(stream') \in Nat
           /\ DOMAIN stream = 1..Len(stream) /\ Len(stream) \in Nat
<1>1. UNCHANGED <<sending, mustAbort>> BY Receives DEF senderVars
<1>2. /\ DOMAIN stream' = 1..Len(stream') /\ Len(stream') \in Nat
      /\ DOMAIN stream = 1..Len(stream) /\ Len(stream) \in Nat
  BY Advances, SeqIndices DEF LinkInv, TypesOK
<1>3. PICK d \in {0, 1} :
         /\ d = 0 => stream' = stream /\ ~Skips
         /\ d = 1 => Skips /\ 1 \in DOMAIN stream
         /\ Len(stream) = Len(stream') + d
         /\ \A i \in DOMAIN stream' : i + d \in DOMAIN stream /\ stream'[i] = stream[i + d]
  BY Advances
<1>4. ASSUME NEW j, NEW f, NEW n, GoesOn(j, f, n)' PROVE j \in Nat \ {0} /\ GoesOn(j + d, f, n)
  <2>1. CASE j \in DOMAIN stream'
    <3>1. j \in Nat \ {0} /\ j # Len(stream') + 1 BY <1>2, <2>1
    <3>2. j + d \in DOMAIN stream /\ stream'[j] = stream[j + d] BY <1>3, <2>1
    <3> QED BY <1>4, <3>1, <3>2 DEF GoesOn, Start
  <2>2. CASE j \notin DOMAIN stream'
    <3>1. j = Len(stream') + 1 /\ sending.open /\ ~mustAbort /\ f = sending.frame /\ n = sending.bytes
      BY <1>1, <1>4, <2>2 DEF GoesOn
    <3>2. j \in Nat \ {0} /\ j + d = Len(stream) + 1 BY <1>2, <1>3, <3>1
    <3> QED BY <3>1, <3>2 DEF GoesOn
  <2> QED BY <2>1, <2>2
<1>5. ASSUME NEW i \in Nat, NEW j \in Nat, Clear(i, j)' PROVE Clear(i + d, j + d)
  <2>1. ASSUME NEW k \in DOMAIN stream, i + d < k, k < j + d PROVE ~Framed(stream[k].chunk.msg)
    <3>1. k - d \in DOMAIN stream' /\ (k - d) + d = k /\ i < k - d /\ k - d < j BY <1>2, <1>3, <2>1
    <3>2. stream'[k - d] = stream[k] BY <1>3, <3>1
    <3> QED BY <1>5, <3>1, <3>2 DEF Clear
  <2> QED BY <2>1 DEF Clear
<1>6. Shifted(d) BY <1>3, <1>4, <1>5 DEF Shifted
<1> QED BY <1>2, <1>6

LEMMA PiecesReceived == ASSUME LinkInv, OnePiece, Receive PROVE OnePiece'
<1>1. /\ DOMAIN stream' = 1..Len(stream') /\ Len(stream') \in Nat
      /\ DOMAIN stream = 1..Len(stream) /\ Len(stream) \in Nat
  BY Shifts
<1>2. PICK d \in {0, 1} : Shifted(d) BY Shifts
<1>3. ASSUME NEW j, NEW f, NEW n, GoesOn(j, f, n)', NEW i \in DOMAIN stream', i < j,
             Framed(stream'[i].chunk.msg), Clear(i, j)'
      PROVE  LeadsTo(stream'[i], f, n)
  <2>1. j \in Nat /\ GoesOn(j + d, f, n) /\ i \in Nat BY <1>1, <1>2, <1>3 DEF Shifted
  <2>2. i + d \in DOMAIN stream /\ stream'[i] = stream[i + d] BY <1>2 DEF Shifted
  <2>3. Clear(i + d, j + d) /\ i + d < j + d BY <1>2, <1>3, <2>1 DEF Shifted
  <2> QED BY <1>3, <2>1, <2>2, <2>3 DEF OnePiece
<1>4. \A i, j \in DOMAIN stream' : j = i + 1 /\ stream'[j].chunk.part > 1 => stream'[i].type = "RECT"
  <2>1. \A i, j \in DOMAIN stream' : j = i + 1 => j + d = (i + d) + 1 BY <1>1
  <2> QED BY <1>2, <2>1 DEF Shifted, OnePiece
<1>5. \A j \in DOMAIN stream' : stream'[j].type = "RECT" => stream'[j].chunk.msg.parts <= MaxParts
  BY <1>2 DEF Shifted, OnePiece
<1>6. ASSUME HandedMessage', Handed'.type = "END", NEW j, NEW f, NEW n, GoesOn(j, f, n)', Clear(0, j)'
      PROVE  FALSE
  <2>1. HandsOver(stream[1]) /\ 1 \in DOMAIN stream /\ stream[1].type = "END" BY <1>6, HandsFirst
  <2>2. d = 1 BY <1>2, <2>1 DEF Shifted, HandsOver
  <2>3. j \in Nat \ {0} /\ GoesOn(j + 1, f, n) BY <1>2, <1>6, <2>2 DEF Shifted
  <2>4. Clear(0 + 1, j + 1) BY <1>2, <1>6, <2>2, <2>3 DEF Shifted
  <2>5. Framed(stream[1].chunk.msg) BY <2>1, ComingIs DEF Framed
  <2>6. 0 + 1 = 1 /\ 1 < j + 1 BY <2>3
  <2>7. LeadsTo(stream[1], f, n) BY <2>1, <2>3, <2>4, <2>5, <2>6 DEF OnePiece
  <2> QED BY <2>1, <2>7 DEF LeadsTo
<1> QED BY <1>3, <1>4, <1>5, <1>6 DEF OnePiece

LEMMA PiecesRun == ASSUME LinkInv, OnePiece, RunCallback PROVE OnePiece'
<1>1. /\ UNCHANGED <<stream, sending, mustAbort>>
      /\ HandedMessage' => Handed' = Handed /\ HandedMessage
  BY RunKeeps
<1>2. \A j, f, n : GoesOn(j, f, n)' <=> GoesOn(j, f, n) BY <1>1 DEF GoesOn, Start
<1>3. \A i, j : Clear(i, j)' <=> Clear(i, j) BY <1>1 DEF Clear
<1> QED BY <1>1, <1>2, <1>3 DEF OnePiece
-----------------------------------------------------------------------------
(* The host waits for what comes.                                          *)

LEMMA LiveIs ==
    ASSUME LinkInv, NEW f, LiveNumber(f)
    PROVE  \E F \in Makings : F.frameId = f /\ Live(F)
<1>1. CASE sending.open /\ ~mustAbort /\ sending.frame = f
  <2>1. FinishedFrame \in Makings BY <1>1 DEF Makings
  <2>2. FinishedFrame.frameId = f BY <1>1, FrameNumbers DEF LinkInv, FramesOK
  <2> QED BY <1>1, <2>1, <2>2 DEF Live
<1>2. ASSUME NEW m \in Coming, m.type = "END", ~m.aborted, m.frame = f
      PROVE  \E F \in Makings : F.frameId = f /\ Live(F)
  <2>1. PICK i \in DOMAIN finished : finished[i].frameId = f BY <1>2 DEF LinkInv, EndsAreFinished
  <2>2. finished[i] \in Makings BY DEF Makings
  <2> QED BY <1>2, <2>1, <2>2 DEF Live
<1> QED BY <1>1, <1>2 DEF LiveNumber

\* What goes on is a pixel of the frame, or its end.
LEMMA AtPlace ==
    ASSUME LinkInv, NEW F \in Makings, NEW j, NEW n, GoesOn(j, F.frameId, n)
    PROVE  \/ n = Size(F) /\ ~(j \in DOMAIN stream /\ stream[j].type = "RECT")
           \/ /\ j \in DOMAIN stream /\ stream[j].type = "RECT"
              /\ stream[j].chunk.msg.frame = F.frameId
              /\ n = Start(stream[j]) /\ n \in Nat /\ n < Size(F)
<1>1. CASE /\ j \in DOMAIN stream /\ stream[j].type = "RECT"
           /\ stream[j].chunk.msg.frame = F.frameId /\ n = Start(stream[j])
  <2>1. n \in Nat /\ Stop(stream[j]) = n + 1 /\ Stop(stream[j]) <= Size(F) BY <1>1, PixelIs
  <2>2. Size(F) \in Nat BY MakingIs
  <2> QED BY <1>1, <2>1, <2>2
<1>2. CASE /\ j \in DOMAIN stream /\ stream[j].type = "END" /\ ~stream[j].chunk.msg.aborted
           /\ F.frameId = stream[j].chunk.msg.frame /\ n = stream[j].chunk.msg.bytes
  <2>1. stream[j].chunk.msg \in Coming /\ stream[j].chunk.msg.type = "END" BY <1>2, ComingIs
  <2> QED BY <1>2, <2>1 DEF LinkInv, ComesAsMade
<1>3. CASE /\ j = Len(stream) + 1 /\ sending.open /\ ~mustAbort
           /\ F.frameId = sending.frame /\ n = sending.bytes
  <2>1. Len(stream) \in Nat /\ DOMAIN stream = 1..Len(stream) BY SeqIndices DEF LinkInv, TypesOK
  <2>2. F.frameId = frames /\ frames \in Nat BY <1>3, FrameNumbers DEF LinkInv, FramesOK
  <2>3. F = FinishedFrame BY <1>3, <2>2 DEF LinkInv, FramesOK, Makings
  <2> QED BY <1>3, <2>1, <2>3 DEF LinkInv, SendingOK
<1> QED BY <1>1, <1>2, <1>3 DEF GoesOn

\* A host that has got as far as what goes on has all that was sent before it.
LEMMA ExactAt ==
    ASSUME LinkInv, NEW f, LiveNumber(f), NEW j, NEW n, GoesOn(j, f, n),
           InFrame, asmBegin.frameId = f, Got = n
    PROVE  \E F \in Makings :
              /\ F.frameId = f /\ Live(F) /\ Exact(F) /\ F.kind = asmBegin.kind
              /\ \/ Got = Size(F)
                 \/ /\ j \in DOMAIN stream /\ stream[j].type = "RECT"
                    /\ stream[j].chunk.msg.frame = f /\ Start(stream[j]) = Got
              /\ ~(j \in DOMAIN stream /\ stream[j].type = "RECT") => Got = Size(F)
<1>1. PICK F \in Makings : F.frameId = f /\ Live(F) BY LiveIs
<1>2. F.kind = asmBegin.kind /\ (Exact(F) \/ Misses(F)) BY <1>1 DEF LinkInv, HostHasFrame
<1>3. \/ n = Size(F) /\ ~(j \in DOMAIN stream /\ stream[j].type = "RECT")
      \/ /\ j \in DOMAIN stream /\ stream[j].type = "RECT"
         /\ stream[j].chunk.msg.frame = F.frameId
         /\ n = Start(stream[j]) /\ n \in Nat /\ n < Size(F)
  BY <1>1, AtPlace
<1>4. Got \in Nat /\ Size(F) \in Nat BY GotIs, MakingIs
<1>5. ~Misses(F)
  <2>1. CASE n = Size(F) BY <1>4, <2>1 DEF Misses
  <2>2. CASE /\ j \in DOMAIN stream /\ stream[j].type = "RECT"
             /\ stream[j].chunk.msg.frame = F.frameId /\ n = Start(stream[j])
    BY <1>4, <2>2 DEF Misses, Ahead
  <2> QED BY <1>3, <2>1, <2>2
<1> QED BY <1>1, <1>2, <1>3, <1>5

\* A host that has the whole frame is not inside a message.
LEMMA WholeIsDone ==
    ASSUME LinkInv, ~HandedMessage, NEW F \in Makings, Exact(F), payload # <<>>
    PROVE  Got # Size(F)
<1> DEFINE n == Len(asmReceived)
           k == Len(payload)
<1>1. n \in Nat /\ k \in Nat BY SeqIndices DEF LinkInv, TypesOK
<1>2. Pending = payload BY DEF Pending
<1>3. /\ n < Len(F.rects) /\ asmBytes = Upto(F, n)
      /\ k <= Len(F.rects[n + 1]) /\ k # Len(F.rects[n + 1])
  BY <1>2 DEF Exact
<1>4. /\ MadeOK(F) /\ Len(F.rects) \in Nat /\ DOMAIN F.rects = 1..Len(F.rects) /\ Size(F) \in Nat
      /\ \A j \in 0..Len(F.rects) : Upto(F, j) \in Nat /\ Upto(F, j) <= Size(F)
  BY MakingIs
<1>5. Got = Upto(F, n) + k BY <1>2, <1>3 DEF Got
<1> HIDE DEF n, k
<1>6. n + 1 \in DOMAIN F.rects /\ (n + 1) - 1 = n /\ n + 1 \in 0..Len(F.rects) /\ n \in 0..Len(F.rects)
  BY <1>1, <1>3, <1>4
<1>7. PICK m : m = RectAt(F, n + 1) OBVIOUS
<1>8. m \in Rects /\ m.at = Upto(F, (n + 1) - 1) /\ F.rects[n + 1] = Payload(m)
  BY <1>4, <1>6, <1>7 DEF MadeOK
<1>9. m.parts \in Nat \ {0} /\ m.at \in Nat BY <1>8 DEF Rects
<1>10. Len(F.rects[n + 1]) = m.parts BY <1>8, <1>9, PayloadIs
<1>11. n + 1 # 0 BY <1>1
<1>12. Upto(F, n + 1) = m.at + m.parts BY <1>7, <1>11 DEF Upto
<1>13. m.at = Upto(F, n) BY <1>6, <1>8
<1>14. Upto(F, n + 1) <= Size(F) BY <1>4, <1>6
<1> QED BY <1>1, <1>3, <1>4, <1>5, <1>9, <1>10, <1>12, <1>13, <1>14

\* While nothing has gone wrong the decoder takes the next packet as it is.
LEMMA TakenAsItIs ==
    ASSUME LinkInv, NumbersOK, Deliver, undisturbed
    PROVE  /\ 1 \in DOMAIN stream /\ stream # <<>> /\ PacketOK(stream[1]) /\ Head(stream) = stream[1]
           /\ HandleVerifiedPacket(stream[1])
<1>1. IsSeq(stream) /\ stream # <<>> BY DEF LinkInv, TypesOK, Deliver
<1>2. 1 \in DOMAIN stream /\ Head(stream) = stream[1] BY <1>1, TailKeeps
<1>3. PacketOK(stream[1]) BY <1>2 DEF LinkInv, StreamOK
<1>4. stream[1].type # "HELLO" => stream[1].seq = expectedSeq BY <1>2 DEF NumbersOK
<1>5. VerifiedPacket(stream[1]) BY <1>2 DEF Deliver
<1>6. HandleVerifiedPacket(stream[1]) BY <1>4, <1>5, Zenon DEF VerifiedPacket, BypassesSeqCheck
<1> QED BY <1>1, <1>2, <1>3, <1>6

\* A message of one packet is handed over; a pixel is taken as long as there is room for it.
LEMMA Taken ==
    ASSUME LinkInv, NumbersOK, Deliver, undisturbed
    PROVE  /\ stream[1].type # "RECT" => HandsOver(stream[1])
           /\ stream[1].type = "RECT" /\ Len(payload) < MaxMessageParts => TakesPixel(stream[1])
<1>1. PICK p : p = stream[1] OBVIOUS
<1>2. PacketOK(p) /\ HandleVerifiedPacket(p) /\ Skips /\ callbacks = <<>>
  BY <1>1, TakenAsItIs DEF Deliver, Skips, NoCallback
<1>3. p.chunked => p.type = "RECT"
  <2>1. p.chunk.msg.type # "RECT" => p.chunk.msg.parts = 1 BY <1>2, MessageTyped DEF PacketOK
  <2>2. p.chunk.msg.parts = 1 => ~(p.chunk.part < p.chunk.msg.parts) BY <1>2 DEF PacketOK
  <2> QED BY <1>2, <2>1, <2>2 DEF PacketOK
<1>4. payload # <<>> => messageType = "RECT" BY DEF LinkInv, CallbacksOK
<1>5. CASE payload = <<>> /\ AtBoundary(p, <<>>)
  <2>1. <<p.chunk>> = Append(payload, p.chunk) BY <1>5
  <2>2. Append(<<>>, MessageOf(p.type, <<p.chunk>>)) = <<MessageOf(p.type, <<p.chunk>>)>> OBVIOUS
  <2>3. CASE p.type = "RECT"
    <3>1. TakesPixel(p)
      BY <1>2, <1>5, <2>1, <2>2, <2>3, Zenon DEF AtBoundary, AbortMessage, TakesPixel
    <3> QED BY <1>1, <2>3, <3>1
  <2>4. CASE p.type # "RECT"
    <3>1. HandsOver(p)
      BY <1>2, <1>3, <1>5, <2>2, <2>4, Zenon DEF AtBoundary, AbortMessage, HandsOver
    <3> QED BY <1>1, <2>4, <3>1
  <2> QED BY <2>3, <2>4
<1>6. CASE payload # <<>> /\ p.type # messageType /\ AtBoundary(p, <<Error>>)
  <2>1. Append(<<Error>>, MessageOf(p.type, <<p.chunk>>)) = <<Error, MessageOf(p.type, <<p.chunk>>)>>
    <3>1. PICK e, a : e = Error /\ a = MessageOf(p.type, <<p.chunk>>) OBVIOUS
    <3>2. Append(<<e>>, a) = <<e, a>> BY AppendToOne
    <3> QED BY <3>1, <3>2, Zenon
  <2>2. ~p.chunked /\ p.type # "RECT" BY <1>3, <1>4, <1>6, Zenon
  <2>3. HandsOver(p) BY <1>2, <1>6, <2>1, <2>2, Zenon DEF AtBoundary, AbortMessage, HandsOver
  <2> QED BY <1>1, <2>2, <2>3
<1>7. CASE /\ payload # <<>> /\ p.type = messageType
           /\ \/ p.chunked /\ payload' = Append(payload, p.chunk) /\ UNCHANGED <<messageType, callbacks>>
              \/ /\ ~p.chunked /\ AbortMessage
                 /\ callbacks' = <<MessageOf(messageType, Append(payload, p.chunk))>>
  <2>1. p.type = "RECT" BY <1>4, <1>7
  <2>2. TakesPixel(p) BY <1>2, <1>4, <1>7, <2>1 DEF AbortMessage, TakesPixel
  <2> QED BY <1>1, <2>1, <2>2
<1>8. CASE payload # <<>> /\ p.type = messageType /\ Len(payload) >= MaxMessageParts
  <2>1. p.type = "RECT" BY <1>4, <1>8
  <2>2. Len(payload) \in Nat /\ MaxMessageParts \in Nat BY SeqIndices, BoundsAssumption DEF LinkInv, TypesOK
  <2>3. ~(Len(payload) < MaxMessageParts) BY <1>8, <2>2
  <2> QED BY <1>1, <2>1, <2>3
<1> QED BY <1>2, <1>5, <1>6, <1>7, <1>8 DEF HandleVerifiedPacket, assembling

\* What arrives undisturbed for a frame that was whole so far: so was the stream before it.
LEMMA GoodBefore ==
    ASSUME Deliver, Good', Head(stream) = stream[1]
    PROVE  undisturbed /\ (stream[1].type # "BEGIN" => Good)
<1>1. PICK p : p = stream[1] OBVIOUS
<1>2. whole' /\ preceded' BY DEF Good
<1>3. CASE p.type = "BEGIN"
  <2>1. preceded' = undisturbed BY <1>1, <1>3, Zenon DEF Deliver
  <2> QED BY <1>1, <1>2, <1>3, <2>1
<1>4. CASE p.type # "BEGIN"
  <2>1. whole' = (whole /\ undisturbed) /\ preceded' = preceded BY <1>1, <1>4, Zenon DEF Deliver
  <2>2. whole /\ undisturbed /\ preceded BY <1>2, <2>1, Zenon
  <2> QED BY <2>2 DEF Good
<1> QED BY <1>3, <1>4

LEMMA HostWaits ==
    ASSUME HostReady, Good, undisturbed, ~HandedMessage,
           NEW j, NEW f, NEW n, GoesOn(j, f, n), Clear(0, j), LiveNumber(f)
    PROVE  InFrame /\ asmBegin.frameId = f /\ Got = n
BY DEF HostReady, HostAt

LEMMA FirstPlace ==
    ASSUME LinkInv, 1 \in DOMAIN stream, stream[1].type = "END" => ~stream[1].chunk.msg.aborted,
           stream[1].type \in {"RECT", "END"}
    PROVE  /\ Clear(0, 1)
           /\ stream[1].type = "RECT" => GoesOn(1, stream[1].chunk.msg.frame, Start(stream[1]))
           /\ stream[1].type = "END" =>
                 /\ GoesOn(1, stream[1].chunk.msg.frame, stream[1].chunk.msg.bytes)
                 /\ LiveNumber(stream[1].chunk.msg.frame)
<1>1. DOMAIN stream = 1..Len(stream) /\ Len(stream) \in Nat BY SeqIndices DEF LinkInv, TypesOK
<1>2. Clear(0, 1) BY <1>1 DEF Clear
<1>3. stream[1].type = "END" => stream[1].chunk.msg \in Coming /\ stream[1].chunk.msg.type = "END"
  BY ComingIs
<1> QED BY <1>2, <1>3 DEF GoesOn, LiveNumber

\* The pixel the host waits for is taken, and it waits for the next.
LEMMA PixelReceived ==
    ASSUME LinkInv, NumbersOK, OnePiece, HostReady, Deliver, Good, undisturbed,
           stream[1].type = "RECT", LiveNumber(stream[1].chunk.msg.frame)
    PROVE  /\ InFrame' /\ asmBegin'.frameId = stream[1].chunk.msg.frame /\ Got' = Stop(stream[1])
           /\ HandedMessage' => Handed'.type = "RECT"
           /\ callbacks' # <<>> => HandedMessage' /\ callbacks' = <<Handed'>>
<1>1. PICK p : p = stream[1] OBVIOUS
<1>2. PICK f : f = p.chunk.msg.frame OBVIOUS
<1>3. /\ 1 \in DOMAIN stream /\ PacketOK(p) /\ ~HandedMessage /\ Pending = payload
      /\ UNCHANGED asmVars /\ p.type = "RECT" /\ LiveNumber(f)
  BY <1>1, <1>2, TakenAsItIs, Receives, Outcomes DEF Receive
<1>4. Clear(0, 1) /\ GoesOn(1, f, Start(p)) BY <1>1, <1>2, <1>3, FirstPlace
<1>5. InFrame /\ asmBegin.frameId = f /\ Got = Start(p) BY <1>3, <1>4, HostWaits
<1>6. PICK F \in Makings : F.frameId = f /\ Exact(F) BY <1>3, <1>4, <1>5, ExactAt
<1>7. /\ Len(asmReceived) \in Nat /\ Len(payload) \in Nat /\ Len(asmReceived) < Len(F.rects)
      /\ p.chunk = F.rects[Len(asmReceived) + 1][Len(payload) + 1]
      /\ Len(F.rects[Len(asmReceived) + 1]) \in Nat
      /\ Len(payload) < Len(F.rects[Len(asmReceived) + 1])
  BY <1>1, <1>2, <1>3, <1>5, <1>6, NextPixel
<1>8. Len(payload) < MaxMessageParts
  <2>1. PICK l, k : l = Len(asmReceived) + 1 /\ k = Len(payload) + 1 OBVIOUS
  <2>2. MadeOK(F) /\ DOMAIN F.rects = 1..Len(F.rects) /\ Len(F.rects) \in Nat BY MakingIs
  <2>3. l \in DOMAIN F.rects BY <1>7, <2>1, <2>2
  <2>4. RectAt(F, l) \in Rects /\ F.rects[l] = Payload(RectAt(F, l)) BY <2>2, <2>3 DEF MadeOK
  <2>5. PICK m : m = RectAt(F, l) OBVIOUS
  <2>6. m.parts \in Nat \ {0} BY <2>4, <2>5 DEF Rects
  <2>7. /\ Len(F.rects[l]) = m.parts
        /\ \A i \in 1..m.parts : F.rects[l][i] = Chunk(m, i)
    BY <2>4, <2>5, <2>6, PayloadIs
  <2>8. k \in 1..m.parts BY <1>7, <2>1, <2>6, <2>7
  <2>9. p.chunk = Chunk(m, k) BY <1>7, <2>1, <2>7, <2>8
  <2>10. p.chunk.msg = m BY <2>9 DEF Chunk
  <2>11. m.parts <= MaxParts BY <1>1, <1>3, <2>10 DEF OnePiece
  <2>12. MaxParts <= MaxMessageParts /\ MaxParts \in Nat /\ MaxMessageParts \in Nat BY BoundsAssumption
  <2> QED BY <1>7, <2>1, <2>6, <2>8, <2>11, <2>12
<1>9. TakesPixel(p) BY <1>1, <1>3, <1>8, Taken
<1>10. /\ Pending' = Append(payload, p.chunk)
       /\ p.chunked => ~HandedMessage'
       /\ ~p.chunked => HandedMessage' /\ Handed' = MessageOf("RECT", Pending') /\ Handed'.type = "RECT"
  BY <1>9, Outcomes DEF Receive
<1>11. Got' = Got + 1
  <2>1. IsSeq(payload) /\ asmBytes \in Nat /\ asmBytes' = asmBytes BY <1>3 DEF LinkInv, TypesOK, asmVars
  <2>2. Len(Append(payload, p.chunk)) = Len(payload) + 1 BY <2>1, AppendKeeps
  <2>3. Len(Pending') = Len(payload) + 1 BY <1>10, <2>2
  <2>4. Got' = asmBytes + (Len(payload) + 1) BY <2>1, <2>3 DEF Got
  <2>5. Got = asmBytes + Len(payload) BY <1>3 DEF Got
  <2> QED BY <1>7, <2>1, <2>4, <2>5
<1>12. Got' = Stop(p)
  <2>1. Start(p) \in Nat /\ Stop(p) = Start(p) + 1 BY <1>1, <1>2, <1>3, <1>6, PixelIs
  <2> QED BY <1>5, <1>11, <2>1
<1>13. callbacks' # <<>> => HandedMessage' /\ callbacks' = <<Handed'>>
  <2>1. p.chunked => callbacks' = <<>> BY <1>9 DEF TakesPixel
  <2>2. ~p.chunked => callbacks' = <<MessageOf("RECT", Append(payload, p.chunk))>>
    BY <1>9 DEF TakesPixel
  <2>3. ~p.chunked => callbacks' = <<Handed'>> BY <1>10, <2>2
  <2> QED BY <1>10, <2>1, <2>3
<1>14. InFrame' /\ asmBegin'.frameId = f BY <1>3, <1>5 DEF InFrame, asmVars
<1> QED BY <1>1, <1>2, <1>10, <1>12, <1>13, <1>14

\* A message of one packet is taken between two messages of a frame, and it is all that is
\* handed over.
LEMMA BetweenReceived ==
    ASSUME LinkInv, NumbersOK, Deliver, undisturbed, stream[1].type # "RECT", payload = <<>>
    PROVE  /\ HandedMessage' /\ callbacks' = <<Handed'>> /\ Got' = Got /\ UNCHANGED asmVars
           /\ Handed'.type = stream[1].type /\ Handed'.payload[1] = stream[1].chunk
<1>1. PICK p : p = stream[1] OBVIOUS
<1>2. HandsOver(p) BY <1>1, Taken
<1>3. UNCHANGED asmVars /\ Pending = payload BY Receives, Outcomes DEF Receive
<1>4. /\ HandedMessage' /\ Handed' = MessageOf(p.type, <<p.chunk>>)
      /\ Handed'.type = p.type /\ Handed'.payload = <<p.chunk>> /\ Pending' = <<>>
  BY <1>2, Outcomes DEF Receive
<1>5. callbacks' = <<Handed'>> BY <1>2, <1>4 DEF HandsOver
<1>6. Pending' = Pending BY <1>3, <1>4
<1>7. Got' = Got BY <1>3, <1>6 DEF Got, asmVars
<1> QED BY <1>1, <1>3, <1>4, <1>5, <1>7

\* Between two packets of a RECT there is nothing else.
LEMMA NotInside ==
    ASSUME LinkInv, OnePiece, ~HandedMessage, 1 \in DOMAIN stream, stream[1].type # "RECT",
           NEW j \in Nat \ {0, 1}, NEW f, NEW n, GoesOn(j, f, n), Clear(1, j), LiveNumber(f),
           InFrame, asmBegin.frameId = f, Got = n
    PROVE  payload = <<>>
<1> SUFFICES ASSUME payload # <<>> PROVE FALSE OBVIOUS
<1>1. PICK F \in Makings :
         /\ F.frameId = f /\ Exact(F)
         /\ \/ Got = Size(F)
            \/ /\ j \in DOMAIN stream /\ stream[j].type = "RECT"
               /\ stream[j].chunk.msg.frame = f /\ Start(stream[j]) = Got
  BY ExactAt
<1>2. Got # Size(F) BY <1>1, WholeIsDone
<1>3. /\ j \in DOMAIN stream /\ stream[j].type = "RECT"
      /\ stream[j].chunk.msg.frame = F.frameId /\ Start(stream[j]) = Got
  BY <1>1, <1>2
<1>4. /\ Len(asmReceived) \in Nat /\ Len(payload) \in Nat /\ Len(asmReceived) < Len(F.rects)
      /\ stream[j].chunk = F.rects[Len(asmReceived) + 1][Len(payload) + 1]
      /\ Len(F.rects[Len(asmReceived) + 1]) \in Nat
      /\ Len(payload) < Len(F.rects[Len(asmReceived) + 1])
  BY <1>1, <1>3, NextPixel
<1>5. Len(payload) > 0 BY <1>4, NonEmpty DEF LinkInv, TypesOK
<1>6. stream[j].chunk.part > 1
  <2>1. PICK l, k : l = Len(asmReceived) + 1 /\ k = Len(payload) + 1 OBVIOUS
  <2>2. MadeOK(F) /\ DOMAIN F.rects = 1..Len(F.rects) /\ Len(F.rects) \in Nat BY MakingIs
  <2>3. l \in DOMAIN F.rects BY <1>4, <2>1, <2>2
  <2>4. RectAt(F, l) \in Rects /\ F.rects[l] = Payload(RectAt(F, l)) BY <2>2, <2>3 DEF MadeOK
  <2>5. PICK m : m = RectAt(F, l) OBVIOUS
  <2>6. m.parts \in Nat \ {0} BY <2>4, <2>5 DEF Rects
  <2>7. /\ Len(F.rects[l]) = m.parts
        /\ \A i \in 1..m.parts : F.rects[l][i] = Chunk(m, i)
    BY <2>4, <2>5, <2>6, PayloadIs
  <2>8. k \in 1..m.parts BY <1>4, <2>1, <2>6, <2>7
  <2>9. stream[j].chunk = Chunk(m, k) BY <1>4, <2>1, <2>7, <2>8
  <2>10. stream[j].chunk.part = k BY <2>9 DEF Chunk
  <2> QED BY <1>4, <1>5, <2>1, <2>10
<1>7. DOMAIN stream = 1..Len(stream) /\ Len(stream) \in Nat BY SeqIndices DEF LinkInv, TypesOK
<1>8. PICK i \in DOMAIN stream : j = i + 1
  <2>1. j - 1 \in DOMAIN stream /\ j = (j - 1) + 1 BY <1>3, <1>7
  <2> QED BY <2>1
<1>9. stream[i].type = "RECT" BY <1>3, <1>6, <1>8 DEF OnePiece
<1>10. i # 1 BY <1>9
<1>11. 1 < i /\ i < j BY <1>7, <1>8, <1>10
<1>12. Framed(stream[i].chunk.msg) BY <1>9, ComingIs DEF Framed
<1> QED BY <1>11, <1>12 DEF Clear

LEMMA ReadyReceived ==
    ASSUME LinkInv, NumbersOK, OnePiece, HostReady, Receive
    PROVE  HostReady'
<1>1. /\ DOMAIN stream' = 1..Len(stream') /\ Len(stream') \in Nat
      /\ DOMAIN stream = 1..Len(stream) /\ Len(stream) \in Nat
  BY Shifts
<1>2. PICK d \in {0, 1} : Shifted(d) BY Shifts
<1>3. ~HandedMessage /\ UNCHANGED asmVars BY Receives, Outcomes
<1>4. UNCHANGED <<sending, mustAbort>> /\ Coming' \subseteq Coming
  BY Receives, HandsFirst DEF senderVars
<1>5. \A f : LiveNumber(f)' => LiveNumber(f) BY <1>4 DEF LiveNumber
<1>6. (InFrame' <=> InFrame) /\ asmBegin' = asmBegin BY <1>3 DEF InFrame, asmVars
<1>7. ASSUME Deliver, Good'
      PROVE  /\ undisturbed /\ (stream[1].type # "BEGIN" => Good)
             /\ 1 \in DOMAIN stream /\ d = 1
  <2>1. stream # <<>> /\ IsSeq(stream) BY <1>7 DEF Deliver, LinkInv, TypesOK
  <2>2. 1 \in DOMAIN stream /\ Head(stream) = stream[1] BY <2>1, TailKeeps
  <2>3. undisturbed /\ (stream[1].type # "BEGIN" => Good) BY <1>7, <2>2, GoodBefore
  <2>4. Skips BY <1>7 DEF Deliver, Skips
  <2> QED BY <1>2, <2>2, <2>3, <2>4 DEF Shifted
<1>8. ASSUME Good', undisturbed', NEW j, NEW f, NEW n, GoesOn(j, f, n)', Clear(0, j)', LiveNumber(f)'
      PROVE  HostAt(f, n)'
  <2>1. Deliver BY <1>8 DEF Receive, Lose, Damage, StallTimeout, StreamFault, Disturb
  <2>2. undisturbed /\ (stream[1].type # "BEGIN" => Good) /\ 1 \in DOMAIN stream /\ d = 1
    BY <1>7, <1>8, <2>1
  <2>3. j \in Nat \ {0} /\ GoesOn(j + 1, f, n) BY <1>2, <1>8, <2>2 DEF Shifted
  <2>4. Clear(1, j + 1)
    <3>1. Clear(0 + 1, j + 1) BY <1>2, <1>8, <2>2, <2>3 DEF Shifted
    <3> QED BY <3>1
  <2>5. LiveNumber(f) BY <1>5, <1>8
  <2>6. 1 < j + 1 BY <2>3
  <2>7. Framed(stream[1].chunk.msg) => LeadsTo(stream[1], f, n)
    BY <2>2, <2>3, <2>4, <2>6 DEF OnePiece
  <2>8. /\ PacketOK(stream[1]) /\ stream[1].type \in {"BEGIN", "RECT", "END", "PING", "HELLO"}
        /\ stream[1].chunk.msg.type = stream[1].type
    BY <2>2, MessageTyped DEF LinkInv, StreamOK, PacketOK
  <2>9. CASE stream[1].type = "BEGIN"
    <3>1. f = stream[1].chunk.msg.frame /\ n = 0 BY <2>7, <2>8, <2>9 DEF LeadsTo, Framed
    <3>2. HandsOver(stream[1]) BY <2>1, <2>2, <2>9, Taken
    <3>3. /\ HandedMessage' /\ Handed'.type = "BEGIN"
          /\ Handed'.payload = <<stream[1].chunk>>
      BY <2>9, <3>2, Outcomes
    <3>4. Handed'.payload[1] = stream[1].chunk BY <3>3
    <3> QED BY <3>1, <3>3, <3>4 DEF HostAt
  <2>10. CASE stream[1].type = "RECT"
    <3>1. f = stream[1].chunk.msg.frame /\ n = Stop(stream[1])
      BY <2>7, <2>8, <2>10 DEF LeadsTo, Framed
    <3>2. /\ InFrame' /\ asmBegin'.frameId = f /\ Got' = n
          /\ HandedMessage' => Handed'.type = "RECT"
          /\ callbacks' # <<>> => HandedMessage' /\ callbacks' = <<Handed'>>
      BY <2>1, <2>2, <2>5, <2>10, <3>1, PixelReceived
    <3> QED BY <3>2 DEF HostAt
  <2>11. CASE stream[1].type = "END" BY <2>7, <2>8, <2>11 DEF LeadsTo, Framed
  <2>12. CASE stream[1].type \in {"PING", "HELLO"}
    <3>1. ~Framed(stream[1].chunk.msg) BY <2>8, <2>12 DEF Framed
    <3>2. Clear(0, j + 1)
      <4>1. \A k \in DOMAIN stream : 0 < k => k = 1 \/ 1 < k BY <1>1
      <4> QED BY <2>4, <3>1, <4>1 DEF Clear
    <3>3. InFrame /\ asmBegin.frameId = f /\ Got = n
      BY <1>3, <2>2, <2>3, <2>5, <2>12, <3>2, HostWaits
    <3>4. payload = <<>>
      <4>1. j + 1 \in Nat \ {0, 1} BY <2>3
      <4> QED BY <1>3, <2>2, <2>3, <2>4, <2>5, <2>12, <3>3, <4>1, NotInside
    <3>5. /\ HandedMessage' /\ callbacks' = <<Handed'>> /\ Got' = Got
          /\ Handed'.type = stream[1].type
      BY <2>1, <2>2, <2>12, <3>4, BetweenReceived
    <3> QED BY <1>6, <2>12, <3>3, <3>5 DEF HostAt
  <2> QED BY <2>8, <2>9, <2>10, <2>11, <2>12
<1>9. ASSUME Good', HandedMessage', Handed'.type = "END", ~Handed'.payload[1].msg.aborted
      PROVE  HostAt(Handed.payload[1].msg.frame, Handed.payload[1].msg.bytes)'
  <2>1. /\ Deliver /\ 1 \in DOMAIN stream
        /\ stream[1].type = "END" /\ Handed'.payload[1] = stream[1].chunk
    BY <1>9, HandsFirst
  <2>2. PICK m : m = stream[1].chunk.msg OBVIOUS
  <2>3. m = Handed'.payload[1].msg /\ ~m.aborted BY <1>9, <2>1, <2>2
  <2>4. undisturbed /\ Good BY <1>7, <1>9, <2>1
  <2>5. GoesOn(1, m.frame, m.bytes) /\ Clear(0, 1) /\ LiveNumber(m.frame)
    BY <2>1, <2>2, <2>3, FirstPlace
  <2>6. InFrame /\ asmBegin.frameId = m.frame /\ Got = m.bytes BY <1>3, <2>4, <2>5, HostWaits
  <2>7. payload = <<>>
    <3>1. PICK F \in Makings : Exact(F) /\ Got = Size(F)
      <4>1. ~(1 \in DOMAIN stream /\ stream[1].type = "RECT") BY <2>1
      <4> QED BY <2>5, <2>6, <4>1, ExactAt
    <3> QED BY <1>3, <3>1, WholeIsDone
  <2>8. callbacks' = <<Handed'>> /\ Got' = Got
    BY <2>1, <2>4, <2>7, BetweenReceived
  <2>9. PICK f, n : f = m.frame /\ n = m.bytes OBVIOUS
  <2>10. HostAt(f, n)' BY <1>6, <1>9, <2>6, <2>8, <2>9 DEF HostAt
  <2>11. f = Handed'.payload[1].msg.frame /\ n = Handed'.payload[1].msg.bytes BY <2>3, <2>9
  <2> QED BY <2>10, <2>11 DEF HostAt
<1> QED BY <1>8, <1>9 DEF HostReady

LEMMA RunsAlone ==
    ASSUME LinkInv, RunCallback, HandedMessage, callbacks = <<Handed>>
    PROVE  /\ Head(callbacks) = Handed /\ ~HandedMessage' /\ payload = <<>> /\ Pending' = <<>>
           /\ callbacks' = <<>> /\ Handed.kind = "message"
<1>1. Handed.kind = "message" BY DEF HandedMessage
<1>2. PICK a : a = Handed OBVIOUS
<1>3. Tail(<<a>>) = <<>> /\ Head(<<a>>) = a OBVIOUS
<1>4. callbacks' = <<>> /\ Head(callbacks) = Handed BY <1>2, <1>3 DEF RunCallback
<1>5. payload = <<>> /\ payload' = payload BY RunKeeps DEF LinkInv, CallbacksOK
<1>6. ~HandedMessage' BY <1>4 DEF HandedMessage
<1>7. Pending' = <<>> BY <1>5, <1>6 DEF Pending
<1> QED BY <1>1, <1>4, <1>5, <1>6, <1>7

\* The RECT the host waits for is well formed.
LEMMA RectRuns ==
    ASSUME LinkInv, HandedMessage, Handed.type = "RECT", InFrame, NEW F \in Makings, Exact(F),
           NEW verdict
    PROVE  Assembler!WellFormedRect(Handed.payload, verdict)
<1> DEFINE n == Len(asmReceived)
           q == Handed.payload
<1>1. /\ Pending = q /\ payload = <<>> /\ IsSeq(q) /\ n \in Nat
  BY SeqIndices DEF Pending, LinkInv, TypesOK, CallbacksOK
<1>2. q # <<>>
  <2>1. Error.kind # "message" BY DEF Error
  <2>2. callbacks # <<>> /\ callbacks # <<Error>>
    BY <2>1 DEF HandedMessage, Handed
  <2> QED BY <2>2 DEF LinkInv, CallbacksOK
<1>3. /\ n < Len(F.rects) /\ Len(q) = Len(F.rects[n + 1])
      /\ \A k \in DOMAIN q : q[k] = F.rects[n + 1][k]
  BY <1>1, <1>2 DEF Exact
<1>4. MadeOK(F) /\ DOMAIN F.rects = 1..Len(F.rects) /\ Len(F.rects) \in Nat BY MakingIs
<1> HIDE DEF n, q
<1>5. n + 1 \in DOMAIN F.rects BY <1>1, <1>3, <1>4
<1>6. PICK m : m = RectAt(F, n + 1) OBVIOUS
<1>7. m \in Rects /\ F.rects[n + 1] = Payload(m) BY <1>4, <1>5, <1>6 DEF MadeOK
<1>8. m.parts \in Nat \ {0} BY <1>7 DEF Rects
<1>9. Len(F.rects[n + 1]) = m.parts /\ F.rects[n + 1][1] = Chunk(m, 1)
  <2>1. 1 \in 1..m.parts BY <1>8
  <2> QED BY <1>7, <1>8, <2>1, PayloadIs
<1>10. 1 \in DOMAIN q
  <2>1. DOMAIN q = 1..Len(q) /\ Len(q) = m.parts BY <1>1, <1>3, <1>9, SeqIndices
  <2> QED BY <1>8, <2>1
<1>11. q[1] = Chunk(m, 1) BY <1>3, <1>9, <1>10
<1>12. q[1].msg = m /\ q[1].part = 1 BY <1>11 DEF Chunk
<1>13. Len(q) = q[1].msg.parts BY <1>3, <1>9, <1>12
<1> QED BY <1>12, <1>13 DEF Assembler!WellFormedRect, q

LEMMA ReadyRun ==
    ASSUME LinkInv, CountsOK, OnePiece, HostReady, RunCallback
    PROVE  HostReady'
<1>1. /\ UNCHANGED <<stream, sending, mustAbort, payload>> /\ Coming' \subseteq Coming
      /\ HandedMessage' => Handed' = Handed /\ HandedMessage
  BY RunKeeps
<1>2. UNCHANGED <<whole, preceded, undisturbed>> BY DEF RunCallback, historyVars
<1>3. /\ \A j, f, n : GoesOn(j, f, n)' <=> GoesOn(j, f, n)
      /\ \A i, j : Clear(i, j)' <=> Clear(i, j)
      /\ \A f : LiveNumber(f)' => LiveNumber(f)
  BY <1>1 DEF GoesOn, Start, Clear, LiveNumber
<1>4. ASSUME Head(callbacks).kind = "error" PROVE ~(HandedMessage /\ callbacks = <<Handed>>)
  BY <1>4, RunsAlone
<1>5. ASSUME ~(Head(callbacks).kind = "error")
      PROVE  HandedMessage /\ callbacks = <<Handed>> /\ ~HandedMessage'
  BY <1>5, Runs
<1>6. ASSUME Good, undisturbed, NEW j, NEW f, NEW n, GoesOn(j, f, n), Clear(0, j), LiveNumber(f)
      PROVE  HostAt(f, n)'
  <2>1. HostAt(f, n) BY <1>6 DEF HostReady
  <2>2. CASE Head(callbacks).kind = "error"
    <3>1. HandedMessage' /\ Handed' = Handed
      <4>1. HandedMessage
        <5>1. callbacks # <<>> BY DEF RunCallback
        <5> QED BY <2>1, <5>1 DEF HostAt
      <4> QED BY <2>2, <4>1, <1>4, Runs
    <3>2. Handed.type = "BEGIN" /\ Handed.payload[1].msg.frame = f /\ n = 0
      <4>1. callbacks # <<>> BY DEF RunCallback
      <4> QED BY <1>4, <2>1, <2>2, <4>1 DEF HostAt
    <3> QED BY <3>1, <3>2 DEF HostAt
  <2>3. CASE ~(Head(callbacks).kind = "error")
    <3>1. HandedMessage /\ callbacks = <<Handed>> BY <1>5, <2>3
    <3>2. /\ Head(callbacks) = Handed /\ ~HandedMessage' /\ payload = <<>> /\ Pending' = <<>>
          /\ callbacks' = <<>> /\ Handed.kind = "message"
      BY <3>1, RunsAlone
    <3>3. Got' = asmBytes'
      <4>1. asmBytes' \in Nat BY CallbackPreserves DEF LinkInv, TypesOK
      <4>2. Len(Pending') = 0 BY <3>2
      <4>3. PICK a, b : a = asmBytes' /\ b = Len(Pending') OBVIOUS
      <4>4. Got' = a + b BY <4>3 DEF Got
      <4>5. b = 0 BY <4>2, <4>3
      <4>6. a \in Nat BY <4>1, <4>3
      <4>7. a + b = a BY <4>5, <4>6
      <4> QED BY <4>3, <4>4, <4>7, Zenon
    <3> SUFFICES InFrame' /\ asmBegin'.frameId = f /\ asmBytes' = n
      BY <3>2, <3>3 DEF HostAt
    <3>4. Handed.type # "HELLO"
      <4> SUFFICES ASSUME Handed.type = "HELLO" PROVE FALSE OBVIOUS
      <4>1. stream = <<>> /\ handshaking BY <3>1 DEF LinkInv, HandshakeOK
      <4>2. DOMAIN stream = {} BY <4>1
      <4>3. sending.open BY <1>6, <4>2 DEF GoesOn
      <4> QED BY <4>1, <4>3 DEF LinkInv, FramesOK
    <3>5. Handed.type # "END" BY <1>6, <3>1 DEF OnePiece
    <3>6. CASE Handed.type = "BEGIN"
      <4>1. PICK m : m = Handed.payload[1].msg OBVIOUS
      <4>2. m.valid /\ m.frame = f /\ n = 0
        <5>1. m.valid BY <1>6, <3>1, <3>6, <4>1 DEF CountsOK, Good
        <5> QED BY <2>1, <3>1, <3>6, <4>1, <5>1 DEF HostAt
      <4>3. m.frame \in 0..MaxFrames
        <5>1. m.frame \in 1..frames /\ frames \in 0..MaxFrames /\ MaxFrames \in Nat
          BY <3>1, <3>6, <4>1, ComingIs, BoundsAssumption DEF Framed, LinkInv, FramesOK
        <5> QED BY <5>1
      <4>4. Assembler!HandleBegin(m) BY <3>2, <3>6, <4>1 DEF RunCallback
      <4>5. /\ asmState' = "InFrame" /\ asmBytes' = 0
            /\ asmBegin' = [frameId |-> m.frame, kind |-> m.kind]
        BY <4>2, <4>4 DEF Assembler!HandleBegin, Assembler!StartFrame
      <4>6. asmBegin'.frameId = m.frame BY <4>5
      <4> QED BY <4>2, <4>5, <4>6 DEF InFrame
    <3>7. CASE Handed.type # "BEGIN"
      <4>1. InFrame /\ asmBegin.frameId = f /\ Got = n BY <2>1, <3>7 DEF HostAt
      <4>2. CASE Handed.type = "RECT"
        <5>1. PICK F \in Makings : Exact(F) BY <1>6, <4>1, ExactAt
        <5>2. \A verdict : Assembler!WellFormedRect(Handed.payload, verdict)
          BY <3>1, <4>1, <4>2, <5>1, RectRuns
        <5>3. PICK verdict \in BOOLEAN : Assembler!HandleRect(Handed.payload, verdict)
          BY <3>2, <4>2 DEF RunCallback
        <5>4. asmBytes' = asmBytes + Len(Handed.payload) /\ UNCHANGED <<asmState, asmBegin>>
          BY <4>1, <5>2, <5>3 DEF Assembler!HandleRect, InFrame
        <5>5. Got = asmBytes + Len(Handed.payload) BY <3>1, <4>2 DEF Got, Pending
        <5> QED BY <4>1, <5>4, <5>5 DEF InFrame
      <4>3. CASE Handed.type # "RECT"
        <5>1. UNCHANGED asmVars BY <3>2, <3>4, <3>5, <3>7, <4>3 DEF RunCallback
        <5>2. Got = asmBytes
          <6>1. Pending = <<>> BY <3>2, <4>3 DEF Pending
          <6>2. Len(Pending) = 0 /\ asmBytes \in Nat BY <6>1 DEF LinkInv, TypesOK
          <6> QED BY <6>2 DEF Got
        <5> QED BY <4>1, <5>1, <5>2 DEF asmVars, InFrame
      <4> QED BY <4>2, <4>3
    <3> QED BY <3>6, <3>7
  <2> QED BY <2>2, <2>3
<1>7. ASSUME Good, HandedMessage', Handed'.type = "END", ~Handed'.payload[1].msg.aborted
      PROVE  FALSE
  <2>1. HandedMessage /\ Handed' = Handed BY <1>1, <1>7
  <2>2. HostAt(Handed.payload[1].msg.frame, Handed.payload[1].msg.bytes)
    BY <1>7, <2>1 DEF HostReady
  <2>3. callbacks # <<>> BY DEF RunCallback
  <2>4. callbacks = <<Handed>> BY <1>7, <2>1, <2>2, <2>3 DEF HostAt
  <2> QED BY <1>7, <2>1, <2>4, RunsAlone
<1>8. Good' <=> Good BY <1>2 DEF Good
<1> QED BY <1>2, <1>3, <1>6, <1>7, <1>8 DEF HostReady
-----------------------------------------------------------------------------
(* The invariant.                                                          *)

LEMMA FlowStarts == FrameLinkInit => FlowInv
<1> SUFFICES ASSUME FrameLinkInit PROVE FlowInv OBVIOUS
<1>1. /\ callbacks = <<>> /\ stream = <<>> /\ seq = 0 /\ undisturbed = FALSE /\ whole = FALSE
      /\ asmState = "Idle" /\ finished = <<>> /\ sending = NothingSent
  BY DEF FrameLinkInit, DecoderInit, Assembler!AssemblerInit
<1>2. ~HandedMessage /\ ~InFrame /\ ~sending.open /\ DOMAIN stream = {}
  BY <1>1 DEF HandedMessage, InFrame, NothingSent
<1>3. Coming = {} BY <1>2 DEF Coming
<1>4. NumbersOK BY <1>1, <1>2, SeqSpaceAssumption DEF NumbersOK
<1>5. CountsOK BY <1>2, <1>3 DEF CountsOK
<1>6. OnePiece BY <1>2 DEF OnePiece, GoesOn
<1>7. HostReady BY <1>1 DEF HostReady, Good
<1> QED BY <1>4, <1>5, <1>6, <1>7, LinkStarts DEF FlowInv

LEMMA FlowGrows ==
    ASSUME FlowInv, NEW m \in Messages, NEW n \in 0..m.parts, Emit(m, n),
           UNCHANGED <<decoderVars, asmVars, historyVars>>,
           StreamGrows, PlacesFollow, \A f \in 1..frames : LiveNumber(f)' => LiveNumber(f)
    PROVE  NumbersOK' /\ OnePiece' /\ HostReady'
<1>1. UNCHANGED <<undisturbed, expectedSeq, callbacks>> BY DEF decoderVars, historyVars
<1>2. HandedMessage' => HandedMessage /\ Handed' = Handed BY <1>1 DEF HandedMessage, Handed
<1>3. NumbersOK' BY <1>1, NumbersGrow DEF FlowInv
<1>4. OnePiece' BY <1>2, PiecesGrow DEF FlowInv
<1>5. HostReady' BY ReadyGrows DEF FlowInv
<1> QED BY <1>3, <1>4, <1>5

LEMMA FlowSteps == FlowInv /\ [FrameLinkNext]_frameLinkVars => FlowInv'
<1> SUFFICES ASSUME FlowInv, [FrameLinkNext]_frameLinkVars PROVE FlowInv' OBVIOUS
<1>0. LinkInv /\ LinkInv' /\ NumbersOK /\ CountsOK /\ OnePiece /\ HostReady BY LinkSteps DEF FlowInv
<1> SUFFICES NumbersOK' /\ CountsOK' /\ OnePiece' /\ HostReady' BY <1>0 DEF FlowInv
<1>1. ASSUME NEW kind \in {"FULL", "PARTIAL"}, NEW valid \in BOOLEAN, NEW n \in 0..1,
             BeginFrame(kind, valid, n)
      PROVE  NumbersOK' /\ CountsOK' /\ OnePiece' /\ HostReady'
  <2>1. PICK m : m = BeginMsg(frames + 1, kind, valid) OBVIOUS
  <2>2. Emit(m, n) /\ UNCHANGED <<decoderVars, asmVars, historyVars>> BY <1>1, <2>1 DEF BeginFrame
  <2>3. m \in Messages /\ m.parts = 1
    BY <1>0, <2>1, FrameNumbers DEF BeginMsg, Messages, Begins, Kinds
  <2>4. /\ StreamGrows /\ PlacesFollow /\ \A f \in 1..frames : LiveNumber(f)' => LiveNumber(f)
    BY <1>0, <1>1, BeginPlaces DEF Kinds
  <2>5. CountsOK' BY <1>0, <1>1, CountsBegin DEF Kinds
  <2> QED BY <2>2, <2>3, <2>4, <2>5, FlowGrows
<1>2. ASSUME NEW parts \in 1..MaxParts, NEW n \in 0..parts, SendRectMessage(parts, n)
      PROVE  NumbersOK' /\ CountsOK' /\ OnePiece' /\ HostReady'
  <2>1. PICK m : m = RectMsg(sending.frame, sending.bytes, parts) OBVIOUS
  <2>2. Emit(m, n) /\ UNCHANGED <<decoderVars, asmVars, historyVars>>
    BY <1>2, <2>1 DEF SendRectMessage
  <2>3. m \in Messages /\ m.parts = parts
    <3>1. parts \in Nat \ {0} BY BoundsAssumption
    <3>2. sending.bytes \in Nat /\ sending.frame \in Nat BY <1>0 DEF LinkInv, SendingOK
    <3> QED BY <2>1, <3>1, <3>2 DEF RectMsg, Messages, Rects
  <2>4. /\ StreamGrows /\ PlacesFollow /\ \A f \in 1..frames : LiveNumber(f)' => LiveNumber(f)
    BY <1>0, <1>2, RectPlaces
  <2>5. CountsOK' BY <1>0, <1>2, CountsRect
  <2> QED BY <2>2, <2>3, <2>4, <2>5, FlowGrows
<1>3. ASSUME NEW aborted \in BOOLEAN, NEW n \in 0..1, EndFrame(aborted, n)
      PROVE  NumbersOK' /\ CountsOK' /\ OnePiece' /\ HostReady'
  <2>1. PICK m : m = EndMsg(sending.frame, Len(sending.rects), sending.bytes, aborted) OBVIOUS
  <2>2. Emit(m, n) /\ UNCHANGED <<decoderVars, asmVars, historyVars>> BY <1>3, <2>1 DEF EndFrame
  <2>3. m \in Messages /\ m.parts = 1
    <3>1. sending.bytes \in Nat /\ sending.frame \in Nat /\ Len(sending.rects) \in Nat
      BY <1>0, SeqIndices DEF LinkInv, SendingOK, TypesOK
    <3> QED BY <2>1, <3>1 DEF EndMsg, Messages, Ends
  <2>4. /\ StreamGrows /\ PlacesFollow /\ \A f \in 1..frames : LiveNumber(f)' => LiveNumber(f)
    BY <1>0, <1>3, EndPlaces
  <2>5. CountsOK' BY <1>0, <1>3, CountsEnd
  <2> QED BY <2>2, <2>3, <2>4, <2>5, FlowGrows
<1>4. CASE SendControl
  <2>1. PICK m : m = ControlMsg OBVIOUS
  <2>2. Emit(m, 1) /\ UNCHANGED <<decoderVars, asmVars, historyVars>> BY <1>4, <2>1 DEF SendControl
  <2>3. m \in Messages /\ m.parts = 1 BY <2>1 DEF ControlMsg, Messages
  <2>4. 1 \in 0..m.parts BY <2>3
  <2>5. /\ StreamGrows /\ PlacesFollow /\ \A f \in 1..frames : LiveNumber(f)' => LiveNumber(f)
    BY <1>0, <1>4, ControlPlaces
  <2>6. CountsOK' BY <1>0, <1>4, CountsControl
  <2> QED BY <2>2, <2>3, <2>4, <2>5, <2>6, FlowGrows
<1>5. CASE Deliver \/ Lose \/ Damage \/ StallTimeout
  BY <1>0, <1>5, NumbersReceived, CountsReceived, PiecesReceived, ReadyReceived DEF Receive
<1>6. CASE Reconnect
  <2>1. StreamGrows /\ PlacesFollow /\ ~HandedMessage' /\ ~undisturbed'
    BY <1>0, <1>6, RestartPlaces
  <2>2. HostReady' BY <2>1 DEF HostReady
  <2> QED BY <1>0, <1>6, <2>1, <2>2, NumbersRestart, CountsRestart, PiecesGrow
<1>7. CASE RunCallback BY <1>0, <1>7, NumbersRun, CountsRun, PiecesRun, ReadyRun
<1>8. CASE UNCHANGED frameLinkVars
  <2>1. /\ UNCHANGED <<sending, frames, mustAbort, finished, stream, seq, decoderVars, asmVars>>
        /\ UNCHANGED <<whole, preceded, undisturbed>>
    BY <1>8 DEF frameLinkVars, senderVars, historyVars
  <2>2. /\ (HandedMessage' <=> HandedMessage) /\ Handed' = Handed /\ Coming' = Coming
        /\ Makings' = Makings /\ (InFrame' <=> InFrame) /\ Got' = Got /\ (Good' <=> Good)
    BY <2>1 DEF HandedMessage, Handed, Coming, Makings, FinishedFrame, InFrame, Got, Pending,
                Good, decoderVars, asmVars
  <2>3. /\ \A j, f, n : GoesOn(j, f, n)' <=> GoesOn(j, f, n)
        /\ \A i, j : Clear(i, j)' <=> Clear(i, j)
        /\ \A f : LiveNumber(f)' <=> LiveNumber(f)
    BY <2>1, <2>2 DEF GoesOn, Start, Clear, LiveNumber
  <2>4. NumbersOK' BY <1>0, <2>1 DEF NumbersOK, decoderVars
  <2>5. CountsOK' BY <1>0, <2>1, <2>2 DEF CountsOK, asmVars
  <2>6. OnePiece' BY <1>0, <2>1, <2>2, <2>3 DEF OnePiece
  <2>7. \A f, n : HostAt(f, n)' <=> HostAt(f, n) BY <2>1, <2>2 DEF HostAt, decoderVars, asmVars
  <2>8. HostReady'
    <3>1. /\ \A j, f, n : Good' /\ undisturbed' /\ GoesOn(j, f, n)' /\ Clear(0, j)' /\ LiveNumber(f)'
                => HostAt(f, n)'
          /\ Good' /\ HandedMessage' /\ Handed'.type = "END" /\ ~Handed'.payload[1].msg.aborted
                => HostAt(Handed'.payload[1].msg.frame, Handed'.payload[1].msg.bytes)
      BY <1>0, <2>1, <2>2, <2>3, <2>7 DEF HostReady
    <3>2. HostAt(Handed.payload[1].msg.frame, Handed.payload[1].msg.bytes)
             => HostAt(Handed.payload[1].msg.frame, Handed.payload[1].msg.bytes)'
      <4>1. PICK f, n : f = Handed.payload[1].msg.frame /\ n = Handed.payload[1].msg.bytes OBVIOUS
      <4>2. f = Handed'.payload[1].msg.frame /\ n = Handed'.payload[1].msg.bytes BY <2>2, <4>1
      <4>3. HostAt(f, n) => HostAt(f, n)' BY <2>7
      <4> QED BY <2>1, <2>2, <4>1, <4>2 DEF HostAt, decoderVars, asmVars
    <3> QED BY <2>2, <3>1, <3>2 DEF HostReady
  <2> QED BY <2>4, <2>5, <2>6, <2>8
<1> QED BY <1>1, <1>2, <1>3, <1>4, <1>5, <1>6, <1>7, <1>8 DEF FrameLinkNext

\* What the host waits for is what comes, as long as nothing has touched the frame: the
\* invariant behind UntouchedFrameCommits (StreamDecoder::process, FrameAssembler).
THEOREM FlowInvariant == FrameLinkSpec => []FlowInv
BY FlowStarts, FlowSteps, PTL DEF FrameLinkSpec
-----------------------------------------------------------------------------
(* Nothing is lost that nothing has touched.                               *)

\* The END of a finished frame is not an aborted one.
LEMMA EndIsGood ==
    ASSUME FlowInv, NEW m \in Coming, m.type = "END", Finished(m)
    PROVE  /\ ~m.aborted /\ m.frame \in 0..MaxFrames
           /\ \E i \in DOMAIN finished :
                 finished[i].frameId = m.frame /\ (finished[i].kind = "FULL" \/ hasBase)
<1>1. m.frame \in 0..MaxFrames
  <2>1. m.frame \in 1..frames /\ frames \in 0..MaxFrames /\ MaxFrames \in Nat
    BY ComingIs, BoundsAssumption DEF Framed, FlowInv, LinkInv, FramesOK
  <2> QED BY <2>1
<1>2. PICK i \in DOMAIN finished :
         finished[i].frameId = m.frame /\ (finished[i].kind = "FULL" \/ hasBase)
  BY DEF Finished
<1>3. ~m.aborted BY <1>2 DEF FlowInv, CountsOK
<1> QED BY <1>1, <1>2, <1>3

LEMMA EmitLengthens ==
    ASSUME IsSeq(stream), NEW m, NEW n \in Nat, Emit(m, n)
    PROVE  Len(stream') = Len(stream) + n
<1>1. PICK P : P = Packets(m, n) OBVIOUS
<1>2. P = [k \in 1..n |-> P[k]] BY <1>1 DEF Packets
<1>3. IsSeq(P) /\ Len(P) = n BY <1>2, FunctionSeq
<1>4. stream' = stream \o P BY <1>1 DEF Emit
<1>5. Len(stream \o P) = Len(stream) + Len(P) BY <1>3, ConcatKeeps
<1> QED BY <1>3, <1>4, <1>5

\* No other step takes a packet off the stream and calls it undisturbed.
LEMMA OnlyDelivers ==
    ASSUME IsSeq(stream), stream # <<>>, callbacks = <<>>, stream' = Tail(stream), undisturbed',
           [FrameLinkNext]_frameLinkVars
    PROVE  Deliver
<1>1. Len(stream) \in Nat BY SeqIndices
<1>2. Len(stream') = Len(stream) - 1
  <2>1. PICK t : t = Tail(stream) OBVIOUS
  <2>2. Len(t) = Len(stream) - 1 BY <2>1, TailKeeps
  <2> QED BY <2>1, <2>2
<1>3. ~Reconnect /\ ~RunCallback /\ ~Lose /\ ~Damage /\ ~StallTimeout
  <2>1. ~RunCallback BY DEF RunCallback
  <2>2. ~Lose /\ ~Damage BY DEF Lose, Damage, StreamFault, Disturb
  <2>3. ~StallTimeout BY DEF StallTimeout, Disturb
  <2>4. ~Reconnect BY DEF Reconnect, Disturb
  <2> QED BY <2>1, <2>2, <2>3, <2>4
<1>4. stream' # stream
  <2>1. PICK r, k, l : r = stream' /\ k = Len(r) /\ l = Len(stream) OBVIOUS
  <2>2. k = l - 1 /\ l \in Nat BY <1>1, <1>2, <2>1
  <2>3. k # l BY <2>2
  <2> QED BY <2>1, <2>3, Zenon
<1>5. ~UNCHANGED frameLinkVars BY <1>4 DEF frameLinkVars
<1>6. ASSUME NEW m, NEW n \in Nat, Emit(m, n) PROVE FALSE
  <2>1. Len(stream') = Len(stream) + n BY <1>6, EmitLengthens
  <2> QED BY <1>1, <1>2, <2>1
<1>7. ASSUME NEW kind, NEW valid, NEW n \in 0..1, BeginFrame(kind, valid, n) PROVE FALSE
  BY <1>6, <1>7 DEF BeginFrame
<1>8. ASSUME NEW parts \in 1..MaxParts, NEW n \in 0..parts, SendRectMessage(parts, n) PROVE FALSE
  <2>1. n \in Nat BY BoundsAssumption
  <2> QED BY <1>6, <1>8, <2>1 DEF SendRectMessage
<1>9. ASSUME NEW aborted, NEW n \in 0..1, EndFrame(aborted, n) PROVE FALSE
  BY <1>6, <1>9 DEF EndFrame
<1>10. ~SendControl
  <2>1. ASSUME SendControl PROVE Emit(ControlMsg, 1) BY <2>1 DEF SendControl
  <2> QED BY <1>6, <2>1
<1> QED BY <1>3, <1>5, <1>7, <1>8, <1>9, <1>10 DEF FrameLinkNext

LEMMA ArrivalIsHanded ==
    ASSUME FlowInv, [FrameLinkNext]_frameLinkVars, EndArrives, whole', preceded
    PROVE  callbacks' # <<>> /\ Last(callbacks').kind = "message"
<1>1. LinkInv /\ NumbersOK BY DEF FlowInv
<1>2. /\ callbacks = <<>> /\ stream # <<>> /\ stream' = Tail(stream) /\ undisturbed'
      /\ Head(stream).type = "END"
  BY DEF EndArrives, NoCallback
<1>3. IsSeq(stream) /\ Head(stream) = stream[1] /\ stream[1].type = "END"
  BY <1>1, <1>2, TailKeeps DEF LinkInv, TypesOK
<1>4. Deliver BY <1>2, <1>3, OnlyDelivers
<1>5. preceded'
  <2>1. preceded' = preceded BY <1>2, <1>4, Zenon DEF Deliver
  <2> QED BY <2>1
<1>6. undisturbed BY <1>3, <1>4, <1>5, GoodBefore DEF Good
<1>7. HandsOver(stream[1]) BY <1>1, <1>3, <1>4, <1>6, Taken
<1>8. HandedMessage' BY <1>1, <1>4, <1>7, Outcomes DEF Receive
<1> QED BY <1>8 DEF HandedMessage, Handed, Last

\* No other step takes a message off the callbacks.
LEMMA OnlyRuns ==
    ASSUME LinkInv, callbacks # <<>>, callbacks' = Tail(callbacks), Head(callbacks).kind = "message",
           [FrameLinkNext]_frameLinkVars
    PROVE  RunCallback /\ HandedMessage /\ Head(callbacks) = Handed
<1>1. callbacks # <<Error>> BY DEF Error
<1>2. HandedMessage /\ (callbacks = <<Handed>> \/ callbacks = <<Error, Handed>>)
  BY <1>1 DEF LinkInv, CallbacksOK
<1>3. PICK e, a : e = Error /\ a = Handed OBVIOUS
<1>4. Head(<<e, a>>) = e /\ e.kind # "message" BY <1>3 DEF Error
<1>5. callbacks = <<a>> BY <1>2, <1>3, <1>4
<1>6. Tail(<<a>>) = <<>> /\ Head(<<a>>) = a OBVIOUS
<1>7. callbacks' # callbacks BY <1>5, <1>6
<1>8. ~UNCHANGED decoderVars BY <1>7 DEF decoderVars
<1>9. RunCallback
  <2>1. ~Deliver /\ ~Lose /\ ~Damage /\ ~StallTimeout /\ ~Reconnect
    BY DEF Deliver, Lose, Damage, StallTimeout, Reconnect, NoCallback
  <2>2. ~UNCHANGED frameLinkVars BY <1>8 DEF frameLinkVars
  <2>3. \A kind, valid, n : ~BeginFrame(kind, valid, n) BY <1>8 DEF BeginFrame
  <2>4. \A parts, n : ~SendRectMessage(parts, n) BY <1>8 DEF SendRectMessage
  <2>5. \A aborted, n : ~EndFrame(aborted, n) BY <1>8 DEF EndFrame
  <2>6. ~SendControl BY <1>8 DEF SendControl
  <2> QED BY <2>1, <2>2, <2>3, <2>4, <2>5, <2>6 DEF FrameLinkNext
<1> QED BY <1>2, <1>3, <1>5, <1>6, <1>9

LEMMA EndRunCommits ==
    ASSUME FlowInv, [FrameLinkNext]_frameLinkVars, EndRuns, whole, preceded
    PROVE  Len(committedFrames') = Len(committedFrames) + 1
<1>1. LinkInv /\ CountsOK /\ HostReady BY DEF FlowInv
<1>2. RunCallback /\ HandedMessage /\ Head(callbacks) = Handed /\ Handed.type = "END"
  BY <1>1, OnlyRuns DEF EndRuns
<1>3. PICK m : m = Handed.payload[1].msg OBVIOUS
<1>4. m \in Coming /\ m.type = "END" /\ Finished(m) BY <1>1, <1>2, <1>3, ComingIs DEF EndRuns
<1>5. /\ ~m.aborted /\ m.frame \in 0..MaxFrames
  BY <1>4, EndIsGood
<1>6. PICK i \in DOMAIN finished :
         finished[i].frameId = m.frame /\ (finished[i].kind = "FULL" \/ hasBase)
  BY <1>4, EndIsGood
<1>7. PICK F : F = finished[i] OBVIOUS
<1>8. F \in Makings /\ F.frameId = m.frame /\ Live(F) BY <1>4, <1>5, <1>6, <1>7 DEF Makings, Live
<1>9. InFrame /\ asmBegin.frameId = m.frame /\ Got = m.bytes
  <2>1. HostAt(m.frame, m.bytes) BY <1>1, <1>2, <1>3, <1>5 DEF HostReady, Good
  <2> QED BY <1>2, <2>1 DEF HostAt
<1>10. Got = asmBytes
  <2>1. Pending = <<>> BY <1>1, <1>2 DEF Pending, LinkInv, CallbacksOK
  <2>2. Len(Pending) = 0 /\ asmBytes \in Nat BY <1>1, <2>1 DEF LinkInv, TypesOK
  <2> QED BY <2>2 DEF Got
<1>11. m.bytes = Size(F) /\ m.rects = Len(F.rects)
  BY <1>1, <1>4, <1>5, <1>8 DEF LinkInv, ComesAsMade, CountsOK
<1>12. F.kind = asmBegin.kind /\ (Exact(F) \/ Misses(F))
  BY <1>1, <1>8, <1>9 DEF LinkInv, HostHasFrame
<1>13. Size(F) \in Nat BY <1>1, <1>8, MakingIs
<1>14. Exact(F) BY <1>9, <1>11, <1>12, <1>13 DEF Misses
<1>15. Len(asmReceived) = Len(F.rects)
  <2>1. Len(asmReceived) \in Nat BY <1>1, SeqIndices DEF LinkInv, TypesOK
  <2>2. Len(asmReceived) <= Len(F.rects) /\ asmBytes = Upto(F, Len(asmReceived)) BY <1>14 DEF Exact
  <2>3. Len(asmReceived) \in 0..Len(F.rects) BY <1>1, <1>8, <2>1, <2>2, MakingIs
  <2> QED BY <1>1, <1>8, <1>9, <1>10, <1>11, <2>2, <2>3, MakingIs
<1>16. asmRects = Len(asmReceived) BY <1>1, <1>9 DEF CountsOK
<1>17. Assembler!EndMatches(m)
  BY <1>5, <1>6, <1>7, <1>9, <1>10, <1>11, <1>12, <1>15, <1>16 DEF Assembler!EndMatches, Assembler!SameId
<1>18. Assembler!HandleEnd(m) BY <1>2, <1>3 DEF RunCallback, HandedMessage
<1>19. Assembler!Commit(m) BY <1>9, <1>17, <1>18 DEF Assembler!HandleEnd, InFrame
<1>20. PICK C : committedFrames' = Append(committedFrames, C) BY <1>19 DEF Assembler!Commit
<1>21. IsSeq(committedFrames) BY <1>1 DEF LinkInv, TypesOK
<1>22. Len(Append(committedFrames, C)) = Len(committedFrames) + 1 BY <1>21, AppendKeeps
<1> QED BY <1>20, <1>22

\* A frame that nothing has touched is committed, whatever came before it
\* (StreamDecoder::process resynchronises, FrameAssembler::handleBegin starts anew).
THEOREM UntouchedCommits == FrameLinkSpec => UntouchedFrameCommits
<1>1. ASSUME FlowInv, [FrameLinkNext]_frameLinkVars
      PROVE  /\ EndArrives /\ whole' /\ preceded => callbacks' # <<>> /\ Last(callbacks').kind = "message"
             /\ EndRuns /\ whole /\ preceded => Len(committedFrames') = Len(committedFrames) + 1
  BY <1>1, ArrivalIsHanded, EndRunCommits
<1> QED BY <1>1, FlowInvariant, PTL DEF FrameLinkSpec, UntouchedFrameCommits
===============================================================================

--------------------------- MODULE MessageEncoder ---------------------------
(***************************************************************************)
(* shared/protocol/encoder: a Message becomes one packet, or a run of      *)
(* packets of which all but the last carry CHUNKED.  Every packet takes    *)
(* the next value of a counter of SeqSpace values (2^16 in the code).        *)
(*                                                                         *)
(* A payload is abstracted to its chunks: a message m has m.parts of them  *)
(* and the k-th one is the token [msg |-> m, part |-> k].  Two payloads    *)
(* are equal iff their chunks are, and their size is the number of chunks. *)
(***************************************************************************)
EXTENDS Naturals, Sequences

CONSTANT SeqSpace        \* number of values of the packet counter
ASSUME SeqSpaceAssumption == SeqSpace \in Nat \ {0}

VARIABLE seq           \* SequenceCounter: the value the next packet takes

Succ(s) == (s + 1) % SeqSpace

Chunk(m, k) == [msg |-> m, part |-> k]
Payload(m)  == [k \in 1..m.parts |-> Chunk(m, k)]

\* The k-th packet of message m when its first packet takes the value s.
Packet(m, k, s) ==
    [seq     |-> (s + k - 1) % SeqSpace,
     type    |-> m.type,
     chunked |-> k < m.parts,
     chunk   |-> Chunk(m, k)]

\* The first n packets of m: the sink may refuse a packet after n were taken.
Packets(m, n) == [k \in 1..n |-> Packet(m, k, seq)]

\* Encode m, of which the sink takes n packets.  The value the refused packet
\* took is given back (rollbackSeq), so n values are used.
EncodeStream(m, n) == seq' = (seq + n) % SeqSpace
=============================================================================

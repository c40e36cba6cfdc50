---------------------------- MODULE SequenceLemmas ----------------------------
(***************************************************************************)
(* Sequences whose elements have no type worth a name: what Append, Tail   *)
(* and \o do to them, element by element.                                  *)
(***************************************************************************)
EXTENDS Naturals, Sequences, TLAPS

IsSeq(q) == \E S : q \in Seq(S)

LEMMA SeqIndices == ASSUME NEW q, IsSeq(q) PROVE Len(q) \in Nat /\ DOMAIN q = 1..Len(q)
BY DEF IsSeq

LEMMA NothingIsSeq == ASSUME NEW q, q = <<>> PROVE IsSeq(q) /\ Len(q) = 0
<1>1. q \in Seq({}) OBVIOUS
<1> QED BY <1>1 DEF IsSeq

LEMMA NonEmpty == ASSUME NEW q, IsSeq(q) PROVE (q = <<>>) <=> (Len(q) = 0)
BY DEF IsSeq

LEMMA FunctionSeq ==
    ASSUME NEW f, NEW n \in Nat, f = [i \in 1..n |-> f[i]]
    PROVE  IsSeq(f) /\ Len(f) = n
<1> DEFINE S == {f[i] : i \in 1..n}
<1>1. f \in [1..n -> S] OBVIOUS
<1>2. f \in Seq(S) /\ Len(f) = n
  <2> HIDE DEF S
  <2> QED BY <1>1
<1> QED BY <1>2 DEF IsSeq

LEMMA SingleSeq == ASSUME NEW e PROVE IsSeq(<<e>>) /\ Len(<<e>>) = 1 /\ <<e>>[1] = e
<1>1. <<e>> \in Seq({e}) OBVIOUS
<1> QED BY <1>1 DEF IsSeq

LEMMA AppendKeeps ==
    ASSUME NEW q, IsSeq(q), NEW e
    PROVE  /\ IsSeq(Append(q, e))
           /\ Len(Append(q, e)) = Len(q) + 1
           /\ DOMAIN Append(q, e) = DOMAIN q \cup {Len(q) + 1}
           /\ \A i \in DOMAIN q : Append(q, e)[i] = q[i]
           /\ Append(q, e)[Len(q) + 1] = e
<1>1. PICK S : q \in Seq(S) BY DEF IsSeq
<1>2. q \in Seq(S \cup {e}) BY <1>1
<1>3. Append(q, e) \in Seq(S \cup {e}) BY <1>2
<1> QED BY <1>2, <1>3 DEF IsSeq

LEMMA SameSeq ==
    ASSUME NEW q, NEW r, IsSeq(q), IsSeq(r), Len(q) = Len(r), \A i \in 1..Len(q) : q[i] = r[i]
    PROVE  q = r
<1>1. PICK S, T : q \in Seq(S) /\ r \in Seq(T) BY DEF IsSeq
<1>2. q \in [1..Len(q) -> S] /\ r \in [1..Len(q) -> T] BY <1>1
<1>3. q = [i \in 1..Len(q) |-> q[i]] /\ r = [i \in 1..Len(q) |-> r[i]] BY <1>2
<1> QED BY <1>3

LEMMA AppendToOne == ASSUME NEW e, NEW a PROVE Append(<<e>>, a) = <<e, a>>
<1> DEFINE S == {e, a}
<1>1. <<e>> \in Seq(S) /\ a \in S OBVIOUS
<1>2. <<e, a>> \in Seq(S) OBVIOUS
<1>3. Append(<<e>>, a) \in Seq(S) /\ Len(Append(<<e>>, a)) = 2 BY <1>1
<1>4. Append(<<e>>, a)[1] = e /\ Append(<<e>>, a)[2] = a BY <1>1
<1>5. PICK s, t : s = Append(<<e>>, a) /\ t = <<e, a>> OBVIOUS
<1>6. s \in Seq(S) /\ t \in Seq(S) /\ Len(s) = 2 /\ Len(t) = 2 BY <1>2, <1>3, <1>5
<1>7. s[1] = t[1] /\ s[2] = t[2] BY <1>4, <1>5
<1> HIDE DEF S
<1>8. s \in [1..2 -> S] /\ t \in [1..2 -> S] BY <1>6
<1>9. \A i \in 1..2 : s[i] = t[i] BY <1>7
<1>10. s = t BY <1>8, <1>9
<1> QED BY <1>5, <1>10, Zenon

LEMMA TailKeeps ==
    ASSUME NEW q, IsSeq(q), q # <<>>
    PROVE  /\ IsSeq(Tail(q))
           /\ Len(Tail(q)) = Len(q) - 1
           /\ \A i \in DOMAIN Tail(q) : i + 1 \in DOMAIN q /\ Tail(q)[i] = q[i + 1]
           /\ 1 \in DOMAIN q /\ Head(q) = q[1]
<1>1. PICK S : q \in Seq(S) BY DEF IsSeq
<1>2. Tail(q) \in Seq(S) /\ Len(Tail(q)) = Len(q) - 1 BY <1>1
<1> QED BY <1>1, <1>2 DEF IsSeq

\* The same of a sequence that is known by another name.
LEMMA LongerByOne ==
    ASSUME NEW q, IsSeq(q), NEW e, NEW r, r = Append(q, e)
    PROVE  /\ IsSeq(r) /\ Len(r) = Len(q) + 1 /\ r[Len(q) + 1] = e
           /\ \A i \in DOMAIN q : r[i] = q[i]
           /\ DOMAIN r = DOMAIN q \cup {Len(q) + 1} /\ DOMAIN q = 1..Len(q)
<1>1. DOMAIN q = 1..Len(q) BY SeqIndices
<1>2. /\ IsSeq(Append(q, e)) /\ Len(Append(q, e)) = Len(q) + 1
      /\ Append(q, e)[Len(q) + 1] = e
      /\ \A i \in DOMAIN q : Append(q, e)[i] = q[i]
      /\ DOMAIN Append(q, e) = DOMAIN q \cup {Len(q) + 1}
  BY AppendKeeps
<1> QED BY <1>1, <1>2

LEMMA ShorterByOne ==
    ASSUME NEW q, IsSeq(q), q # <<>>, NEW r, r = Tail(q)
    PROVE  /\ IsSeq(r) /\ Len(r) = Len(q) - 1 /\ DOMAIN r = 1..Len(r) /\ DOMAIN q = 1..Len(q)
           /\ \A i \in 1..Len(r) : i + 1 \in DOMAIN q /\ r[i] = q[i + 1]
<1>1. /\ IsSeq(Tail(q)) /\ Len(Tail(q)) = Len(q) - 1
      /\ \A i \in DOMAIN Tail(q) : i + 1 \in DOMAIN q /\ Tail(q)[i] = q[i + 1]
  BY TailKeeps
<1>2. DOMAIN Tail(q) = 1..Len(Tail(q)) /\ DOMAIN q = 1..Len(q) BY <1>1, SeqIndices
<1> QED BY <1>1, <1>2

LEMMA ConcatKeeps ==
    ASSUME NEW q, IsSeq(q), NEW r, IsSeq(r)
    PROVE  /\ IsSeq(q \o r)
           /\ Len(q \o r) = Len(q) + Len(r)
           /\ \A i \in DOMAIN q : i \in DOMAIN (q \o r) /\ (q \o r)[i] = q[i]
           /\ \A i \in DOMAIN (q \o r) \ DOMAIN q :
                 i - Len(q) \in DOMAIN r /\ (q \o r)[i] = r[i - Len(q)]
<1>1. PICK S : q \in Seq(S) BY DEF IsSeq
<1>2. PICK T : r \in Seq(T) BY DEF IsSeq
<1>3. q \in Seq(S \cup T) /\ r \in Seq(S \cup T) BY <1>1, <1>2
<1>4. q \o r \in Seq(S \cup T) /\ Len(q \o r) = Len(q) + Len(r) BY <1>3
<1>5. \A i \in 1..(Len(q) + Len(r)) : (q \o r)[i] = IF i <= Len(q) THEN q[i] ELSE r[i - Len(q)]
  BY <1>3
<1> QED BY <1>3, <1>4, <1>5 DEF IsSeq
===============================================================================

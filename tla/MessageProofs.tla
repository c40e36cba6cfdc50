---------------------------- MODULE MessageProofs ----------------------------
(***************************************************************************)
(* Messages, for every message that can be asked for and every scan.       *)
(***************************************************************************)
EXTENDS Messages, SequenceLemmas, WellFoundedInduction

-----------------------------------------------------------------------------
(* Payloads.  The provers rewrite every Len they see, and are lost: it has *)
(* another name here.                                                      *)

Size(f) == Len(f)

\* p has the bytes of f behind its first at.
Holds(p, at, f) ==
    /\ IsSeq(p) /\ at \in Nat
    /\ at + Size(f) <= Size(p)
    /\ \A k \in 1..Size(f) : p[at + k] = f[k]

LEMMA Sizes == ASSUME NEW q, IsSeq(q) PROVE Size(q) \in Nat
BY SeqIndices DEF Size

\* A payload starts with all of itself.
LEMMA HoldsItself == ASSUME NEW q, IsSeq(q) PROVE Holds(q, 0, q)
BY Sizes DEF Holds

\* What two parts put together hold.
LEMMA Joined ==
    ASSUME NEW q, NEW r, IsSeq(q), IsSeq(r)
    PROVE  IsSeq(q \o r) /\ Size(q \o r) = Size(q) + Size(r)
BY ConcatKeeps DEF Size

LEMMA FormerHalf ==
    ASSUME NEW q, NEW r, IsSeq(q), IsSeq(r)
    PROVE  \A i \in 1..Size(q) : (q \o r)[i] = q[i]
<1>1. DOMAIN q = 1..Size(q) BY SeqIndices DEF Size
<1>2. \A i \in DOMAIN q : (q \o r)[i] = q[i] BY ConcatKeeps
<1> QED BY <1>1, <1>2

LEMMA LatterHalf ==
    ASSUME NEW q, NEW r, IsSeq(q), IsSeq(r)
    PROVE  \A i \in 1..Size(r) : (q \o r)[Size(q) + i] = r[i]
<1>1. DOMAIN q = 1..Size(q) /\ DOMAIN r = 1..Size(r) /\ DOMAIN (q \o r) = 1..(Size(q) + Size(r))
  BY Joined, SeqIndices DEF Size
<1>2. \A i \in DOMAIN (q \o r) \ DOMAIN q : (q \o r)[i] = r[i - Size(q)]
  BY ConcatKeeps DEF Size
<1>3. Size(q) \in Nat /\ Size(r) \in Nat BY Sizes
<1>4. ASSUME NEW i \in 1..Size(r) PROVE (q \o r)[Size(q) + i] = r[i]
  <2>1. Size(q) + i \in (1..(Size(q) + Size(r))) \ (1..Size(q)) BY <1>3
  <2>2. (q \o r)[Size(q) + i] = r[(Size(q) + i) - Size(q)] BY <1>1, <1>2, <2>1
  <2>3. (Size(q) + i) - Size(q) = i BY <1>3
  <2> QED BY <2>2, <2>3
<1> QED BY <1>4

LEMMA FirstPart ==
    ASSUME NEW q, NEW r, IsSeq(q), IsSeq(r), NEW p, NEW at, Holds(p, at, q \o r)
    PROVE  Holds(p, at, q)
<1>1. PICK s : s = q \o r OBVIOUS
<1>2. Size(s) = Size(q) + Size(r) /\ \A i \in 1..Size(q) : s[i] = q[i]
  BY <1>1, Joined, FormerHalf
<1>3. Holds(p, at, s) BY <1>1
<1> HIDE <1>1
<1>4. Size(q) \in Nat /\ Size(r) \in Nat /\ Size(p) \in Nat BY <1>3, Sizes DEF Holds
<1> QED BY <1>2, <1>3, <1>4 DEF Holds

LEMMA SecondPart ==
    ASSUME NEW q, NEW r, IsSeq(q), IsSeq(r), NEW p, NEW at, Holds(p, at, q \o r)
    PROVE  Holds(p, at + Size(q), r)
<1>1. PICK s : s = q \o r OBVIOUS
<1>2. Size(s) = Size(q) + Size(r) /\ \A i \in 1..Size(r) : s[Size(q) + i] = r[i]
  BY <1>1, Joined, LatterHalf
<1>3. Holds(p, at, s) BY <1>1
<1> HIDE <1>1
<1>4. Size(q) \in Nat /\ Size(r) \in Nat /\ Size(p) \in Nat BY <1>3, Sizes DEF Holds
<1>5. ASSUME NEW i \in 1..Size(r) PROVE p[(at + Size(q)) + i] = r[i]
  <2>1. Size(q) + i \in 1..Size(s) /\ at \in Nat BY <1>2, <1>3, <1>4 DEF Holds
  <2>2. p[at + (Size(q) + i)] = s[Size(q) + i] BY <1>3, <2>1 DEF Holds
  <2>3. at + (Size(q) + i) = (at + Size(q)) + i BY <1>4, <2>1
  <2> QED BY <1>2, <2>2, <2>3
<1> QED BY <1>2, <1>3, <1>4, <1>5 DEF Holds

\* A part of a part.
LEMMA Within ==
    ASSUME NEW p, NEW q, NEW f, NEW a, NEW b, Holds(p, a, q), Holds(q, b, f), IsSeq(f)
    PROVE  Holds(p, a + b, f)
<1>1. Size(p) \in Nat /\ Size(q) \in Nat /\ Size(f) \in Nat /\ a \in Nat /\ b \in Nat
  BY Sizes DEF Holds
<1>2. ASSUME NEW k \in 1..Size(f) PROVE p[(a + b) + k] = f[k]
  <2>1. b + k \in 1..Size(q) /\ a + (b + k) = (a + b) + k BY <1>1 DEF Holds
  <2> QED BY <1>1, <2>1 DEF Holds
<1> QED BY <1>1, <1>2 DEF Holds

\* What is left of a payload that was cut holds the fields before the cut.
LEMMA BeforeTheCut ==
    ASSUME NEW p, NEW q, NEW f, NEW at, Holds(q, 0, p), IsSeq(p), IsSeq(f), Holds(q, at, f),
           at + Size(f) <= Size(p)
    PROVE  Holds(p, at, f)
<1>1. Size(p) \in Nat /\ Size(q) \in Nat /\ Size(f) \in Nat /\ at \in Nat
  BY Sizes DEF Holds
<1>2. ASSUME NEW k \in 1..Size(f) PROVE p[at + k] = f[k]
  <2>1. at + k \in 1..Size(p) /\ 0 + (at + k) = at + k BY <1>1
  <2>2. q[0 + (at + k)] = p[at + k] BY <2>1 DEF Holds
  <2> QED BY <2>1, <2>2 DEF Holds
<1> QED BY <1>1, <1>2 DEF Holds
-----------------------------------------------------------------------------
(* Fields: how long each is, and what reading it gives.                    *)

\* The last eight bits of a number, and those before them.
Low(v) == v % 256
High(v) == v \div 256

LEMMA Halves ==
    ASSUME NEW v \in Nat PROVE High(v) \in Nat /\ Low(v) \in Byte /\ v = 256 * High(v) + Low(v)
BY SMT DEF High, Low, Byte, UpTo

LEMMA LowOfByte == ASSUME NEW v \in Byte PROVE v \in Nat /\ Low(v) = v
BY SMT DEF Low, Byte, UpTo

LEMMA HighOfWord == ASSUME NEW v \in Word PROVE v \in Nat /\ High(v) \in Byte
<1>1. v \in Nat BY SMT DEF Word, UpTo
<1>2. v < 65536 BY SMT DEF Word, UpTo
<1>3. High(v) \in Nat /\ Low(v) \in Byte /\ v = 256 * High(v) + Low(v) BY <1>1, Halves, Zenon
<1> QED BY <1>1, <1>2, <1>3, SMT DEF Byte, UpTo

\* What is left of a number without its lower sixteen bits.
LEMMA UpperHalf ==
    ASSUME NEW v \in Nat PROVE Upper(v) \in Nat /\ Upper(v) = High(High(v))
BY SMT DEF Upper, High

LEMMA HighOfLong == ASSUME NEW v \in Long PROVE v \in Nat /\ High(High(v)) \in Word
<1>1. v \in Nat /\ Upper(v) \in Word BY Zenon DEF Long
<1> QED BY <1>1, UpperHalf, Zenon

LEMMA Octets ==
    ASSUME NEW v \in Nat
    PROVE  /\ Octet(v, 1) = Low(v) /\ Octet(v, 2) = Low(High(v))
           /\ Octet(v, 3) = Low(High(High(v))) /\ Octet(v, 4) = Low(High(High(High(v))))
<1>1. PICK u : u = Upper(v) OBVIOUS
<1>2. u = High(High(v)) BY <1>1, UpperHalf, Zenon
<1>3. /\ Octet(v, 1) = v % 256 /\ Octet(v, 2) = (v \div 256) % 256
      /\ Octet(v, 3) = u % 256 /\ Octet(v, 4) = (u \div 256) % 256
  BY <1>1, SMT DEF Octet
<1> QED BY <1>2, <1>3, Zenon DEF High, Low

LEMMA WordOfOctets ==
    ASSUME NEW v \in Word PROVE Octet(v, 1) + 256 * Octet(v, 2) = v
<1>1. v \in Nat /\ High(v) \in Byte BY HighOfWord
<1>2. High(v) \in Nat /\ Low(High(v)) = High(v) BY <1>1, LowOfByte, Zenon
<1>3. Low(v) \in Byte /\ v = 256 * High(v) + Low(v) BY <1>1, Halves, Zenon
<1>4. Octet(v, 1) = Low(v) /\ Octet(v, 2) = High(v) BY <1>1, <1>2, Octets, Zenon
<1> QED BY <1>2, <1>3, <1>4, SMT DEF Byte, UpTo

LEMMA NumberOfOctets ==
    ASSUME NEW v \in Nat
    PROVE  /\ Upper(Upper(v)) \in Nat
           /\ v = ((Octet(v, 1) + 256 * Octet(v, 2)) + 65536 * (Octet(v, 3) + 256 * Octet(v, 4)))
                  + 65536 * (65536 * Upper(Upper(v)))
<1>1. PICK h : h = High(v) OBVIOUS
<1>2. h \in Nat /\ Low(v) \in Byte /\ v = 256 * h + Low(v) BY <1>1, Halves, Zenon
<1>3. PICK g : g = High(h) OBVIOUS
<1>4. g \in Nat /\ Low(h) \in Byte /\ h = 256 * g + Low(h) BY <1>2, <1>3, Halves, Zenon
<1>5. PICK f : f = High(g) OBVIOUS
<1>6. f \in Nat /\ Low(g) \in Byte /\ g = 256 * f + Low(g) BY <1>4, <1>5, Halves, Zenon
<1>7. PICK e : e = High(f) OBVIOUS
<1>8. e \in Nat /\ Low(f) \in Byte /\ f = 256 * e + Low(f) BY <1>6, <1>7, Halves, Zenon
<1>9. Upper(v) = g BY <1>1, <1>3, UpperHalf, Zenon
<1>10. Upper(g) = e BY <1>4, <1>5, <1>7, UpperHalf, Zenon
<1>11. PICK a, b, c, d : a = Low(v) /\ b = Low(h) /\ c = Low(g) /\ d = Low(f) OBVIOUS
<1>12. Octet(v, 1) = a /\ Octet(v, 2) = b /\ Octet(v, 3) = c /\ Octet(v, 4) = d
  BY <1>1, <1>3, <1>5, <1>11, Octets, Zenon
<1>13. a \in Nat /\ b \in Nat /\ c \in Nat /\ d \in Nat
  BY <1>2, <1>4, <1>6, <1>8, <1>11 DEF Byte, UpTo
<1>14. v = 256 * h + a /\ h = 256 * g + b /\ g = 256 * f + c /\ f = 256 * e + d
  BY <1>2, <1>4, <1>6, <1>8, <1>11
<1>15. v = ((a + 256 * b) + 65536 * (c + 256 * d)) + 65536 * (65536 * e)
  BY <1>2, <1>4, <1>6, <1>8, <1>13, <1>14, SMT
<1>16. Upper(Upper(v)) = e BY <1>9, <1>10
<1> QED BY <1>8, <1>12, <1>15, <1>16

LEMMA LongOfOctets ==
    ASSUME NEW v \in Long
    PROVE  (Octet(v, 1) + 256 * Octet(v, 2)) + 65536 * (Octet(v, 3) + 256 * Octet(v, 4)) = v
<1>1. PICK h, g : h = High(v) /\ g = High(High(v)) OBVIOUS
<1>2. v \in Nat /\ g \in Word BY <1>1, HighOfLong, Zenon
<1>3. h \in Nat /\ Low(v) \in Byte /\ v = 256 * h + Low(v) BY <1>1, <1>2, Halves, Zenon
<1>4. g \in Nat /\ Low(h) \in Byte /\ h = 256 * g + Low(h) BY <1>1, <1>3, Halves, Zenon
<1>5. Octet(v, 1) = Low(v) /\ Octet(v, 2) = Low(h) BY <1>1, <1>2, Octets, Zenon
<1>6. Octet(v, 3) = Octet(g, 1) /\ Octet(v, 4) = Octet(g, 2) BY <1>1, <1>2, <1>4, Octets, Zenon
<1>7. Octet(g, 1) + 256 * Octet(g, 2) = g BY <1>2, WordOfOctets
<1>8. (Low(v) + 256 * Low(h)) + 65536 * g = v BY <1>3, <1>4, SMT DEF Byte, UpTo
<1> QED BY <1>5, <1>6, <1>7, <1>8, SMT

\* How long the fields are.
LEMMA NumberSize ==
    ASSUME NEW v, NEW n \in Nat PROVE IsSeq(LE(v, n)) /\ Size(LE(v, n)) = n
<1>1. PICK f : f = LE(v, n) OBVIOUS
<1>2. f = [i \in 1..n |-> f[i]] BY <1>1 DEF LE
<1>3. IsSeq(f) /\ Len(f) = n BY <1>2, FunctionSeq
<1> QED BY <1>1, <1>3 DEF Size

LEMMA NumberSizes ==
    /\ \A v : IsSeq(LE(v, 1)) /\ Size(LE(v, 1)) = 1
    /\ \A v : IsSeq(LE(v, 2)) /\ Size(LE(v, 2)) = 2
    /\ \A v : IsSeq(LE(v, 4)) /\ Size(LE(v, 4)) = 4
BY NumberSize

LEMMA ZerosSize == ASSUME NEW n \in Nat PROVE IsSeq(Zeros(n)) /\ Size(Zeros(n)) = n
<1>1. PICK f : f = Zeros(n) OBVIOUS
<1>2. f = [i \in 1..n |-> f[i]] BY <1>1 DEF Zeros
<1>3. IsSeq(f) /\ Len(f) = n BY <1>2, FunctionSeq
<1> QED BY <1>1, <1>3 DEF Size

LEMMA PaddedSize ==
    ASSUME NEW t, NEW n \in Nat PROVE IsSeq(Padded(t, n)) /\ Size(Padded(t, n)) = n
<1>1. PICK f : f = Padded(t, n) OBVIOUS
<1>2. f = [i \in 1..n |-> f[i]] BY <1>1 DEF Padded
<1>3. IsSeq(f) /\ Len(f) = n BY <1>2, FunctionSeq
<1> QED BY <1>1, <1>3 DEF Size

LEMMA SingleSize ==
    /\ \A v : IsSeq(Signed(v)) /\ Size(Signed(v)) = 1
    /\ \A v : IsSeq(Flag(v)) /\ Size(Flag(v)) = 1
BY SingleSeq DEF Size, Signed, Flag

LEMMA NetBytes ==
    ASSUME NEW v
    PROVE  /\ IsSeq(Net(v)) /\ Size(Net(v)) = 4
           /\ \A i \in 1..4 : Net(v)[i] = Octet(v, 5 - i)
<1>1. Len(LE(v, 4)) = 4 BY NumberSize DEF Size
<1>2. Net(v) = [i \in 1..4 |-> LE(v, 4)[(4 - i) + 1]] BY <1>1 DEF Net, Reverse
<1>3. PICK f : f = Net(v) OBVIOUS
<1>4. f = [i \in 1..4 |-> f[i]] BY <1>2, <1>3
<1>5. IsSeq(f) /\ Len(f) = 4 BY <1>4, FunctionSeq
<1>6. \A i \in 1..4 : (4 - i) + 1 = 5 - i /\ 5 - i \in 1..4 OBVIOUS
<1>7. \A i \in 1..4 : LE(v, 4)[i] = Octet(v, i) BY DEF LE
<1> QED BY <1>2, <1>3, <1>5, <1>6, <1>7 DEF Size

\* What reading them gives.
LEMMA BytesOfNumber ==
    ASSUME NEW p, NEW at, NEW v, NEW n \in Nat, Holds(p, at, LE(v, n)), NEW k \in 0..(n - 1)
    PROVE  U8(p, at + k) = Octet(v, k + 1)
<1>1. k + 1 \in 1..n /\ at + (k + 1) = (at + k) + 1 BY DEF Holds
<1>2. p[at + (k + 1)] = LE(v, n)[k + 1] BY <1>1, NumberSize DEF Holds
<1> QED BY <1>1, <1>2 DEF U8, LE

LEMMA ReadsByte ==
    ASSUME NEW p, NEW at, NEW v \in Byte, Holds(p, at, LE(v, 1))
    PROVE  U8(p, at) = v
<1>1. p[at + 1] = LE(v, 1)[1] BY NumberSize DEF Holds
<1>2. v \in Nat /\ Low(v) = v BY LowOfByte
<1>3. Octet(v, 1) = Low(v) BY <1>2, Octets, Zenon
<1> QED BY <1>1, <1>2, <1>3 DEF U8, LE

LEMMA ReadsWord ==
    ASSUME NEW p, NEW at, NEW v \in Word, Holds(p, at, LE(v, 2))
    PROVE  U16(p, at) = v
<1>1. U8(p, at + 0) = Octet(v, 0 + 1) /\ U8(p, at + 1) = Octet(v, 1 + 1) BY BytesOfNumber
<1>2. at \in Nat BY DEF Holds
<1>3. U8(p, at) = Octet(v, 1) /\ U8(p, at + 1) = Octet(v, 2) BY <1>1, <1>2
<1> QED BY <1>3, WordOfOctets DEF U16

LEMMA OctetsRead ==
    ASSUME NEW p, NEW at, NEW v, Holds(p, at, LE(v, 4))
    PROVE  U32(p, at) = (Octet(v, 1) + 256 * Octet(v, 2)) + 65536 * (Octet(v, 3) + 256 * Octet(v, 4))
<1>1. /\ U8(p, at + 0) = Octet(v, 0 + 1) /\ U8(p, at + 1) = Octet(v, 1 + 1)
      /\ U8(p, at + 2) = Octet(v, 2 + 1) /\ U8(p, at + 3) = Octet(v, 3 + 1)
  BY BytesOfNumber
<1>2. at \in Nat BY DEF Holds
<1>3. /\ U8(p, at) = Octet(v, 1) /\ U8(p, at + 1) = Octet(v, 2)
      /\ U8(p, at + 2) = Octet(v, 3) /\ U8(p, (at + 2) + 1) = Octet(v, 4)
  BY <1>1, <1>2
<1> QED BY <1>3 DEF U16, U32

LEMMA ReadsLong ==
    ASSUME NEW p, NEW at, NEW v \in Long, Holds(p, at, LE(v, 4))
    PROVE  U32(p, at) = v
BY OctetsRead, LongOfOctets

LEMMA QuadSize == \A v : IsSeq(LE64(v)) /\ Size(LE64(v)) = 8
<1> TAKE v
<1>1. PICK lower, upper : lower = LE(v, 4) /\ upper = LE(Upper(Upper(v)), 4) OBVIOUS
<1>2. /\ IsSeq(lower) /\ Size(lower) = 4 /\ IsSeq(upper) /\ Size(upper) = 4
  BY <1>1, NumberSizes
<1>3. LE64(v) = lower \o upper BY <1>1 DEF LE64
<1> QED BY <1>2, <1>3, Joined

LEMMA ReadsQuad ==
    ASSUME NEW p, NEW at, NEW v \in Quad, Holds(p, at, LE64(v))
    PROVE  U64(p, at) = v
<1>1. PICK u : u = Upper(Upper(v)) OBVIOUS
<1>2. v \in Nat /\ u \in Long BY <1>1, Zenon DEF Quad
<1>3. Holds(p, at, LE(v, 4) \o LE(u, 4)) BY <1>1 DEF LE64
<1>4. Holds(p, at, LE(v, 4)) /\ Holds(p, at + 4, LE(u, 4))
  BY <1>3, NumberSizes, FirstPart, SecondPart
<1>5. U32(p, at + 4) = u BY <1>2, <1>4, ReadsLong
<1>6. PICK s : s = (Octet(v, 1) + 256 * Octet(v, 2)) + 65536 * (Octet(v, 3) + 256 * Octet(v, 4))
  OBVIOUS
<1>7. U32(p, at) = s BY <1>4, <1>6, OctetsRead
<1>8. v = s + 65536 * (65536 * u) BY <1>1, <1>2, <1>6, NumberOfOctets
<1> QED BY <1>5, <1>7, <1>8 DEF U64

LEMMA ReadsZero ==
    ASSUME NEW p, NEW at, NEW n \in Nat, Holds(p, at, Zeros(n)), NEW k \in 0..(n - 1)
    PROVE  U8(p, at + k) = 0
<1>1. k + 1 \in 1..n /\ at + (k + 1) = (at + k) + 1 BY DEF Holds
<1>2. p[at + (k + 1)] = Zeros(n)[k + 1] BY <1>1, ZerosSize DEF Holds
<1> QED BY <1>1, <1>2 DEF U8, Zeros

LEMMA ReadsNothing ==
    ASSUME NEW p, NEW at, Holds(p, at, Zeros(1)) PROVE U8(p, at) = 0
<1>1. U8(p, at + 0) = 0 BY ReadsZero
<1> QED BY <1>1 DEF Holds

LEMMA ReadsFlag ==
    ASSUME NEW p, NEW at, NEW v \in BOOLEAN, Holds(p, at, Flag(v))
    PROVE  U8(p, at) = IF v THEN 1 ELSE 0
<1>1. p[at + 1] = Flag(v)[1] BY SingleSize DEF Holds
<1>2. Flag(v)[1] = IF v THEN 1 ELSE 0 BY SingleSeq, Zenon DEF Flag
<1> QED BY <1>1, <1>2 DEF U8

LEMMA ReadsSigned ==
    ASSUME NEW p, NEW at, NEW v \in Int8, Holds(p, at, Signed(v))
    PROVE  S8(p, at) = v
<1>1. p[at + 1] = Signed(v)[1] BY SingleSize DEF Holds
<1>2. U8(p, at) = v % 256 BY <1>1, SingleSeq DEF Signed, U8
<1>3. v = IF (v % 256) > 127 THEN (v % 256) - 256 ELSE v % 256 BY SMT DEF Int8
<1> QED BY <1>2, <1>3 DEF S8

\* A piece of a payload.
LEMMA Piece ==
    ASSUME NEW p, IsSeq(p), NEW at \in Nat, NEW n \in Nat, at + n <= Size(p)
    PROVE  /\ IsSeq(SubSeq(p, at + 1, at + n)) /\ Size(SubSeq(p, at + 1, at + n)) = n
           /\ \A i \in 1..n : SubSeq(p, at + 1, at + n)[i] = p[at + i]
<1>1. PICK S : p \in Seq(S) BY DEF IsSeq
<1>2. Size(p) = Len(p) BY DEF Size
<1>3. PICK s : s = SubSeq(p, at + 1, at + n) OBVIOUS
<1>4. s \in Seq(S) /\ Len(s) = n BY <1>1, <1>2, <1>3
<1>5. \A i \in 1..n : s[i] = p[at + i] BY <1>1, <1>2, <1>3
<1> QED BY <1>3, <1>4, <1>5 DEF IsSeq, Size

LEMMA ReadsText ==
    ASSUME NEW p, NEW at, NEW t, IsSeq(t), Holds(p, at, t)
    PROVE  Chars(p, at, Size(t)) = t
<1>1. PICK s : s = SubSeq(p, at + 1, at + Size(t)) OBVIOUS
<1>2. Size(t) \in Nat BY Sizes
<1>3. IsSeq(s) /\ Size(s) = Size(t) /\ \A i \in 1..Size(t) : s[i] = p[at + i]
  BY <1>1, <1>2, Piece DEF Holds
<1>4. s = t BY <1>3, SameSeq DEF Holds, Size
<1> QED BY <1>1, <1>4 DEF Chars

LEMMA ReadsNet ==
    ASSUME NEW p, NEW at, NEW v \in Long, Holds(p, at, Net(v))
    PROVE  NetU32(p, at) = v
<1>1. PICK s : s = SubSeq(p, at + 1, at + 4) OBVIOUS
<1>2. at \in Nat /\ at + 4 <= Size(p) /\ \A i \in 1..4 : p[at + i] = Octet(v, 5 - i)
  BY NetBytes DEF Holds
<1>3. Size(s) = 4 /\ \A i \in 1..4 : s[i] = Octet(v, 5 - i)
  BY <1>1, <1>2, Piece DEF Holds
<1>4. PICK r : r = Reverse(s) OBVIOUS
<1>5. r = [i \in 1..4 |-> s[(4 - i) + 1]] BY <1>3, <1>4 DEF Reverse, Size
<1>6. \A i \in 1..4 : r[i] = Octet(v, i)
  <2> TAKE i \in 1..4
  <2>1. (4 - i) + 1 \in 1..4 /\ 5 - ((4 - i) + 1) = i OBVIOUS
  <2> QED BY <1>3, <1>5, <2>1
<1>7. U32(r, 0) = (Octet(v, 1) + 256 * Octet(v, 2)) + 65536 * (Octet(v, 3) + 256 * Octet(v, 4))
  BY <1>6 DEF U32, U16, U8
<1> QED BY <1>1, <1>4, <1>7, LongOfOctets DEF NetU32

LEMMA Texts ==
    ASSUME NEW t \in Text8
    PROVE  IsSeq(t) /\ Size(t) \in Nat /\ Len(t) = Size(t) /\ \A i \in 1..Size(t) : t[i] # 0
<1>1. IsSeq(t) BY DEF Text8, IsSeq
<1>2. \A i \in 1..Len(t) : t[i] \in Byte \ {0} BY DEF Text8
<1> QED BY <1>1, <1>2, Sizes DEF Size

\* A text shorter than its field ends at the padding, one that fills it with the field.
LEMMA ReadsPadded ==
    ASSUME NEW p, NEW at, NEW n \in Nat, NEW t \in Text8, Size(t) <= n,
           Holds(p, at, Padded(t, n))
    PROVE  FixedText(p, at, n) = t
<1> DEFINE Ends == {k \in 0..n : k = n \/ U8(p, at + k) = 0}
<1>1. IsSeq(t) /\ Size(t) \in Nat /\ \A i \in 1..Size(t) : t[i] # 0 BY Texts
<1>2. \A k \in 1..n : p[at + k] = IF k <= Size(t) THEN t[k] ELSE 0
  BY PaddedSize DEF Holds, Padded, Size
<1>3. at \in Nat BY DEF Holds
<1>4. \A k \in 0..(n - 1) : U8(p, at + k) = IF k < Size(t) THEN t[k + 1] ELSE 0
  <2> TAKE k \in 0..(n - 1)
  <2>1. k + 1 \in 1..n /\ at + (k + 1) = (at + k) + 1 BY <1>3
  <2> QED BY <1>1, <1>2, <2>1 DEF U8
<1>5. Size(t) \in Ends BY <1>1, <1>4
<1>6. \A k \in Ends : Size(t) <= k
  <2> SUFFICES ASSUME NEW k \in Ends, k < Size(t) PROVE FALSE BY <1>1
  <2>1. k \in 0..(n - 1) /\ k + 1 \in 1..Size(t) BY <1>1
  <2>2. U8(p, at + k) # 0 BY <1>1, <1>4, <2>1
  <2> QED BY <2>1, <2>2
<1>7. Min(Ends) = Size(t)
  <2>1. \A k \in Ends : k \in Nat OBVIOUS
  <2> HIDE DEF Ends
  <2> QED BY <1>5, <1>6, <2>1 DEF Min
<1>8. Holds(p, at, t)
  <2>1. Size(p) \in Nat /\ at + n <= Size(p) /\ IsSeq(p) BY PaddedSize, Sizes DEF Holds
  <2> QED BY <1>1, <1>2, <1>3, <2>1 DEF Holds
<1>9. Chars(p, at, Size(t)) = t BY <1>1, <1>8, ReadsText
<1> QED BY <1>7, <1>9 DEF FixedText

-----------------------------------------------------------------------------
(* Messages.                                                               *)

\* A payload q says m to the peer: whole, with something behind it, and cut.
Understood(type, m, q) ==
    /\ IsSeq(q) /\ Size(q) \in Nat \ {0}
    /\ \A p : Holds(p, 0, q) =>
          \/ ReadMessage(type, p) = m
          \/ /\ Size(p) # Size(q) /\ type \notin Extensible
             /\ ReadMessage(type, p) = Dropped
    /\ \A p : IsSeq(p) /\ Holds(q, 0, p) /\ Size(p) < Size(q) =>
          ReadMessage(type, p) = Dropped \/ type \in {"ERROR", "PING"}

LEMMA Lengths ==
    ASSUME NEW p, NEW q, IsSeq(q), Holds(p, 0, q)
    PROVE  Len(p) = Size(p) /\ Size(p) \in Nat /\ Size(q) \in Nat /\ Size(q) <= Size(p)
BY Sizes DEF Holds, Size

\* Parsers that want a payload of n bytes, and parsers that want n of them at least.
LEMMA Exactly ==
    ASSUME NEW type, NEW m, NEW q, IsSeq(q), Size(q) \in Nat \ {0},
           type \notin Extensible,
           \A p : Len(p) # Size(q) => ReadMessage(type, p) = Dropped,
           \A p : Holds(p, 0, q) /\ Len(p) = Size(q) => ReadMessage(type, p) = m
    PROVE  Understood(type, m, q)
<1>1. ASSUME NEW p, Holds(p, 0, q)
      PROVE  \/ ReadMessage(type, p) = m
             \/ Size(p) # Size(q) /\ ReadMessage(type, p) = Dropped
  <2>1. Len(p) = Size(p) BY <1>1, Lengths
  <2>2. CASE Len(p) = Size(q) BY <1>1, <2>2
  <2>3. CASE Len(p) # Size(q) BY <2>1, <2>3, Zenon
  <2> QED BY <2>2, <2>3
<1>2. ASSUME NEW p, IsSeq(p), Size(p) < Size(q) PROVE ReadMessage(type, p) = Dropped
  <2>1. Size(p) \in Nat /\ Len(p) = Size(p) BY <1>2, Sizes DEF Size
  <2>2. Len(p) # Size(q) BY <1>2, <2>1
  <2> QED BY <2>2
<1> QED BY <1>1, <1>2 DEF Understood

LEMMA AtLeast ==
    ASSUME NEW type, NEW m, NEW q, IsSeq(q), Size(q) \in Nat \ {0},
           \A p : Len(p) < Size(q) => ReadMessage(type, p) = Dropped \/ type \in {"ERROR", "PING"},
           \A p : Holds(p, 0, q) /\ ~(Len(p) < Size(q)) => ReadMessage(type, p) = m
    PROVE  Understood(type, m, q)
<1>1. ASSUME NEW p, Holds(p, 0, q) PROVE ReadMessage(type, p) = m
  <2>1. ~(Len(p) < Size(q)) BY <1>1, Lengths
  <2> QED BY <1>1, <2>1
<1>2. ASSUME NEW p, IsSeq(p), Size(p) < Size(q)
      PROVE  ReadMessage(type, p) = Dropped \/ type \in {"ERROR", "PING"}
  <2>1. Size(p) \in Nat /\ Len(p) = Size(p) BY <1>2, Sizes DEF Size
  <2>2. Len(p) < Size(q) BY <1>2, <2>1
  <2> QED BY <2>2
<1> QED BY <1>1, <1>2 DEF Understood

LEMMA MagicSize == IsSeq(Magic) /\ Size(Magic) = 4
<1>1. Magic \in Seq(Nat) /\ Len(Magic) = 4 BY DEF Magic
<1> QED BY <1>1 DEF IsSeq, Size

LEMMA FlagRead ==
    ASSUME NEW v \in BOOLEAN, NEW x, x = IF v THEN 1 ELSE 0
    PROVE  (x # 0) = v /\ (x = 1) = v /\ ~(x > 1)
<1>1. 1 # 0 /\ ~(1 > 1) /\ ~(0 > 1) OBVIOUS
<1> QED BY <1>1, Zenon

LEMMA TwoFlags ==
    ASSUME NEW v \in BOOLEAN, NEW w \in BOOLEAN, NEW x,
           x = (IF v THEN 1 ELSE 0) + (IF w THEN 2 ELSE 0)
    PROVE  x \in Byte /\ (x % 2 = 1) = v /\ ((x \div 2) % 2 = 1) = w
<1>1. CASE v /\ w
  <2>1. x = 3 BY <1>1
  <2>2. x \in Byte /\ x % 2 = 1 /\ (x \div 2) % 2 = 1 BY <2>1 DEF Byte, UpTo
  <2> QED BY <1>1, <2>2, Zenon
<1>2. CASE v /\ ~w
  <2>1. x = 1 BY <1>2
  <2>2. x \in Byte /\ x % 2 = 1 /\ (x \div 2) % 2 # 1 BY <2>1 DEF Byte, UpTo
  <2> QED BY <1>2, <2>2, Zenon
<1>3. CASE ~v /\ w
  <2>1. x = 2 BY <1>3
  <2>2. x \in Byte /\ x % 2 # 1 /\ (x \div 2) % 2 = 1 BY <2>1 DEF Byte, UpTo
  <2> QED BY <1>3, <2>2, Zenon
<1>4. CASE ~v /\ ~w
  <2>1. x = 0 BY <1>4
  <2>2. x \in Byte /\ x % 2 # 1 /\ (x \div 2) % 2 # 1 BY <2>1 DEF Byte, UpTo
  <2> QED BY <1>4, <2>2, Zenon
<1> QED BY <1>1, <1>2, <1>3, <1>4

LEMMA KnownValues ==
    /\ \A v \in {0, 1} : (IF v = 1 THEN 1 ELSE 0) = v
    /\ \A v \in {0, 1, 2, 255} : (IF v <= 2 THEN v ELSE 255) = v
OBVIOUS

LEMMA SetModeUnderstood ==
    ASSUME NEW mode \in 0..3, NEW m,
           m = [mode |-> mode]
    PROVE  Understood("SET_MODE", m, SetModeBytes(m))
<1> DEFINE q == LE(mode, 1)
<1>2. SetModeBytes(m) = q
  BY Zenon DEF SetModeBytes
<1>3. mode \in Byte
  BY DEF Byte, UpTo
<1>4. IsSeq(q) /\ Size(q) = 1 BY NumberSizes, Joined
<1>5. ASSUME NEW p, Holds(p, 0, q)
      PROVE U8(p, 0) = mode
  <2>1. Holds(p, 0, LE(mode, 1))
    BY <1>5, NumberSizes, Joined, FirstPart, SecondPart
  <2> QED BY <1>3, <2>1, ReadsByte
<1> HIDE DEF q
<1>6. ASSUME NEW p, Holds(p, 0, q), Len(p) = Size(q) PROVE ReadMessage("SET_MODE", p) = m
  <2>1. ~(U8(p, 0) > 3)
    BY <1>5, <1>6
  <2>2. ReadSetMode(p) = m BY <1>2, <1>4, <1>5, <1>6, <2>1, Zenon DEF ReadSetMode
  <2> QED BY <2>2 DEF ReadMessage
<1>7. \A p : ReadMessage("SET_MODE", p) = ReadSetMode(p) BY DEF ReadMessage
<1>8. \A p : Len(p) # Size(q) => ReadMessage("SET_MODE", p) = Dropped
  BY <1>4, <1>7, Zenon DEF ReadSetMode
<1>9. Size(q) \in Nat \ {0} /\ "SET_MODE" \notin Extensible BY <1>4 DEF Extensible
<1>10. Understood("SET_MODE", m, q) BY <1>4, <1>6, <1>8, <1>9, Exactly
<1> QED BY <1>2, <1>10, Zenon

LEMMA AckUnderstood ==
    ASSUME NEW seq \in Word, NEW status \in Byte, NEW error \in Word, NEW m,
           m = [seq |-> seq, status |-> status, error |-> error]
    PROVE  Understood("ACK", m, AckBytes(m))
<1> DEFINE q == LE(seq, 2) \o LE(status, 1) \o LE(error, 2)
<1>2. AckBytes(m) = q
  BY Zenon DEF AckBytes
<1>4. IsSeq(q) /\ Size(q) = 5 BY NumberSizes, Joined
<1>5. ASSUME NEW p, Holds(p, 0, q)
      PROVE U16(p, 0) = seq /\ U8(p, 2) = status /\ U16(p, 3) = error
  <2>1. Holds(p, 0, LE(seq, 2)) /\ Holds(p, 2, LE(status, 1)) /\ Holds(p, 3, LE(error, 2))
    BY <1>5, NumberSizes, Joined, FirstPart, SecondPart
  <2> QED BY <2>1, ReadsByte, ReadsWord
<1> HIDE DEF q
<1>6. ASSUME NEW p, Holds(p, 0, q), ~(Len(p) < Size(q)) PROVE ReadMessage("ACK", p) = m
  <2>1. ReadAck(p) = m BY <1>2, <1>4, <1>5, <1>6, Zenon DEF ReadAck
  <2> QED BY <2>1 DEF ReadMessage
<1>7. \A p : ReadMessage("ACK", p) = ReadAck(p) BY DEF ReadMessage
<1>8. \A p : Len(p) < Size(q) => ReadMessage("ACK", p) = Dropped
  BY <1>4, <1>7, Zenon DEF ReadAck
<1>9. Size(q) \in Nat \ {0} BY <1>4
<1>10. Understood("ACK", m, q) BY <1>4, <1>6, <1>8, <1>9, AtLeast
<1> QED BY <1>2, <1>10, Zenon

LEMMA PingUnderstood ==
    ASSUME NEW stamp \in Quad, NEW m,
           m = [stamp |-> stamp]
    PROVE  Understood("PING", m, PingBytes(m))
<1> DEFINE q == LE64(stamp)
<1>2. PingBytes(m) = q
  BY Zenon DEF PingBytes
<1>4. IsSeq(q) /\ Size(q) = 8 BY QuadSize
<1>5. ASSUME NEW p, Holds(p, 0, q)
      PROVE U64(p, 0) = stamp
  BY <1>5, ReadsQuad
<1> HIDE DEF q
<1>6. ASSUME NEW p, Holds(p, 0, q), ~(Len(p) < Size(q)) PROVE ReadMessage("PING", p) = m
  <2>1. ReadPing(p) = m BY <1>2, <1>4, <1>5, <1>6, Zenon DEF ReadPing
  <2> QED BY <2>1 DEF ReadMessage
<1>7. \A p : ReadMessage("PING", p) = ReadPing(p) BY DEF ReadMessage
<1>9. Size(q) \in Nat \ {0} BY <1>4
<1>10. Understood("PING", m, q) BY <1>4, <1>6, <1>9, AtLeast
<1> QED BY <1>2, <1>10, Zenon

LEMMA EndUnderstood ==
    ASSUME NEW id \in Word, NEW rects \in Word, NEW bytes \in Long, NEW aborted \in BOOLEAN
           , NEW m,
           m = [id |-> id, rects |-> rects, bytes |-> bytes, aborted |-> aborted]
    PROVE  Understood("FRAME_END", m, EndBytes(m))
<1> DEFINE q == LE(id, 2) \o LE(rects, 2) \o LE(bytes, 4) \o Flag(aborted)
<1>2. EndBytes(m) = q
  BY Zenon DEF EndBytes
<1>4. IsSeq(q) /\ Size(q) = 9 BY NumberSizes, SingleSize, Joined
<1>5. ASSUME NEW p, Holds(p, 0, q)
      PROVE U16(p, 0) = id /\ U16(p, 2) = rects /\ U32(p, 4) = bytes
            /\ (U8(p, 8) = 1) = aborted /\ ~(U8(p, 8) > 1)
  <2>1. Holds(p, 0, LE(id, 2)) /\ Holds(p, 2, LE(rects, 2)) /\ Holds(p, 4, LE(bytes, 4))
        /\ Holds(p, 8, Flag(aborted))
    BY <1>5, NumberSizes, SingleSize, Joined, FirstPart, SecondPart
  <2> QED BY <2>1, FlagRead, ReadsFlag, ReadsLong, ReadsWord
<1> HIDE DEF q
<1>6. ASSUME NEW p, Holds(p, 0, q), Len(p) = Size(q) PROVE ReadMessage("FRAME_END", p) = m
  <2>1. ReadEnd(p) = m BY <1>2, <1>4, <1>5, <1>6, Zenon DEF ReadEnd
  <2> QED BY <2>1 DEF ReadMessage
<1>7. \A p : ReadMessage("FRAME_END", p) = ReadEnd(p) BY DEF ReadMessage
<1>8. \A p : Len(p) # Size(q) => ReadMessage("FRAME_END", p) = Dropped
  BY <1>4, <1>7, Zenon DEF ReadEnd
<1>9. Size(q) \in Nat \ {0} /\ "FRAME_END" \notin Extensible BY <1>4 DEF Extensible
<1>10. Understood("FRAME_END", m, q) BY <1>4, <1>6, <1>8, <1>9, Exactly
<1> QED BY <1>2, <1>10, Zenon

LEMMA BeginUnderstood ==
    ASSUME NEW id \in Word, NEW frame \in 0..1, NEW width \in Word, NEW height \in Word
           , NEW hint \in Long, NEW m,
           m = [id |-> id, frame |-> frame, format |-> 0, width |-> width, height |-> height
                , hint |-> hint]
    PROVE  BeginBytes(m) = Refused \/ Understood("FRAME_BEGIN", m, BeginBytes(m))
<1> DEFINE q == LE(id, 2) \o LE(frame, 1) \o LE(0, 1) \o LE(width, 2) \o LE(height, 2)
                \o LE(hint, 4)
<1>1. SUFFICES ASSUME BeginBytes(m) # Refused PROVE Understood("FRAME_BEGIN", m, BeginBytes(m))
  OBVIOUS
<1>2. BeginBytes(m) = q /\ IsSize(width) /\ IsSize(height)
  BY <1>1, Zenon DEF BeginBytes
<1>3. frame \in Byte /\ 0 \in Byte
  BY DEF Byte, UpTo
<1>4. IsSeq(q) /\ Size(q) = 12 BY NumberSizes, Joined
<1>5. ASSUME NEW p, Holds(p, 0, q)
      PROVE U16(p, 0) = id /\ U8(p, 2) = frame /\ U8(p, 3) = 0 /\ U16(p, 4) = width
            /\ U16(p, 6) = height /\ U32(p, 8) = hint
  <2>1. Holds(p, 0, LE(id, 2)) /\ Holds(p, 2, LE(frame, 1)) /\ Holds(p, 3, LE(0, 1))
        /\ Holds(p, 4, LE(width, 2)) /\ Holds(p, 6, LE(height, 2)) /\ Holds(p, 8, LE(hint, 4))
    BY <1>5, NumberSizes, Joined, FirstPart, SecondPart
  <2> QED BY <1>3, <2>1, ReadsByte, ReadsLong, ReadsWord
<1> HIDE DEF q
<1>6. ASSUME NEW p, Holds(p, 0, q), Len(p) = Size(q) PROVE ReadMessage("FRAME_BEGIN", p) = m
  <2>1. ~(U8(p, 2) > 1)
    BY <1>5, <1>6
  <2>2. ReadBegin(p) = m BY <1>2, <1>4, <1>5, <1>6, <2>1, Zenon DEF ReadBegin
  <2> QED BY <2>2 DEF ReadMessage
<1>7. \A p : ReadMessage("FRAME_BEGIN", p) = ReadBegin(p) BY DEF ReadMessage
<1>8. \A p : Len(p) # Size(q) => ReadMessage("FRAME_BEGIN", p) = Dropped
  BY <1>4, <1>7, Zenon DEF ReadBegin
<1>9. Size(q) \in Nat \ {0} /\ "FRAME_BEGIN" \notin Extensible BY <1>4 DEF Extensible
<1>10. Understood("FRAME_BEGIN", m, q) BY <1>4, <1>6, <1>8, <1>9, Exactly
<1> QED BY <1>2, <1>10, Zenon

LEMMA ScanReqUnderstood ==
    ASSUME NEW flags \in Byte, NEW maxEntries \in Byte, NEW m,
           m = [flags |-> flags, maxEntries |-> maxEntries]
    PROVE  ScanReqBytes(m) = Refused \/ Understood("WIFI_SCAN_REQ", m, ScanReqBytes(m))
<1> DEFINE q == LE(flags, 1) \o LE(maxEntries, 1)
<1>1. SUFFICES ASSUME ScanReqBytes(m) # Refused PROVE Understood("WIFI_SCAN_REQ", m, ScanReqBytes(m))
  OBVIOUS
<1>2. ScanReqBytes(m) = q /\ flags = 0 /\ ~(maxEntries > ScanRecords)
  BY <1>1, Zenon DEF ScanReqBytes
<1>4. IsSeq(q) /\ Size(q) = 2 BY NumberSizes, Joined
<1>5. ASSUME NEW p, Holds(p, 0, q)
      PROVE U8(p, 0) = flags /\ U8(p, 1) = maxEntries
  <2>1. Holds(p, 0, LE(flags, 1)) /\ Holds(p, 1, LE(maxEntries, 1))
    BY <1>5, NumberSizes, Joined, FirstPart, SecondPart
  <2> QED BY <2>1, ReadsByte
<1> HIDE DEF q
<1>6. ASSUME NEW p, Holds(p, 0, q), Len(p) = Size(q) PROVE ReadMessage("WIFI_SCAN_REQ", p) = m
  <2>1. ReadScanReq(p) = m BY <1>2, <1>4, <1>5, <1>6, Zenon DEF ReadScanReq
  <2> QED BY <2>1 DEF ReadMessage
<1>7. \A p : ReadMessage("WIFI_SCAN_REQ", p) = ReadScanReq(p) BY DEF ReadMessage
<1>8. \A p : Len(p) # Size(q) => ReadMessage("WIFI_SCAN_REQ", p) = Dropped
  BY <1>4, <1>7, Zenon DEF ReadScanReq
<1>9. Size(q) \in Nat \ {0} /\ "WIFI_SCAN_REQ" \notin Extensible BY <1>4 DEF Extensible
<1>10. Understood("WIFI_SCAN_REQ", m, q) BY <1>4, <1>6, <1>8, <1>9, Exactly
<1> QED BY <1>2, <1>10, Zenon

LEMMA KeyUnderstood ==
    ASSUME NEW keycode \in Long, NEW modifiers \in Word, NEW down \in BOOLEAN, NEW m,
           m = [keycode |-> keycode, modifiers |-> modifiers, down |-> down]
    PROVE  KeyBytes(m) = Refused \/ Understood("INPUT_KEY", m, KeyBytes(m))
<1> DEFINE q == LE(keycode, 4) \o LE(modifiers, 2) \o Flag(down) \o Zeros(1)
<1>1. SUFFICES ASSUME KeyBytes(m) # Refused PROVE Understood("INPUT_KEY", m, KeyBytes(m))
  OBVIOUS
<1>2. KeyBytes(m) = q /\ IsKey(m)
  BY <1>1, Zenon DEF KeyBytes
<1>4. IsSeq(q) /\ Size(q) = 8 BY NumberSizes, SingleSize, ZerosSize, Joined
<1>5. ASSUME NEW p, Holds(p, 0, q)
      PROVE U32(p, 0) = keycode /\ U16(p, 4) = modifiers
            /\ (U8(p, 6) = 1) = down /\ ~(U8(p, 6) > 1) /\ U8(p, 7) = 0
  <2>1. Holds(p, 0, LE(keycode, 4)) /\ Holds(p, 4, LE(modifiers, 2)) /\ Holds(p, 6, Flag(down))
        /\ Holds(p, 7, Zeros(1))
    BY <1>5, NumberSizes, SingleSize, ZerosSize, Joined, FirstPart, SecondPart
  <2> QED BY <2>1, FlagRead, ReadsFlag, ReadsLong, ReadsNothing, ReadsWord
<1> HIDE DEF q
<1>6. ASSUME NEW p, Holds(p, 0, q), Len(p) = Size(q) PROVE ReadMessage("INPUT_KEY", p) = m
  <2>1. IsKey([keycode |-> U32(p, 0), modifiers |-> U16(p, 4)])
    <3>1. keycode \in 4..101 \union 224..231 /\ modifiers <= 15 BY <1>2, Zenon DEF IsKey
    <3>2. U32(p, 0) = keycode /\ U16(p, 4) = modifiers BY <1>5, <1>6
    <3> QED BY <3>1, <3>2, Zenon DEF IsKey
  <2>2. ReadKey(p) = m BY <1>2, <1>4, <1>5, <1>6, <2>1, Zenon DEF ReadKey
  <2> QED BY <2>2 DEF ReadMessage
<1>7. \A p : ReadMessage("INPUT_KEY", p) = ReadKey(p) BY DEF ReadMessage
<1>8. \A p : Len(p) # Size(q) => ReadMessage("INPUT_KEY", p) = Dropped
  BY <1>4, <1>7, Zenon DEF ReadKey
<1>9. Size(q) \in Nat \ {0} /\ "INPUT_KEY" \notin Extensible BY <1>4 DEF Extensible
<1>10. Understood("INPUT_KEY", m, q) BY <1>4, <1>6, <1>8, <1>9, Exactly
<1> QED BY <1>2, <1>10, Zenon

LEMMA MouseUnderstood ==
    ASSUME NEW buttons \in Byte, NEW x \in Word, NEW y \in Word, NEW wheel \in Int8, NEW m,
           m = [buttons |-> buttons, x |-> x, y |-> y, wheel |-> wheel]
    PROVE  MouseBytes(m) = Refused \/ Understood("INPUT_MOUSE", m, MouseBytes(m))
<1> DEFINE q == LE(buttons, 1) \o LE(x, 2) \o LE(y, 2) \o Signed(wheel) \o LE(1, 1) \o Zeros(1)
<1>1. SUFFICES ASSUME MouseBytes(m) # Refused PROVE Understood("INPUT_MOUSE", m, MouseBytes(m))
  OBVIOUS
<1>2. MouseBytes(m) = q /\ IsMouse(m)
  BY <1>1, Zenon DEF MouseBytes
<1>3. 1 \in Byte
  BY DEF Byte, UpTo
<1>4. IsSeq(q) /\ Size(q) = 8 BY NumberSizes, SingleSize, ZerosSize, Joined
<1>5. ASSUME NEW p, Holds(p, 0, q)
      PROVE U8(p, 0) = buttons /\ U16(p, 1) = x /\ U16(p, 3) = y /\ S8(p, 5) = wheel
            /\ U8(p, 6) = 1 /\ U8(p, 7) = 0
  <2>1. Holds(p, 0, LE(buttons, 1)) /\ Holds(p, 1, LE(x, 2)) /\ Holds(p, 3, LE(y, 2))
        /\ Holds(p, 5, Signed(wheel)) /\ Holds(p, 6, LE(1, 1)) /\ Holds(p, 7, Zeros(1))
    BY <1>5, NumberSizes, SingleSize, ZerosSize, Joined, FirstPart, SecondPart
  <2> QED BY <1>3, <2>1, ReadsByte, ReadsNothing, ReadsSigned, ReadsWord
<1> HIDE DEF q
<1>6. ASSUME NEW p, Holds(p, 0, q), Len(p) = Size(q) PROVE ReadMessage("INPUT_MOUSE", p) = m
  <2>1. IsMouse([buttons |-> U8(p, 0), x |-> U16(p, 1), y |-> U16(p, 3)])
    BY <1>2, <1>5, <1>6, Zenon DEF IsMouse
  <2>2. ~(Len(p) # 8 \/ U8(p, 6) # 1 \/ U8(p, 7) # 0)
    BY <1>4, <1>5, <1>6, Zenon
  <2>3. ReadMouse(p) = m BY <1>5, <1>6, <2>1, <2>2, SMT DEF ReadMouse
  <2> QED BY <2>3 DEF ReadMessage
<1>7. \A p : ReadMessage("INPUT_MOUSE", p) = ReadMouse(p) BY DEF ReadMessage
<1>8. \A p : Len(p) # Size(q) => ReadMessage("INPUT_MOUSE", p) = Dropped
  BY <1>4, <1>7, Zenon DEF ReadMouse
<1>9. Size(q) \in Nat \ {0} /\ "INPUT_MOUSE" \notin Extensible BY <1>4 DEF Extensible
<1>10. Understood("INPUT_MOUSE", m, q) BY <1>4, <1>6, <1>8, <1>9, Exactly
<1> QED BY <1>2, <1>10, Zenon

LEMMA HeaderUnderstood ==
    ASSUME NEW type \in 1..81, NEW flags \in Byte, NEW seq \in Word, NEW length \in Long
           , NEW crc \in Long, NEW m,
           m = [type |-> type, flags |-> flags, seq |-> seq, length |-> length, crc |-> crc]
    PROVE  HeaderBytes(m) = Refused \/ Understood("header", m, HeaderBytes(m))
<1> DEFINE q == Magic \o LE(1, 1) \o LE(type, 1) \o LE(flags, 1) \o Zeros(1) \o LE(seq, 2)
                \o LE(length, 4) \o LE(crc, 4) \o Zeros(2)
<1>1. SUFFICES ASSUME HeaderBytes(m) # Refused PROVE Understood("header", m, HeaderBytes(m))
  OBVIOUS
<1>2. HeaderBytes(m) = q /\ ~(length > MaxPacketPayload)
  BY <1>1, Zenon DEF HeaderBytes
<1>3. 1 \in Byte /\ type \in Byte
  BY DEF Byte, UpTo
<1>4. IsSeq(q) /\ Size(q) = 20 BY MagicSize, NumberSizes, ZerosSize, Joined
<1>5. ASSUME NEW p, Holds(p, 0, q)
      PROVE Chars(p, 0, 4) = Magic /\ U8(p, 4) = 1 /\ U8(p, 5) = type /\ U8(p, 6) = flags
            /\ U16(p, 8) = seq /\ U32(p, 10) = length /\ U32(p, 14) = crc
  <2>1. Holds(p, 0, Magic) /\ Holds(p, 4, LE(1, 1)) /\ Holds(p, 5, LE(type, 1))
        /\ Holds(p, 6, LE(flags, 1)) /\ Holds(p, 8, LE(seq, 2)) /\ Holds(p, 10, LE(length, 4))
        /\ Holds(p, 14, LE(crc, 4))
    BY <1>5, MagicSize, NumberSizes, ZerosSize, Joined, FirstPart, SecondPart
  <2> QED BY <1>3, <2>1, MagicSize, ReadsByte, ReadsLong, ReadsText, ReadsWord
<1> HIDE DEF q
<1>6. ASSUME NEW p, Holds(p, 0, q), ~(Len(p) < Size(q)) PROVE ReadMessage("header", p) = m
  <2>1. ReadHeader(p) = m BY <1>2, <1>4, <1>5, <1>6, Zenon DEF ReadHeader
  <2> QED BY <2>1 DEF ReadMessage
<1>7. \A p : ReadMessage("header", p) = ReadHeader(p) BY DEF ReadMessage
<1>8. \A p : Len(p) < Size(q) => ReadMessage("header", p) = Dropped
  BY <1>4, <1>7, Zenon DEF ReadHeader
<1>9. Size(q) \in Nat \ {0} BY <1>4
<1>10. Understood("header", m, q) BY <1>4, <1>6, <1>8, <1>9, AtLeast
<1> QED BY <1>2, <1>10, Zenon

LEMMA CapabilitiesUnderstood ==
    ASSUME NEW m \in Askable("CAPABILITIES")
    PROVE  \/ CapabilitiesBytes(m) = Refused
           \/ Understood("CAPABILITIES", m, CapabilitiesBytes(m))
<1>a. PICK virtual, physical, width, height, format, depth, mono, readback, modes, physWidth,
           physHeight, physFormat, physDepth, physMono, physReadback, controller, address, scenes :
        /\ virtual = m.virtual /\ physical = m.physical /\ width = m.width /\ height = m.height
        /\ format = m.format /\ depth = m.depth /\ mono = m.mono /\ readback = m.readback
        /\ modes = m.modes /\ physWidth = m.physWidth /\ physHeight = m.physHeight
        /\ physFormat = m.physFormat /\ physDepth = m.physDepth /\ physMono = m.physMono
        /\ physReadback = m.physReadback /\ controller = m.controller
        /\ address = m.address /\ scenes = m.scenes
  BY Zenon
<1>b. m \in [virtual : BOOLEAN, physical : BOOLEAN, width : Word, height : Word, format : Byte,
             depth : Byte, mono : BOOLEAN, readback : BOOLEAN, modes : Byte, physWidth : Word,
             physHeight : Word, physFormat : Byte, physDepth : Byte, physMono : BOOLEAN,
             physReadback : BOOLEAN, controller : Byte, address : Byte, scenes : Byte]
  BY DEF Askable
<1>c. m = [virtual |-> virtual, physical |-> physical, width |-> width, height |-> height,
           format |-> format, depth |-> depth, mono |-> mono, readback |-> readback,
           modes |-> modes, physWidth |-> physWidth, physHeight |-> physHeight,
           physFormat |-> physFormat, physDepth |-> physDepth, physMono |-> physMono,
           physReadback |-> physReadback, controller |-> controller, address |-> address,
           scenes |-> scenes]
  BY <1>a, <1>b
<1>d. /\ virtual \in BOOLEAN /\ physical \in BOOLEAN /\ width \in Word /\ height \in Word
      /\ format \in Byte /\ depth \in Byte /\ mono \in BOOLEAN /\ readback \in BOOLEAN
      /\ modes \in Byte /\ physWidth \in Word /\ physHeight \in Word /\ physFormat \in Byte
      /\ physDepth \in Byte /\ physMono \in BOOLEAN /\ physReadback \in BOOLEAN
      /\ controller \in Byte /\ address \in Byte /\ scenes \in Byte
  BY <1>a, <1>b
<1> HIDE <1>a, <1>b
<1> USE <1>d
<1>0. PICK which : which = (IF virtual THEN 1 ELSE 0) + (IF physical THEN 2 ELSE 0) OBVIOUS
<1> DEFINE screen == LE(1, 1) \o LE(which, 1) \o LE(width, 2) \o LE(height, 2) \o LE(format, 1)
                     \o LE(depth, 1) \o Flag(mono) \o Flag(readback) \o LE(modes, 1) \o Zeros(5)
           panel == screen \o LE(physWidth, 2) \o LE(physHeight, 2) \o LE(physFormat, 1)
                    \o LE(physDepth, 1) \o Flag(physMono) \o Flag(physReadback)
           q == panel \o LE(controller, 1) \o LE(address, 1) \o LE(scenes, 1) \o Zeros(5)
<1>1. SUFFICES ASSUME CapabilitiesBytes(m) # Refused
               PROVE  Understood("CAPABILITIES", m, CapabilitiesBytes(m))
  OBVIOUS
<1>2. CapabilitiesBytes(m) = q /\ format = 0 /\ physFormat \in {0, 1} /\ controller \in {0, 1, 2, 255}
  <2>1. /\ m.format = 0 /\ m.physFormat \in {0, 1} /\ m.controller \in {0, 1, 2, 255}
        /\ CapabilitiesBytes(m) =
              LE(1, 1) \o LE((IF m.virtual THEN 1 ELSE 0) + (IF m.physical THEN 2 ELSE 0), 1)
              \o LE(m.width, 2) \o LE(m.height, 2) \o LE(m.format, 1) \o LE(m.depth, 1)
              \o Flag(m.mono) \o Flag(m.readback) \o LE(m.modes, 1) \o Zeros(5)
              \o LE(m.physWidth, 2) \o LE(m.physHeight, 2) \o LE(m.physFormat, 1)
              \o LE(m.physDepth, 1) \o Flag(m.physMono) \o Flag(m.physReadback)
              \o LE(m.controller, 1) \o LE(m.address, 1) \o LE(m.scenes, 1) \o Zeros(5)
    BY <1>1, Zenon DEF CapabilitiesBytes
  <2> QED BY <1>0, <1>a, <2>1, Zenon
<1>3. /\ 1 \in Byte /\ which \in Byte
      /\ (which % 2 = 1) = virtual /\ ((which \div 2) % 2 = 1) = physical
  BY <1>0, TwoFlags DEF Byte, UpTo
<1>4. /\ IsSeq(screen) /\ Size(screen) = 16
      /\ \A p : Holds(p, 0, screen) =>
            /\ Holds(p, 0, LE(1, 1)) /\ Holds(p, 1, LE(which, 1)) /\ Holds(p, 2, LE(width, 2))
            /\ Holds(p, 4, LE(height, 2)) /\ Holds(p, 7, LE(depth, 1)) /\ Holds(p, 8, Flag(mono))
            /\ Holds(p, 9, Flag(readback)) /\ Holds(p, 10, LE(modes, 1))
  <2>1. IsSeq(screen) /\ Size(screen) = 16 BY NumberSizes, SingleSize, ZerosSize, Joined
  <2>2. ASSUME NEW p, Holds(p, 0, screen)
        PROVE  /\ Holds(p, 0, LE(1, 1)) /\ Holds(p, 1, LE(which, 1)) /\ Holds(p, 2, LE(width, 2))
               /\ Holds(p, 4, LE(height, 2)) /\ Holds(p, 7, LE(depth, 1))
               /\ Holds(p, 8, Flag(mono)) /\ Holds(p, 9, Flag(readback))
               /\ Holds(p, 10, LE(modes, 1))
    BY <2>2, NumberSizes, SingleSize, ZerosSize, Joined, FirstPart, SecondPart
  <2> QED BY <2>1, <2>2, Zenon
<1> HIDE DEF screen
<1>5. /\ IsSeq(panel) /\ Size(panel) = 24
      /\ \A p : Holds(p, 0, panel) =>
            /\ Holds(p, 0, screen) /\ Holds(p, 16, LE(physWidth, 2)) /\ Holds(p, 18, LE(physHeight, 2))
            /\ Holds(p, 20, LE(physFormat, 1)) /\ Holds(p, 21, LE(physDepth, 1))
            /\ Holds(p, 22, Flag(physMono)) /\ Holds(p, 23, Flag(physReadback))
  <2>1. IsSeq(panel) /\ Size(panel) = 24 BY <1>4, NumberSizes, SingleSize, Joined
  <2>2. ASSUME NEW p, Holds(p, 0, panel)
        PROVE  /\ Holds(p, 0, screen) /\ Holds(p, 16, LE(physWidth, 2))
               /\ Holds(p, 18, LE(physHeight, 2)) /\ Holds(p, 20, LE(physFormat, 1))
               /\ Holds(p, 21, LE(physDepth, 1)) /\ Holds(p, 22, Flag(physMono))
               /\ Holds(p, 23, Flag(physReadback))
    BY <1>4, <2>2, NumberSizes, SingleSize, Joined, FirstPart, SecondPart
  <2> QED BY <2>1, <2>2, Zenon
<1> HIDE DEF panel
<1>6. IsSeq(q) /\ Size(q) = 32 BY <1>5, NumberSizes, ZerosSize, Joined
<1>7. ASSUME NEW p, Holds(p, 0, q)
      PROVE /\ U8(p, 0) = 1
            /\ (U8(p, 1) % 2 = 1) = virtual /\ ((U8(p, 1) \div 2) % 2 = 1) = physical
            /\ U16(p, 2) = width /\ U16(p, 4) = height /\ U8(p, 7) = depth
            /\ (U8(p, 8) # 0) = mono /\ (U8(p, 9) # 0) = readback /\ U8(p, 10) = modes
            /\ U16(p, 16) = physWidth /\ U16(p, 18) = physHeight
            /\ (IF U8(p, 20) = 1 THEN 1 ELSE 0) = physFormat /\ U8(p, 21) = physDepth
            /\ (U8(p, 22) # 0) = physMono /\ (U8(p, 23) # 0) = physReadback
            /\ (IF U8(p, 24) <= 2 THEN U8(p, 24) ELSE 255) = controller
            /\ U8(p, 25) = address /\ U8(p, 26) = scenes
  <2>1. /\ Holds(p, 0, panel) /\ Holds(p, 24, LE(controller, 1)) /\ Holds(p, 25, LE(address, 1))
        /\ Holds(p, 26, LE(scenes, 1))
    BY <1>5, <1>7, NumberSizes, ZerosSize, Joined, FirstPart, SecondPart
  <2>2. Holds(p, 0, screen) BY <1>5, <2>1
  <2>3. /\ U8(p, 0) = 1 /\ U8(p, 1) = which /\ U16(p, 2) = width /\ U16(p, 4) = height
        /\ U8(p, 7) = depth /\ U8(p, 10) = modes
    BY <1>3, <1>4, <2>2, ReadsByte, ReadsWord
  <2>4. (U8(p, 8) # 0) = mono /\ (U8(p, 9) # 0) = readback
    BY <1>4, <2>2, ReadsFlag, FlagRead
  <2>5. /\ U16(p, 16) = physWidth /\ U16(p, 18) = physHeight /\ U8(p, 20) = physFormat
        /\ U8(p, 21) = physDepth
    BY <1>5, <2>1, ReadsByte, ReadsWord
  <2>6. (U8(p, 22) # 0) = physMono /\ (U8(p, 23) # 0) = physReadback
    BY <1>5, <2>1, ReadsFlag, FlagRead
  <2>7. U8(p, 24) = controller /\ U8(p, 25) = address /\ U8(p, 26) = scenes BY <2>1, ReadsByte
  <2>8. (U8(p, 1) % 2 = 1) = virtual /\ ((U8(p, 1) \div 2) % 2 = 1) = physical
    BY <1>3, <2>3, Zenon
  <2>9. (IF U8(p, 20) = 1 THEN 1 ELSE 0) = physFormat BY <1>2, <2>5, KnownValues, Zenon
  <2>10. (IF U8(p, 24) <= 2 THEN U8(p, 24) ELSE 255) = controller
    BY <1>2, <2>7, KnownValues, Zenon
  <2> QED BY <2>3, <2>4, <2>5, <2>6, <2>7, <2>8, <2>9, <2>10, Zenon
<1> HIDE DEF q
<1>8. ASSUME NEW p, Holds(p, 0, q), ~(Len(p) < Size(q)) PROVE ReadMessage("CAPABILITIES", p) = m
  <2>1. ~(Len(p) < 32 \/ U8(p, 0) # 1) BY <1>6, <1>7, <1>8
  <2>2. ReadCapabilities(p) =
          [virtual |-> U8(p, 1) % 2 = 1, physical |-> (U8(p, 1) \div 2) % 2 = 1,
           width |-> U16(p, 2), height |-> U16(p, 4), format |-> 0, depth |-> U8(p, 7),
           mono |-> U8(p, 8) # 0, readback |-> U8(p, 9) # 0, modes |-> U8(p, 10),
           physWidth |-> U16(p, 16), physHeight |-> U16(p, 18),
           physFormat |-> IF U8(p, 20) = 1 THEN 1 ELSE 0, physDepth |-> U8(p, 21),
           physMono |-> U8(p, 22) # 0, physReadback |-> U8(p, 23) # 0,
           controller |-> IF U8(p, 24) <= 2 THEN U8(p, 24) ELSE 255,
           address |-> U8(p, 25), scenes |-> U8(p, 26)]
    BY <2>1, Zenon DEF ReadCapabilities
  <2>3. ReadCapabilities(p) = m BY <1>c, <1>2, <1>7, <1>8, <2>2, SMT
  <2> QED BY <2>3 DEF ReadMessage
<1>9. \A p : ReadMessage("CAPABILITIES", p) = ReadCapabilities(p) BY DEF ReadMessage
<1>10. \A p : Len(p) < Size(q) => ReadMessage("CAPABILITIES", p) = Dropped
  BY <1>6, <1>9, Zenon DEF ReadCapabilities
<1>11. Size(q) \in Nat \ {0} BY <1>6
<1>12. Understood("CAPABILITIES", m, q) BY <1>6, <1>8, <1>10, <1>11, AtLeast
<1> QED BY <1>2, <1>12, Zenon

LEMMA HelloUnderstood ==
    ASSUME NEW class \in Byte, NEW width \in Word, NEW height \in Word, NEW format \in Byte,
           NEW modes \in Byte, NEW name \in Text8,
           NEW m, m = [version |-> 1, class |-> class, width |-> width, height |-> height,
                       format |-> format, modes |-> modes, name |-> name]
    PROVE  HelloBytes(m) = Refused \/ Understood("HELLO", m, HelloBytes(m))
<1> DEFINE q == LE(1, 1) \o LE(class, 1) \o LE(width, 2) \o LE(height, 2)
                \o LE(format, 1) \o LE(modes, 1) \o LE(Size(name), 1) \o name
<1>1. SUFFICES ASSUME HelloBytes(m) # Refused PROVE Understood("HELLO", m, HelloBytes(m))
  OBVIOUS
<1>2. Size(name) \in Byte /\ IsSeq(name) /\ 1 \in Byte
  BY <1>1, Texts DEF HelloBytes, Byte, UpTo
<1>3. HelloBytes(m) = q
  BY <1>1, Zenon DEF HelloBytes, Size
<1>4. IsSeq(q) /\ Size(q) = 9 + Size(name) /\ Size(name) \in Nat
  BY <1>2, NumberSizes, Joined, Sizes
<1>5. ASSUME NEW p, Holds(p, 0, q)
      PROVE /\ U8(p, 0) = 1 /\ U8(p, 1) = class /\ U16(p, 2) = width
            /\ U16(p, 4) = height /\ U8(p, 6) = format /\ U8(p, 7) = modes
            /\ U8(p, 8) = Size(name) /\ Chars(p, 9, Size(name)) = name
  <2>1. /\ Holds(p, 0, LE(1, 1)) /\ Holds(p, 1, LE(class, 1)) /\ Holds(p, 2, LE(width, 2))
        /\ Holds(p, 4, LE(height, 2)) /\ Holds(p, 6, LE(format, 1)) /\ Holds(p, 7, LE(modes, 1))
        /\ Holds(p, 8, LE(Size(name), 1)) /\ Holds(p, 9, name)
    BY <1>2, <1>5, NumberSizes, Joined, Sizes, FirstPart, SecondPart
  <2> QED BY <1>2, <2>1, ReadsByte, ReadsWord, ReadsText
<1> HIDE DEF q
<1>6. ASSUME NEW p, Holds(p, 0, q)
      PROVE  ReadHello(p) = m \/ (Size(p) # Size(q) /\ ReadHello(p) = Dropped)
  <2>1. Size(p) \in Nat /\ Len(p) = Size(p) /\ Size(p) >= 9 + Size(name)
    BY <1>4, <1>6, Sizes DEF Holds, Size
  <2>2. Len(p) < 9 <=> FALSE BY <1>4, <2>1
  <2>3. Len(p) # 9 + U8(p, 8) <=> Size(p) # Size(q) BY <1>4, <1>5, <1>6, <2>1
  <2> QED BY <1>5, <1>6, <2>2, <2>3, Zenon DEF ReadHello
<1>7. ASSUME NEW p, IsSeq(p), Holds(q, 0, p), Size(p) < Size(q) PROVE ReadHello(p) = Dropped
  <2>1. Size(p) \in Nat /\ Len(p) = Size(p) BY <1>7, Sizes DEF Size
  <2>2. Holds(q, 8, LE(Size(name), 1))
    BY <1>2, <1>4, HoldsItself, NumberSizes, Joined, Sizes, FirstPart, SecondPart DEF q
  <2>3. CASE Size(p) < 9
    <3>1. Len(p) < 9 BY <2>1, <2>3
    <3> QED BY <3>1, Zenon DEF ReadHello
  <2>4. CASE Size(p) >= 9
    <3>1. Holds(p, 8, LE(Size(name), 1)) BY <1>4, <1>7, <2>1, <2>2, <2>4, NumberSizes, BeforeTheCut
    <3>2. U8(p, 8) = Size(name) BY <1>2, <3>1, ReadsByte
    <3>3. Len(p) # 9 + U8(p, 8) BY <1>4, <1>7, <2>1, <3>2
    <3> QED BY <3>3, Zenon DEF ReadHello
  <2> QED BY <2>1, <2>3, <2>4
<1>8. \A p : ReadMessage("HELLO", p) = ReadHello(p) BY DEF ReadMessage
<1> QED BY <1>3, <1>4, <1>6, <1>7, <1>8 DEF Understood, Extensible

LEMMA StatusUnderstood ==
    ASSUME NEW phase \in Byte, NEW error \in Word, NEW flags \in Byte, NEW rssi \in Int8,
           NEW channel \in Byte, NEW ip \in Long, NEW server \in Long, NEW port \in Word,
           NEW ssid \in Text8,
           NEW m, m = [phase |-> phase, error |-> error, flags |-> flags, rssi |-> rssi,
                       channel |-> channel, ip |-> ip, server |-> server, port |-> port,
                       ssid |-> ssid]
    PROVE  StatusBytes(m) = Refused \/ Understood("WIFI_STATUS", m, StatusBytes(m))
<1> DEFINE q == LE(phase, 1) \o LE(error, 2) \o LE(flags, 1) \o Signed(rssi) \o LE(channel, 1)
                \o Net(ip) \o Net(server) \o LE(port, 2) \o LE(Size(ssid), 1) \o ssid
<1>1. SUFFICES ASSUME StatusBytes(m) # Refused
               PROVE  Understood("WIFI_STATUS", m, StatusBytes(m))
  OBVIOUS
<1>2. ~(Size(ssid) > 32) /\ Size(ssid) \in Byte /\ IsSeq(ssid)
  BY <1>1, Texts DEF StatusBytes, Byte, UpTo
<1>3. StatusBytes(m) = q BY <1>1, Zenon DEF StatusBytes, Size
<1>4. IsSeq(q) /\ Size(q) = 17 + Size(ssid) /\ Size(ssid) \in Nat
  BY <1>2, NumberSizes, SingleSize, NetBytes, Joined, Sizes
<1>5. ASSUME NEW p, Holds(p, 0, q)
      PROVE /\ U8(p, 0) = phase /\ U16(p, 1) = error /\ U8(p, 3) = flags /\ S8(p, 4) = rssi
            /\ U8(p, 5) = channel /\ NetU32(p, 6) = ip /\ NetU32(p, 10) = server
            /\ U16(p, 14) = port /\ U8(p, 16) = Size(ssid) /\ Chars(p, 17, Size(ssid)) = ssid
  <2>1. /\ Holds(p, 0, LE(phase, 1)) /\ Holds(p, 1, LE(error, 2)) /\ Holds(p, 3, LE(flags, 1))
        /\ Holds(p, 4, Signed(rssi)) /\ Holds(p, 5, LE(channel, 1)) /\ Holds(p, 6, Net(ip))
        /\ Holds(p, 10, Net(server)) /\ Holds(p, 14, LE(port, 2))
        /\ Holds(p, 16, LE(Size(ssid), 1)) /\ Holds(p, 17, ssid)
    BY <1>2, <1>5, NumberSizes, SingleSize, NetBytes, Joined, Sizes, FirstPart, SecondPart
  <2> QED BY <1>2, <2>1, ReadsByte, ReadsWord, ReadsSigned, ReadsNet, ReadsText
<1> HIDE DEF q
<1>6. ASSUME NEW p, Holds(p, 0, q) PROVE ReadStatus(p) = m
  <2>1. Len(p) = Size(p) /\ Size(p) \in Nat /\ Size(p) >= 17 + Size(ssid) BY <1>4, <1>6, Lengths
  <2>2. ~(Len(p) < 17 \/ U8(p, 16) > 32 \/ Len(p) < 17 + U8(p, 16)) BY <1>2, <1>4, <1>5, <1>6, <2>1
  <2> QED BY <1>5, <1>6, <2>2, Zenon DEF ReadStatus
<1>7. ASSUME NEW p, IsSeq(p), Holds(q, 0, p), Size(p) < Size(q) PROVE ReadStatus(p) = Dropped
  <2>1. Size(p) \in Nat /\ Len(p) = Size(p) BY <1>7, Sizes DEF Size
  <2>2. Holds(q, 16, LE(Size(ssid), 1))
    BY <1>2, <1>4, HoldsItself, NumberSizes, SingleSize, NetBytes, Joined, Sizes, FirstPart,
       SecondPart DEF q
  <2>3. CASE Size(p) < 17
    <3>1. Len(p) < 17 BY <2>1, <2>3
    <3> QED BY <3>1, Zenon DEF ReadStatus
  <2>4. CASE Size(p) >= 17
    <3>1. Holds(p, 16, LE(Size(ssid), 1)) BY <1>4, <1>7, <2>1, <2>2, <2>4, NumberSizes, BeforeTheCut
    <3>2. U8(p, 16) = Size(ssid) BY <1>2, <3>1, ReadsByte
    <3>3. Len(p) < 17 + U8(p, 16) BY <1>4, <1>7, <2>1, <3>2
    <3> QED BY <3>3, Zenon DEF ReadStatus
  <2> QED BY <2>1, <2>3, <2>4
<1>8. \A p : ReadMessage("WIFI_STATUS", p) = ReadStatus(p) BY DEF ReadMessage
<1> QED BY <1>3, <1>4, <1>6, <1>7, <1>8 DEF Understood

LEMMA ErrorUnderstood ==
    ASSUME NEW code \in Word, NEW text \in Text8, NEW m, m = [code |-> code, text |-> text]
    PROVE  ErrorBytes(m) = Refused \/ Understood("ERROR", m, ErrorBytes(m))
<1> DEFINE q == LE(code, 2) \o LE(Size(text), 1) \o text
<1>1. SUFFICES ASSUME ErrorBytes(m) # Refused PROVE Understood("ERROR", m, ErrorBytes(m))
  OBVIOUS
<1>2. Size(text) \in Byte /\ IsSeq(text) BY <1>1, Texts DEF ErrorBytes, Byte, UpTo
<1>3. ErrorBytes(m) = q BY <1>1, Zenon DEF ErrorBytes, Size
<1>4. IsSeq(q) /\ Size(q) = 3 + Size(text) /\ Size(text) \in Nat
  BY <1>2, NumberSizes, Joined, Sizes
<1>5. ASSUME NEW p, Holds(p, 0, q)
      PROVE U16(p, 0) = code /\ U8(p, 2) = Size(text) /\ Chars(p, 3, Size(text)) = text
  <2>1. Holds(p, 0, LE(code, 2)) /\ Holds(p, 2, LE(Size(text), 1)) /\ Holds(p, 3, text)
    BY <1>2, <1>5, NumberSizes, Joined, Sizes, FirstPart, SecondPart
  <2> QED BY <1>2, <2>1, ReadsByte, ReadsWord, ReadsText
<1> HIDE DEF q
<1>6. ASSUME NEW p, Holds(p, 0, q) PROVE ReadError(p) = m
  <2>1. Len(p) = Size(p) /\ Size(p) \in Nat /\ Size(p) >= 3 + Size(text) BY <1>4, <1>6, Lengths
  <2>2. ~(Len(p) < 3) /\ Len(p) >= 3 + U8(p, 2) BY <1>2, <1>4, <1>5, <1>6, <2>1
  <2> QED BY <1>5, <1>6, <2>2, Zenon DEF ReadError
<1>7. \A p : ReadMessage("ERROR", p) = ReadError(p) BY DEF ReadMessage
<1> QED BY <1>3, <1>4, <1>6, <1>7 DEF Understood

LEMMA PreviewUnderstood ==
    ASSUME PictureBytes \in Nat, NEW id \in Word, NEW width \in Word, NEW height \in Word,
           NEW format \in Byte, NEW flags \in Byte, NEW pixels \in [1..PictureBytes -> Byte],
           NEW m, m = [id |-> id, width |-> width, height |-> height, format |-> format,
                       flags |-> flags, pixels |-> pixels]
    PROVE  PreviewBytes(m) = Refused \/ Understood("PHYSICAL_PREVIEW", m, PreviewBytes(m))
<1> DEFINE q == LE(id, 2) \o LE(width, 2) \o LE(height, 2) \o LE(format, 1) \o LE(flags, 1)
                \o pixels
<1>1. SUFFICES ASSUME PreviewBytes(m) # Refused
               PROVE  Understood("PHYSICAL_PREVIEW", m, PreviewBytes(m))
  OBVIOUS
<1>2. PreviewBytes(m) = q /\ format = 1 BY <1>1, Zenon DEF PreviewBytes
<1>3. IsSeq(pixels) /\ Size(pixels) = PictureBytes
  <2>1. pixels = [i \in 1..PictureBytes |-> pixels[i]] OBVIOUS
  <2> QED BY <2>1, FunctionSeq DEF Size
<1>4. IsSeq(q) /\ Size(q) = 8 + PictureBytes BY <1>3, NumberSizes, Joined
<1>5. ASSUME NEW p, Holds(p, 0, q)
      PROVE /\ U16(p, 0) = id /\ U16(p, 2) = width /\ U16(p, 4) = height /\ U8(p, 7) = flags
            /\ Chars(p, 8, PictureBytes) = pixels
  <2>1. /\ Holds(p, 0, LE(id, 2)) /\ Holds(p, 2, LE(width, 2)) /\ Holds(p, 4, LE(height, 2))
        /\ Holds(p, 7, LE(flags, 1)) /\ Holds(p, 8, pixels)
    BY <1>3, <1>5, NumberSizes, Joined, FirstPart, SecondPart
  <2> QED BY <1>3, <2>1, ReadsByte, ReadsWord, ReadsText
<1> HIDE DEF q
<1>6. ASSUME NEW p, Holds(p, 0, q), ~(Len(p) < Size(q)) PROVE ReadMessage("PHYSICAL_PREVIEW", p) = m
  <2>1. ~(Len(p) < 8 + PictureBytes) BY <1>4, <1>6
  <2>2. ReadPreview(p) = [id |-> U16(p, 0), width |-> U16(p, 2), height |-> U16(p, 4),
                          format |-> 1, flags |-> U8(p, 7), pixels |-> Chars(p, 8, PictureBytes)]
    BY <2>1, Zenon DEF ReadPreview
  <2>3. ReadPreview(p) = m BY <1>2, <1>5, <1>6, <2>2, Zenon
  <2> QED BY <2>3 DEF ReadMessage
<1>7. \A p : ReadMessage("PHYSICAL_PREVIEW", p) = ReadPreview(p) BY DEF ReadMessage
<1>8. \A p : Len(p) < Size(q) => ReadMessage("PHYSICAL_PREVIEW", p) = Dropped
  BY <1>4, <1>7, Zenon DEF ReadPreview
<1>9. Size(q) \in Nat \ {0} BY <1>4
<1>10. Understood("PHYSICAL_PREVIEW", m, q) BY <1>4, <1>6, <1>8, <1>9, AtLeast
<1> QED BY <1>2, <1>10, Zenon

LEMMA RectUnderstood ==
    ASSUME NEW x \in Word, NEW y \in Word, NEW w \in Word, NEW h \in Word,
           NEW pixels \in Seq(Byte), x + w <= Width, y + h <= Height,
           Width \in Nat, Height \in Nat,
           NEW m, m = [x |-> x, y |-> y, w |-> w, h |-> h, pixels |-> pixels]
    PROVE  RectBytes(m) = Refused \/ Understood("FRAME_RECT", m, RectBytes(m))
<1> DEFINE q == LE(x, 2) \o LE(y, 2) \o LE(w, 2) \o LE(h, 2) \o pixels
<1>1. SUFFICES ASSUME RectBytes(m) # Refused PROVE Understood("FRAME_RECT", m, RectBytes(m))
  OBVIOUS
<1>2. RectBytes(m) = q /\ ~(w < 1) /\ ~(h < 1) /\ Size(pixels) = w * h * 2
  BY <1>1, Zenon DEF RectBytes, Size
<1>3. IsSeq(pixels) /\ Size(pixels) \in Nat BY DEF IsSeq, Size
<1>4. IsSeq(q) /\ Size(q) = 8 + Size(pixels) BY <1>3, NumberSizes, Joined
<1>5. ASSUME NEW p, Holds(p, 0, q)
      PROVE /\ U16(p, 0) = x /\ U16(p, 2) = y /\ U16(p, 4) = w /\ U16(p, 6) = h
            /\ Chars(p, 8, Size(pixels)) = pixels
  <2>1. /\ Holds(p, 0, LE(x, 2)) /\ Holds(p, 2, LE(y, 2)) /\ Holds(p, 4, LE(w, 2))
        /\ Holds(p, 6, LE(h, 2)) /\ Holds(p, 8, pixels)
    BY <1>3, <1>5, NumberSizes, Joined, FirstPart, SecondPart
  <2> QED BY <1>3, <2>1, ReadsWord, ReadsText
<1>6. x \in Nat /\ y \in Nat /\ w \in Nat /\ h \in Nat BY DEF Word, UpTo
<1> HIDE DEF q
<1>7. ASSUME NEW p, Holds(p, 0, q)
      PROVE  ReadRect(p) = m \/ (Size(p) # Size(q) /\ ReadRect(p) = Dropped)
  <2>1. Len(p) = Size(p) /\ Size(p) \in Nat /\ Size(p) >= 8 + Size(pixels) BY <1>4, <1>7, Lengths
  <2>2. U16(p, 4) * U16(p, 6) * 2 = Size(pixels) BY <1>2, <1>5, <1>7, Zenon
  <2>3. /\ ~(Len(p) < 8) /\ ~(U16(p, 4) < 1) /\ ~(U16(p, 6) < 1)
        /\ ~(U16(p, 0) + U16(p, 4) > Width) /\ ~(U16(p, 2) + U16(p, 6) > Height)
    <3>1. ~(Len(p) < 8) /\ ~(x + w > Width) /\ ~(y + h > Height) BY <1>3, <1>6, <2>1
    <3> QED BY <1>2, <1>5, <1>7, <3>1, Zenon
  <2>4. Len(p) # 8 + Size(pixels) <=> Size(p) # Size(q) BY <1>4, <2>1
  <2>5. CASE Size(p) = Size(q)
    <3>1. Len(p) - 8 = Size(pixels) BY <1>3, <1>4, <2>1, <2>5
    <3> QED BY <1>5, <1>7, <2>2, <2>3, <2>4, <2>5, <3>1, Zenon DEF ReadRect
  <2>6. CASE Size(p) # Size(q) BY <2>2, <2>4, <2>6, Zenon DEF ReadRect
  <2> QED BY <2>5, <2>6
<1>8. ASSUME NEW p, IsSeq(p), Holds(q, 0, p), Size(p) < Size(q) PROVE ReadRect(p) = Dropped
  <2>1. Size(p) \in Nat /\ Len(p) = Size(p) BY <1>8, Sizes DEF Size
  <2>2. Holds(q, 4, LE(w, 2)) /\ Holds(q, 6, LE(h, 2))
    BY <1>3, <1>4, HoldsItself, NumberSizes, Joined, FirstPart, SecondPart DEF q
  <2>3. CASE Size(p) < 8
    <3>1. Len(p) < 8 BY <2>1, <2>3
    <3> QED BY <3>1, Zenon DEF ReadRect
  <2>4. CASE Size(p) >= 8
    <3>1. Holds(p, 4, LE(w, 2)) /\ Holds(p, 6, LE(h, 2))
      BY <1>4, <1>8, <2>1, <2>2, <2>4, NumberSizes, BeforeTheCut
    <3>2. U16(p, 4) = w /\ U16(p, 6) = h BY <3>1, ReadsWord
    <3>3. Len(p) # 8 + Size(pixels) BY <1>3, <1>4, <1>8, <2>1
    <3> QED BY <1>2, <3>2, <3>3, Zenon DEF ReadRect
  <2> QED BY <2>1, <2>3, <2>4
<1>9. \A p : ReadMessage("FRAME_RECT", p) = ReadRect(p) BY DEF ReadMessage
<1>10. Size(q) \in Nat \ {0} BY <1>3, <1>4
<1> QED BY <1>2, <1>4, <1>7, <1>8, <1>9, <1>10 DEF Understood, Extensible

\* A part of a field of zeros.
LEMMA PartOfZeros ==
    ASSUME NEW p, NEW at, NEW n \in Nat, Holds(p, at, Zeros(n)), NEW a \in Nat, NEW f, IsSeq(f),
           a + Size(f) <= n, \A i \in 1..Size(f) : f[i] = 0
    PROVE  Holds(p, at + a, f)
<1>1. Size(f) \in Nat /\ Size(Zeros(n)) = n /\ at \in Nat /\ Size(p) \in Nat
  BY Sizes, ZerosSize DEF Holds
<1>2. ASSUME NEW i \in 1..Size(f) PROVE p[(at + a) + i] = f[i]
  <2>1. a + i \in 1..n /\ at + (a + i) = (at + a) + i BY <1>1
  <2>2. p[at + (a + i)] = Zeros(n)[a + i] BY <1>1, <2>1 DEF Holds
  <2>3. Zeros(n)[a + i] = 0 BY <2>1 DEF Zeros
  <2> QED BY <2>1, <2>2, <2>3
<1> QED BY <1>1, <1>2 DEF Holds

LEMMA NothingPadded ==
    ASSUME NEW n \in Nat PROVE \A i \in 1..Size(Padded(<<>>, n)) : Padded(<<>>, n)[i] = 0
<1> SUFFICES ASSUME NEW i \in 1..n PROVE Padded(<<>>, n)[i] = 0 BY PaddedSize
<1>1. PICK t : t = <<>> OBVIOUS
<1>2. Len(t) = 0 BY <1>1
<1> HIDE <1>1
<1>3. Padded(t, n)[i] = 0 BY <1>2 DEF Padded
<1> QED BY <1>1, <1>3, Zenon

\* The lengths of texts that a message can hold.
LEMMA TextLimits ==
    /\ \A n : n \in 1..32 => n <= 32
    /\ \A n : n = 0 \/ n \in 8..63 => n <= 64
OBVIOUS

LEMMA ConfigParsed ==
    ASSUME NEW p, NEW first \in {0, 1}, NEW ssid \in Text8, NEW password \in Text8,
           NEW ip \in Long, NEW port \in Word, Size(ssid) <= 32, Size(password) <= 64,
           Holds(p, 0, LE(first, 1)), Holds(p, 1, Padded(ssid, 32)),
           Holds(p, 33, Padded(password, 64)), Holds(p, 97, Net(ip)), Holds(p, 101, LE(port, 2))
    PROVE  ParsedConfig(p) = [clear |-> first = 1, ssid |-> ssid, password |-> password,
                              ip |-> ip, port |-> port]
<1>1. first \in Byte /\ (first % 2 = 1) = (first = 1) BY DEF Byte, UpTo
<1>2. U8(p, 0) = first BY <1>1, ReadsByte
<1>3. FixedText(p, 1, 32) = ssid /\ FixedText(p, 33, 64) = password BY ReadsPadded
<1>4. NetU32(p, 97) = ip /\ U16(p, 101) = port BY ReadsNet, ReadsWord
<1> QED BY <1>1, <1>2, <1>3, <1>4, Zenon DEF ParsedConfig

\* Both kinds of WIFI_CONFIG are read alike.
LEMMA ConfigAccepted ==
    ASSUME NEW m, m.clear \/ IsConfig(m), NEW q, IsSeq(q), Size(q) = 103,
           \A p : Holds(p, 0, q) => ParsedConfig(p) = m
    PROVE  Understood("WIFI_CONFIG", m, q)
<1>1. ASSUME NEW p, Holds(p, 0, q), ~(Len(p) < Size(q)) PROVE ReadMessage("WIFI_CONFIG", p) = m
  <2>1. ParsedConfig(p) = m /\ ~(Len(p) < 103) BY <1>1
  <2>2. ReadConfig(p) = ParsedConfig(p) BY <2>1, Zenon DEF ReadConfig
  <2> QED BY <2>1, <2>2 DEF ReadMessage
<1>2. \A p : ReadMessage("WIFI_CONFIG", p) = ReadConfig(p) BY DEF ReadMessage
<1>3. \A p : Len(p) < Size(q) => ReadMessage("WIFI_CONFIG", p) = Dropped
  BY <1>2, Zenon DEF ReadConfig
<1>4. Size(q) \in Nat \ {0} OBVIOUS
<1> QED BY <1>1, <1>3, <1>4, AtLeast

\* The host asks the device to forget its network with a payload of zeros behind the flag.
LEMMA ClearUnderstood == Understood("WIFI_CONFIG", ClearConfig, ConfigBytes(ClearConfig))
<1> DEFINE q == LE(1, 1) \o Zeros(102)
<1>1. ConfigBytes(ClearConfig) = q BY Zenon DEF ConfigBytes, ClearConfig
<1>2. IsSeq(q) /\ Size(q) = 103 BY NumberSizes, ZerosSize, Joined
<1>3. <<>> \in Text8 /\ Size(<<>>) = 0 /\ 0 \in Long /\ 0 \in Word
  BY DEF Text8, Size, Long, Upper, Word, UpTo
<1>4. \A i \in 1..4 : Octet(0, i) = 0
  <2>1. Low(0) = 0 /\ High(0) = 0 BY SMT DEF Low, High
  <2>2. Octet(0, 1) = 0 /\ Octet(0, 2) = 0 /\ Octet(0, 3) = 0 /\ Octet(0, 4) = 0
    BY <2>1, Octets
  <2> QED BY <2>2
<1>5. \A i \in 1..Size(Padded(<<>>, 32)) : Padded(<<>>, 32)[i] = 0 BY NothingPadded
<1>6. \A i \in 1..Size(Padded(<<>>, 64)) : Padded(<<>>, 64)[i] = 0 BY NothingPadded
<1>7. \A i \in 1..Size(Net(0)) : Net(0)[i] = 0
  <2>1. \A i \in 1..4 : 5 - i \in 1..4 OBVIOUS
  <2> QED BY <1>4, <2>1, NetBytes
<1>8. \A i \in 1..Size(LE(0, 2)) : LE(0, 2)[i] = 0 BY <1>4, NumberSizes DEF LE
<1>9. ASSUME NEW p, Holds(p, 0, q) PROVE ParsedConfig(p) = ClearConfig
  <2>1. Holds(p, 0, LE(1, 1)) /\ Holds(p, 1, Zeros(102))
    BY <1>9, NumberSizes, ZerosSize, FirstPart, SecondPart
  <2>2. \A f, a : IsSeq(f) /\ a \in Nat /\ a + Size(f) <= 102 /\ (\A i \in 1..Size(f) : f[i] = 0)
                  => Holds(p, 1 + a, f)
    <3>1. 102 \in Nat OBVIOUS
    <3> QED BY <2>1, <3>1, PartOfZeros, Zenon
  <2>3. Holds(p, 1 + 0, Padded(<<>>, 32))
    <3>1. IsSeq(Padded(<<>>, 32)) /\ 0 \in Nat /\ 0 + Size(Padded(<<>>, 32)) <= 102 BY PaddedSize
    <3> QED BY <1>5, <2>2, <3>1, Zenon
  <2>4. Holds(p, 1 + 32, Padded(<<>>, 64))
    <3>1. IsSeq(Padded(<<>>, 64)) /\ 32 \in Nat /\ 32 + Size(Padded(<<>>, 64)) <= 102 BY PaddedSize
    <3> QED BY <1>6, <2>2, <3>1, Zenon
  <2>5. Holds(p, 1 + 96, Net(0))
    <3>1. IsSeq(Net(0)) /\ 96 \in Nat /\ 96 + Size(Net(0)) <= 102 BY NetBytes
    <3> QED BY <1>7, <2>2, <3>1, Zenon
  <2>6. Holds(p, 1 + 100, LE(0, 2))
    <3>1. IsSeq(LE(0, 2)) /\ 100 \in Nat /\ 100 + Size(LE(0, 2)) <= 102 BY NumberSizes
    <3> QED BY <1>8, <2>2, <3>1, Zenon
  <2>7. 1 + 0 = 1 /\ 1 + 32 = 33 /\ 1 + 96 = 97 /\ 1 + 100 = 101 OBVIOUS
  <2>8. Holds(p, 1, Padded(<<>>, 32)) /\ Holds(p, 33, Padded(<<>>, 64)) /\ Holds(p, 97, Net(0))
        /\ Holds(p, 101, LE(0, 2))
    BY <2>3, <2>4, <2>5, <2>6, <2>7, Zenon
  <2>9. ParsedConfig(p) = [clear |-> 1 = 1, ssid |-> <<>>, password |-> <<>>, ip |-> 0, port |-> 0]
    BY <1>3, <2>1, <2>8, ConfigParsed
  <2> QED BY <2>9 DEF ClearConfig
<1> HIDE DEF q
<1>10. ClearConfig.clear BY DEF ClearConfig
<1>11. Understood("WIFI_CONFIG", ClearConfig, q) BY <1>2, <1>9, <1>10, ConfigAccepted
<1> QED BY <1>1, <1>11, Zenon

LEMMA ConfigUnderstood ==
    ASSUME NEW ssid \in Text8, NEW password \in Text8, NEW ip \in Long, NEW port \in Word,
           NEW m, m = [clear |-> FALSE, ssid |-> ssid, password |-> password, ip |-> ip,
                       port |-> port]
    PROVE  ConfigBytes(m) = Refused \/ Understood("WIFI_CONFIG", m, ConfigBytes(m))
<1> DEFINE q == LE(0, 1) \o Padded(ssid, 32) \o Padded(password, 64) \o Net(ip) \o LE(port, 2)
<1>1. SUFFICES ASSUME ConfigBytes(m) # Refused PROVE Understood("WIFI_CONFIG", m, ConfigBytes(m))
  OBVIOUS
<1>2. ConfigBytes(m) = q /\ IsConfig(m) BY <1>1, Zenon DEF ConfigBytes
<1>3. Size(ssid) <= 32 /\ Size(password) <= 64
  <2>1. Len(ssid) <= 32 /\ Len(password) <= 64 BY <1>2, TextLimits, Zenon DEF IsConfig
  <2> QED BY <2>1, Zenon DEF Size
<1>4. IsSeq(q) /\ Size(q) = 103 BY NumberSizes, PaddedSize, NetBytes, Joined
<1>5. ASSUME NEW p, Holds(p, 0, q) PROVE ParsedConfig(p) = m
  <2>1. /\ Holds(p, 0, LE(0, 1)) /\ Holds(p, 1, Padded(ssid, 32))
        /\ Holds(p, 33, Padded(password, 64)) /\ Holds(p, 97, Net(ip)) /\ Holds(p, 101, LE(port, 2))
    BY <1>5, NumberSizes, PaddedSize, NetBytes, Joined, FirstPart, SecondPart
  <2>2. ParsedConfig(p) = [clear |-> 0 = 1, ssid |-> ssid, password |-> password, ip |-> ip,
                           port |-> port]
    BY <1>3, <2>1, ConfigParsed
  <2>3. (0 = 1) = FALSE OBVIOUS
  <2> QED BY <2>2, <2>3, Zenon
<1> HIDE DEF q
<1>6. PICK n : n = m OBVIOUS
<1>7. \A p : Holds(p, 0, q) => ParsedConfig(p) = n BY <1>5, <1>6, Zenon
<1>8. n.clear \/ IsConfig(n) BY <1>2, <1>6, Zenon
<1> HIDE <1>6
<1>9. Understood("WIFI_CONFIG", n, q) BY <1>4, <1>7, <1>8, ConfigAccepted
<1> QED BY <1>2, <1>6, <1>9, Zenon

LEMMA RecordRead ==
    ASSUME NEW r \in Records, Size(r.ssid) <= 32
    PROVE  /\ IsSeq(RecordBytes(r)) /\ Size(RecordBytes(r)) = 42
           /\ \A p, at : Holds(p, at, RecordBytes(r)) => ReadRecord(p, at) = r
<1> DEFINE q == Padded(r.ssid, 32) \o r.bssid \o Signed(r.rssi) \o LE(r.channel, 1)
                \o LE(r.auth, 1) \o Zeros(1)
<1>1. RecordBytes(r) = q BY DEF RecordBytes
<1>2. /\ r.ssid \in Text8 /\ r.bssid \in [1..6 -> Byte] /\ r.rssi \in Int8
      /\ r.channel \in Byte /\ r.auth \in Byte
  BY DEF Records
<1>3. IsSeq(r.bssid) /\ Size(r.bssid) = 6
  <2>1. r.bssid = [i \in 1..6 |-> r.bssid[i]] BY <1>2
  <2> QED BY <2>1, FunctionSeq DEF Size
<1>4. IsSeq(q) /\ Size(q) = 42 BY <1>3, NumberSizes, SingleSize, ZerosSize, PaddedSize, Joined
<1>5. ASSUME NEW p, NEW at, Holds(p, at, q) PROVE ReadRecord(p, at) = r
  <2>1. /\ Holds(p, at, Padded(r.ssid, 32)) /\ Holds(p, at + 32, r.bssid)
        /\ Holds(p, at + 38, Signed(r.rssi)) /\ Holds(p, at + 39, LE(r.channel, 1))
        /\ Holds(p, at + 40, LE(r.auth, 1))
    <3>1. at \in Nat BY <1>5 DEF Holds
    <3> HIDE DEF Records
    <3> QED
      BY <1>3, <1>5, <3>1, NumberSizes, SingleSize, ZerosSize, PaddedSize, Joined, FirstPart,
         SecondPart
  <2>2. FixedText(p, at, 32) = r.ssid BY <1>2, <2>1, ReadsPadded
  <2>3. Chars(p, at + 32, 6) = r.bssid BY <1>3, <2>1, ReadsText
  <2>4. S8(p, at + 38) = r.rssi /\ U8(p, at + 39) = r.channel /\ U8(p, at + 40) = r.auth
    BY <1>2, <2>1, ReadsSigned, ReadsByte
  <2>5. r = [ssid |-> r.ssid, bssid |-> r.bssid, rssi |-> r.rssi, channel |-> r.channel,
             auth |-> r.auth]
    BY DEF Records
  <2> QED BY <2>2, <2>3, <2>4, <2>5, Zenon DEF ReadRecord
<1> HIDE DEF q
<1> QED BY <1>1, <1>4, <1>5, Zenon

\* The records lie behind each other, each in its 42 bytes.
LEMMA PackedRecords ==
    ASSUME NEW rs \in Seq(Records), \A i \in 1..Size(rs) : Size(rs[i].ssid) <= 32
    PROVE  /\ IsSeq(Packed(rs)) /\ Size(Packed(rs)) = 42 * Size(rs)
           /\ \A i \in 1..Size(rs) : Holds(Packed(rs), 42 * (i - 1), RecordBytes(rs[i]))
<1>1. Size(rs) \in Nat /\ Len(rs) = Size(rs) /\ \A i \in 1..Size(rs) : rs[i] \in Records BY DEF Size
<1>2. PICK f : f = Packed(rs) OBVIOUS
<1>3. f = [k \in 1..(42 * Size(rs)) |->
              RecordBytes(rs[((k - 1) \div 42) + 1])[((k - 1) % 42) + 1]]
  BY <1>1, <1>2 DEF Packed
<1>4. IsSeq(f) /\ Size(f) = 42 * Size(rs)
  <2>1. 42 * Size(rs) \in Nat BY <1>1
  <2>2. f = [k \in 1..(42 * Size(rs)) |-> f[k]] BY <1>3
  <2> QED BY <2>1, <2>2, FunctionSeq DEF Size
<1>5. ASSUME NEW i \in 1..Size(rs) PROVE Holds(f, 42 * (i - 1), RecordBytes(rs[i]))
  <2>1. Size(RecordBytes(rs[i])) = 42 BY <1>1, RecordRead
  <2>2. 42 * (i - 1) \in Nat /\ 42 * (i - 1) + 42 <= 42 * Size(rs) BY <1>1
  <2>3. ASSUME NEW k \in 1..42 PROVE f[42 * (i - 1) + k] = RecordBytes(rs[i])[k]
    <3>1. PICK j : j = 42 * (i - 1) + k OBVIOUS
    <3>2. j \in 1..(42 * Size(rs)) /\ (((j - 1) \div 42) + 1) = i /\ (((j - 1) % 42) + 1) = k
      BY <1>1, <3>1
    <3>3. f[j] = RecordBytes(rs[((j - 1) \div 42) + 1])[((j - 1) % 42) + 1] BY <1>3, <3>2
    <3> QED BY <3>1, <3>2, <3>3
  <2> QED BY <1>4, <2>1, <2>2, <2>3 DEF Holds
<1> QED BY <1>2, <1>4, <1>5

LEMMA ScanResultUnderstood ==
    ASSUME ScanRecords \in 1..255, NEW scanSeq \in Byte, NEW truncated \in BOOLEAN,
           NEW total \in Word, NEW rs \in Seq(Records),
           NEW m, m = [scanSeq |-> scanSeq, truncated |-> truncated, total |-> total,
                       records |-> rs]
    PROVE  IF TooMany(rs) \/ \E i \in DOMAIN rs : ~IsListable(rs[i])
           THEN ScanResultBytes(m) = Refused
           ELSE /\ Understood("WIFI_SCAN_RESULT", m, ScanResultBytes(m))
                /\ Size(ScanResultBytes(m)) >= 5
<1> DEFINE q == LE(scanSeq, 1) \o LE(Size(rs), 1) \o Flag(truncated) \o LE(total, 2) \o Packed(rs)
<1>0. CASE TooMany(rs) \/ \E i \in DOMAIN rs : ~IsListable(rs[i])
  BY <1>0, Zenon DEF ScanResultBytes
<1>1. SUFFICES ASSUME ~TooMany(rs), \A i \in DOMAIN rs : IsListable(rs[i])
               PROVE  /\ Understood("WIFI_SCAN_RESULT", m, ScanResultBytes(m))
                      /\ Size(ScanResultBytes(m)) >= 5
  BY <1>0, Zenon
<1>2. ScanResultBytes(m) = q /\ ~TooMany(rs) /\ \A i \in DOMAIN rs : IsListable(rs[i])
  BY <1>1, Zenon DEF ScanResultBytes, Size
<1>3. /\ Size(rs) \in Nat /\ Len(rs) = Size(rs) /\ DOMAIN rs = 1..Size(rs)
      /\ Size(rs) <= ScanRecords /\ ~(Size(rs) > ScanRecords) /\ Size(rs) \in Byte
      /\ rs = [i \in 1..Size(rs) |-> rs[i]]
      /\ \A i \in 1..Size(rs) : rs[i] \in Records
  <2>1. Size(rs) \in Nat /\ Len(rs) = Size(rs) /\ DOMAIN rs = 1..Size(rs) BY DEF Size
  <2>2. rs = [i \in 1..Size(rs) |-> rs[i]] /\ \A i \in 1..Size(rs) : rs[i] \in Records BY <2>1
  <2>3. ~(Size(rs) > ScanRecords) BY <1>2, <2>1, Zenon DEF TooMany
  <2>4. Size(rs) <= ScanRecords /\ Size(rs) <= 255 BY <2>1, <2>3
  <2>5. Size(rs) \in Byte BY <2>1, <2>4 DEF Byte, UpTo
  <2> QED BY <2>1, <2>2, <2>3, <2>4, <2>5, Zenon
<1>4. \A i \in 1..Size(rs) : Size(rs[i].ssid) <= 32
  <2> TAKE i \in 1..Size(rs)
  <2>1. Len(rs[i].ssid) \in 1..32 BY <1>2, <1>3 DEF IsListable
  <2>2. Len(rs[i].ssid) <= 32 BY <2>1, TextLimits, Zenon
  <2> QED BY <2>2, Zenon DEF Size
<1>5. IsSeq(q) /\ Size(q) = 5 + 42 * Size(rs)
  <2>1. IsSeq(Packed(rs)) /\ Size(Packed(rs)) = 42 * Size(rs) BY <1>4, PackedRecords
  <2> QED BY <1>3, <2>1, NumberSizes, SingleSize, Joined
<1>6. ASSUME NEW p, Holds(p, 0, q)
      PROVE /\ U8(p, 0) = scanSeq /\ U8(p, 1) = Size(rs) /\ (U8(p, 2) % 2 = 1) = truncated
            /\ U16(p, 3) = total
            /\ \A i \in 1..Size(rs) : ReadRecord(p, 5 + (i - 1) * 42) = rs[i]
  <2>1. IsSeq(Packed(rs)) /\ Size(Packed(rs)) = 42 * Size(rs) BY <1>4, PackedRecords
  <2>2. /\ Holds(p, 0, LE(scanSeq, 1)) /\ Holds(p, 1, LE(Size(rs), 1))
        /\ Holds(p, 2, Flag(truncated)) /\ Holds(p, 3, LE(total, 2)) /\ Holds(p, 5, Packed(rs))
    BY <1>3, <1>6, <2>1, NumberSizes, SingleSize, Joined, FirstPart, SecondPart
  <2>3. U8(p, 0) = scanSeq /\ U8(p, 1) = Size(rs) /\ U16(p, 3) = total
    BY <1>3, <2>2, ReadsByte, ReadsWord
  <2>4. (U8(p, 2) % 2 = 1) = truncated
    <3>1. U8(p, 2) = (IF truncated THEN 1 ELSE 0) + (IF FALSE THEN 2 ELSE 0)
      BY <2>2, ReadsFlag
    <3> QED BY <3>1, TwoFlags
  <2>5. ASSUME NEW i \in 1..Size(rs) PROVE ReadRecord(p, 5 + (i - 1) * 42) = rs[i]
    <3>1. Holds(Packed(rs), 42 * (i - 1), RecordBytes(rs[i])) BY <1>4, PackedRecords
    <3>2. rs[i] \in Records /\ Size(rs[i].ssid) <= 32 BY <1>3, <1>4
    <3>3. IsSeq(RecordBytes(rs[i])) BY <3>2, RecordRead
    <3>4. Holds(p, 5 + 42 * (i - 1), RecordBytes(rs[i])) BY <2>2, <3>1, <3>3, Within
    <3>5. 5 + 42 * (i - 1) = 5 + (i - 1) * 42 BY <1>3
    <3> QED BY <3>2, <3>4, <3>5, RecordRead, Zenon
  <2> QED BY <2>3, <2>4, <2>5
<1> HIDE DEF q
<1>7. ASSUME NEW p, Holds(p, 0, q) PROVE ReadScanResult(p) = m
  <2>1. Len(p) = Size(p) /\ Size(p) \in Nat /\ Size(p) >= 5 + 42 * Size(rs) BY <1>5, <1>7, Lengths
  <2>2. ~(Len(p) < 5) /\ ~(Len(p) < 5 + Size(rs) * 42) BY <1>3, <2>1
  <2>3. ~(Len(p) < 5 \/ U8(p, 1) > ScanRecords \/ Len(p) < 5 + U8(p, 1) * 42)
    BY <1>3, <1>6, <1>7, <2>2, Zenon
  <2>4. [i \in 1..U8(p, 1) |-> ReadRecord(p, 5 + (i - 1) * 42)] = rs
    <3>1. U8(p, 1) = Size(rs) BY <1>6, <1>7
    <3>2. [i \in 1..Size(rs) |-> ReadRecord(p, 5 + (i - 1) * 42)] = [i \in 1..Size(rs) |-> rs[i]]
      BY <1>6, <1>7, Zenon
    <3> QED BY <1>3, <3>1, <3>2, Zenon
  <2>5. ReadScanResult(p) =
          [scanSeq |-> U8(p, 0), truncated |-> U8(p, 2) % 2 = 1, total |-> U16(p, 3),
           records |-> [i \in 1..U8(p, 1) |-> ReadRecord(p, 5 + (i - 1) * 42)]]
    BY <2>3, Zenon DEF ReadScanResult
  <2>6. U8(p, 0) = scanSeq /\ (U8(p, 2) % 2 = 1) = truncated /\ U16(p, 3) = total BY <1>6, <1>7
  <2> QED BY <2>4, <2>5, <2>6, Zenon
<1>8. ASSUME NEW p, IsSeq(p), Holds(q, 0, p), Size(p) < Size(q) PROVE ReadScanResult(p) = Dropped
  <2>1. Size(p) \in Nat /\ Len(p) = Size(p) BY <1>8, Sizes DEF Size
  <2>2. Holds(q, 1, LE(Size(rs), 1))
    <3>1. IsSeq(Packed(rs)) BY <1>4, PackedRecords
    <3> QED
      BY <1>3, <1>5, <3>1, HoldsItself, NumberSizes, SingleSize, Joined, FirstPart, SecondPart DEF q
  <2>3. CASE Size(p) < 5
    <3>1. Len(p) < 5 BY <2>1, <2>3
    <3> QED BY <3>1, Zenon DEF ReadScanResult
  <2>4. CASE Size(p) >= 5
    <3>1. Holds(p, 1, LE(Size(rs), 1)) BY <1>5, <1>8, <2>1, <2>2, <2>4, NumberSizes, BeforeTheCut
    <3>2. U8(p, 1) = Size(rs) BY <1>3, <3>1, ReadsByte
    <3>3. Len(p) < 5 + Size(rs) * 42 BY <1>3, <1>5, <1>8, <2>1
    <3> QED BY <3>2, <3>3, Zenon DEF ReadScanResult
  <2> QED BY <2>1, <2>3, <2>4
<1>9. \A p : ReadMessage("WIFI_SCAN_RESULT", p) = ReadScanResult(p) BY DEF ReadMessage
<1>10. Size(q) \in Nat \ {0} BY <1>3, <1>5
<1>11. Understood("WIFI_SCAN_RESULT", m, q) BY <1>5, <1>7, <1>8, <1>9, <1>10 DEF Understood
<1>12. Size(q) >= 5 BY <1>3, <1>5
<1> QED BY <1>2, <1>11, <1>12, Zenon

\* Whatever can be asked for is refused or says to the peer what was meant.
LEMMA EveryMessage ==
    ASSUME MessagesAssumption, NEW type \in MessageTypes, NEW m \in Askable(type)
    PROVE  MakeMessage(type, m) = Refused \/ Understood(type, m, MakeMessage(type, m))

<1>1. CASE type = "HELLO"
  <2>1. m \in [version : {1}, class : Byte, width : Word, height : Word, format : Byte
                , modes : Byte, name : Text8]
    BY <1>1 DEF Askable
  <2>2. m = [version |-> 1, class |-> m.class, width |-> m.width, height |-> m.height
               , format |-> m.format, modes |-> m.modes, name |-> m.name]
    BY <2>1
  <2>3. m.class \in Byte /\ m.width \in Word /\ m.height \in Word /\ m.format \in Byte
        /\ m.modes \in Byte /\ m.name \in Text8
    BY <2>1
  <2>4. HelloBytes(m) = Refused \/ Understood("HELLO", m, HelloBytes(m))
    BY <2>2, <2>3, HelloUnderstood
  <2>5. MakeMessage("HELLO", m) = HelloBytes(m) BY DEF MakeMessage
  <2> QED BY <1>1, <2>4, <2>5, Zenon
<1>2. CASE type = "SET_MODE"
  <2>1. m \in [mode : 0..3]
    BY <1>2 DEF Askable
  <2>2. m = [mode |-> m.mode]
    BY <2>1
  <2>3. m.mode \in 0..3
    BY <2>1
  <2>4. Understood("SET_MODE", m, SetModeBytes(m))
    BY <2>2, <2>3, SetModeUnderstood
  <2>5. MakeMessage("SET_MODE", m) = SetModeBytes(m) BY DEF MakeMessage
  <2> QED BY <1>2, <2>4, <2>5, Zenon
<1>3. CASE type = "CAPABILITIES"
  <2>1. MakeMessage("CAPABILITIES", m) = CapabilitiesBytes(m) BY DEF MakeMessage
  <2> QED BY <1>3, <2>1, CapabilitiesUnderstood, Zenon
<1>4. CASE type = "PHYSICAL_PREVIEW"
  <2>1. m \in [id : Word, width : Word, height : Word, format : Byte, flags : Byte
                , pixels : [1..PictureBytes -> Byte]]
    BY <1>4 DEF Askable
  <2>2. m = [id |-> m.id, width |-> m.width, height |-> m.height, format |-> m.format
               , flags |-> m.flags, pixels |-> m.pixels]
    BY <2>1
  <2>3. m.id \in Word /\ m.width \in Word /\ m.height \in Word /\ m.format \in Byte
        /\ m.flags \in Byte /\ m.pixels \in [1..PictureBytes -> Byte]
    BY <2>1
  <2>4. PreviewBytes(m) = Refused \/ Understood("PHYSICAL_PREVIEW", m, PreviewBytes(m))
    BY <2>2, <2>3, PreviewUnderstood, MessagesAssumption DEF MessagesAssumption
  <2>5. MakeMessage("PHYSICAL_PREVIEW", m) = PreviewBytes(m) BY DEF MakeMessage
  <2> QED BY <1>4, <2>4, <2>5, Zenon
<1>5. CASE type = "WIFI_SCAN_REQ"
  <2>1. m \in [flags : Byte, maxEntries : Byte]
    BY <1>5 DEF Askable
  <2>2. m = [flags |-> m.flags, maxEntries |-> m.maxEntries]
    BY <2>1
  <2>3. m.flags \in Byte /\ m.maxEntries \in Byte
    BY <2>1
  <2>4. ScanReqBytes(m) = Refused \/ Understood("WIFI_SCAN_REQ", m, ScanReqBytes(m))
    BY <2>2, <2>3, ScanReqUnderstood
  <2>5. MakeMessage("WIFI_SCAN_REQ", m) = ScanReqBytes(m) BY DEF MakeMessage
  <2> QED BY <1>5, <2>4, <2>5, Zenon
<1>6. CASE type = "WIFI_SCAN_RESULT"
  <2>1. m \in [scanSeq : Byte, truncated : BOOLEAN, total : Word, records : Seq(Records)]
    BY <1>6 DEF Askable
  <2>2. m = [scanSeq |-> m.scanSeq, truncated |-> m.truncated, total |-> m.total
               , records |-> m.records]
    BY <2>1
  <2>3. m.scanSeq \in Byte /\ m.truncated \in BOOLEAN /\ m.total \in Word
        /\ m.records \in Seq(Records)
    BY <2>1
  <2>4. ScanResultBytes(m) = Refused \/ Understood("WIFI_SCAN_RESULT", m, ScanResultBytes(m))
    BY <2>2, <2>3, ScanResultUnderstood, MessagesAssumption DEF MessagesAssumption
  <2>5. MakeMessage("WIFI_SCAN_RESULT", m) = ScanResultBytes(m) BY DEF MakeMessage
  <2> QED BY <1>6, <2>4, <2>5, Zenon
<1>7. CASE type = "WIFI_STATUS"
  <2>1. m \in [phase : Byte, error : Word, flags : Byte, rssi : Int8, channel : Byte, ip : Long
                , server : Long, port : Word, ssid : Text8]
    BY <1>7 DEF Askable
  <2>2. m = [phase |-> m.phase, error |-> m.error, flags |-> m.flags, rssi |-> m.rssi
               , channel |-> m.channel, ip |-> m.ip, server |-> m.server, port |-> m.port
               , ssid |-> m.ssid]
    BY <2>1
  <2>3. m.phase \in Byte /\ m.error \in Word /\ m.flags \in Byte /\ m.rssi \in Int8
        /\ m.channel \in Byte /\ m.ip \in Long /\ m.server \in Long /\ m.port \in Word
        /\ m.ssid \in Text8
    BY <2>1
  <2>4. StatusBytes(m) = Refused \/ Understood("WIFI_STATUS", m, StatusBytes(m))
    BY <2>2, <2>3, StatusUnderstood
  <2>5. MakeMessage("WIFI_STATUS", m) = StatusBytes(m) BY DEF MakeMessage
  <2> QED BY <1>7, <2>4, <2>5, Zenon
<1>8. CASE type = "ACK"
  <2>1. m \in [seq : Word, status : Byte, error : Word]
    BY <1>8 DEF Askable
  <2>2. m = [seq |-> m.seq, status |-> m.status, error |-> m.error]
    BY <2>1
  <2>3. m.seq \in Word /\ m.status \in Byte /\ m.error \in Word
    BY <2>1
  <2>4. Understood("ACK", m, AckBytes(m))
    BY <2>2, <2>3, AckUnderstood
  <2>5. MakeMessage("ACK", m) = AckBytes(m) BY DEF MakeMessage
  <2> QED BY <1>8, <2>4, <2>5, Zenon
<1>9. CASE type = "ERROR"
  <2>1. m \in [code : Word, text : Text8]
    BY <1>9 DEF Askable
  <2>2. m = [code |-> m.code, text |-> m.text]
    BY <2>1
  <2>3. m.code \in Word /\ m.text \in Text8
    BY <2>1
  <2>4. ErrorBytes(m) = Refused \/ Understood("ERROR", m, ErrorBytes(m))
    BY <2>2, <2>3, ErrorUnderstood
  <2>5. MakeMessage("ERROR", m) = ErrorBytes(m) BY DEF MakeMessage
  <2> QED BY <1>9, <2>4, <2>5, Zenon
<1>10. CASE type = "PING"
  <2>1. m \in [stamp : Quad]
    BY <1>10 DEF Askable
  <2>2. m = [stamp |-> m.stamp]
    BY <2>1
  <2>3. m.stamp \in Quad
    BY <2>1
  <2>4. Understood("PING", m, PingBytes(m))
    BY <2>2, <2>3, PingUnderstood
  <2>5. MakeMessage("PING", m) = PingBytes(m) BY DEF MakeMessage
  <2> QED BY <1>10, <2>4, <2>5, Zenon
<1>11. CASE type = "INPUT_KEY"
  <2>1. m \in [keycode : Long, modifiers : Word, down : BOOLEAN]
    BY <1>11 DEF Askable
  <2>2. m = [keycode |-> m.keycode, modifiers |-> m.modifiers, down |-> m.down]
    BY <2>1
  <2>3. m.keycode \in Long /\ m.modifiers \in Word /\ m.down \in BOOLEAN
    BY <2>1
  <2>4. KeyBytes(m) = Refused \/ Understood("INPUT_KEY", m, KeyBytes(m))
    BY <2>2, <2>3, KeyUnderstood
  <2>5. MakeMessage("INPUT_KEY", m) = KeyBytes(m) BY DEF MakeMessage
  <2> QED BY <1>11, <2>4, <2>5, Zenon
<1>12. CASE type = "INPUT_MOUSE"
  <2>1. m \in [buttons : Byte, x : Word, y : Word, wheel : Int8]
    BY <1>12 DEF Askable
  <2>2. m = [buttons |-> m.buttons, x |-> m.x, y |-> m.y, wheel |-> m.wheel]
    BY <2>1
  <2>3. m.buttons \in Byte /\ m.x \in Word /\ m.y \in Word /\ m.wheel \in Int8
    BY <2>1
  <2>4. MouseBytes(m) = Refused \/ Understood("INPUT_MOUSE", m, MouseBytes(m))
    BY <2>2, <2>3, MouseUnderstood
  <2>5. MakeMessage("INPUT_MOUSE", m) = MouseBytes(m) BY DEF MakeMessage
  <2> QED BY <1>12, <2>4, <2>5, Zenon
<1>13. CASE type = "FRAME_BEGIN"
  <2>1. m \in [id : Word, frame : 0..1, format : {0}, width : Word, height : Word, hint : Long]
    BY <1>13 DEF Askable
  <2>2. m = [id |-> m.id, frame |-> m.frame, format |-> 0, width |-> m.width
               , height |-> m.height, hint |-> m.hint]
    BY <2>1
  <2>3. m.id \in Word /\ m.frame \in 0..1 /\ m.width \in Word /\ m.height \in Word
        /\ m.hint \in Long
    BY <2>1
  <2>4. BeginBytes(m) = Refused \/ Understood("FRAME_BEGIN", m, BeginBytes(m))
    BY <2>2, <2>3, BeginUnderstood
  <2>5. MakeMessage("FRAME_BEGIN", m) = BeginBytes(m) BY DEF MakeMessage
  <2> QED BY <1>13, <2>4, <2>5, Zenon
<1>14. CASE type = "FRAME_END"
  <2>1. m \in [id : Word, rects : Word, bytes : Long, aborted : BOOLEAN]
    BY <1>14 DEF Askable
  <2>2. m = [id |-> m.id, rects |-> m.rects, bytes |-> m.bytes, aborted |-> m.aborted]
    BY <2>1
  <2>3. m.id \in Word /\ m.rects \in Word /\ m.bytes \in Long /\ m.aborted \in BOOLEAN
    BY <2>1
  <2>4. Understood("FRAME_END", m, EndBytes(m))
    BY <2>2, <2>3, EndUnderstood
  <2>5. MakeMessage("FRAME_END", m) = EndBytes(m) BY DEF MakeMessage
  <2> QED BY <1>14, <2>4, <2>5, Zenon
<1>15. CASE type = "header"
  <2>1. m \in [type : 1..81, flags : Byte, seq : Word, length : Long, crc : Long]
    BY <1>15 DEF Askable
  <2>2. m = [type |-> m.type, flags |-> m.flags, seq |-> m.seq, length |-> m.length
               , crc |-> m.crc]
    BY <2>1
  <2>3. m.type \in 1..81 /\ m.flags \in Byte /\ m.seq \in Word /\ m.length \in Long
        /\ m.crc \in Long
    BY <2>1
  <2>4. HeaderBytes(m) = Refused \/ Understood("header", m, HeaderBytes(m))
    BY <2>2, <2>3, HeaderUnderstood
  <2>5. MakeMessage("header", m) = HeaderBytes(m) BY DEF MakeMessage
  <2> QED BY <1>15, <2>4, <2>5, Zenon
<1>16. CASE type = "FRAME_RECT"
  <2>1. /\ m \in [x : Word, y : Word, w : Word, h : Word, pixels : Seq(Byte)]
        /\ m.x + m.w <= Width /\ m.y + m.h <= Height
    BY <1>16 DEF Askable
  <2>2. m = [x |-> m.x, y |-> m.y, w |-> m.w, h |-> m.h, pixels |-> m.pixels] BY <2>1
  <2>3. m.x \in Word /\ m.y \in Word /\ m.w \in Word /\ m.h \in Word /\ m.pixels \in Seq(Byte)
    BY <2>1
  <2>4. Width \in Nat /\ Height \in Nat BY DEF MessagesAssumption
  <2>5. RectBytes(m) = Refused \/ Understood("FRAME_RECT", m, RectBytes(m))
    BY <2>1, <2>2, <2>3, <2>4, RectUnderstood
  <2>6. MakeMessage("FRAME_RECT", m) = RectBytes(m) BY DEF MakeMessage
  <2> QED BY <1>16, <2>5, <2>6, Zenon
<1>17. CASE type = "WIFI_CONFIG"
  <2>1. MakeMessage("WIFI_CONFIG", m) = ConfigBytes(m) BY DEF MakeMessage
  <2>2. \/ m = ClearConfig
        \/ m \in [clear : {FALSE}, ssid : Text8, password : Text8, ip : Long, port : Word]
    BY <1>17 DEF Askable
  <2>3. CASE m = ClearConfig BY <1>17, <2>1, <2>3, ClearUnderstood, Zenon
  <2>4. CASE m \in [clear : {FALSE}, ssid : Text8, password : Text8, ip : Long, port : Word]
    <3>1. m = [clear |-> FALSE, ssid |-> m.ssid, password |-> m.password, ip |-> m.ip,
               port |-> m.port]
      BY <2>4
    <3>2. m.ssid \in Text8 /\ m.password \in Text8 /\ m.ip \in Long /\ m.port \in Word BY <2>4
    <3>3. ConfigBytes(m) = Refused \/ Understood("WIFI_CONFIG", m, ConfigBytes(m))
      BY <3>1, <3>2, ConfigUnderstood
    <3> QED BY <1>17, <2>1, <3>3, Zenon
  <2> QED BY <2>2, <2>3, <2>4
<1> QED BY <1>1, <1>2, <1>3, <1>4, <1>5, <1>6, <1>7, <1>8, <1>9, <1>10, <1>11, <1>12, <1>13
         , <1>14, <1>15, <1>16, <1>17 DEF MessageTypes

-----------------------------------------------------------------------------
(* The list of a scan.                                                     *)

LEMMA SmallestOne ==
    ASSUME NEW S, S \subseteq Nat, S # {}
    PROVE  \E i \in S : \A j \in S : i <= j
<1>1. PICK R : R = OpToRel(<, Nat) OBVIOUS
<1>2. IsWellFoundedOn(R, Nat) BY <1>1, NatLessThanWellFounded, Zenon
<1>3. \A k, m \in Nat : k < m => <<k, m>> \in R BY <1>1 DEF OpToRel
<1>4. PICK i \in S : \A j \in S : ~(<<j, i>> \in R) BY <1>2, WFMin
<1>5. ASSUME NEW j \in S PROVE i <= j
  <2>1. i \in Nat /\ j \in Nat OBVIOUS
  <2>2. ~(j < i) BY <1>3, <1>4, <2>1, Zenon
  <2> QED BY <2>1, <2>2
<1> QED BY <1>5

LEMMA GreatestOf ==
    ASSUME NEW S, S # {}, NEW n \in Nat, \A j \in S : j \in Nat /\ j <= n
    PROVE  Max(S) \in S /\ \A j \in S : j <= Max(S)
<1> DEFINE Rest == {n - j : j \in S}
<1>1. Rest \subseteq Nat /\ Rest # {} OBVIOUS
<1> HIDE DEF Rest
<1>2. PICK k \in Rest : \A l \in Rest : k <= l BY <1>1, SmallestOne
<1>3. PICK i \in S : k = n - i BY DEF Rest
<1>4. ASSUME NEW j \in S PROVE i >= j
  <2>1. n - j \in Rest BY DEF Rest
  <2> QED BY <1>2, <1>3, <2>1
<1>5. PICK a : a = Max(S) OBVIOUS
<1>6. a \in S /\ \A j \in S : a >= j BY <1>4, <1>5, Zenon DEF Max
<1>7. \A j \in S : j <= a BY <1>6
<1> QED BY <1>5, <1>6, <1>7, Zenon

LEMMA LesserOf ==
    ASSUME NEW a \in Nat, NEW b \in Nat
    PROVE  Min({a, b}) \in Nat /\ Min({a, b}) = (IF a <= b THEN a ELSE b)
<1>1. CASE a <= b
  <2>1. \A x \in {a, b} : (\A y \in {a, b} : x <= y) => x = a BY <1>1
  <2>2. \A y \in {a, b} : a <= y BY <1>1
  <2>3. Min({a, b}) = a BY <2>1, <2>2, Zenon DEF Min
  <2> QED BY <1>1, <2>3, Zenon
<1>2. CASE ~(a <= b)
  <2>1. \A x \in {a, b} : (\A y \in {a, b} : x <= y) => x = b BY <1>2
  <2>2. \A y \in {a, b} : b <= y BY <1>2
  <2>3. Min({a, b}) = b BY <2>1, <2>2, Zenon DEF Min
  <2> QED BY <1>2, <2>3, Zenon
<1> QED BY <1>1, <1>2

\* The strongest first.
ByStrength(q) == \A i, j \in 1..Size(q) : i < j => q[i].rssi >= q[j].rssi

\* What a list holds.
Holding(q) == {q[i] : i \in 1..Size(q)}

LEMMA ListOfRecords ==
    ASSUME NEW q \in Seq(Records)
    PROVE  /\ IsSeq(q) /\ Size(q) \in Nat /\ Len(q) = Size(q) /\ DOMAIN q = 1..Size(q)
           /\ \A i \in 1..Size(q) : q[i] \in Records /\ q[i].rssi \in Int
<1>1. IsSeq(q) /\ Size(q) \in Nat /\ Len(q) = Size(q) /\ DOMAIN q = 1..Size(q) BY DEF IsSeq, Size
<1>2. \A i \in 1..Size(q) : q[i] \in Records BY <1>1
<1>3. \A r \in Records : r.rssi \in Int BY DEF Records, Int8
<1> QED BY <1>1, <1>2, <1>3, Zenon

LEMMA Inserted ==
    ASSUME NEW q \in Seq(Records), ByStrength(q), NEW ap \in Records,
           NEW r, r = InsertByRssi(q, ap)
    PROVE  /\ r \in Seq(Records) /\ Size(r) = Size(q) + 1 /\ ByStrength(r)
           /\ Holding(r) = Holding(q) \union {ap}
<1> DEFINE NotWeaker == {0} \union {j \in DOMAIN q : q[j].rssi >= ap.rssi}
<1>1. Size(q) \in Nat /\ Len(q) = Size(q) /\ DOMAIN q = 1..Size(q)
  BY ListOfRecords
<1>2. \A i \in 1..Size(q) : q[i] \in Records /\ q[i].rssi \in Int BY ListOfRecords
<1>3. ap.rssi \in Int BY DEF Records, Int8
<1>4. PICK place : place = Max(NotWeaker) OBVIOUS
<1>5. /\ place \in 0..Size(q)
      /\ \A j \in 1..Size(q) : j <= place => q[j].rssi >= ap.rssi
      /\ \A j \in 1..Size(q) : j > place => ap.rssi >= q[j].rssi
  <2>1. NotWeaker # {} /\ \A j \in NotWeaker : j \in Nat /\ j <= Size(q) BY <1>1
  <2>2. place \in NotWeaker /\ \A j \in NotWeaker : j <= place
    <3> HIDE DEF NotWeaker
    <3> QED BY <1>1, <1>4, <2>1, GreatestOf
  <2>3. ASSUME NEW j \in 1..Size(q), j <= place PROVE q[j].rssi >= ap.rssi
    <3>1. place \in 1..Size(q) /\ q[place].rssi >= ap.rssi BY <1>1, <2>1, <2>2, <2>3
    <3>2. j = place \/ q[j].rssi >= q[place].rssi BY <1>1, <2>3, <3>1 DEF ByStrength
    <3> QED BY <1>2, <1>3, <3>1, <3>2
  <2>4. ASSUME NEW j \in 1..Size(q), j > place PROVE ap.rssi >= q[j].rssi
    <3>1. j \notin NotWeaker
      <4> HIDE DEF NotWeaker
      <4> QED BY <1>1, <2>1, <2>2, <2>4
    <3>2. ~(q[j].rssi >= ap.rssi) BY <1>1, <3>1
    <3> QED BY <1>2, <1>3, <3>2
  <2> QED BY <1>1, <2>1, <2>2, <2>3, <2>4
<1>6. r = [k \in 1..(Size(q) + 1) |->
              IF k <= place THEN q[k] ELSE IF k = place + 1 THEN ap ELSE q[k - 1]]
  BY <1>1, <1>4, Zenon DEF InsertByRssi
<1> HIDE <1>4
<1>7. /\ \A k \in 1..place : r[k] = q[k]
      /\ r[place + 1] = ap
      /\ \A k \in (place + 2)..(Size(q) + 1) : r[k] = q[k - 1]
  BY <1>1, <1>5, <1>6
<1>8. \A k \in 1..(Size(q) + 1) : r[k] \in Records BY <1>1, <1>2, <1>5, <1>6
<1>9. r \in Seq(Records) /\ Len(r) = Size(q) + 1
  <2>1. r \in [1..(Size(q) + 1) -> Records] BY <1>6, <1>8
  <2>2. Size(q) + 1 \in Nat BY <1>1
  <2> HIDE DEF Records
  <2> QED BY <2>1, <2>2
<1>10. Size(r) = Size(q) + 1 BY <1>9, Zenon DEF Size
<1>11. ByStrength(r)
  <2> SUFFICES ASSUME NEW i \in 1..(Size(q) + 1), NEW j \in 1..(Size(q) + 1), i < j
               PROVE  r[i].rssi >= r[j].rssi
    BY <1>10 DEF ByStrength
  <2>1. CASE j <= place
    <3>1. r[i] = q[i] /\ r[j] = q[j] /\ i \in 1..Size(q) /\ j \in 1..Size(q)
      BY <1>1, <1>5, <1>7, <2>1
    <3> QED BY <3>1 DEF ByStrength
  <2>2. CASE j = place + 1
    <3>1. r[i] = q[i] /\ r[j] = ap /\ i \in 1..Size(q) /\ i <= place BY <1>1, <1>5, <1>7, <2>2
    <3> QED BY <1>5, <3>1
  <2>3. CASE j > place + 1
    <3>1. r[j] = q[j - 1] /\ j - 1 \in 1..Size(q) /\ j - 1 > place BY <1>1, <1>5, <1>7, <2>3
    <3>2. CASE i <= place
      <4>1. r[i] = q[i] /\ i \in 1..Size(q) /\ i < j - 1 BY <1>1, <1>5, <1>7, <3>1, <3>2
      <4> QED BY <3>1, <4>1 DEF ByStrength
    <3>3. CASE i = place + 1
      <4>1. r[i] = ap BY <1>7, <3>3
      <4> QED BY <1>5, <3>1, <4>1
    <3>4. CASE i > place + 1
      <4>1. r[i] = q[i - 1] /\ i - 1 \in 1..Size(q) /\ i - 1 < j - 1 BY <1>1, <1>5, <1>7, <3>4
      <4> QED BY <3>1, <4>1 DEF ByStrength
    <3> QED BY <1>5, <3>2, <3>3, <3>4
  <2> QED BY <1>5, <2>1, <2>2, <2>3
<1>12. Holding(r) = Holding(q) \union {ap}
  <2>1. ASSUME NEW i \in 1..(Size(q) + 1) PROVE r[i] \in Holding(q) \union {ap}
    <3>1. CASE i <= place
      <4>1. r[i] = q[i] /\ i \in 1..Size(q) BY <1>1, <1>5, <1>7, <3>1
      <4> QED BY <4>1 DEF Holding
    <3>2. CASE i = place + 1 BY <1>7, <3>2
    <3>3. CASE i > place + 1
      <4>1. r[i] = q[i - 1] /\ i - 1 \in 1..Size(q) BY <1>1, <1>5, <1>7, <3>3
      <4> QED BY <4>1 DEF Holding
    <3> QED BY <1>5, <3>1, <3>2, <3>3
  <2>2. ASSUME NEW i \in 1..Size(q) PROVE \E k \in 1..(Size(q) + 1) : q[i] = r[k]
    <3>1. CASE i <= place
      <4>1. i \in 1..(Size(q) + 1) /\ r[i] = q[i] BY <1>1, <1>5, <1>7, <3>1
      <4> QED BY <4>1
    <3>2. CASE i > place
      <4>1. i + 1 \in 1..(Size(q) + 1) /\ r[i + 1] = q[(i + 1) - 1] /\ (i + 1) - 1 = i
        BY <1>1, <1>5, <1>7, <3>2
      <4> QED BY <4>1
    <3> QED BY <1>5, <3>1, <3>2
  <2>3. place + 1 \in 1..(Size(q) + 1) /\ r[place + 1] = ap BY <1>1, <1>5, <1>7
  <2> QED BY <1>10, <2>1, <2>2, <2>3 DEF Holding
<1> QED BY <1>9, <1>10, <1>11, <1>12

\* The lists a sort goes through.
LEMMA StepsOfSort ==
    ASSUME NEW aps \in Seq(Records)
    PROVE  \E g : /\ g = [i \in 0..Size(aps) |->
                             IF i = 0 THEN <<>> ELSE InsertByRssi(g[i - 1], aps[i])]
                  /\ SortedByRssi(aps) = g[Size(aps)]
<1> DEFINE Steps(n, g) ==
        g = [i \in 0..n |-> IF i = 0 THEN <<>> ELSE InsertByRssi(g[i - 1], aps[i])]
      Missing == {n \in 0..Size(aps) : \A g : ~Steps(n, g)}
<1>1. Size(aps) \in Nat BY ListOfRecords
<1>2. Missing = {}
  <2> SUFFICES ASSUME Missing # {} PROVE FALSE OBVIOUS
  <2>1. Missing \subseteq Nat BY <1>1
  <2>2. PICK n \in Missing : \A k \in Missing : n <= k
    <3> HIDE DEF Missing
    <3> QED BY <2>1, SmallestOne
  <2>3. n # 0
    <3>1. PICK g : g = [i \in 0..0 |-> <<>>] OBVIOUS
    <3>2. Steps(0, g) BY <3>1
    <3> QED BY <3>2
  <2>4. n \in Nat /\ n - 1 \in 0..Size(aps) /\ ~(n <= n - 1) BY <1>1, <2>1, <2>3
  <2>5. PICK g : Steps(n - 1, g) BY <2>2, <2>4
  <2>6. PICK h : h = [i \in 0..n |-> IF i = n THEN InsertByRssi(g[n - 1], aps[n]) ELSE g[i]] OBVIOUS
  <2>7. ASSUME NEW i \in 0..n
        PROVE  h[i] = IF i = 0 THEN <<>> ELSE InsertByRssi(h[i - 1], aps[i])
    <3>1. CASE i = n
      <4>1. h[i] = InsertByRssi(g[n - 1], aps[n]) BY <2>6, <3>1
      <4>2. h[n - 1] = g[n - 1]
        <5>1. n - 1 \in 0..n /\ n - 1 # n BY <2>4
        <5> QED BY <2>6, <5>1
      <4> QED BY <2>3, <3>1, <4>1, <4>2
    <3>2. CASE i # n
      <4>1. i \in 0..(n - 1) BY <2>4, <3>2
      <4>2. h[i] = g[i] BY <2>6, <3>2
      <4>3. g[i] = IF i = 0 THEN <<>> ELSE InsertByRssi(g[i - 1], aps[i]) BY <2>5, <4>1
      <4>4. CASE i = 0 BY <4>2, <4>3, <4>4
      <4>5. CASE i # 0
        <5>1. i - 1 \in 0..n /\ i - 1 # n BY <2>4, <4>1, <4>5
        <5>2. h[i - 1] = g[i - 1] BY <2>6, <5>1
        <5> QED BY <4>2, <4>3, <4>5, <5>2
      <4> QED BY <4>4, <4>5
    <3> QED BY <3>1, <3>2
  <2>8. Steps(n, h)
    <3>1. h = [i \in 0..n |-> h[i]] BY <2>6
    <3>2. [i \in 0..n |-> h[i]] =
             [i \in 0..n |-> IF i = 0 THEN <<>> ELSE InsertByRssi(h[i - 1], aps[i])]
      BY <2>7, Zenon
    <3> QED BY <3>1, <3>2, Zenon
  <2> QED BY <2>8
<1>3. \E g : Steps(Len(aps), g)
  <2>1. Size(aps) \in 0..Size(aps) BY <1>1
  <2>2. Size(aps) \notin Missing
    <3> HIDE DEF Missing
    <3> QED BY <1>2
  <2>3. \E g : Steps(Size(aps), g)
    <3> HIDE DEF Steps
    <3> QED BY <2>1, <2>2, Zenon
  <2> QED BY <2>3, Zenon DEF Size
<1> DEFINE all == CHOOSE g : Steps(Len(aps), g)
<1>4. Steps(Len(aps), all) BY <1>3, Zenon
<1>5. SortedByRssi(aps) = all[Len(aps)] BY Zenon DEF SortedByRssi
<1>6. PICK g : g = all OBVIOUS
<1>7. Steps(Len(aps), g) /\ SortedByRssi(aps) = g[Len(aps)] BY <1>4, <1>5, <1>6, Zenon
<1> QED BY <1>7, Zenon DEF Size

\* A sort keeps every record, and puts the strongest first.
LEMMA SortedRecords ==
    ASSUME NEW aps \in Seq(Records), NEW r, r = SortedByRssi(aps)
    PROVE  /\ r \in Seq(Records) /\ Size(r) = Size(aps) /\ ByStrength(r)
           /\ Holding(r) = Holding(aps)
<1>1. PICK g : /\ g = [i \in 0..Size(aps) |->
                          IF i = 0 THEN <<>> ELSE InsertByRssi(g[i - 1], aps[i])]
               /\ SortedByRssi(aps) = g[Size(aps)]
  BY StepsOfSort
<1>2. Size(aps) \in Nat /\ \A i \in 1..Size(aps) : aps[i] \in Records BY ListOfRecords
<1> DEFINE Good(i) == /\ g[i] \in Seq(Records) /\ Size(g[i]) = i /\ ByStrength(g[i])
                      /\ Holding(g[i]) = {aps[j] : j \in 1..i}
           Bad == {i \in 0..Size(aps) : ~Good(i)}
<1>3. Bad = {}
  <2> SUFFICES ASSUME Bad # {} PROVE FALSE OBVIOUS
  <2>1. Bad \subseteq Nat BY <1>2
  <2>2. PICK n \in Bad : \A k \in Bad : n <= k
    <3> HIDE DEF Bad
    <3> QED BY <2>1, SmallestOne
  <2>3. n # 0
    <3> SUFFICES Good(0) OBVIOUS
    <3>1. 0 \in 0..Size(aps) BY <1>2
    <3>2. g[0] = <<>> BY <1>1, <3>1
    <3>3. PICK q : q = <<>> OBVIOUS
    <3>4. q \in Seq(Records) /\ Size(q) = 0 BY <3>3 DEF Size
    <3>5. ByStrength(q) /\ Holding(q) = {aps[j] : j \in 1..0} BY <3>4 DEF ByStrength, Holding
    <3> QED BY <3>2, <3>3, <3>4, <3>5, Zenon
  <2>4. n \in 1..Size(aps) /\ n - 1 \in 0..Size(aps) /\ ~(n <= n - 1) BY <1>2, <2>1, <2>3
  <2>5. Good(n - 1) BY <2>2, <2>4, Zenon
  <2>6. g[n] = InsertByRssi(g[n - 1], aps[n])
    <3>1. n \in 0..Size(aps) BY <2>4
    <3> QED BY <1>1, <2>3, <3>1
  <2>7. PICK q, s, ap : q = g[n - 1] /\ s = g[n] /\ ap = aps[n] OBVIOUS
  <2>8. /\ q \in Seq(Records) /\ Size(q) = n - 1 /\ ByStrength(q)
        /\ Holding(q) = {aps[j] : j \in 1..(n - 1)}
    BY <2>5, <2>7, Zenon
  <2>9. ap \in Records /\ s = InsertByRssi(q, ap) BY <1>2, <2>4, <2>6, <2>7, Zenon
  <2>10. /\ s \in Seq(Records) /\ Size(s) = Size(q) + 1 /\ ByStrength(s)
         /\ Holding(s) = Holding(q) \union {ap}
    BY <2>8, <2>9, Inserted, Zenon
  <2>11. (n - 1) + 1 = n BY <2>4
  <2>12. {aps[j] : j \in 1..(n - 1)} \union {aps[n]} = {aps[j] : j \in 1..n}
    <3>1. \A j : j \in 1..n <=> j \in 1..(n - 1) \/ j = n BY <2>4
    <3> QED BY <3>1, Zenon
  <2>13. Good(n) BY <2>7, <2>8, <2>10, <2>11, <2>12, Zenon
  <2> QED BY <2>13
<1>4. Good(Size(aps))
  <2>1. Size(aps) \in 0..Size(aps) BY <1>2
  <2>2. Size(aps) \notin Bad
    <3> HIDE DEF Bad
    <3> QED BY <1>3
  <2> HIDE DEF Good
  <2> QED BY <2>1, <2>2, Zenon
<1>5. r = g[Size(aps)] BY <1>1
<1> QED BY <1>4, <1>5, Zenon DEF Holding

LEMMA FirstOnes ==
    ASSUME NEW q \in Seq(Records), NEW n \in 0..Size(q), NEW r, r = SubSeq(q, 1, n)
    PROVE  r \in Seq(Records) /\ Size(r) = n /\ \A i \in 1..n : r[i] = q[i]
<1>1. Size(q) \in Nat /\ Len(q) = Size(q) BY ListOfRecords
<1>2. r \in Seq(Records) /\ Len(r) = n /\ \A i \in 1..n : r[i] = q[i]
  <2> HIDE DEF Records
  <2> QED BY <1>1
<1> QED BY <1>2, Zenon DEF Size

\* What a survey is: what the driver may have found, and how many were asked for.
IsSurvey(s) ==
    s.aps \in Seq(Records) /\ Len(s.aps) \in Word /\ s.maxEntries \in Byte

\* How many records the callers of the scan get, and which.
LEMMA ListOfStrongest ==
    ASSUME MessagesAssumption, NEW s, IsSurvey(s),
           NEW fetched, fetched = Fetched(s.aps), NEW list, list = ListOf(s)
    PROVE  /\ fetched \in Seq(Records) /\ list \in Seq(Records) /\ ByStrength(list)
           /\ Size(s.aps) \in Word
           /\ Size(fetched) =
                 (IF Size(s.aps) <= ScanRecords THEN Size(s.aps) ELSE ScanRecords)
           /\ Size(list) <= Size(fetched) /\ Size(list) <= ScanRecords
           /\ \A ap \in Holding(fetched) \ Holding(list) :
                 \A r \in Holding(list) : r.rssi >= ap.rssi
<1>1. PICK aps : aps = s.aps OBVIOUS
<1>2. aps \in Seq(Records) /\ Len(aps) \in Word /\ s.maxEntries \in Byte BY <1>1, Zenon DEF IsSurvey
<1>3. Size(aps) \in Nat /\ Len(aps) = Size(aps) BY <1>2, ListOfRecords
<1>4. ScanRecords \in Nat /\ DefaultRecords \in Nat /\ DefaultRecords <= ScanRecords
  BY DEF MessagesAssumption
<1>5. PICK n : n = Min({Len(aps), ScanRecords}) OBVIOUS
<1>6. n = (IF Size(aps) <= ScanRecords THEN Size(aps) ELSE ScanRecords) BY <1>3, <1>4, <1>5, LesserOf
<1>7. n \in 0..Size(aps) BY <1>3, <1>4, <1>6
<1>8. fetched = SubSeq(aps, 1, n) BY <1>1, <1>5, Zenon DEF Fetched
<1>9. fetched \in Seq(Records) /\ Size(fetched) = n BY <1>2, <1>7, <1>8, FirstOnes
<1>10. PICK sorted : sorted = SortedByRssi(fetched) OBVIOUS
<1>11. /\ sorted \in Seq(Records) /\ Size(sorted) = n /\ ByStrength(sorted)
       /\ Holding(sorted) = Holding(fetched)
  BY <1>9, <1>10, SortedRecords
<1>12. PICK wanted : wanted = EntriesWanted(s.maxEntries) OBVIOUS
<1>13. wanted \in Nat /\ wanted <= ScanRecords
  <2>1. s.maxEntries \in Nat BY <1>2 DEF Byte, UpTo
  <2> QED BY <1>4, <1>12, <2>1 DEF EntriesWanted
<1>14. PICK k : k = Min({Len(sorted), wanted}) OBVIOUS
<1>15. Len(sorted) = n BY <1>11, Zenon DEF Size
<1>16. n \in Nat BY <1>3, <1>7
<1>17. k \in 0..n /\ k <= wanted BY <1>13, <1>14, <1>15, <1>16, LesserOf
<1>18. list = SubSeq(sorted, 1, k) BY <1>1, <1>10, <1>12, <1>14, Zenon DEF ListOf
<1>19. list \in Seq(Records) /\ Size(list) = k /\ \A i \in 1..k : list[i] = sorted[i]
  BY <1>11, <1>17, <1>18, FirstOnes
<1>20. ByStrength(list)
  <2> SUFFICES ASSUME NEW i \in 1..k, NEW j \in 1..k, i < j PROVE list[i].rssi >= list[j].rssi
    BY <1>19 DEF ByStrength
  <2>1. i \in 1..n /\ j \in 1..n BY <1>16, <1>17
  <2>2. sorted[i].rssi >= sorted[j].rssi BY <1>11, <2>1 DEF ByStrength
  <2> QED BY <1>19, <2>2
<1>21. ASSUME NEW ap \in Holding(fetched) \ Holding(list), NEW r \in Holding(list)
       PROVE  r.rssi >= ap.rssi
  <2>1. PICK i \in 1..k : r = list[i] BY <1>19 DEF Holding
  <2>2. PICK j \in 1..n : ap = sorted[j] BY <1>11 DEF Holding
  <2>3. j \notin 1..k BY <1>19, <2>2 DEF Holding
  <2>4. i \in 1..n /\ i < j BY <1>16, <1>17, <2>3
  <2>5. sorted[i].rssi >= sorted[j].rssi BY <1>11, <2>4 DEF ByStrength
  <2> QED BY <1>19, <2>1, <2>2, <2>5
<1>22. Size(list) <= Size(fetched) /\ Size(list) <= ScanRecords
  BY <1>4, <1>9, <1>13, <1>16, <1>17, <1>19
<1>23. Size(s.aps) \in Word BY <1>1, <1>2, Zenon DEF Size
<1> QED BY <1>1, <1>6, <1>9, <1>19, <1>20, <1>21, <1>22, <1>23, Zenon

\* The report of a scan is a message that can be asked for.
LEMMA ReportAskable ==
    ASSUME MessagesAssumption, NEW s, IsSurvey(s)
    PROVE  ReportOf(s) \in Askable("WIFI_SCAN_RESULT")
<1>1. PICK m, list, total, cut :
        /\ m = ReportOf(s) /\ list = ListOf(s) /\ total = Len(s.aps)
        /\ cut = (Len(s.aps) > ScanRecords \/ Len(Fetched(s.aps)) > Len(ListOf(s)))
  BY Zenon
<1>2. m = [scanSeq |-> 1, total |-> total, records |-> list, truncated |-> cut]
  BY <1>1, Zenon DEF ReportOf
<1>3. list \in Seq(Records) BY <1>1, ListOfStrongest
<1>4. total \in Word BY <1>1, Zenon DEF IsSurvey
<1>5. cut \in BOOLEAN BY <1>1
<1>6. 1 \in Byte BY DEF Byte, UpTo
<1>7. m \in [scanSeq : Byte, truncated : BOOLEAN, total : Word, records : Seq(Records)]
  <2> HIDE <1>1
  <2> QED BY <1>2, <1>3, <1>4, <1>5, <1>6
<1>8. Askable("WIFI_SCAN_RESULT") =
        [scanSeq : Byte, truncated : BOOLEAN, total : Word, records : Seq(Records)]
  BY DEF Askable
<1> QED BY <1>1, <1>7, <1>8, Zenon

-----------------------------------------------------------------------------
(* The exchange: what can be on the wire, and what is heard of it.         *)

\* What becomes of the payload q under way to a peer of another version.
Arriving(q, p) ==
    \/ altered = "no" /\ p = q
    \/ altered = "longer" /\ p = q \o <<7>>
    \/ altered = "shorter" /\ \E n \in Nat : n < Size(q) /\ p = SubSeq(q, 1, n)

Asked == MakeMessage(asked.type, asked.of)

MessagesInv ==
    /\ stage \in {"idle", "refused", "wire", "heard"}
    /\ stage = "idle" => altered = "no" /\ survey = NoSurvey
    /\ stage # "idle" => asked.type \in MessageTypes /\ asked.of \in Askable(asked.type)
    /\ stage = "refused" => Asked = Refused
    /\ stage \in {"wire", "heard"} => Asked # Refused /\ Arriving(Asked, octets)
    /\ stage = "heard" => heard = ReadMessage(asked.type, octets)
    /\ survey # NoSurvey =>
          /\ IsSurvey(survey) /\ altered = "no"
          /\ asked = [type |-> "WIFI_SCAN_RESULT", of |-> ReportOf(survey)]

LEMMA MessagesInitInv == MessagesInit => MessagesInv
BY DEF MessagesInit, MessagesInv

\* What is asked for goes out whole, or not at all.
LEMMA AskedFor ==
    ASSUME NEW a, stage = "idle", MessagesInv, Ask(a),
           a.type \in MessageTypes, a.of \in Askable(a.type)
    PROVE  /\ stage' \in {"refused", "wire"} /\ altered' = "no"
           /\ asked'.type \in MessageTypes /\ asked'.of \in Askable(asked'.type)
           /\ stage' = "refused" => Asked' = Refused
           /\ stage' = "wire" => Asked' # Refused /\ Arriving(Asked, octets)'
<1>1. PICK made : made = MakeMessage(a.type, a.of) OBVIOUS
<1>2. /\ asked' = a
      /\ stage' = IF made = Refused THEN "refused" ELSE "wire"
      /\ octets' = IF made = Refused THEN <<>> ELSE made
      /\ altered' = "no"
  BY <1>1, Zenon DEF Ask, MessagesInv
<1>3. Asked' = made BY <1>1, <1>2, Zenon DEF Asked
<1>4. "refused" # "wire" OBVIOUS
<1> QED BY <1>2, <1>3, <1>4, Zenon DEF Arriving

LEMMA MessagesStepInv ==
    ASSUME MessagesAssumption, MessagesInv, [MessagesNext]_messageVars PROVE MessagesInv'
<1>1. CASE SendMessage
  <2>1. stage = "idle" /\ survey' = survey /\ survey = NoSurvey
    BY <1>1, Zenon DEF SendMessage, MessagesInv
  <2>2. PICK a \in Inputs : Ask(a) BY <1>1, Zenon DEF SendMessage
  <2>3. a.type \in MessageTypes /\ a.of \in Askable(a.type) BY Zenon DEF MessagesAssumption
  <2>4. /\ stage' \in {"refused", "wire"} /\ altered' = "no"
        /\ asked'.type \in MessageTypes /\ asked'.of \in Askable(asked'.type)
        /\ stage' = "refused" => Asked' = Refused
        /\ stage' = "wire" => Asked' # Refused /\ Arriving(Asked, octets)'
    BY <2>1, <2>2, <2>3, AskedFor, Zenon
  <2>5. NoSurvey' = NoSurvey /\ "refused" # "wire" /\ "wire" # "heard" /\ "refused" # "heard"
        /\ "refused" # "idle" /\ "wire" # "idle"
    OBVIOUS
  <2> QED BY <2>1, <2>4, <2>5, Zenon DEF MessagesInv
<1>2. CASE ReportScan
  <2>1. stage = "idle" BY <1>2, Zenon DEF ReportScan
  <2>2. PICK s \in Surveys : Ask([type |-> "WIFI_SCAN_RESULT", of |-> ReportOf(s)]) /\ survey' = s
    BY <1>2, Zenon DEF ReportScan
  <2>3. IsSurvey(s) BY Zenon DEF MessagesAssumption, IsSurvey
  <2>4. PICK a : a = [type |-> "WIFI_SCAN_RESULT", of |-> ReportOf(s)] OBVIOUS
  <2>5. a.type = "WIFI_SCAN_RESULT" /\ a.of = ReportOf(s) BY <2>4
  <2>6. "WIFI_SCAN_RESULT" \in MessageTypes BY DEF MessageTypes
  <2>7. a.type \in MessageTypes /\ a.of \in Askable(a.type) BY <2>3, <2>5, <2>6, ReportAskable, Zenon
  <2>8. Ask(a) BY <2>2, <2>4, Zenon
  <2>9. /\ stage' \in {"refused", "wire"} /\ altered' = "no"
        /\ asked'.type \in MessageTypes /\ asked'.of \in Askable(asked'.type)
        /\ stage' = "refused" => Asked' = Refused
        /\ stage' = "wire" => Asked' # Refused /\ Arriving(Asked, octets)'
    BY <2>1, <2>7, <2>8, AskedFor, Zenon
  <2>10. asked' = [type |-> "WIFI_SCAN_RESULT", of |-> ReportOf(s)] BY <2>4, <2>8, Zenon DEF Ask
  <2>11. "refused" # "wire" /\ "wire" # "heard" /\ "refused" # "heard" /\ "refused" # "idle"
         /\ "wire" # "idle"
    OBVIOUS
  <2> QED BY <2>2, <2>3, <2>9, <2>10, <2>11, Zenon DEF MessagesInv
<1>3. CASE OtherVersion
  <2>1. survey = NoSurvey /\ asked' = asked /\ survey' = survey /\ stage' = stage /\ heard' = heard
    BY <1>3, Zenon DEF OtherVersion
  <2>2. stage = "wire" /\ altered = "no"
    BY <1>3, Zenon DEF OtherVersion, NewerPeer, OlderPeer
  <2>3. Asked' = Asked BY <2>1, Zenon DEF Asked
  <2>4. Asked # Refused /\ octets = Asked
    <3>1. "no" # "longer" /\ "no" # "shorter" OBVIOUS
    <3> QED BY <2>2, <3>1, Zenon DEF MessagesInv, Arriving
  <2>5. Arriving(Asked, octets)'
    <3>1. CASE NewerPeer BY <2>3, <2>4, <3>1, Zenon DEF NewerPeer, Arriving
    <3>2. CASE OlderPeer
      <4>1. PICK n \in {0, Len(octets) \div 2, Len(octets) - 1} \ {Len(octets), -1} :
                octets' = SubSeq(octets, 1, n)
        BY <3>2, Zenon DEF OlderPeer
      <4>2. Size(Asked) \in Nat
        <5>1. asked.type \in MessageTypes /\ asked.of \in Askable(asked.type)
          <6>1. "wire" # "idle" OBVIOUS
          <6> QED BY <2>2, <6>1, Zenon DEF MessagesInv
        <5>2. Understood(asked.type, asked.of, Asked)
          BY <2>4, <5>1, EveryMessage, Zenon DEF Asked
        <5> QED BY <5>2 DEF Understood
      <4>3. n \in Nat /\ n < Size(Asked)
        <5>1. PICK l : l = Size(Asked) OBVIOUS
        <5>2. Len(octets) = l BY <2>4, <5>1, Zenon DEF Size
        <5>3. n \in {0, l \div 2, l - 1} \ {l, -1} /\ l \in Nat BY <4>1, <4>2, <5>1, <5>2, Zenon
        <5>4. n \in Nat /\ n < l BY <5>3
        <5> QED BY <5>1, <5>4
      <4>4. altered' = "shorter" BY <3>2, Zenon DEF OlderPeer
      <4> QED BY <2>3, <2>4, <4>1, <4>3, <4>4, Zenon DEF Arriving
    <3> QED BY <1>3, <3>1, <3>2, Zenon DEF OtherVersion
  <2>6. "refused" # "wire" /\ "wire" # "heard" /\ "wire" # "idle" /\ NoSurvey' = NoSurvey OBVIOUS
  <2> QED BY <2>1, <2>2, <2>3, <2>4, <2>5, <2>6, Zenon DEF MessagesInv
<1>4. CASE Hear
  <2>1. /\ stage = "wire" /\ stage' = "heard" /\ heard' = ReadMessage(asked.type, octets)
        /\ asked' = asked /\ survey' = survey /\ octets' = octets /\ altered' = altered
    BY <1>4, Zenon DEF Hear
  <2>2. Asked' = Asked BY <2>1, Zenon DEF Asked
  <2>3. Arriving(Asked, octets)' <=> Arriving(Asked, octets) BY <2>1, <2>2, Zenon DEF Arriving
  <2>4. "refused" # "wire" /\ "wire" # "heard" /\ "wire" # "idle" /\ "heard" # "idle"
        /\ "heard" # "refused" /\ NoSurvey' = NoSurvey
    OBVIOUS
  <2> QED BY <2>1, <2>2, <2>3, <2>4, Zenon DEF MessagesInv
<1>5. CASE UNCHANGED messageVars
  <2>1. /\ stage' = stage /\ heard' = heard /\ asked' = asked /\ survey' = survey
        /\ octets' = octets /\ altered' = altered
    BY <1>5 DEF messageVars
  <2>2. Asked' = Asked BY <2>1, Zenon DEF Asked
  <2>3. Arriving(Asked, octets)' <=> Arriving(Asked, octets) BY <2>1, <2>2, Zenon DEF Arriving
  <2> QED BY <2>1, <2>2, <2>3, Zenon DEF MessagesInv
<1> QED BY <1>1, <1>2, <1>3, <1>4, <1>5, Zenon DEF MessagesNext

LEMMA ReadAsMeant == ASSUME MessagesAssumption, MessagesInv PROVE PeerReadsWhatWasMeant
<1> SUFFICES ASSUME stage = "heard"
             PROVE  CASE altered = "no" -> heard = asked.of
                      [] altered = "longer" ->
                            heard = asked.of \/ (heard = Dropped /\ asked.type \notin Extensible)
                      [] altered = "shorter" ->
                            heard = Dropped \/ asked.type \in {"ERROR", "PING"}
  BY DEF PeerReadsWhatWasMeant
<1>1. PICK type, m, q : type = asked.type /\ m = asked.of /\ q = Asked OBVIOUS
<1>2. type \in MessageTypes /\ m \in Askable(type) /\ q # Refused
  BY <1>1, "heard" # "idle", Zenon DEF MessagesInv
<1>3. Arriving(q, octets) /\ heard = ReadMessage(type, octets) BY <1>1, Zenon DEF MessagesInv
<1>4. Understood(type, m, q) BY <1>1, <1>2, EveryMessage, Zenon DEF Asked
<1>5. IsSeq(q) /\ Size(q) \in Nat BY <1>4 DEF Understood
<1>6. CASE altered = "no" /\ octets = q
  <2>1. ReadMessage(type, q) = m BY <1>4, <1>5, HoldsItself, Zenon DEF Understood
  <2> QED BY <1>1, <1>3, <1>6, <2>1, Zenon
<1>7. CASE altered = "longer" /\ octets = q \o <<7>>
  <2>1. IsSeq(<<7>>) BY SingleSeq
  <2>2. IsSeq(q \o <<7>>) BY <1>5, <2>1, Joined
  <2>3. Holds(octets, 0, q) BY <1>5, <1>7, <2>1, <2>2, HoldsItself, FirstPart, Zenon
  <2>4. heard = m \/ (heard = Dropped /\ type \notin Extensible)
    BY <1>3, <1>4, <2>3, Zenon DEF Understood
  <2>5. "longer" # "no" OBVIOUS
  <2> QED BY <1>1, <1>7, <2>4, <2>5, Zenon
<1>8. CASE altered = "shorter" /\ \E n \in Nat : n < Size(q) /\ octets = SubSeq(q, 1, n)
  <2>1. PICK n \in Nat : n < Size(q) /\ octets = SubSeq(q, 1, n) BY <1>8
  <2>2. 0 + 1 = 1 /\ 0 + n = n /\ 0 + n <= Size(q) /\ 0 \in Nat BY <1>5, <2>1
  <2>3. /\ IsSeq(SubSeq(q, 0 + 1, 0 + n)) /\ Size(SubSeq(q, 0 + 1, 0 + n)) = n
        /\ \A i \in 1..n : SubSeq(q, 0 + 1, 0 + n)[i] = q[0 + i]
    BY <1>5, <2>2, Piece, Zenon
  <2>4. /\ IsSeq(octets) /\ Size(octets) = n
        /\ \A i \in 1..n : octets[i] = q[0 + i]
    BY <2>1, <2>2, <2>3, Zenon
  <2>5. Holds(q, 0, octets) BY <1>5, <2>2, <2>4 DEF Holds
  <2>6. heard = Dropped \/ type \in {"ERROR", "PING"}
    BY <1>3, <1>4, <2>1, <2>4, <2>5, Zenon DEF Understood
  <2>7. "shorter" # "no" /\ "shorter" # "longer" OBVIOUS
  <2> QED BY <1>1, <1>8, <2>6, <2>7, Zenon
<1> QED BY <1>3, <1>6, <1>7, <1>8, Zenon DEF Arriving

LEMMA ToldHonestly == ASSUME MessagesAssumption, MessagesInv PROVE ScanReportIsTrue
<1> SUFFICES ASSUME survey # NoSurvey
             PROVE
      /\ stage = "refused" => \E r \in ToSet(ListOf(survey)) : ~IsListable(r)
      /\ stage = "heard" =>
            /\ \A i, j \in DOMAIN heard.records :
                  i < j => heard.records[i].rssi >= heard.records[j].rssi
            /\ \A ap \in ToSet(Fetched(survey.aps)) \ ToSet(heard.records) :
                  \A r \in ToSet(heard.records) : r.rssi >= ap.rssi
            /\ heard.total = Len(survey.aps)
            /\ heard.truncated <=> Len(heard.records) < heard.total
  BY DEF ScanReportIsTrue
<1>1. /\ IsSurvey(survey) /\ altered = "no"
      /\ asked = [type |-> "WIFI_SCAN_RESULT", of |-> ReportOf(survey)]
  BY Zenon DEF MessagesInv
<1>2. PICK aps, fetched, list, m :
        /\ aps = survey.aps /\ fetched = Fetched(survey.aps) /\ list = ListOf(survey)
        /\ m = ReportOf(survey)
  OBVIOUS
<1>3. /\ fetched \in Seq(Records) /\ list \in Seq(Records) /\ ByStrength(list)
      /\ Size(aps) \in Word
      /\ Size(fetched) = (IF Size(aps) <= ScanRecords THEN Size(aps) ELSE ScanRecords)
      /\ Size(list) <= Size(fetched) /\ Size(list) <= ScanRecords
      /\ \A ap \in Holding(fetched) \ Holding(list) : \A r \in Holding(list) : r.rssi >= ap.rssi
  BY <1>1, <1>2, ListOfStrongest, Zenon
<1>4. ToSet(fetched) = Holding(fetched) /\ ToSet(list) = Holding(list) /\ DOMAIN list = 1..Size(list)
  BY <1>3, ListOfRecords, Zenon DEF ToSet, Holding
<1>5. PICK total, cut : total = Size(aps) /\ cut = (total > ScanRecords \/ Size(fetched) > Size(list))
  OBVIOUS
<1>6. m = [scanSeq |-> 1, total |-> total, records |-> list, truncated |-> cut]
  BY <1>2, <1>5, Zenon DEF ReportOf, Size
<1>7. 1 \in Byte /\ cut \in BOOLEAN /\ total \in Word BY <1>3, <1>5 DEF Byte, UpTo
<1>8. asked.type = "WIFI_SCAN_RESULT" /\ asked.of = m BY <1>1, <1>2
<1>9. Asked = ScanResultBytes(m)
  <2>1. MakeMessage("WIFI_SCAN_RESULT", m) = ScanResultBytes(m) BY DEF MakeMessage
  <2> QED BY <1>8, <2>1, Zenon DEF Asked
<1>10. ASSUME stage = "refused" PROVE \E r \in ToSet(list) : ~IsListable(r)
  <2>1. ScanResultBytes(m) = Refused BY <1>9, <1>10, Zenon DEF MessagesInv
  <2>2. Size(Refused) = 1
    <3>1. Len(Refused) = 1 BY SingleSeq DEF Refused
    <3> QED BY <3>1, Zenon DEF Size
  <2>3. ~TooMany(list)
    <3>1. Size(list) \in Nat /\ ScanRecords \in Nat BY <1>3, ListOfRecords DEF MessagesAssumption
    <3>2. ~(Size(list) > ScanRecords) BY <1>3, <3>1
    <3> QED BY <3>2, Zenon DEF TooMany, Size
  <2>4. m = [scanSeq |-> 1, truncated |-> cut, total |-> total, records |-> list] BY <1>6
  <2>5. ScanRecords \in 1..255 BY DEF MessagesAssumption
  <2>6. IF TooMany(list) \/ \E i \in DOMAIN list : ~IsListable(list[i])
        THEN ScanResultBytes(m) = Refused
        ELSE /\ Understood("WIFI_SCAN_RESULT", m, ScanResultBytes(m))
             /\ Size(ScanResultBytes(m)) >= 5
    BY <1>3, <1>7, <2>4, <2>5, ScanResultUnderstood
  <2>7. ~(1 >= 5) OBVIOUS
  <2>8. \E i \in DOMAIN list : ~IsListable(list[i]) BY <2>1, <2>2, <2>3, <2>6, <2>7, Zenon
  <2> QED BY <2>8, Zenon DEF ToSet
<1>11. ASSUME stage = "heard"
       PROVE  /\ \A i, j \in DOMAIN heard.records :
                    i < j => heard.records[i].rssi >= heard.records[j].rssi
              /\ \A ap \in ToSet(fetched) \ ToSet(heard.records) :
                    \A r \in ToSet(heard.records) : r.rssi >= ap.rssi
              /\ heard.total = Len(aps)
              /\ heard.truncated <=> Len(heard.records) < heard.total
  <2>1. heard = m
    <3>1. PeerReadsWhatWasMeant BY ReadAsMeant
    <3> QED BY <1>1, <1>8, <1>11, <3>1, Zenon DEF PeerReadsWhatWasMeant
  <2>2. heard.records = list /\ heard.total = total /\ heard.truncated = cut BY <1>6, <2>1, Zenon
  <2>3. \A i, j \in DOMAIN list : i < j => list[i].rssi >= list[j].rssi
    BY <1>3, <1>4, Zenon DEF ByStrength
  <2>4. \A ap \in ToSet(fetched) \ ToSet(list) : \A r \in ToSet(list) : r.rssi >= ap.rssi
    BY <1>3, <1>4, Zenon
  <2>5. total = Len(aps) BY <1>5, Zenon DEF Size
  <2>6. cut <=> Size(list) < total
    <3>1. total \in Nat BY <1>7 DEF Word, UpTo
    <3>2. Size(list) \in Nat BY <1>3, ListOfRecords
    <3>3. ScanRecords \in Nat BY DEF MessagesAssumption
    <3>4. PICK f, l : f = Size(fetched) /\ l = Size(list) OBVIOUS
    <3>5. f = (IF total <= ScanRecords THEN total ELSE ScanRecords) /\ l <= f /\ l \in Nat
      BY <1>3, <1>5, <3>2, <3>4, Zenon
    <3>6. (total > ScanRecords \/ f > l) <=> l < total BY <3>1, <3>3, <3>5
    <3> QED BY <1>5, <3>4, <3>6, Zenon
  <2>7. cut <=> Len(list) < total BY <2>6, Zenon DEF Size
  <2> QED BY <2>2, <2>3, <2>4, <2>5, <2>7, Zenon
<1> QED BY <1>2, <1>10, <1>11, Zenon

\* Every reachable state of the exchange is one MessagesInv describes: a request is typed, what
\* is on the wire is its payload, whole, grown or cut, and what is heard is what the parser of
\* its type makes of that.
THEOREM MessagesInvariant == MessagesSpec => []MessagesInv
<1>1. MessagesInit => MessagesInv BY MessagesInitInv
<1>2. MessagesInv /\ [MessagesNext]_messageVars => MessagesInv'
  BY MessagesStepInv, MessagesAssumption
<1> QED BY <1>1, <1>2, PTL DEF MessagesSpec

\* The parsers of the receiver undo the makers of the sender (message.cpp, packet.cpp), for
\* every message that can be asked for: each field arrives as it was given, what was cut is
\* dropped, what was appended is ignored or dropped.
THEOREM MessagesReadAsMeant == MessagesSpec => []PeerReadsWhatWasMeant
<1>1. MessagesInv => PeerReadsWhatWasMeant BY ReadAsMeant, MessagesAssumption
<1> QED BY <1>1, MessagesInvariant, PTL

\* The report of requestScan and tick() (wifi_provisioning.cpp), for any number of networks the
\* driver found and any number of entries asked for.
THEOREM ScanReportsTrue == MessagesSpec => []ScanReportIsTrue
<1>1. MessagesInv => ScanReportIsTrue BY ToldHonestly, MessagesAssumption
<1> QED BY <1>1, MessagesInvariant, PTL
=============================================================================

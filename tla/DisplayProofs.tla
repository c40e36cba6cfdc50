----------------------------- MODULE DisplayProofs -----------------------------
(***************************************************************************)
(* The remote display, for any number of frames, rectangles, sessions and  *)
(* losses and a queue of any size: a frame that the host shows is the      *)
(* picture LVGL drew, whole and on the base it was drawn for, as long as   *)
(* frame numbers last and none of the races of the UI task and the pump    *)
(* has happened; when all is at rest the host shows the widget tree; and   *)
(* the OLED's picture, which the host shows when it arrives, for any       *)
(* number of pictures, sessions and losses.                                *)
(***************************************************************************)
EXTENDS DisplayPipeline, Preview, SequenceLemmas, FiniteSetTheorems, TLAPS

-----------------------------------------------------------------------------
(* The picture on its way to the host, while no race has happened.         *)

Linked == session \in {"announced", "connected", "lost", "cleared"}

\* What the UI task put into the frame it writes, and the k-th slot of the queue.
FrameWritten == offered[frameId].rects
SlotOf(k) == slots[(head + k) % QueueSlots]
InRing == 0..(QueueSlots - 1)

\* Slots of the frame that the TX task has freed.
Popped == rectsWritten - count

AsRect(r) == [area |-> r.area, pixels |-> r.pixels]

OfferedOK ==
    /\ IsSeq(offered) /\ Len(offered) = frameId
    /\ \A f \in DOMAIN offered :
          /\ offered[f] = [rects |-> offered[f].rects, flushed |-> offered[f].flushed]
          /\ IsSeq(offered[f].rects)
          /\ \A j \in DOMAIN offered[f].rects : offered[f].rects[j] = AsRect(offered[f].rects[j])

\* The slots of the queue hold the end of one frame.
QueueOK ==
    /\ slots = [i \in InRing |-> slots[i]]
    /\ head \in InRing /\ count \in 0..QueueSlots
    /\ rectsWritten \in Nat /\ count <= rectsWritten
    /\ frameId > 0 => rectsWritten = Len(FrameWritten)
    /\ FrameOpen => frameId > 0
    /\ \A k \in InRing : k < count =>
          /\ SlotOf(k).first <=> Popped + k = 0
          /\ SlotOf(k).kind = frameType
          /\ SlotOf(k).frame = frameId
          /\ SlotOf(k).area = FrameWritten[Popped + k + 1].area
          /\ SlotOf(k).pixels = FrameWritten[Popped + k + 1].pixels

FlagsOK ==
    /\ frameType \in {"FULL", "PARTIAL"}
    /\ count > 0 \/ wireOpen => building \/ endQueued \/ abortPending # NoAbort
    /\ abortPending # NoAbort => abortPending = frameId /\ needFull
    /\ wire = [frame |-> wire.frame, rects |-> wire.rects]
    /\ wireOpen => wire.frame = frameId
    /\ connected <=> Linked
    /\ ~connected => ~FrameOpen /\ needFull /\ pumpPc = "idle" /\ abortPending = NoAbort
    /\ endQueued => offered[frameId].flushed

PumpOK ==
    /\ pumpPc \in {"peek", "begin", "begun", "rect", "rectSent", "pop"} => count > 0
    /\ pumpPc \in {"begin", "begun", "rect", "rectSent"} =>
          /\ entrySlot = head
          /\ entry = slots[head]
    /\ pumpPc \in {"begin", "begun"} => Popped = 0 /\ ~wireOpen
    /\ wireOpen /\ Popped = 0 => pumpPc \in {"rect", "rectSent", "pop"}
    /\ pumpPc = "end" => ~wireOpen
    /\ endMsg.type = "END"

\* The host's open frame is the one the UI task writes, up to its n-th rectangle.
HostHas(n) ==
    /\ frameState = "InFrame"
    /\ begin.frameId = frameId /\ begin.kind = frameType
    /\ rectCount = n /\ byteCount = n
    /\ IsSeq(received) /\ Len(received) = n
    /\ \A j \in 1..n : AsRect(received[j][1].msg) = AsRect(FrameWritten[j])

\* A frame that is on the wire and not to be aborted, is at the host as far as it was sent.
HostFollows ==
    Up =>
      /\ wireOpen /\ abortPending = NoAbort /\ (pumpPc = "rectSent" => sendOk) =>
           /\ wire.rects = Popped + (IF pumpPc = "pop" THEN 1 ELSE 0)
           /\ HostHas(Popped + (IF pumpPc \in {"pop", "rectSent"} THEN 1 ELSE 0))
      /\ pumpPc = "begun" /\ sendOk => HostHas(0)

\* Frame n is the last the host committed, or the END that commits it is about to be sent.
BaseShown(n) ==
    hasCommittedBase /\ Len(committed) > 0 /\ committed[Len(committed)].frameId = n
Ending == pumpPc = "end" /\ ~endMsg.aborted
BaseComes(n) == IF Ending THEN endMsg.frame = n ELSE BaseShown(n)

EndOK ==
    Ending /\ Up =>
       /\ endMsg.frame \in 1..frameId
       /\ FrameOpen => endMsg.frame < frameId
       /\ offered[endMsg.frame].flushed
       /\ frameState = "InFrame"
       /\ begin.frameId = endMsg.frame
       /\ begin.kind \in {"FULL", "PARTIAL"}
       /\ rectCount = endMsg.rects /\ byteCount = endMsg.bytes
       /\ IsSeq(received) /\ Len(received) = Len(offered[endMsg.frame].rects)
       /\ \A j \in DOMAIN received :
             AsRect(received[j][1].msg) = AsRect(offered[endMsg.frame].rects[j])
       /\ begin.kind = "PARTIAL" => BaseShown(endMsg.frame - 1)

\* A PARTIAL frame follows the one it changes, and the next may be PARTIAL only then.
ChainOK ==
    Up =>
      /\ FrameOpen /\ frameType = "PARTIAL" => BaseComes(frameId - 1)
      /\ ~needFull => FrameOpen \/ BaseComes(frameId)

CommittedOK ==
    /\ IsSeq(committed)
    /\ \A i \in DOMAIN committed :
          /\ committed[i].frameId \in 1..frameId
          /\ FrameOpen => committed[i].frameId < frameId
          /\ IsWhole(committed[i])
          /\ committed[i].kind = "PARTIAL" =>
                i > 1 /\ committed[i].frameId = committed[i - 1].frameId + 1

PipelineOK ==
    /\ OfferedOK /\ QueueOK /\ FlagsOK /\ PumpOK /\ HostFollows /\ EndOK /\ ChainOK /\ CommittedOK

PipelineInv == frameId \in Nat /\ (races = {} => PipelineOK)

-----------------------------------------------------------------------------
(* The ring.                                                               *)

LEMMA RingIndex ==
    ASSUME NEW Q \in Nat \ {0}, NEW a \in 0..(2 * Q - 1)
    PROVE  a % Q = IF a < Q THEN a ELSE a - Q
OBVIOUS

LEMMA RingSlots ==
    ASSUME NEW Q \in Nat \ {0}, NEW h \in 0..(Q - 1), NEW k \in 0..(Q - 1)
    PROVE  /\ (h + k) % Q \in 0..(Q - 1)
           /\ (h + 0) % Q = h
           /\ \A j \in 0..(Q - 1) : (h + j) % Q = (h + k) % Q => j = k
           /\ (h + 1) % Q \in 0..(Q - 1)
<1>1. \A a \in 0..(2 * Q - 1) : a % Q = IF a < Q THEN a ELSE a - Q BY RingIndex
<1>2. h + k \in 0..(2 * Q - 1) /\ h + 0 \in 0..(2 * Q - 1) /\ h + 1 \in 0..(2 * Q - 1) OBVIOUS
<1>3. (h + k) % Q = (IF h + k < Q THEN h + k ELSE h + k - Q) BY <1>1, <1>2
<1>4. (h + 0) % Q = h BY <1>1, <1>2
<1>5. (h + 1) % Q = (IF h + 1 < Q THEN h + 1 ELSE 0) BY <1>1, <1>2
<1>6. \A j \in 0..(Q - 1) : (h + j) % Q = IF h + j < Q THEN h + j ELSE h + j - Q
  <2>1. \A j \in 0..(Q - 1) : h + j \in 0..(2 * Q - 1) OBVIOUS
  <2> QED BY <1>1, <2>1
<1>7. (h + k) % Q \in 0..(Q - 1) BY <1>3
<1>8. \A j \in 0..(Q - 1) : (h + j) % Q = (h + k) % Q => j = k BY <1>3, <1>6
<1>9. (h + 1) % Q \in 0..(Q - 1) BY <1>5
<1> QED BY <1>4, <1>7, <1>8, <1>9

LEMMA RingNext ==
    ASSUME NEW Q \in Nat \ {0}, NEW h \in 0..(Q - 1), NEW k \in 0..(Q - 1), k + 1 < Q
    PROVE  (((h + 1) % Q) + k) % Q = (h + (k + 1)) % Q
<1>1. \A a \in 0..(2 * Q - 1) : a % Q = IF a < Q THEN a ELSE a - Q BY RingIndex
<1>2. h + 1 \in 0..(2 * Q - 1) /\ h + (k + 1) \in 0..(2 * Q - 1) OBVIOUS
<1>3. (h + 1) % Q = (IF h + 1 < Q THEN h + 1 ELSE 0) BY <1>1, <1>2
<1>4. (h + (k + 1)) % Q = (IF h + (k + 1) < Q THEN h + (k + 1) ELSE h + (k + 1) - Q) BY <1>1, <1>2
<1>5. PICK g \in 0..(Q - 1) : g = (h + 1) % Q BY <1>3
<1>6. g + k \in 0..(2 * Q - 1) OBVIOUS
<1>7. (g + k) % Q = IF g + k < Q THEN g + k ELSE g + k - Q BY <1>1, <1>6
<1> QED BY <1>3, <1>4, <1>5, <1>7

-----------------------------------------------------------------------------
(* Initial states.                                                         *)

LEMMA PipelineInitial == Init => PipelineInv
<1> SUFFICES ASSUME Init PROVE PipelineInv OBVIOUS
<1> USE DEF Init, DisplayInit, AssemblerInit
<1>1. OfferedOK BY NothingIsSeq DEF OfferedOK
<1>2. QueueOK BY QueueAssumption DEF QueueOK, InRing, FrameOpen
<1>3. FlagsOK BY DEF FlagsOK, Linked, FrameOpen, NoWire
<1>4. PumpOK BY DEF PumpOK, NoEnd
<1>5. HostFollows BY DEF HostFollows, Up
<1>6. EndOK BY DEF EndOK, Up
<1>7. ChainOK BY DEF ChainOK, Up
<1>8. CommittedOK BY NothingIsSeq DEF CommittedOK
<1>9. frameId \in Nat OBVIOUS
<1> QED BY <1>1, <1>2, <1>3, <1>4, <1>5, <1>6, <1>7, <1>8, <1>9 DEF PipelineOK, PipelineInv

-----------------------------------------------------------------------------
(* The UI task.                                                            *)

LEMMA RecordUpdates ==
    ASSUME NEW F, NEW R, NEW G, NEW A, F = [rects |-> R, flushed |-> G]
    PROVE  /\ [F EXCEPT !.rects = A] = [rects |-> A, flushed |-> G]
           /\ [F EXCEPT !.flushed = A] = [rects |-> R, flushed |-> A]
<1>1. /\ [[rects |-> R, flushed |-> G] EXCEPT !.rects = A] = [rects |-> A, flushed |-> G]
      /\ [[rects |-> R, flushed |-> G] EXCEPT !.flushed = A] = [rects |-> R, flushed |-> A]
  OBVIOUS
<1> QED BY <1>1, Zenon

\* What a rectangle that is accepted adds to the frames.
LEMMA OfferAdds ==
    ASSUME OfferedOK, frameId \in Nat, building => frameId > 0,
           NEW r, r = AsRect(r), offered' = Offer(r),
           frameId' = (IF ~building THEN frameId + 1 ELSE frameId)
    PROVE  /\ OfferedOK'
           /\ \A f \in 1..frameId : f # frameId' => f \in DOMAIN offered' /\ offered'[f] = offered[f]
           /\ building =>
                /\ Len(FrameWritten') = Len(FrameWritten) + 1
                /\ \A j \in DOMAIN FrameWritten : FrameWritten'[j] = FrameWritten[j]
                /\ offered'[frameId].flushed = offered[frameId].flushed
           /\ ~building => Len(FrameWritten') = 1
           /\ FrameWritten'[Len(FrameWritten')] = r
<1>1. IsSeq(offered) /\ Len(offered) = frameId /\ DOMAIN offered = 1..frameId
  BY SeqIndices DEF OfferedOK
<1>2. CASE building
  <2>1. frameId \in DOMAIN offered /\ frameId' = frameId BY <1>1, <1>2
  <2>2. PICK R, G, A : R = FrameWritten /\ G = offered[frameId].flushed /\ A = Append(R, r) OBVIOUS
  <2>3. IsSeq(R) /\ offered[frameId] = [rects |-> R, flushed |-> G]
    BY <2>1, <2>2 DEF OfferedOK, FrameWritten
  <2>4. /\ IsSeq(A) /\ Len(A) = Len(R) + 1 /\ DOMAIN A = DOMAIN R \cup {Len(R) + 1}
        /\ \A j \in DOMAIN R : A[j] = R[j]
        /\ A[Len(R) + 1] = r
    BY <2>2, <2>3, AppendKeeps
  <2>5. PICK F, e : F = offered[frameId] /\ e = [rects |-> A, flushed |-> G] OBVIOUS
  <2>6. [F EXCEPT !.rects = A] = e BY <2>3, <2>5, RecordUpdates
  <2>7. offered' = [offered EXCEPT ![frameId] = [F EXCEPT !.rects = Append(F.rects, r)]]
    BY <1>2, <2>5, Zenon DEF Offer
  <2>8. offered' = [offered EXCEPT ![frameId] = e]
    <3>1. Append(F.rects, r) = A BY <2>2, <2>5 DEF FrameWritten
    <3> QED BY <2>6, <2>7, <3>1, Zenon
  <2>9. /\ e.rects = A /\ e.flushed = G
        /\ offered'[frameId] = e /\ DOMAIN offered' = DOMAIN offered
        /\ \A f \in DOMAIN offered : f # frameId => offered'[f] = offered[f]
    BY <2>1, <2>5, <2>8
  <2>10. IsSeq(offered') /\ Len(offered') = frameId'
    <3>1. PICK q : q = offered' OBVIOUS
    <3>2. q = [f \in 1..frameId |-> q[f]] BY <1>1, <2>8, <3>1
    <3> QED BY <2>1, <3>1, <3>2, FunctionSeq
  <2>11. OfferedOK'
    <3>1. \A j \in DOMAIN A : A[j] = AsRect(A[j])
      <4>1. \A j \in DOMAIN R : R[j] = AsRect(R[j]) BY <2>1, <2>2 DEF OfferedOK, FrameWritten
      <4> QED BY <2>4, <4>1
    <3>2. \A f \in DOMAIN offered' :
            /\ offered'[f] = [rects |-> offered'[f].rects, flushed |-> offered'[f].flushed]
            /\ IsSeq(offered'[f].rects)
            /\ \A j \in DOMAIN offered'[f].rects : offered'[f].rects[j] = AsRect(offered'[f].rects[j])
      <4>1. CASE frameId \in DOMAIN offered' BY <2>4, <2>5, <2>9, <3>1 DEF OfferedOK
      <4> QED BY <2>1, <2>9, <4>1
    <3> QED BY <2>10, <3>2 DEF OfferedOK
  <2>12. FrameWritten' = A BY <2>1, <2>9 DEF FrameWritten
  <2>13. Len(R) \in Nat BY <2>3, SeqIndices
  <2> QED BY <1>1, <1>2, <2>1, <2>2, <2>4, <2>9, <2>11, <2>12, <2>13
<1>3. CASE ~building
  <2>1. PICK e, a : e = [rects |-> a, flushed |-> FALSE] /\ a = <<r>> OBVIOUS
  <2>2. IsSeq(a) /\ Len(a) = 1 /\ a[1] = r /\ DOMAIN a = 1..1 BY <2>1, SingleSeq, SeqIndices
  <2>3. offered' = Append(offered, e) /\ frameId' = frameId + 1 BY <1>3, <2>1 DEF Offer
  <2>4. /\ IsSeq(Append(offered, e)) /\ Len(Append(offered, e)) = frameId + 1
        /\ DOMAIN Append(offered, e) = 1..frameId \cup {frameId + 1}
        /\ \A f \in 1..frameId : Append(offered, e)[f] = offered[f]
        /\ Append(offered, e)[frameId + 1] = e
    BY <1>1, AppendKeeps
  <2>5. /\ IsSeq(offered') /\ Len(offered') = frameId'
        /\ DOMAIN offered' = 1..frameId \cup {frameId'}
        /\ \A f \in 1..frameId : offered'[f] = offered[f]
        /\ offered'[frameId'] = e
    BY <2>3, <2>4
  <2>6. OfferedOK'
    <3>1. \A f \in DOMAIN offered' :
            /\ offered'[f] = [rects |-> offered'[f].rects, flushed |-> offered'[f].flushed]
            /\ IsSeq(offered'[f].rects)
            /\ \A j \in DOMAIN offered'[f].rects : offered'[f].rects[j] = AsRect(offered'[f].rects[j])
      <4>1. \A f \in 1..frameId : f \in DOMAIN offered BY <1>1
      <4>2. \A j \in DOMAIN a : a[j] = AsRect(a[j]) BY <2>2
      <4> QED BY <2>1, <2>2, <2>5, <4>1, <4>2 DEF OfferedOK
    <3> QED BY <2>5, <3>1 DEF OfferedOK
  <2>7. FrameWritten' = a BY <2>1, <2>5 DEF FrameWritten
  <2> QED BY <1>3, <2>2, <2>5, <2>6, <2>7
<1> QED BY <1>2, <1>3

LEMMA WriteKeepsQueue ==
    ASSUME PipelineOK, WriteAccepted
    PROVE  /\ OfferedOK' /\ QueueOK'
           /\ abortPending = NoAbort /\ (building \/ ~FrameOpen)
           /\ \A f \in 1..frameId : f # frameId' => f \in DOMAIN offered' /\ offered'[f] = offered[f]
           /\ building =>
                 /\ Popped' = Popped /\ UNCHANGED <<frameId, frameType>>
                 /\ \A j \in DOMAIN FrameWritten : FrameWritten'[j] = FrameWritten[j]
                 /\ offered'[frameId].flushed = offered[frameId].flushed
           /\ ~building => frameId' = frameId + 1 /\ Popped' = 0
           /\ count > 0 => slots'[head] = slots[head]
           /\ frameId \in Nat /\ frameId' \in Nat /\ frameId' >= frameId
<1>1. PICK a, px : WriteRect(a, px) /\ offered' = Offer([area |-> a, pixels |-> px])
  BY DEF WriteAccepted
<1>2. WriteVerdict = "Ok" BY <1>1 DEF WriteRect
<1>3. abortPending = NoAbort /\ (building \/ ~FrameOpen) /\ count < QueueSlots
  <2>1. /\ ~(abortPending # NoAbort /\ SameId(frameId, abortPending))
        /\ building \/ (~endQueued /\ ~(count > 0))
        /\ count # QueueSlots
    BY <1>2 DEF WriteVerdict
  <2>2. abortPending = NoAbort BY <2>1 DEF PipelineOK, FlagsOK, SameId
  <2>3. building \/ ~FrameOpen BY <2>1, <2>2 DEF FrameOpen, PipelineOK, FlagsOK
  <2>4. count < QueueSlots BY <2>1, QueueAssumption DEF PipelineOK, QueueOK
  <2> QED BY <2>2, <2>3, <2>4
<1>4. frameId \in Nat /\ Len(offered) = frameId /\ DOMAIN offered = 1..frameId
  BY SeqIndices DEF PipelineOK, OfferedOK
<1>5. PICK r : r = [area |-> a, pixels |-> px] OBVIOUS
<1>6. r = AsRect(r) /\ r.area = a /\ r.pixels = px BY <1>5 DEF AsRect
<1>7. frameId' = (IF ~building THEN frameId + 1 ELSE frameId) BY <1>1 DEF WriteRect
<1>8. building => frameId > 0 BY DEF PipelineOK, QueueOK, FrameOpen
<1>9. /\ OfferedOK'
      /\ \A f \in 1..frameId : f # frameId' => f \in DOMAIN offered' /\ offered'[f] = offered[f]
      /\ building =>
            /\ Len(FrameWritten') = Len(FrameWritten) + 1
            /\ \A j \in DOMAIN FrameWritten : FrameWritten'[j] = FrameWritten[j]
            /\ offered'[frameId].flushed = offered[frameId].flushed
      /\ ~building => Len(FrameWritten') = 1
      /\ FrameWritten'[Len(FrameWritten')] = r
  BY <1>1, <1>4, <1>5, <1>6, <1>7, <1>8, OfferAdds DEF PipelineOK
<1>10. PICK kind, n :
          /\ n = (IF ~building THEN 0 ELSE rectsWritten)
          /\ frameType' = kind /\ rectsWritten' = n + 1
          /\ building => kind = frameType
  BY <1>1 DEF WriteRect
<1>11. /\ rectsWritten \in Nat /\ count \in Nat /\ count <= rectsWritten /\ head \in InRing
       /\ count' = count + 1 /\ head' = head /\ QueueSlots \in Nat \ {0}
  BY <1>1, QueueAssumption DEF WriteRect, PipelineOK, QueueOK
<1>12. Popped' = (IF building THEN Popped ELSE 0)
  BY <1>3, <1>10, <1>11 DEF Popped, FrameOpen
<1>13. PICK w : /\ slots' = [slots EXCEPT ![(head + count) % QueueSlots] = w]
                /\ w.first <=> n = 0
                /\ w.kind = kind /\ w.frame = frameId' /\ w.area = a /\ w.pixels = px
  <2>1. PICK w : w = [first |-> n = 0, kind |-> kind, frame |-> frameId', area |-> a, pixels |-> px]
    OBVIOUS
  <2>2. slots' = [slots EXCEPT ![(head + count) % QueueSlots] = w]
    <3>1. slots' = [slots EXCEPT ![(head + count) % QueueSlots] =
                       [first |-> n = 0, kind |-> kind, frame |-> frameId', area |-> a, pixels |-> px]]
      BY <1>1, <1>10, Zenon DEF WriteRect
    <3> QED BY <2>1, <3>1, Zenon
  <2>3. (w.first <=> n = 0) /\ w.kind = kind /\ w.frame = frameId' /\ w.area = a /\ w.pixels = px
    BY <2>1, Zenon
  <2> QED BY <2>2, <2>3
<1>14. /\ count \in InRing /\ (head + count) % QueueSlots \in InRing
       /\ \A k \in InRing : /\ (head + k) % QueueSlots \in InRing
                             /\ (head + k) % QueueSlots = (head + count) % QueueSlots => k = count
       /\ (head + 0) % QueueSlots = head /\ 0 \in InRing
  <2>1. QueueSlots \in Nat \ {0} /\ head \in 0..(QueueSlots - 1) /\ count \in 0..(QueueSlots - 1)
    BY <1>3, <1>11 DEF InRing
  <2>2. \A k \in InRing : /\ (head + k) % QueueSlots \in InRing
                           /\ (head + k) % QueueSlots = (head + count) % QueueSlots => k = count
    <3>1. \A k \in 0..(QueueSlots - 1) : (head + k) % QueueSlots \in 0..(QueueSlots - 1)
      BY <2>1, RingSlots
    <3>2. \A j \in 0..(QueueSlots - 1) :
             (head + j) % QueueSlots = (head + count) % QueueSlots => j = count
      BY <2>1, RingSlots
    <3> QED BY <3>1, <3>2 DEF InRing
  <2>3. (head + count) % QueueSlots \in InRing /\ (head + 0) % QueueSlots = head
    BY <2>1, RingSlots DEF InRing
  <2> QED BY <2>1, <2>2, <2>3 DEF InRing
<1>15. /\ slots' = [i \in InRing |-> slots'[i]]
       /\ slots'[(head + count) % QueueSlots] = w
       /\ \A k \in InRing : k < count => slots'[(head + k) % QueueSlots] = SlotOf(k)
  <2>1. slots = [i \in InRing |-> slots[i]] BY DEF PipelineOK, QueueOK
  <2>2. slots' = [i \in InRing |-> slots'[i]] BY <1>13, <2>1
  <2>3. slots'[(head + count) % QueueSlots] = w BY <1>13, <1>14, <2>1
  <2>4. ASSUME NEW k \in InRing, k < count
        PROVE  slots'[(head + k) % QueueSlots] = slots[(head + k) % QueueSlots]
    <3>1. (head + k) % QueueSlots # (head + count) % QueueSlots BY <1>11, <1>14, <2>4 DEF InRing
    <3> QED BY <1>13, <1>14, <2>1, <3>1
  <2> QED BY <2>2, <2>3, <2>4 DEF SlotOf
<1>16. QueueOK'
  <2>1. /\ head' \in InRing /\ count' \in 0..QueueSlots
        /\ rectsWritten' \in Nat /\ count' <= rectsWritten'
    BY <1>3, <1>10, <1>11, <1>14 DEF FrameOpen
  <2>2. frameId > 0 => rectsWritten = Len(FrameWritten) BY DEF PipelineOK, QueueOK
  <2>3. rectsWritten' = Len(FrameWritten') /\ frameId' > 0
    BY <1>4, <1>7, <1>8, <1>9, <1>10, <2>2
  <2>4. FrameWritten'[rectsWritten'] = r BY <1>9, <2>3
  <2>5. ASSUME NEW k \in InRing, k < count'
        PROVE  LET s == slots'[(head + k) % QueueSlots]
               IN  /\ s.first <=> Popped' + k = 0
                   /\ s.kind = frameType' /\ s.frame = frameId'
                   /\ s.area = FrameWritten'[Popped' + k + 1].area
                   /\ s.pixels = FrameWritten'[Popped' + k + 1].pixels
    <3>1. CASE k = count
      <4>1. Popped' + k + 1 = rectsWritten' /\ (Popped' + k = 0 <=> n = 0)
        BY <1>3, <1>10, <1>11, <1>12, <3>1 DEF Popped, FrameOpen
      <4> QED BY <1>6, <1>10, <1>13, <1>15, <2>4, <3>1, <4>1
    <3>2. CASE k < count
      <4>1. building /\ count > 0 BY <1>3, <1>11, <3>2 DEF FrameOpen, InRing
      <4>2. Popped' = Popped /\ frameId' = frameId /\ frameType' = frameType /\ frameId > 0
        BY <1>7, <1>8, <1>10, <1>12, <4>1
      <4>3. /\ SlotOf(k).first <=> Popped + k = 0
            /\ SlotOf(k).kind = frameType /\ SlotOf(k).frame = frameId
            /\ SlotOf(k).area = FrameWritten[Popped + k + 1].area
            /\ SlotOf(k).pixels = FrameWritten[Popped + k + 1].pixels
        BY <3>2 DEF PipelineOK, QueueOK
      <4>4. Popped + k + 1 \in DOMAIN FrameWritten
        <5>1. DOMAIN FrameWritten = 1..rectsWritten
          BY <1>4, <2>2, <4>2, SeqIndices DEF PipelineOK, OfferedOK, FrameWritten
        <5> QED BY <1>11, <3>2, <5>1 DEF Popped, InRing
      <4>5. FrameWritten'[Popped + k + 1] = FrameWritten[Popped + k + 1] BY <1>9, <4>1, <4>4
      <4> QED BY <1>15, <3>2, <4>2, <4>3, <4>5
    <3>3. k = count \/ k < count BY <1>11, <2>5 DEF InRing
    <3> QED BY <3>1, <3>2, <3>3
  <2>6. \A k \in InRing : SlotOf(k)' = slots'[(head + k) % QueueSlots] BY <1>11 DEF SlotOf
  <2> QED BY <1>15, <2>1, <2>3, <2>5, <2>6 DEF QueueOK
<1>17. count > 0 => slots'[head] = slots[head] BY <1>14, <1>15 DEF SlotOf
<1>18. building => frameId' = frameId /\ frameType' = frameType BY <1>7, <1>10
<1>19. frameId' \in Nat /\ frameId' >= frameId BY <1>4, <1>7
<1> QED BY <1>3, <1>4, <1>7, <1>9, <1>12, <1>16, <1>17, <1>18, <1>19

LEMMA WritePreserves ==
    ASSUME PipelineOK, WriteAccepted, connected, connected' = connected
    PROVE  PipelineOK'
<1> USE DEF PipelineOK
<1>1. PICK a, px : WriteRect(a, px) BY DEF WriteAccepted
<1>2. UNCHANGED <<assemblerVars, session, pumpVars, wireVars, endQueued, head, abortPending, linkVars>>
  BY <1>1 DEF WriteAccepted, WriteRect, hostVars
<1>3. count' = count + 1 /\ count \in Nat /\ building' = TRUE
  BY <1>1, QueueAssumption DEF WriteRect, QueueOK
<1>4. frameType' = (IF building THEN frameType ELSE IF needFull THEN "FULL" ELSE "PARTIAL")
  BY <1>1 DEF WriteRect
<1>5. building \/ ~FrameOpen BY WriteKeepsQueue
<1>6. (count > 0 \/ wireOpen \/ endQueued) => building BY <1>5 DEF FrameOpen
<1>7. FrameOpen' /\ (building => FrameOpen) BY <1>3 DEF FrameOpen
<1>8. /\ frameId \in Nat /\ frameId' \in Nat /\ frameId' >= frameId
      /\ building => frameId' = frameId /\ frameType' = frameType /\ Popped' = Popped /\ frameId > 0
      /\ ~building => frameId' = frameId + 1
      /\ \A f \in 1..frameId : f # frameId' => offered'[f] = offered[f]
      /\ building => \A j \in DOMAIN FrameWritten : FrameWritten'[j] = FrameWritten[j]
  BY <1>7, WriteKeepsQueue DEF QueueOK
<1>9. OfferedOK' /\ QueueOK' BY WriteKeepsQueue
<1>10. FlagsOK'
  <2>1. frameType' \in {"FULL", "PARTIAL"} BY <1>4 DEF FlagsOK
  <2>2. abortPending' = NoAbort BY <1>2, WriteKeepsQueue
  <2>3. wireOpen' => wire'.frame = frameId' BY <1>2, <1>6, <1>8 DEF wireVars, FlagsOK
  <2>4. connected' <=> Linked' BY <1>2 DEF linkVars, FlagsOK, Linked
  <2>5. endQueued' => offered'[frameId'].flushed
    BY <1>2, <1>6, <1>8, WriteKeepsQueue DEF FlagsOK
  <2>6. wire' = [frame |-> wire'.frame, rects |-> wire'.rects] BY <1>2 DEF wireVars, FlagsOK
  <2> QED BY <1>2, <1>3, <2>1, <2>2, <2>3, <2>4, <2>5, <2>6 DEF FlagsOK
<1>11. PumpOK'
  <2>1. count' > 0 BY <1>3
  <2>2. pumpPc \in {"begin", "begun", "rect", "rectSent"} => entrySlot' = head' /\ entry' = slots'[head']
    BY <1>2, WriteKeepsQueue DEF PumpOK, pumpVars
  <2>3. pumpPc \in {"begin", "begun"} => Popped' = 0 /\ ~wireOpen'
    BY <1>2, <1>6, <1>8 DEF PumpOK, wireVars
  <2>4. wireOpen' /\ Popped' = 0 => pumpPc \in {"rect", "rectSent", "pop"}
    BY <1>2, <1>6, <1>8 DEF PumpOK, wireVars
  <2> QED BY <1>2, <2>1, <2>2, <2>3, <2>4 DEF PumpOK, pumpVars, wireVars
<1>12. HostFollows'
  <2>1. ASSUME NEW n \in Nat, n <= rectsWritten, building, HostHas(n) PROVE HostHas(n)'
    <3>1. 1..n \subseteq DOMAIN FrameWritten
      <4>1. IsSeq(FrameWritten) /\ rectsWritten = Len(FrameWritten)
        BY <1>8, <2>1, SeqIndices DEF OfferedOK, QueueOK, FrameWritten
      <4> QED BY <2>1, <4>1, SeqIndices
    <3>2. \A j \in 1..n : FrameWritten'[j] = FrameWritten[j] BY <1>8, <2>1, <3>1
    <3> QED BY <1>2, <1>8, <2>1, <3>2 DEF HostHas, AsRect, assemblerVars
  <2>2. Popped \in Nat /\ Popped + count = rectsWritten BY <1>3 DEF Popped, QueueOK
  <2>3. ASSUME Up', wireOpen', abortPending' = NoAbort, pumpPc' = "rectSent" => sendOk'
        PROVE  /\ wire'.rects = Popped' + (IF pumpPc' = "pop" THEN 1 ELSE 0)
               /\ (HostHas(Popped + (IF pumpPc \in {"pop", "rectSent"} THEN 1 ELSE 0)))'
    <3>1. building /\ Popped' = Popped BY <1>2, <1>6, <1>8, <2>3 DEF wireVars
    <3>2. /\ wire.rects = Popped + (IF pumpPc = "pop" THEN 1 ELSE 0)
          /\ HostHas(Popped + (IF pumpPc \in {"pop", "rectSent"} THEN 1 ELSE 0))
      BY <1>2, <2>3 DEF HostFollows, wireVars, pumpVars, Up
    <3>3. PICK n \in Nat : n = Popped + (IF pumpPc \in {"pop", "rectSent"} THEN 1 ELSE 0) BY <2>2
    <3>4. n <= rectsWritten BY <1>3, <2>2, <3>3 DEF PumpOK
    <3>5. HostHas(n)' BY <2>1, <3>1, <3>2, <3>3, <3>4
    <3>6. \A m : m = n => HostHas(m)' BY <3>5
    <3>7. Popped' + (IF pumpPc' \in {"pop", "rectSent"} THEN 1 ELSE 0) = n
      BY <1>2, <3>1, <3>3 DEF pumpVars
    <3> QED BY <1>2, <3>1, <3>2, <3>6, <3>7 DEF wireVars, pumpVars
  <2>4. ASSUME Up', pumpPc' = "begun", sendOk' PROVE HostHas(0)'
    <3>1. building /\ HostHas(0) BY <1>2, <1>6, <2>4 DEF PumpOK, HostFollows, pumpVars, Up
    <3> QED BY <2>1, <3>1, <2>2, <1>3
  <2> QED BY <2>3, <2>4 DEF HostFollows
<1>13. \A n : BaseComes(n)' <=> BaseComes(n)
  BY <1>2 DEF BaseComes, BaseShown, Ending, assemblerVars, pumpVars
<1>14. EndOK'
  <2> SUFFICES ASSUME Ending', Up' PROVE EndOK' BY DEF EndOK
  <2>1. Ending /\ Up BY <1>2 DEF Ending, Up, pumpVars
  <2>2. endMsg.frame \in 1..frameId' /\ endMsg.frame < frameId' /\ endMsg.frame \in 1..frameId
    BY <1>7, <1>8, <2>1 DEF EndOK
  <2>3. offered'[endMsg.frame] = offered[endMsg.frame] BY <1>8, <2>2
  <2>4. UNCHANGED <<assemblerVars, endMsg>> BY <1>2 DEF pumpVars
  <2>5. /\ endMsg.frame \in 1..frameId'
        /\ FrameOpen' => endMsg.frame < frameId'
        /\ offered'[endMsg.frame].flushed
        /\ frameState = "InFrame"
        /\ begin.frameId = endMsg.frame
        /\ begin.kind \in {"FULL", "PARTIAL"}
        /\ rectCount = endMsg.rects /\ byteCount = endMsg.bytes
        /\ IsSeq(received) /\ Len(received) = Len(offered'[endMsg.frame].rects)
        /\ \A j \in DOMAIN received :
              AsRect(received[j][1].msg) = AsRect(offered'[endMsg.frame].rects[j])
        /\ begin.kind = "PARTIAL" => BaseShown(endMsg.frame - 1)
    BY <2>1, <2>2, <2>3 DEF EndOK
  <2>6. (begin.kind = "PARTIAL" => BaseShown(endMsg.frame - 1))'
    BY <2>4, <2>5 DEF BaseShown, assemblerVars
  <2>7. (\A j \in DOMAIN received :
            AsRect(received[j][1].msg) = AsRect(offered[endMsg.frame].rects[j]))'
    BY <2>4, <2>5 DEF AsRect, assemblerVars
  <2> QED BY <2>4, <2>5, <2>6, <2>7 DEF EndOK, assemblerVars
<1>15. ChainOK'
  <2> SUFFICES ASSUME Up', frameType' = "PARTIAL" PROVE BaseComes(frameId - 1)'
    BY <1>7 DEF ChainOK
  <2>1. Up BY <1>2 DEF Up
  <2>2. CASE building BY <1>7, <1>8, <1>13, <2>1, <2>2 DEF ChainOK
  <2>3. CASE ~building
    <3>1. BaseComes(frameId) BY <1>4, <1>5, <2>1, <2>3 DEF ChainOK
    <3>2. frameId' - 1 = frameId BY <1>8, <2>3
    <3> QED BY <1>13, <3>1, <3>2
  <2> QED BY <2>2, <2>3
<1>16. CommittedOK'
  <2>1. ASSUME NEW i \in DOMAIN committed
        PROVE  /\ committed[i].frameId \in 1..frameId' /\ committed[i].frameId < frameId'
               /\ IsWhole(committed[i])'
    <3>1. committed[i].frameId \in 1..frameId /\ committed[i].frameId < frameId'
      BY <1>5, <1>7, <1>8 DEF CommittedOK
    <3>2. offered'[committed[i].frameId] = offered[committed[i].frameId] BY <1>8, <3>1
    <3>3. IsWhole(committed[i]) BY DEF CommittedOK
    <3>4. offered'[committed[i].frameId].flushed
          /\ RectsOf(committed[i]) = offered'[committed[i].frameId].rects
      BY <3>2, <3>3 DEF IsWhole
    <3>5. UNCHANGED committed BY <1>2 DEF assemblerVars
    <3>6. IsWhole(committed[i])' BY <3>4, <3>5 DEF IsWhole, RectsOf
    <3> QED BY <1>8, <3>1, <3>6
  <2> QED BY <1>2, <2>1 DEF CommittedOK, assemblerVars
<1> QED BY <1>9, <1>10, <1>11, <1>12, <1>14, <1>15, <1>16

\* With nothing under way and a FULL frame to come, nothing is asked of the host.
LEMMA AtRest ==
    ASSUME FrameOpen' = FALSE, needFull', pumpPc' = "idle"
    PROVE  HostFollows' /\ EndOK' /\ ChainOK'
<1>1. ~FrameOpen' /\ ~wireOpen' BY DEF FrameOpen
<1>2. HostFollows' BY <1>1 DEF HostFollows
<1>3. EndOK' BY DEF EndOK, Ending
<1>4. ChainOK' BY <1>1 DEF ChainOK
<1> QED BY <1>2, <1>3, <1>4

LEMMA QuietSteps ==
    ASSUME PipelineOK, UNCHANGED <<displayVars, assemblerVars, offered>>,
           \/ UNCHANGED session
           \/ session = "announced" /\ session' = "connected"
           \/ session = "lost" /\ session' = "cleared"
    PROVE  PipelineOK'
<1> USE DEF PipelineOK, displayVars, uiVars, queueVars, wireVars, pumpVars, linkVars
<1>1. (Up' <=> Up) /\ (Linked' <=> Linked) BY DEF Up, Linked
<1>2. FrameOpen' <=> FrameOpen BY DEF FrameOpen
<1>3. OfferedOK' BY DEF OfferedOK, AsRect
<1>4. QueueOK' BY <1>2 DEF QueueOK, SlotOf, FrameWritten, Popped
<1>5. FlagsOK' BY <1>1, <1>2 DEF FlagsOK
<1>6. PumpOK' BY DEF PumpOK, Popped
<1>7. HostFollows' BY <1>1 DEF HostFollows, HostHas, Popped, FrameWritten, AsRect, assemblerVars
<1>8. EndOK' BY <1>1, <1>2 DEF EndOK, Ending, BaseShown, AsRect, assemblerVars
<1>9. ChainOK' BY <1>1, <1>2 DEF ChainOK, BaseComes, BaseShown, Ending, assemblerVars
<1>10. CommittedOK' BY <1>2 DEF CommittedOK, IsWhole, RectsOf, assemblerVars
<1> QED BY <1>3, <1>4, <1>5, <1>6, <1>7, <1>8, <1>9, <1>10

LEMMA SessionPreserves ==
    ASSUME PipelineOK, SessionUp \/ NotifyConnected \/ SessionLost
    PROVE  PipelineOK'
<1> USE DEF PipelineOK, displayVars, uiVars, queueVars, wireVars, pumpVars, linkVars
<1>1. UNCHANGED <<uiVars, queueVars, wireVars, pumpVars, abortPending, committed, offered>>
  BY DEF SessionUp, NotifyConnected, SessionLost, OnConnected, AssemblerReset, hostVars, history,
         assemblerVars
<1>2. FrameOpen' <=> FrameOpen BY <1>1 DEF FrameOpen
<1>3. OfferedOK' BY <1>1 DEF OfferedOK, AsRect
<1>4. QueueOK' BY <1>1, <1>2 DEF QueueOK, SlotOf, FrameWritten, Popped
<1>5. PumpOK' BY <1>1 DEF PumpOK, Popped
<1>6. CommittedOK' BY <1>1, <1>2 DEF CommittedOK, IsWhole, RectsOf
<1>7. CASE SessionLost
  <2>1. UNCHANGED <<connected, needFull>> /\ session = "connected" /\ session' = "lost"
    BY <1>7 DEF SessionLost, Go
  <2>2. ~Up' /\ (Linked' <=> Linked) BY <2>1 DEF Up, Linked
  <2>3. FlagsOK' BY <1>1, <1>2, <2>1, <2>2 DEF FlagsOK
  <2>4. HostFollows' /\ EndOK' /\ ChainOK' BY <2>2 DEF HostFollows, EndOK, ChainOK
  <2> QED BY <1>3, <1>4, <1>5, <1>6, <2>3, <2>4
<1>8. CASE SessionUp \/ NotifyConnected
  <2>1. ~connected BY <1>8 DEF SessionUp, NotifyConnected, Go, FlagsOK, Linked
  <2>2. ~FrameOpen /\ needFull /\ pumpPc = "idle" /\ abortPending = NoAbort BY <2>1 DEF FlagsOK
  <2>3. needFull' BY <1>8, <2>2 DEF SessionUp, NotifyConnected, OnConnected
  <2>4. connected' <=> Linked'
    BY <1>8, <2>1 DEF SessionUp, NotifyConnected, OnConnected, Go, Linked
  <2>5. FlagsOK' BY <1>1, <1>2, <2>2, <2>3, <2>4 DEF FlagsOK
  <2>6. FrameOpen' = FALSE BY <1>2, <2>2 DEF FrameOpen
  <2>7. HostFollows' /\ EndOK' /\ ChainOK' BY <1>1, <2>2, <2>3, <2>6, AtRest
  <2> QED BY <1>3, <1>4, <1>5, <1>6, <2>5, <2>7
<1> QED BY <1>7, <1>8

\* The session's end, or a switch of the router, while the TX task is at rest.
LEMMA ForgetPreserves ==
    ASSUME PipelineOK, Forget, pumpPc = "idle", UNCHANGED <<assemblerVars, offered>>,
           \/ ~connected' /\ session' = "down"
           \/ UNCHANGED <<connected, session>>
    PROVE  PipelineOK'
<1> USE DEF PipelineOK, uiVars, queueVars, wireVars, pumpVars, linkVars
<1>1. /\ head' = 0 /\ count' = 0 /\ ~building' /\ ~endQueued' /\ ~wireOpen' /\ needFull'
      /\ abortPending' = NoAbort
      /\ UNCHANGED <<frameId, frameType, rectsWritten, slots, wire, pumpVars, offered>>
  BY DEF Forget
<1>2. FrameOpen' = FALSE BY <1>1 DEF FrameOpen
<1>3. OfferedOK' BY <1>1 DEF OfferedOK, AsRect
<1>4. QueueOK' BY <1>1, <1>2, QueueAssumption DEF QueueOK, FrameWritten, InRing
<1>5. connected' <=> Linked' BY DEF Linked, FlagsOK
<1>6. FlagsOK' BY <1>1, <1>2, <1>5 DEF FlagsOK
<1>7. PumpOK' BY <1>1 DEF PumpOK
<1>8. HostFollows' /\ EndOK' /\ ChainOK' BY <1>1, <1>2, AtRest
<1>9. CommittedOK' BY <1>1, <1>2 DEF CommittedOK, IsWhole, RectsOf, assemblerVars
<1> QED BY <1>3, <1>4, <1>6, <1>7, <1>8, <1>9

LEMMA DropPreserves ==
    ASSUME PipelineOK, DropPendingFrame, UNCHANGED <<session, assemblerVars, offered>>
    PROVE  PipelineOK'
<1> USE DEF PipelineOK, queueVars, wireVars, pumpVars, linkVars
<1>1. UNCHANGED <<frameId, frameType, rectsWritten, queueVars, wireVars, pumpVars, linkVars>>
      /\ needFull'
  BY DEF DropPendingFrame
<1>2. frameId > 0 \/ ~FrameOpen BY DEF QueueOK
<1>3. /\ abortPending' = (IF abortPending = NoAbort /\ FrameOpen THEN frameId ELSE abortPending)
      /\ building' => building /\ abortPending' = NoAbort
      /\ endQueued' => endQueued /\ abortPending' = NoAbort
  BY DEF DropPendingFrame
<1>4. /\ abortPending' = NoAbort => abortPending = NoAbort /\ ~FrameOpen
      /\ abortPending' # NoAbort =>
            (abortPending' = frameId /\ FrameOpen) \/ abortPending' = abortPending
  BY <1>2, <1>3 DEF NoAbort
<1>5. FrameOpen' => FrameOpen BY <1>1, <1>3 DEF FrameOpen
<1>6. OfferedOK' BY <1>1 DEF OfferedOK, AsRect
<1>7. QueueOK' BY <1>1, <1>5 DEF QueueOK, SlotOf, FrameWritten, Popped
<1>8. FlagsOK'
  <2>1. count' > 0 \/ wireOpen' => building' \/ endQueued' \/ abortPending' # NoAbort
    BY <1>1, <1>4 DEF FrameOpen
  <2>2. abortPending' # NoAbort => abortPending' = frameId' /\ needFull' BY <1>1, <1>4 DEF FlagsOK
  <2>3. connected' <=> Linked' BY <1>1 DEF FlagsOK, Linked
  <2>4. ~connected' => FrameOpen' = FALSE /\ needFull' /\ pumpPc' = "idle" /\ abortPending' = NoAbort
    <3>1. CASE connected BY <1>1, <3>1
    <3>2. CASE ~connected BY <1>1, <1>3, <1>5, <3>2 DEF FlagsOK, FrameOpen
    <3> QED BY <3>1, <3>2
  <2>5. endQueued' => offered'[frameId'].flushed BY <1>1, <1>3 DEF FlagsOK
  <2>6. frameType' \in {"FULL", "PARTIAL"} /\ (wireOpen' => wire'.frame = frameId') BY <1>1 DEF FlagsOK
  <2>7. wire' = [frame |-> wire'.frame, rects |-> wire'.rects] BY <1>1 DEF FlagsOK
  <2> QED BY <2>1, <2>2, <2>3, <2>4, <2>5, <2>6, <2>7 DEF FlagsOK
<1>9. PumpOK' BY <1>1 DEF PumpOK, Popped
<1>10. HostFollows'
  BY <1>1, <1>4 DEF HostFollows, HostHas, Popped, FrameWritten, AsRect, assemblerVars, Up
<1>11. EndOK' BY <1>1, <1>5 DEF EndOK, Ending, BaseShown, AsRect, assemblerVars, Up
<1>12. ChainOK' BY <1>1, <1>5 DEF ChainOK, BaseComes, BaseShown, Ending, assemblerVars, Up
<1>13. CommittedOK' BY <1>1, <1>5 DEF CommittedOK, IsWhole, RectsOf, assemblerVars
<1> QED BY <1>6, <1>7, <1>8, <1>9, <1>10, <1>11, <1>12, <1>13

LEMMA FlushMarks ==
    ASSUME OfferedOK, frameId \in Nat, building => frameId > 0, UNCHANGED frameId,
           offered' = IF building THEN [offered EXCEPT ![frameId].flushed = TRUE] ELSE offered
    PROVE  /\ OfferedOK'
           /\ \A f \in DOMAIN offered : offered'[f].rects = offered[f].rects
           /\ \A f \in DOMAIN offered : offered[f].flushed => offered'[f].flushed
           /\ building => offered'[frameId].flushed
<1>1. CASE ~building BY <1>1 DEF OfferedOK, AsRect
<1>2. CASE building
  <2>1. IsSeq(offered) /\ Len(offered) = frameId /\ DOMAIN offered = 1..frameId
    BY SeqIndices DEF OfferedOK
  <2>2. PICK F, R, G, T : F = offered[frameId] /\ R = F.rects /\ G = F.flushed /\ T = TRUE OBVIOUS
  <2>3. PICK e : e = [rects |-> R, flushed |-> T] OBVIOUS
  <2>4. F = [rects |-> R, flushed |-> G] BY <1>2, <2>1, <2>2 DEF OfferedOK
  <2>5. [F EXCEPT !.flushed = T] = e BY <2>3, <2>4, RecordUpdates
  <2>6. offered' = [offered EXCEPT ![frameId] = e]
    <3>1. offered' = [offered EXCEPT ![frameId] = [F EXCEPT !.flushed = T]] BY <1>2, <2>2, Zenon
    <3> QED BY <2>5, <3>1, Zenon
  <2>7. /\ e.rects = R /\ e.flushed /\ frameId \in 1..frameId
        /\ offered'[frameId] = e /\ DOMAIN offered' = 1..frameId
        /\ \A f \in 1..frameId : f # frameId => offered'[f] = offered[f]
    <3>1. e.rects = R /\ e.flushed = T BY <2>3
    <3>2. T BY <2>2
    <3>3. frameId \in 1..frameId BY <1>2
    <3>4. DOMAIN offered' = 1..frameId /\ offered'[frameId] = e BY <2>1, <2>6, <3>3
    <3>5. \A f \in 1..frameId : f # frameId => offered'[f] = offered[f] BY <2>1, <2>6
    <3>6. e.flushed BY <3>1, <3>2, Zenon
    <3> QED BY <3>1, <3>3, <3>4, <3>5, <3>6
  <2>8. IsSeq(offered') /\ Len(offered') = frameId'
    <3>1. PICK q : q = offered' OBVIOUS
    <3>2. q = [f \in 1..frameId |-> q[f]] BY <2>1, <2>6, <3>1
    <3>3. IsSeq(q) /\ Len(q) = frameId BY <1>2, <3>2, FunctionSeq
    <3>4. frameId' = frameId OBVIOUS
    <3> QED BY <3>1, <3>3, <3>4
  <2>9. \A f \in DOMAIN offered' :
          /\ offered'[f] = [rects |-> offered'[f].rects, flushed |-> offered'[f].flushed]
          /\ IsSeq(offered'[f].rects)
          /\ \A j \in DOMAIN offered'[f].rects : offered'[f].rects[j] = AsRect(offered'[f].rects[j])
    <3>1. ASSUME NEW f \in 1..frameId
          PROVE  /\ offered'[f] = [rects |-> offered'[f].rects, flushed |-> offered'[f].flushed]
                 /\ IsSeq(offered'[f].rects)
                 /\ \A j \in DOMAIN offered'[f].rects : offered'[f].rects[j] = AsRect(offered'[f].rects[j])
      <4>1. CASE f = frameId
        <5>1. e = [rects |-> e.rects, flushed |-> e.flushed] BY <2>3
        <5>2. IsSeq(R) /\ \A j \in DOMAIN R : R[j] = AsRect(R[j]) BY <2>1, <2>2, <2>7 DEF OfferedOK
        <5>3. offered'[f] = e /\ e.rects = R BY <2>7, <4>1
        <5>4. /\ offered'[f] = [rects |-> offered'[f].rects, flushed |-> offered'[f].flushed]
              /\ offered'[f].rects = R
          BY <5>1, <5>3
        <5> QED BY <5>2, <5>4
      <4>2. CASE f # frameId BY <2>1, <2>7, <3>1, <4>2 DEF OfferedOK
      <4> QED BY <4>1, <4>2
    <3> QED BY <2>7, <3>1
  <2>10. OfferedOK' BY <2>8, <2>9 DEF OfferedOK, AsRect
  <2> QED BY <2>1, <2>2, <2>7, <2>10
<1> QED BY <1>1, <1>2

LEMMA FlushPreserves ==
    ASSUME PipelineOK, FlushFrame
    PROVE  PipelineOK'
<1> USE DEF PipelineOK, queueVars, wireVars, pumpVars, linkVars
<1>1. UNCHANGED <<frameId, frameType, rectsWritten, queueVars, wireVars, pumpVars, linkVars,
                  needFull, abortPending, session, assemblerVars>>
  BY DEF FlushFrame, Flush, hostVars
<1>2. building' = FALSE /\ endQueued' = (endQueued \/ building)
  BY DEF FlushFrame, Flush
<1>3. FrameOpen' <=> FrameOpen BY <1>1, <1>2 DEF FrameOpen
<1>4. frameId \in Nat /\ DOMAIN offered = 1..frameId BY SeqIndices DEF OfferedOK
<1>5. /\ OfferedOK'
      /\ \A f \in DOMAIN offered : offered'[f].rects = offered[f].rects
      /\ \A f \in DOMAIN offered : offered[f].flushed => offered'[f].flushed
      /\ building => offered'[frameId].flushed
  <2>1. building => frameId > 0 BY DEF QueueOK, FrameOpen
  <2>2. offered' = IF building THEN [offered EXCEPT ![frameId].flushed = TRUE] ELSE offered
    BY DEF FlushFrame
  <2> QED BY <1>1, <1>4, <2>1, <2>2, FlushMarks
<1>6. frameId > 0 => FrameWritten' = FrameWritten BY <1>1, <1>4, <1>5 DEF FrameWritten
<1>7. QueueOK'
  <2>1. \A k \in InRing : k < count => FrameOpen BY QueueAssumption DEF InRing, QueueOK, FrameOpen
  <2>2. FrameOpen => frameId > 0 BY DEF QueueOK
  <2> QED BY <1>1, <1>3, <1>6, <2>1, <2>2 DEF QueueOK, SlotOf, Popped
<1>8. FlagsOK'
  <2>1. endQueued' => offered'[frameId].flushed
    <3>1. endQueued \/ building => frameId \in DOMAIN offered BY <1>4 DEF QueueOK, FrameOpen
    <3> QED BY <1>2, <1>5, <3>1 DEF FlagsOK
  <2>2. connected' <=> Linked' BY <1>1 DEF FlagsOK, Linked
  <2>3. count' > 0 \/ wireOpen' => building' \/ endQueued' \/ abortPending' # NoAbort
    BY <1>1, <1>2 DEF FlagsOK
  <2> QED BY <1>1, <1>3, <2>1, <2>2, <2>3 DEF FlagsOK
<1>9. PumpOK' BY <1>1 DEF PumpOK, Popped
<1>10. HostFollows'
  <2>1. wireOpen \/ pumpPc = "begun" => frameId > 0 BY DEF QueueOK, FrameOpen, PumpOK
  <2> QED BY <1>1, <1>6, <2>1 DEF HostFollows, HostHas, Popped, AsRect, assemblerVars, Up
<1>11. EndOK' BY <1>1, <1>3, <1>4, <1>5 DEF EndOK, Ending, BaseShown, AsRect, assemblerVars, Up
<1>12. ChainOK' BY <1>1, <1>3 DEF ChainOK, BaseComes, BaseShown, Ending, assemblerVars, Up
<1>13. CommittedOK'
  <2>1. DOMAIN offered' = DOMAIN offered
    <3>1. offered' = IF building THEN [offered EXCEPT ![frameId].flushed = TRUE] ELSE offered
      BY DEF FlushFrame
    <3> QED BY <3>1
  <2> QED BY <1>1, <1>3, <1>4, <1>5, <2>1 DEF CommittedOK, IsWhole, RectsOf, assemblerVars
<1> QED BY <1>5, <1>7, <1>8, <1>9, <1>10, <1>11, <1>12, <1>13

-----------------------------------------------------------------------------
(* The TX task.                                                            *)

\* What the steps of pump() leave alone.
LEMMA PumpAside ==
    ASSUME PipelineOK, UNCHANGED <<frameId, frameType, offered, session, connected, assemblerVars>>,
           FrameOpen' => FrameOpen, needFull => needFull'
    PROVE  /\ OfferedOK' /\ CommittedOK'
           /\ UNCHANGED FrameWritten
           /\ \A n : HostHas(n)' <=> HostHas(n)
           /\ (Up' <=> Up) /\ (Linked' <=> Linked)
           /\ \A n : BaseShown(n)' <=> BaseShown(n)
<1> USE DEF PipelineOK
<1>1. OfferedOK' BY DEF OfferedOK, AsRect
<1>2. CommittedOK' BY DEF CommittedOK, IsWhole, RectsOf, assemblerVars
<1>3. UNCHANGED FrameWritten BY DEF FrameWritten
<1>4. \A n : HostHas(n)' <=> HostHas(n) BY <1>3 DEF HostHas, AsRect, assemblerVars
<1>5. \A n : BaseShown(n)' <=> BaseShown(n) BY DEF BaseShown, assemblerVars
<1> QED BY <1>1, <1>2, <1>3, <1>4, <1>5 DEF Up, Linked

\* No END is under way before the step, nor after it.
LEMMA NotEnding ==
    ASSUME PipelineOK, UNCHANGED <<frameId, frameType, offered, session, connected, assemblerVars>>,
           FrameOpen' => FrameOpen, needFull => needFull', needFull' \/ (FrameOpen => FrameOpen'),
           pumpPc # "end", pumpPc' # "end"
    PROVE  EndOK' /\ ChainOK'
<1>1. EndOK' BY DEF EndOK, Ending
<1>2. \A n : BaseComes(n)' <=> BaseComes(n) BY PumpAside DEF BaseComes, Ending
<1>3. ChainOK' BY <1>2, PumpAside DEF ChainOK, PipelineOK
<1> QED BY <1>1, <1>3

\* The slot at the head of the queue holds the next rectangle of the frame.
LEMMA HeadOfQueue ==
    ASSUME PipelineOK, count > 0
    PROVE  /\ slots[head].first <=> Popped = 0
           /\ slots[head].kind = frameType /\ slots[head].frame = frameId
           /\ slots[head].area = FrameWritten[Popped + 1].area
           /\ slots[head].pixels = FrameWritten[Popped + 1].pixels
           /\ connected /\ frameId > 0
           /\ Popped \in Nat /\ Popped + count = rectsWritten /\ rectsWritten = Len(FrameWritten)
<1> USE DEF PipelineOK
<1>1. 0 \in InRing /\ (head + 0) % QueueSlots = head
  BY QueueAssumption, RingSlots DEF QueueOK, InRing
<1>2. SlotOf(0) = slots[head] BY <1>1 DEF SlotOf
<1>3. Popped \in Nat /\ Popped + count = rectsWritten BY QueueAssumption DEF QueueOK, Popped
<1>4. connected /\ frameId > 0 BY DEF FlagsOK, QueueOK, FrameOpen
<1>5. Popped + 0 = Popped /\ Popped + 0 + 1 = Popped + 1 BY <1>3
<1> QED BY <1>1, <1>2, <1>3, <1>4, <1>5 DEF QueueOK

LEMMA PopKeeps ==
    ASSUME PipelineOK, count > 0, PopFront,
           UNCHANGED <<frameId, frameType, rectsWritten, offered, building, endQueued, wireOpen>>
    PROVE  /\ QueueOK' /\ Popped' = Popped + 1 /\ Popped' \in Nat
           /\ count' = count - 1 /\ count' \in Nat /\ (FrameOpen' => FrameOpen)
<1> USE DEF PipelineOK
<1>1. /\ head' = (head + 1) % QueueSlots /\ count' = count - 1 /\ UNCHANGED slots
      /\ count \in Nat /\ rectsWritten \in Nat /\ count <= rectsWritten /\ count <= QueueSlots
      /\ head \in 0..(QueueSlots - 1) /\ QueueSlots \in Nat \ {0}
  BY QueueAssumption DEF PopFront, QueueOK, InRing
<1>2. Popped' = Popped + 1 /\ Popped \in Nat BY <1>1 DEF Popped
<1>3. FrameOpen' => FrameOpen BY <1>1 DEF FrameOpen
<1>4. UNCHANGED FrameWritten BY DEF FrameWritten
<1>5. head' \in InRing BY <1>1, RingSlots DEF InRing
<1>6. ASSUME NEW k \in InRing, k < count'
      PROVE  /\ k + 1 \in InRing /\ k + 1 < count
             /\ slots'[(head' + k) % QueueSlots] = SlotOf(k + 1)
             /\ Popped' + k = Popped + (k + 1)
  <2>1. k \in 0..(QueueSlots - 1) /\ k + 1 < count /\ k + 1 < QueueSlots BY <1>1, <1>6 DEF InRing
  <2>2. (((head + 1) % QueueSlots) + k) % QueueSlots = (head + (k + 1)) % QueueSlots
    BY <1>1, <2>1, RingNext
  <2> QED BY <1>1, <1>2, <2>1, <2>2 DEF SlotOf, InRing
<1>7. \A k \in InRing : k < count' =>
          LET s == slots'[(head' + k) % QueueSlots]
          IN  /\ s.first <=> Popped' + k = 0
              /\ s.kind = frameType /\ s.frame = frameId
              /\ s.area = FrameWritten[Popped' + k + 1].area
              /\ s.pixels = FrameWritten[Popped' + k + 1].pixels
  BY <1>6 DEF QueueOK
<1>8. QueueOK'
  <2>1. frameId > 0 => rectsWritten = Len(FrameWritten)' BY <1>4 DEF QueueOK
  <2>2. FrameOpen' => frameId > 0 BY <1>3 DEF QueueOK
  <2>3. count' \in 0..QueueSlots /\ count' <= rectsWritten BY <1>1
  <2>4. slots = [i \in InRing |-> slots[i]] BY DEF QueueOK
  <2>5. \A k \in InRing : SlotOf(k)' = slots'[(head' + k) % QueueSlots] BY DEF SlotOf
  <2>6. (\A k \in InRing : k < count =>
           /\ SlotOf(k).first <=> Popped + k = 0
           /\ SlotOf(k).kind = frameType
           /\ SlotOf(k).frame = frameId
           /\ SlotOf(k).area = FrameWritten[Popped + k + 1].area
           /\ SlotOf(k).pixels = FrameWritten[Popped + k + 1].pixels)'
    BY <1>4, <1>7, <2>5
  <2> QED BY <1>1, <1>5, <2>1, <2>2, <2>3, <2>4, <2>6 DEF QueueOK
<1> QED BY <1>1, <1>2, <1>3, <1>8

LEMMA StartAndPeekPreserve ==
    ASSUME PipelineOK, PumpStart \/ PumpPeek, UNCHANGED <<session, assemblerVars, offered>>
    PROVE  PipelineOK'
<1> USE DEF PipelineOK, uiVars, queueVars, wireVars, pumpVars, linkVars
<1>1. count > 0 /\ pumpPc \in {"idle", "peek"} BY DEF PumpStart, PumpPeek, PumpOK
<1>2. UNCHANGED <<uiVars, wireVars, sendOk, endMsg, linkVars, needFull, abortPending>>
  BY DEF PumpStart, PumpPeek
<1>3. CASE UNCHANGED queueVars /\ pumpPc' \in {"peek", "begin", "rect"}
           /\ (pumpPc' \in {"begin", "rect"} =>
                  entry' = slots[head] /\ entrySlot' = head /\ (pumpPc' = "begin" <=> Popped = 0))
  <2>1. FrameOpen' <=> FrameOpen BY <1>2, <1>3 DEF FrameOpen
  <2>2. QueueOK' BY <1>2, <1>3, <2>1 DEF QueueOK, SlotOf, FrameWritten, Popped
  <2>3. FlagsOK' BY <1>1, <1>2, <1>3, <2>1, HeadOfQueue DEF FlagsOK, Linked
  <2>4. PumpOK' BY <1>1, <1>2, <1>3 DEF PumpOK, Popped
  <2>5. HostFollows' BY <1>1, <1>2, <1>3, <2>1, PumpAside DEF HostFollows, Popped
  <2> QED BY <1>1, <1>2, <1>3, <2>1, <2>2, <2>3, <2>4, <2>5, PumpAside, NotEnding
<1>4. CASE PopFront /\ abortPending # NoAbort /\ pumpPc' = "idle"
  <2>1. QueueOK' /\ Popped' = Popped + 1 /\ Popped' \in Nat /\ count' \in Nat /\ (FrameOpen' => FrameOpen)
    BY <1>1, <1>2, <1>4, PopKeeps
  <2>2. Popped \in Nat /\ connected BY <1>1, HeadOfQueue
  <2>3. FlagsOK' BY <1>2, <1>4, <2>1, <2>2 DEF FlagsOK, Linked
  <2>4. PumpOK' BY <1>2, <1>4, <2>1, <2>2 DEF PumpOK
  <2>5. HostFollows' BY <1>2, <1>4 DEF HostFollows
  <2>6. needFull BY <1>4 DEF FlagsOK
  <2> QED BY <1>1, <1>2, <1>4, <2>1, <2>3, <2>4, <2>5, <2>6, PumpAside, NotEnding
<1>5. CASE PumpStart BY <1>3, <1>5 DEF PumpStart
<1>6. CASE PumpPeek
  <2>1. CASE abortPending # NoAbort /\ SameId(slots[head].frame, abortPending)
    BY <1>4, <1>6, <2>1 DEF PumpPeek
  <2>2. CASE ~(abortPending # NoAbort /\ SameId(slots[head].frame, abortPending))
    <3>1. /\ entry' = slots[head] /\ entrySlot' = head /\ UNCHANGED queueVars
          /\ pumpPc' = IF slots[head].first THEN "begin" ELSE "rect"
      BY <1>6, <2>2 DEF PumpPeek
    <3> QED BY <1>1, <1>3, <3>1, HeadOfQueue
  <2> QED BY <2>1, <2>2
<1> QED BY <1>5, <1>6

LEMMA BegunPreserves ==
    ASSUME PipelineOK, PumpBegun, UNCHANGED <<session, assemblerVars, offered>>
    PROVE  PipelineOK'
<1> USE DEF PipelineOK, uiVars, queueVars, wireVars, pumpVars, linkVars
<1>1. /\ pumpPc = "begun" /\ count > 0 /\ Popped = 0 /\ ~wireOpen /\ entry = slots[head]
      /\ UNCHANGED <<uiVars, queueVars, entry, entrySlot, sendOk, endMsg, linkVars, abortPending>>
  BY DEF PumpBegun, PumpOK
<1>2. connected /\ slots[head].frame = frameId BY <1>1, HeadOfQueue
<1>3. /\ OfferedOK' /\ UNCHANGED Popped
      /\ (Linked' <=> Linked) /\ (Up' <=> Up)
  BY <1>1 DEF OfferedOK, AsRect, Popped, Linked, Up
<1>4. CASE /\ sendOk /\ pumpPc' = "rect" /\ UNCHANGED needFull /\ wireOpen' = TRUE
           /\ wire' = [frame |-> frameId, rects |-> 0]
  <2>1. FrameOpen' /\ FrameOpen BY <1>1, <1>4 DEF FrameOpen
  <2>2. QueueOK' BY <1>1, <2>1 DEF QueueOK, SlotOf, FrameWritten, Popped
  <2>3. wire'.frame = frameId /\ wire'.rects = 0 /\ wire' = [frame |-> wire'.frame, rects |-> wire'.rects]
    BY <1>4
  <2>4. FlagsOK' BY <1>1, <1>2, <1>3, <1>4, <2>3 DEF FlagsOK
  <2>5. PumpOK' BY <1>1, <1>4 DEF PumpOK, Popped
  <2>6. HostFollows'
    <3>1. ASSUME Up' PROVE HostHas(0)' BY <1>1, <1>3, <1>4, <2>1, <3>1, PumpAside DEF HostFollows
    <3>2. \A n : n = 0 => (Up' => HostHas(n)') BY <3>1
    <3> QED BY <1>1, <1>3, <1>4, <2>3, <3>2 DEF HostFollows
  <2> QED BY <1>1, <1>3, <1>4, <2>1, <2>2, <2>4, <2>5, <2>6, PumpAside, NotEnding
<1>5. CASE ~sendOk /\ pumpPc' = "pop" /\ needFull' = TRUE /\ UNCHANGED wireVars
  <2>1. FrameOpen' <=> FrameOpen BY <1>1, <1>5 DEF FrameOpen
  <2>2. QueueOK' BY <1>1, <2>1 DEF QueueOK, SlotOf, FrameWritten, Popped
  <2>3. FlagsOK' BY <1>1, <1>2, <1>3, <1>5 DEF FlagsOK
  <2>4. PumpOK' BY <1>1, <1>5 DEF PumpOK, Popped
  <2>5. HostFollows' BY <1>1, <1>5 DEF HostFollows
  <2> QED BY <1>1, <1>3, <1>5, <2>1, <2>2, <2>3, <2>4, <2>5, PumpAside, NotEnding
<1> QED BY <1>1, <1>2, <1>4, <1>5 DEF PumpBegun

LEMMA RectSentPreserves ==
    ASSUME PipelineOK, PumpRectSent, UNCHANGED <<session, assemblerVars, offered>>
    PROVE  PipelineOK'
<1> USE DEF PipelineOK, uiVars, queueVars, wireVars, pumpVars, linkVars
<1>1. /\ pumpPc = "rectSent" /\ pumpPc' = "pop" /\ count > 0
      /\ UNCHANGED <<uiVars, queueVars, wireOpen, entry, entrySlot, sendOk, endMsg, linkVars>>
  BY DEF PumpRectSent, PumpOK
<1>2. connected /\ Popped \in Nat /\ frameId > 0 BY <1>1, HeadOfQueue
<1>3. /\ UNCHANGED Popped /\ (Linked' <=> Linked) /\ (Up' <=> Up) /\ (FrameOpen' <=> FrameOpen)
  BY <1>1 DEF Popped, Linked, Up, FrameOpen
<1>4. QueueOK' BY <1>1, <1>3 DEF QueueOK, SlotOf, FrameWritten, Popped
<1>5. PumpOK' BY <1>1, <1>3 DEF PumpOK
<1>6. CASE sendOk /\ UNCHANGED <<needFull, abortPending>> /\ wire' = [wire EXCEPT !.rects = @ + 1]
  <2>1. PICK f, n : wire = [frame |-> f, rects |-> n] /\ wire.frame = f /\ wire.rects = n
    BY DEF FlagsOK
  <2>2. wire' = [frame |-> f, rects |-> n + 1] BY <1>6, <2>1
  <2>3. wire'.frame = f /\ wire'.rects = n + 1 /\ wire' = [frame |-> wire'.frame, rects |-> wire'.rects]
    BY <2>2
  <2>4. FlagsOK' BY <1>1, <1>2, <1>3, <1>6, <2>1, <2>3 DEF FlagsOK
  <2>5. HostFollows'
    <3>1. \A m : HostHas(m)' <=> HostHas(m) BY <1>1, <1>3, <1>6, PumpAside
    <3>2. ASSUME Up', wireOpen', abortPending' = NoAbort PROVE wire.rects = Popped /\ HostHas(Popped + 1)
      BY <1>1, <1>2, <1>3, <1>6, <3>2 DEF HostFollows
    <3>3. PICK k : k = Popped + 1 OBVIOUS
    <3>4. ASSUME Up', wireOpen', abortPending' = NoAbort PROVE wire'.rects = k /\ HostHas(k)'
      BY <1>2, <1>3, <2>1, <2>3, <3>1, <3>2, <3>3, <3>4
    <3>5. Popped' + 1 = k BY <1>3, <3>3
    <3> QED BY <1>1, <3>4, <3>5 DEF HostFollows
  <2> QED BY <1>1, <1>3, <1>4, <1>5, <1>6, <2>4, <2>5, PumpAside, NotEnding
<1>7. CASE /\ ~sendOk /\ needFull' = TRUE /\ UNCHANGED wire
           /\ abortPending' = IF wireOpen THEN wire.frame ELSE abortPending
  <2>1. abortPending' # NoAbort => abortPending' = frameId BY <1>7 DEF FlagsOK
  <2>2. wireOpen => abortPending' # NoAbort BY <1>2, <1>7 DEF FlagsOK, NoAbort
  <2>3. count' > 0 \/ wireOpen' => building' \/ endQueued' \/ abortPending' # NoAbort
    BY <1>1, <1>7, <2>2 DEF FlagsOK
  <2>4. FlagsOK' BY <1>1, <1>2, <1>3, <1>7, <2>1, <2>3 DEF FlagsOK
  <2>5. HostFollows' BY <1>1, <2>2 DEF HostFollows
  <2> QED BY <1>1, <1>3, <1>4, <1>5, <1>7, <2>4, <2>5, PumpAside, NotEnding
<1> QED BY <1>6, <1>7 DEF PumpRectSent

LEMMA PopPreserves ==
    ASSUME PipelineOK, PumpPop, UNCHANGED <<session, assemblerVars, offered>>
    PROVE  PipelineOK'
<1> USE DEF PipelineOK, uiVars, wireVars, pumpVars, linkVars
<1>1. /\ pumpPc = "pop" /\ count > 0 /\ PopFront /\ pumpPc' \in {"finish", "idle"}
      /\ UNCHANGED <<uiVars, wireVars, entry, entrySlot, sendOk, endMsg, linkVars, needFull,
                     abortPending>>
  BY DEF PumpPop, PumpOK
<1>2. /\ QueueOK' /\ Popped' = Popped + 1 /\ count' = count - 1 /\ count' \in Nat
      /\ (FrameOpen' => FrameOpen)
  BY <1>1, PopKeeps
<1>3. connected /\ Popped \in Nat /\ count \in Nat BY <1>1, HeadOfQueue, QueueAssumption DEF QueueOK
<1>4. (Linked' <=> Linked) /\ (Up' <=> Up) BY DEF Linked, Up
<1>5. FlagsOK' BY <1>1, <1>2, <1>3, <1>4 DEF FlagsOK
<1>6. PumpOK' BY <1>1, <1>2, <1>3 DEF PumpOK
<1>7. HostFollows'
  <2>1. (FrameOpen' => FrameOpen) /\ (needFull => needFull') BY <1>1, <1>2
  <2>2. \A n : HostHas(n)' <=> HostHas(n) BY <1>1, <2>1, PumpAside
  <2> QED BY <1>1, <1>2, <1>3, <1>4, <2>2 DEF HostFollows
<1>8. needFull' \/ (FrameOpen => FrameOpen')
  <2>1. abortPending # NoAbort => needFull BY DEF FlagsOK
  <2>2. building \/ endQueued => FrameOpen' BY <1>1 DEF FrameOpen
  <2>3. count > 0 => building \/ endQueued \/ abortPending # NoAbort BY DEF FlagsOK
  <2> QED BY <1>1, <2>1, <2>2, <2>3
<1> QED BY <1>1, <1>2, <1>4, <1>5, <1>6, <1>7, <1>8, PumpAside, NotEnding

LEMMA FinishPreserves ==
    ASSUME PipelineOK, PumpEmpty \/ PumpFinish, count = 0, UNCHANGED <<session, assemblerVars, offered>>
    PROVE  PipelineOK'
<1> USE DEF PipelineOK, uiVars, queueVars, wireVars, pumpVars, linkVars
<1>1. /\ pumpPc \in {"idle", "finish"} /\ FinishFrame
      /\ UNCHANGED <<frameId, frameType, rectsWritten, queueVars, wire, entry, entrySlot, sendOk,
                     linkVars, needFull>>
  BY DEF PumpEmpty, PumpFinish
<1>2. UNCHANGED Popped /\ (Linked' <=> Linked) /\ (Up' <=> Up) BY <1>1 DEF Popped, Linked, Up
<1>3. FrameOpen' => FrameOpen BY <1>1 DEF FinishFrame, FrameOpen
<1>4. QueueOK' BY <1>1, <1>3 DEF QueueOK, SlotOf, FrameWritten, Popped
<1>5. connected \/ (pumpPc = "idle" /\ ~FrameOpen) BY DEF FlagsOK
<1>6. CASE wireOpen /\ (abortPending # NoAbort \/ endQueued)
  <2>1. PICK b : b = (abortPending # NoAbort) OBVIOUS
  <2>2. /\ pumpPc' = "end" /\ wireOpen' = FALSE /\ building' = FALSE /\ endQueued' = FALSE
        /\ abortPending' = NoAbort /\ endMsg' = EndOfWire(b)
    BY <1>1, <1>6, <2>1, Zenon DEF FinishFrame
  <2>3. FrameOpen' = FALSE /\ connected /\ frameId > 0
    BY <1>1, <1>5, <1>6, <2>2 DEF FrameOpen, QueueOK
  <2>4. FlagsOK' BY <1>1, <1>2, <2>2, <2>3 DEF FlagsOK
  <2>5. PumpOK' BY <2>2 DEF PumpOK, EndOfWire
  <2>6. HostFollows' BY <2>2 DEF HostFollows
  <2>7. /\ endMsg'.frame = wire.frame /\ endMsg'.rects = wire.rects /\ endMsg'.bytes = wire.rects
        /\ endMsg'.aborted = b
    BY <2>2 DEF EndOfWire
  <2>8. ASSUME ~needFull \/ Ending' PROVE Ending' /\ abortPending = NoAbort /\ endMsg'.frame = frameId
    <3>1. abortPending = NoAbort
      <4>1. CASE ~needFull BY <4>1 DEF FlagsOK
      <4>2. CASE Ending' BY <2>1, <2>7, <4>2, Zenon DEF Ending
      <4> QED BY <2>8, <4>1, <4>2
    <3>2. ~endMsg'.aborted BY <2>1, <2>7, <3>1, Zenon
    <3> QED BY <1>6, <2>2, <2>7, <3>1, <3>2 DEF Ending, FlagsOK
  <2>9. EndOK'
    <3> SUFFICES ASSUME Ending', Up' PROVE EndOK' BY DEF EndOK
    <3>1. Up /\ abortPending = NoAbort /\ endMsg'.frame = frameId /\ endQueued
      BY <1>2, <1>6, <2>8
    <3>2. /\ wire.rects = Popped /\ HostHas(Popped)
          /\ Popped = rectsWritten /\ rectsWritten = Len(FrameWritten) /\ Popped \in Nat
      <4>1. wire.rects = Popped + 0 /\ HostHas(Popped + 0) BY <1>1, <1>6, <3>1 DEF HostFollows
      <4>2. Popped = rectsWritten /\ rectsWritten = Len(FrameWritten) /\ rectsWritten \in Nat
        BY <2>3 DEF Popped, QueueOK
      <4>3. Popped + 0 = Popped BY <4>2
      <4> QED BY <4>1, <4>2, <4>3
    <3>3. frameType = "PARTIAL" => BaseShown(frameId - 1)
      BY <1>1, <1>6, <3>1 DEF ChainOK, BaseComes, Ending, FrameOpen
    <3>4. UNCHANGED <<assemblerVars, offered, frameId, frameType>> BY <1>1
    <3>5. (begin.kind = "PARTIAL" => BaseShown(endMsg.frame - 1))'
      BY <3>1, <3>2, <3>3, <3>4 DEF BaseShown, HostHas, assemblerVars
    <3>6. (\A j \in DOMAIN received :
              AsRect(received[j][1].msg) = AsRect(offered[endMsg.frame].rects[j]))'
      BY <3>1, <3>2, <3>4, SeqIndices DEF AsRect, HostHas, assemblerVars, FrameWritten
    <3>7. frameId \in Nat BY SeqIndices DEF OfferedOK
    <3>8. (endMsg.frame \in 1..frameId /\ offered[endMsg.frame].flushed)'
      BY <2>3, <3>1, <3>4, <3>7 DEF FlagsOK
    <3>9. (/\ frameState = "InFrame" /\ begin.frameId = endMsg.frame
           /\ begin.kind \in {"FULL", "PARTIAL"}
           /\ rectCount = endMsg.rects /\ byteCount = endMsg.bytes
           /\ IsSeq(received) /\ Len(received) = Len(offered[endMsg.frame].rects))'
      BY <2>7, <3>1, <3>2, <3>4 DEF HostHas, assemblerVars, FrameWritten, FlagsOK
    <3> QED BY <2>3, <3>5, <3>6, <3>8, <3>9 DEF EndOK
  <2>10. ChainOK'
    <3>1. ASSUME Up', ~needFull' PROVE BaseComes(frameId)'
      BY <1>1, <2>8, <3>1 DEF BaseComes
    <3> QED BY <2>3, <3>1 DEF ChainOK
  <2> QED BY <1>1, <1>3, <1>4, <2>4, <2>5, <2>6, <2>9, <2>10, PumpAside
<1>7. CASE ~(wireOpen /\ (abortPending # NoAbort \/ endQueued))
  <2>1. pumpPc' = "idle" /\ UNCHANGED <<endMsg, wireOpen>> BY <1>1, <1>7 DEF FinishFrame
  <2>2. CASE abortPending # NoAbort
    <3>1. building' = FALSE /\ endQueued' = FALSE /\ abortPending' = NoAbort /\ ~wireOpen
      BY <1>1, <1>7, <2>2 DEF FinishFrame
    <3>2. FrameOpen' = FALSE /\ needFull BY <1>1, <2>1, <2>2, <3>1 DEF FrameOpen, FlagsOK
    <3>3. FlagsOK' BY <1>1, <1>2, <2>1, <3>1, <3>2 DEF FlagsOK
    <3>4. PumpOK' BY <1>1, <2>1, <3>1 DEF PumpOK
    <3>5. HostFollows' BY <2>1, <3>1 DEF HostFollows
    <3> QED BY <1>1, <1>3, <1>4, <2>1, <3>2, <3>3, <3>4, <3>5, PumpAside, NotEnding
  <2>3. CASE abortPending = NoAbort
    <3>1. UNCHANGED <<building, endQueued, abortPending>> BY <1>1, <1>7, <2>3 DEF FinishFrame
    <3>2. FrameOpen' <=> FrameOpen BY <1>1, <2>1, <3>1 DEF FrameOpen
    <3>3. FlagsOK' BY <1>1, <1>2, <2>1, <3>1, <3>2 DEF FlagsOK
    <3>4. PumpOK' BY <1>1, <1>2, <2>1, <3>1 DEF PumpOK
    <3>5. HostFollows'
      <4>1. \A n : HostHas(n)' <=> HostHas(n) BY <1>1, <1>3, PumpAside
      <4> QED BY <1>1, <1>2, <2>1, <3>1, <4>1 DEF HostFollows
    <3> QED BY <1>1, <1>4, <2>1, <3>2, <3>3, <3>4, <3>5, PumpAside, NotEnding
  <2> QED BY <2>2, <2>3
<1> QED BY <1>6, <1>7

\* What the answer of the sink changes, for BEGIN and RECT: the host's open frame at most.
LEMMA SentKeeps ==
    ASSUME PipelineOK, UNCHANGED <<uiVars, queueVars, wireVars, entry, entrySlot, endMsg, linkVars,
                                   needFull, abortPending, session, offered, committed,
                                   hasCommittedBase>>,
           \/ pumpPc = "begin" /\ pumpPc' = "begun"
           \/ pumpPc = "rect" /\ pumpPc' = "rectSent"
    PROVE  /\ OfferedOK' /\ QueueOK' /\ FlagsOK' /\ PumpOK' /\ EndOK' /\ ChainOK' /\ CommittedOK'
           /\ UNCHANGED <<Popped, FrameWritten>> /\ (Up' <=> Up)
<1> USE DEF PipelineOK, uiVars, queueVars, wireVars, linkVars
<1>1. (Up' <=> Up) /\ (Linked' <=> Linked) BY DEF Up, Linked
<1>2. FrameOpen' <=> FrameOpen BY DEF FrameOpen
<1>3. OfferedOK' BY DEF OfferedOK, AsRect
<1>4. QueueOK' BY <1>2 DEF QueueOK, SlotOf, FrameWritten, Popped
<1>5. FlagsOK' BY <1>1, <1>2 DEF FlagsOK
<1>6. PumpOK' BY DEF PumpOK, Popped
<1>7. EndOK' BY DEF EndOK, Ending
<1>8. ChainOK' BY <1>1, <1>2 DEF ChainOK, BaseComes, BaseShown, Ending
<1>9. CommittedOK' BY <1>2 DEF CommittedOK, IsWhole, RectsOf
<1> QED BY <1>1, <1>3, <1>4, <1>5, <1>6, <1>7, <1>8, <1>9 DEF Popped, FrameWritten

LEMMA SendBeginPreserves ==
    ASSUME PipelineOK, TransmitBegin
    PROVE  PipelineOK'
<1> USE DEF PipelineOK
<1>1. /\ pumpPc = "begin" /\ pumpPc' = "begun" /\ UNCHANGED <<session, offered>>
      /\ UNCHANGED <<uiVars, queueVars, wireVars, entry, entrySlot, endMsg, linkVars, needFull,
                     abortPending>>
  BY DEF TransmitBegin, SendBegin, Sent
<1>2. \/ sendOk' = TRUE /\ Received(BeginMessage)
      \/ sendOk' = FALSE /\ (Up => UNCHANGED assemblerVars) /\ UNCHANGED assemblerVars
  BY DEF TransmitBegin, SendBegin, Sent, Taken, NotTaken, hostVars
<1>3. Received(BeginMessage) => StartFrame(BeginMessage)
  BY DEF Received, BeginMessage, HandleBegin
<1>4. UNCHANGED <<committed, hasCommittedBase>>
  BY <1>2, <1>3 DEF StartFrame, assemblerVars
<1>5. /\ OfferedOK' /\ QueueOK' /\ FlagsOK' /\ PumpOK' /\ EndOK' /\ ChainOK' /\ CommittedOK'
      /\ UNCHANGED <<Popped, FrameWritten>> /\ (Up' <=> Up)
  BY <1>1, <1>4, SentKeeps
<1>6. ~wireOpen' BY <1>1 DEF PumpOK, wireVars
<1>7. ASSUME sendOk' PROVE HostHas(0)'
  <2>1. StartFrame(BeginMessage) BY <1>2, <1>3, <1>7
  <2>2. entry.frame = frameId /\ entry.kind = frameType /\ frameId \in Nat
    <3>1. count > 0 /\ entry = slots[head] BY <1>1 DEF PumpOK
    <3>2. frameId \in Nat BY SeqIndices DEF OfferedOK
    <3> QED BY <3>1, <3>2, HeadOfQueue
  <2>3. BeginMessage.frame = frameId /\ BeginMessage.kind = frameType BY <2>2 DEF BeginMessage
  <2>5. begin' = [frameId |-> frameId, kind |-> frameType] /\ frameState' = "InFrame"
        /\ rectCount' = 0 /\ byteCount' = 0 /\ received' = <<>>
    BY <2>1, <2>3 DEF StartFrame
  <2>6. IsSeq(received') /\ Len(received') = 0 BY <2>5, NothingIsSeq
  <2> QED BY <1>1, <2>5, <2>6 DEF HostHas, uiVars
<1>8. HostFollows' BY <1>1, <1>6, <1>7 DEF HostFollows
<1> QED BY <1>5, <1>8

LEMMA SendRectPreserves ==
    ASSUME PipelineOK, TransmitRect
    PROVE  PipelineOK'
<1> USE DEF PipelineOK
<1>1. /\ pumpPc = "rect" /\ pumpPc' = "rectSent" /\ UNCHANGED <<session, offered>>
      /\ UNCHANGED <<uiVars, queueVars, wireVars, entry, entrySlot, endMsg, linkVars, needFull,
                     abortPending>>
  BY DEF TransmitRect, SendRect, Sent
<1>2. PICK ch : ch = <<[msg |-> RectMessage, part |-> 1]>> OBVIOUS
<1>3. \/ sendOk' = TRUE /\ HandleRect(ch, FALSE)
      \/ sendOk' = FALSE /\ (UNCHANGED assemblerVars \/ OnStreamError)
  BY <1>2 DEF TransmitRect, SendRect, Sent, Taken, NotTaken, CutShort, hostVars, Received, RectMessage
<1>4. UNCHANGED <<committed, hasCommittedBase>>
  BY <1>3 DEF HandleRect, Discard, Ignore, OnStreamError, assemblerVars
<1>5. /\ OfferedOK' /\ QueueOK' /\ FlagsOK' /\ PumpOK' /\ EndOK' /\ ChainOK' /\ CommittedOK'
      /\ UNCHANGED <<Popped, FrameWritten>> /\ (Up' <=> Up)
  BY <1>1, <1>4, SentKeeps
<1>6. ASSUME sendOk', NEW n \in Nat, n = Popped, HostHas(n) PROVE HostHas(n + 1)'
  <2>1. ch[1].part = 1 /\ Len(ch) = 1 /\ ch[1].msg = RectMessage /\ RectMessage.parts = 1
    BY <1>2 DEF RectMessage
  <2>2. WellFormedRect(ch, FALSE) BY <2>1 DEF WellFormedRect
  <2>3. frameState = "InFrame" BY <1>6 DEF HostHas
  <2>4. /\ rectCount' = rectCount + 1 /\ byteCount' = byteCount + 1
        /\ received' = Append(received, ch) /\ UNCHANGED <<frameState, begin>>
    BY <1>3, <1>6, <2>1, <2>2, <2>3 DEF HandleRect, Ignore
  <2>5. IsSeq(received) /\ Len(received) = n BY <1>6 DEF HostHas
  <2>6. /\ IsSeq(Append(received, ch)) /\ Len(Append(received, ch)) = n + 1
        /\ DOMAIN Append(received, ch) = DOMAIN received \cup {n + 1}
        /\ \A i \in DOMAIN received : Append(received, ch)[i] = received[i]
        /\ Append(received, ch)[n + 1] = ch
    BY <2>5, AppendKeeps
  <2>7. DOMAIN received = 1..n BY <2>5, SeqIndices
  <2>8. AsRect(RectMessage) = AsRect(FrameWritten[n + 1])
    <3>1. count > 0 /\ entry = slots[head] /\ entrySlot = head BY <1>1 DEF PumpOK
    <3>2. RectMessage.area = entry.area /\ RectMessage.pixels = slots[entrySlot].pixels
      BY DEF RectMessage
    <3> QED BY <1>6, <3>1, <3>2, HeadOfQueue DEF AsRect
  <2>9. \A j \in 1..(n + 1) : AsRect(received'[j][1].msg) = AsRect(FrameWritten[j])
    <3>1. \A j \in 1..n : received'[j] = received[j] BY <2>4, <2>6, <2>7
    <3>2. received'[n + 1] = ch BY <2>4, <2>6
    <3>3. \A j \in 1..n : AsRect(received[j][1].msg) = AsRect(FrameWritten[j]) BY <1>6 DEF HostHas
    <3> QED BY <2>1, <2>8, <3>1, <3>2, <3>3
  <2> QED BY <1>1, <1>5, <1>6, <2>4, <2>6, <2>9 DEF HostHas, uiVars, AsRect
<1>7. HostFollows'
  <2>1. count > 0 /\ Popped \in Nat BY <1>1, HeadOfQueue DEF PumpOK
  <2>2. ASSUME Up', wireOpen', abortPending' = NoAbort, sendOk'
        PROVE  wire'.rects = Popped /\ HostHas(Popped)
    <3>1. wire.rects = Popped + 0 /\ HostHas(Popped + 0)
      BY <1>1, <1>5, <2>2 DEF HostFollows, wireVars
    <3> QED BY <1>1, <2>1, <3>1 DEF wireVars
  <2>3. PICK n \in Nat : n = Popped BY <2>1
  <2>4. ASSUME Up', wireOpen', abortPending' = NoAbort, sendOk'
        PROVE  wire'.rects = n /\ HostHas(n + 1)'
    BY <1>6, <2>2, <2>3, <2>4
  <2>5. PICK k : k = n + 1 OBVIOUS
  <2>6. Popped' + 1 = k /\ Popped' = n /\ Popped' + 0 = n BY <1>5, <2>3, <2>5
  <2>7. ASSUME Up', wireOpen', abortPending' = NoAbort, sendOk' PROVE HostHas(k)'
    BY <2>4, <2>5, <2>7
  <2> QED BY <1>1, <2>4, <2>6, <2>7 DEF HostFollows
<1> QED BY <1>5, <1>7

\* The END of a frame the host has is matched, and commits it.
LEMMA EndCommits ==
    ASSUME PipelineOK, Ending, Up, HandleEnd(endMsg),
           UNCHANGED <<offered, frameId, endMsg>>, FrameOpen' => FrameOpen
    PROVE  /\ CommittedOK' /\ BaseShown(endMsg.frame)'
           /\ \E c : /\ committed' # committed /\ committed'[Len(committed')] = c
                    /\ c.kind = begin.kind /\ RectsOf(c) = offered[endMsg.frame].rects
<1> USE DEF PipelineOK
<1>1. /\ endMsg.frame \in 1..frameId
      /\ FrameOpen => endMsg.frame < frameId
      /\ offered[endMsg.frame].flushed
      /\ frameState = "InFrame"
      /\ begin.frameId = endMsg.frame
      /\ begin.kind \in {"FULL", "PARTIAL"}
      /\ rectCount = endMsg.rects /\ byteCount = endMsg.bytes
      /\ IsSeq(received) /\ Len(received) = Len(offered[endMsg.frame].rects)
      /\ \A j \in DOMAIN received :
            AsRect(received[j][1].msg) = AsRect(offered[endMsg.frame].rects[j])
      /\ begin.kind = "PARTIAL" => BaseShown(endMsg.frame - 1)
  BY DEF EndOK
<1>2. frameId \in Nat /\ DOMAIN offered = 1..frameId BY SeqIndices DEF OfferedOK
<1>4. EndMatches(endMsg) BY <1>1 DEF EndMatches, SameId, Ending, BaseShown
<1>5. Commit(endMsg) BY <1>1, <1>4 DEF HandleEnd
<1>6. PICK c : c = [frameId |-> begin.frameId, kind |-> begin.kind, rects |-> received] OBVIOUS
<1>7. committed' = Append(committed, c) /\ hasCommittedBase' = TRUE BY <1>5, <1>6 DEF Commit
<1>8. c.frameId = endMsg.frame /\ c.kind = begin.kind /\ c.rects = received BY <1>1, <1>6
<1>9. PICK q : q = Append(committed, c) OBVIOUS
<1>10. /\ IsSeq(q) /\ Len(q) = Len(committed) + 1 /\ DOMAIN q = DOMAIN committed \cup {Len(committed) + 1}
       /\ \A i \in DOMAIN committed : q[i] = committed[i]
       /\ q[Len(committed) + 1] = c
       /\ Len(committed) \in Nat /\ DOMAIN committed = 1..Len(committed)
  BY <1>9, AppendKeeps, SeqIndices DEF CommittedOK
<1>11. RectsOf(c) = offered[endMsg.frame].rects
  <2>1. PICK R, S : R = RectsOf(c) /\ S = offered[endMsg.frame].rects OBVIOUS
  <2>2. IsSeq(S) /\ Len(S) = Len(received) /\ Len(S) \in Nat /\ \A j \in DOMAIN S : S[j] = AsRect(S[j])
    BY <1>1, <1>2, <2>1, SeqIndices DEF OfferedOK
  <2>3. DOMAIN received = 1..Len(S) /\ DOMAIN S = 1..Len(S) BY <1>1, <2>2, SeqIndices
  <2>4. R = [i \in 1..Len(S) |-> AsRect(received[i][1].msg)]
    BY <1>8, <2>1, <2>3 DEF RectsOf, AsRect
  <2>5. \A i \in 1..Len(S) : R[i] = S[i]
    <3>1. ASSUME NEW i \in 1..Len(S) PROVE R[i] = S[i]
      <4>1. R[i] = AsRect(received[i][1].msg) BY <2>4
      <4>2. AsRect(received[i][1].msg) = AsRect(S[i]) BY <1>1, <2>1, <2>3
      <4>3. S[i] = AsRect(S[i]) BY <2>2, <2>3
      <4> QED BY <4>1, <4>2, <4>3
    <3> QED BY <3>1
  <2>6. IsSeq(R) /\ Len(R) = Len(S)
    <3>1. R = [i \in 1..Len(S) |-> R[i]] BY <2>4
    <3> QED BY <2>2, <3>1, FunctionSeq
  <2> QED BY <2>1, <2>2, <2>5, <2>6, SameSeq
<1>12. IsWhole(c) BY <1>1, <1>8, <1>11 DEF IsWhole
<1>13. \A i \in DOMAIN q :
          /\ q[i].frameId \in 1..frameId
          /\ FrameOpen' => q[i].frameId < frameId
          /\ IsWhole(q[i])
          /\ q[i].kind = "PARTIAL" => i > 1 /\ q[i].frameId = q[i - 1].frameId + 1
  <2>1. ASSUME NEW i \in DOMAIN committed
        PROVE  /\ q[i].frameId \in 1..frameId
               /\ FrameOpen' => q[i].frameId < frameId
               /\ IsWhole(q[i])
               /\ q[i].kind = "PARTIAL" => i > 1 /\ q[i].frameId = q[i - 1].frameId + 1
    <3>1. i > 1 => i - 1 \in DOMAIN committed BY <1>10
    <3> QED BY <1>10, <2>1, <3>1 DEF CommittedOK
  <2>2. c.kind = "PARTIAL" =>
           /\ Len(committed) + 1 > 1
           /\ c.frameId = q[Len(committed) + 1 - 1].frameId + 1
    BY <1>1, <1>2, <1>8, <1>10 DEF BaseShown
  <2> QED BY <1>1, <1>8, <1>10, <1>12, <2>1, <2>2
<1>14. CommittedOK'
  <2>1. committed' = q BY <1>7, <1>9
  <2>2. \A i \in DOMAIN q : IsWhole(q[i]) => IsWhole(q[i])' BY <1>13 DEF IsWhole, RectsOf
  <2>3. \A i \in DOMAIN committed' : IsWhole(committed[i])'
    BY <1>13, <2>1 DEF IsWhole, RectsOf
  <2> QED BY <1>10, <1>13, <2>1, <2>3 DEF CommittedOK
<1>15. BaseShown(endMsg.frame)'
  <2>1. committed' = q /\ hasCommittedBase' BY <1>7, <1>9
  <2> QED BY <1>8, <1>10, <2>1 DEF BaseShown
<1>16. committed' # committed /\ committed'[Len(committed')] = c
  <2>1. q # committed BY <1>10
  <2>2. q[Len(q)] = c BY <1>10
  <2>3. committed' = q BY <1>7, <1>9
  <2> QED BY <2>1, <2>2, <2>3
<1> QED BY <1>8, <1>11, <1>14, <1>15, <1>16

LEMMA SendEndPreserves ==
    ASSUME PipelineOK, TransmitEnd, sendOk' \/ ~FrameOpen
    PROVE  PipelineOK'
<1> USE DEF PipelineOK
<1>1. PICK ok : SendEnd(ok) /\ ok = sendOk' BY DEF TransmitEnd, SendEnd
<1>2. /\ pumpPc = "end" /\ pumpPc' = "idle" /\ UNCHANGED <<session, offered>>
      /\ UNCHANGED <<uiVars, queueVars, wireVars, entry, entrySlot, endMsg, linkVars, abortPending>>
  BY DEF TransmitEnd, SendEnd
<1>3. /\ UNCHANGED Popped /\ (Up' <=> Up) /\ (Linked' <=> Linked) /\ (FrameOpen' <=> FrameOpen)
      /\ connected /\ ~wireOpen /\ (needFull => needFull') /\ (~sendOk' => needFull')
  <2>1. needFull' = (needFull \/ ~ok) BY <1>1 DEF SendEnd
  <2>2. connected /\ ~wireOpen BY <1>2 DEF FlagsOK, PumpOK
  <2>3. FrameOpen' <=> FrameOpen BY <1>2 DEF uiVars, queueVars, wireVars, FrameOpen
  <2>4. (needFull => needFull') /\ (~sendOk' => needFull') BY <1>1, <2>1
  <2> QED BY <1>2, <2>2, <2>3, <2>4 DEF Popped, Up, Linked, uiVars, queueVars, linkVars
<1>4. OfferedOK' BY <1>2 DEF OfferedOK, AsRect, uiVars
<1>5. QueueOK' BY <1>2, <1>3 DEF QueueOK, SlotOf, FrameWritten, uiVars, queueVars
<1>6. FlagsOK' BY <1>2, <1>3 DEF FlagsOK, uiVars, queueVars, wireVars, linkVars
<1>7. PumpOK' BY <1>2, <1>3 DEF PumpOK, wireVars
<1>8. HostFollows' BY <1>2, <1>3 DEF HostFollows, wireVars
<1>9. EndOK' BY <1>2 DEF EndOK, Ending
<1>10. \/ sendOk' /\ Up /\ HandleEnd(endMsg)
       \/ ~sendOk' /\ UNCHANGED assemblerVars
  <2>1. endMsg.type = "END" BY DEF PumpOK
  <2> QED BY <1>1, <2>1 DEF TransmitEnd, SendEnd, Taken, NotTaken, Received, hostVars
<1>11. CASE sendOk' /\ Ending
  <2>1. CommittedOK' /\ BaseShown(endMsg.frame)'
    BY <1>2, <1>3, <1>10, <1>11, EndCommits DEF uiVars
  <2>2. \A n : BaseComes(n) => BaseComes(n)'
    BY <1>2, <1>11, <2>1 DEF BaseComes, BaseShown, Ending
  <2>3. ChainOK' BY <1>2, <1>3, <1>10, <1>11, <2>2 DEF ChainOK, uiVars
  <2> QED BY <1>4, <1>5, <1>6, <1>7, <1>8, <1>9, <2>1, <2>3
<1>12. CASE ~(sendOk' /\ Ending)
  <2>1. UNCHANGED <<committed, hasCommittedBase>>
    <3>1. CASE HandleEnd(endMsg) /\ sendOk'
      <4>1. ~EndMatches(endMsg) BY <1>2, <1>12, <3>1 DEF EndMatches, Ending
      <4> QED BY <3>1, <4>1 DEF HandleEnd, Ignore, Discard, assemblerVars
    <3> QED BY <1>10, <3>1 DEF assemblerVars
  <2>2. CommittedOK' BY <1>2, <1>3, <2>1 DEF CommittedOK, IsWhole, RectsOf, uiVars
  <2>3. ChainOK'
    <3>1. CASE ~sendOk' BY <1>3, <3>1 DEF ChainOK
    <3>2. CASE sendOk'
      <4>1. \A n : BaseComes(n)' <=> BaseComes(n)
        BY <1>2, <1>12, <2>1, <3>2 DEF BaseComes, BaseShown, Ending
      <4> QED BY <1>2, <1>3, <4>1 DEF ChainOK, uiVars
    <3> QED BY <3>1, <3>2
  <2> QED BY <1>4, <1>5, <1>6, <1>7, <1>8, <1>9, <2>2, <2>3
<1> QED BY <1>11, <1>12

-----------------------------------------------------------------------------
(* The step and the theorems.                                              *)

\* A race is never forgotten, and frames are numbered upwards.
LEMMA RacesStay ==
    ASSUME Next, races' = {}
    PROVE  races = {}
BY DEF Next, Race, AppDraws, StartCycle, CheckLink, WriteAccepted, WriteAborted, WriteWaits, Retry,
       GiveUp, FlushFrame, Pump, TransmitBegin, TransmitRect, TransmitEnd, Taken, SessionUp,
       NotifyConnected, NotifyInvalidate, SessionLost, NotifyLost, NotifyDisconnected, SetMode,
       history

LEMMA NumbersGrow ==
    ASSUME frameId \in Nat, Next
    PROVE  frameId' \in Nat /\ frameId' >= frameId
<1> USE DEF displayVars, uiVars, lvglVars
<1>1. CASE WriteAccepted
  <2>1. frameId' = frameId \/ frameId' = frameId + 1 BY <1>1 DEF WriteAccepted, WriteRect
  <2> QED BY <2>1
<1>2. CASE UNCHANGED frameId BY <1>2
<1>3. ASSUME NEW a \in Redrawn, AppDraws(a) PROVE UNCHANGED frameId BY <1>3 DEF AppDraws
<1>4. CASE StartCycle \/ CheckLink \/ WriteAborted \/ WriteWaits \/ Retry
  <2>1. UNCHANGED displayVars
    BY <1>4 DEF StartCycle, CheckLink, WriteAborted, WriteWaits, Retry
  <2> QED BY <2>1
<1>5. CASE GiveUp \/ FlushFrame BY <1>5 DEF GiveUp, FlushFrame, DropPendingFrame, Flush
<1>6. CASE Pump
  BY <1>6 DEF Pump, PumpEmpty, PumpStart, PumpPeek, PumpBegun, PumpRectSent, PumpPop, PumpFinish
<1>7. CASE TransmitBegin \/ TransmitRect \/ TransmitEnd
  BY <1>7 DEF TransmitBegin, TransmitRect, TransmitEnd, SendBegin, SendRect, SendEnd, Sent
<1>8. CASE SessionUp \/ NotifyConnected \/ NotifyInvalidate \/ SessionLost \/ NotifyLost
           \/ NotifyDisconnected
  BY <1>8 DEF SessionUp, NotifyConnected, NotifyInvalidate, SessionLost, NotifyLost,
              NotifyDisconnected, OnConnected, OnDisconnected, Forget
<1>9. ASSUME NEW on \in BOOLEAN, SetMode(on) PROVE UNCHANGED frameId
  BY <1>9 DEF SetMode, Disable, Forget
<1> QED BY <1>1, <1>2, <1>3, <1>4, <1>5, <1>6, <1>7, <1>8, <1>9 DEF Next

\* The quiet steps leave display, host and frames alone.
LEMMA UserSteps ==
    ASSUME PipelineOK,
           \/ \E a \in Redrawn : AppDraws(a)
           \/ StartCycle \/ CheckLink \/ WriteAborted \/ WriteWaits \/ Retry
           \/ NotifyInvalidate \/ NotifyLost
    PROVE  PipelineOK'
<1>1. CASE \/ \E a \in Redrawn : AppDraws(a)
           \/ StartCycle \/ CheckLink \/ WriteAborted \/ WriteWaits \/ Retry
  <2>1. UNCHANGED <<displayVars, session, assemblerVars, offered>>
    BY <1>1 DEF AppDraws, StartCycle, CheckLink, WriteAborted, WriteWaits, Retry, hostVars, history
  <2> QED BY <2>1, QuietSteps
<1>2. CASE NotifyInvalidate
  <2>1. UNCHANGED <<displayVars, assemblerVars, offered>>
        /\ session = "announced" /\ session' = "connected"
    BY <1>2 DEF NotifyInvalidate, Go, hostVars, history
  <2> QED BY <2>1, QuietSteps
<1>3. CASE NotifyLost
  <2>1. UNCHANGED <<displayVars, assemblerVars, offered>> /\ session = "lost" /\ session' = "cleared"
    BY <1>3 DEF NotifyLost, Go, hostVars, history
  <2> QED BY <2>1, QuietSteps
<1> QED BY <1>1, <1>2, <1>3

\* pump(), when it does not take a queue for empty that was filled again.
LEMMA PumpPreserves ==
    ASSUME PipelineOK, Pump, races' = {}
    PROVE  PipelineOK'
<1>1. UNCHANGED <<session, assemblerVars, offered>> BY DEF Pump, hostVars
<1>2. pumpPc = "finish" => ~(count > 0) BY DEF Pump, Race
<1>3. CASE PumpEmpty BY <1>1, <1>3, FinishPreserves DEF PumpEmpty
<1>4. CASE PumpFinish
  <2>1. count = 0 BY <1>2, <1>4 DEF PumpFinish, PipelineOK, QueueOK
  <2> QED BY <1>1, <1>4, <2>1, FinishPreserves
<1>5. CASE PumpStart \/ PumpPeek BY <1>1, <1>5, StartAndPeekPreserve
<1>6. CASE PumpBegun BY <1>1, <1>6, BegunPreserves
<1>7. CASE PumpRectSent BY <1>1, <1>7, RectSentPreserves
<1>8. CASE PumpPop BY <1>1, <1>8, PopPreserves
<1> QED BY <1>3, <1>4, <1>5, <1>6, <1>7, <1>8 DEF Pump

\* The queue is emptied, by the session's end or by the router, while pump() rests.
LEMMA EmptyingPreserves ==
    ASSUME PipelineOK, NotifyDisconnected \/ (\E on \in BOOLEAN : SetMode(on)), races' = {}
    PROVE  PipelineOK'
<1>1. Forget /\ pumpPc = "idle" /\ UNCHANGED <<assemblerVars, offered>>
  BY DEF NotifyDisconnected, SetMode, Race, OnDisconnected, Disable, hostVars
<1>2. CASE NotifyDisconnected
  BY <1>1, <1>2, ForgetPreserves DEF NotifyDisconnected, OnDisconnected, Go
<1>3. CASE \E on \in BOOLEAN : SetMode(on)
  BY <1>1, <1>3, ForgetPreserves DEF SetMode, Disable
<1> QED BY <1>2, <1>3

LEMMA PipelineStep == PipelineInv /\ [Next]_vars => PipelineInv'
<1> SUFFICES ASSUME PipelineInv, [Next]_vars PROVE PipelineInv' OBVIOUS
<1>1. CASE UNCHANGED vars
  <2>1. UNCHANGED <<displayVars, session, assemblerVars, offered, races, frameId>>
    BY <1>1 DEF vars, hostVars, history, displayVars, uiVars
  <2>2. PipelineOK => PipelineOK' BY <2>1, QuietSteps
  <2> QED BY <2>1, <2>2 DEF PipelineInv
<1>2. CASE Next
  <2>1. frameId \in Nat /\ frameId' \in Nat /\ frameId' >= frameId
    BY <1>2, NumbersGrow DEF PipelineInv
  <2> SUFFICES ASSUME races' = {} PROVE PipelineOK' BY <2>1 DEF PipelineInv
  <2>2. races = {} BY <1>2, RacesStay
  <2>4. PipelineOK BY <2>2 DEF PipelineInv
  <2>5. CASE \/ \E a \in Redrawn : AppDraws(a)
             \/ StartCycle \/ CheckLink \/ WriteAborted \/ WriteWaits \/ Retry
             \/ NotifyInvalidate \/ NotifyLost
    BY <2>4, <2>5, UserSteps
  <2>6. CASE WriteAccepted
    <3>1. connected /\ connected' = connected
      BY <2>6 DEF WriteAccepted, Race, WriteRect, linkVars
    <3> QED BY <2>4, <2>6, <3>1, WritePreserves
  <2>7. CASE GiveUp
    <3>1. DropPendingFrame /\ UNCHANGED <<session, assemblerVars, offered>>
      BY <2>7 DEF GiveUp, hostVars, history
    <3> QED BY <2>4, <3>1, DropPreserves
  <2>8. CASE FlushFrame BY <2>4, <2>8, FlushPreserves
  <2>9. CASE Pump BY <2>4, <2>9, PumpPreserves
  <2>10. CASE TransmitBegin BY <2>4, <2>10, SendBeginPreserves
  <2>11. CASE TransmitRect BY <2>4, <2>11, SendRectPreserves
  <2>12. CASE TransmitEnd
    <3>1. sendOk' \/ ~FrameOpen BY <2>12 DEF TransmitEnd, SendEnd, Race
    <3> QED BY <2>4, <2>12, <3>1, SendEndPreserves
  <2>13. CASE SessionUp \/ NotifyConnected \/ SessionLost BY <2>4, <2>13, SessionPreserves
  <2>14. CASE NotifyDisconnected \/ (\E on \in BOOLEAN : SetMode(on))
    BY <2>4, <2>14, EmptyingPreserves
  <2> QED
    BY <1>2, <2>5, <2>6, <2>7, <2>8, <2>9, <2>10, <2>11, <2>12, <2>13, <2>14 DEF Next
<1> QED BY <1>1, <1>2

\* As long as nothing slipped through one of the four windows, whatever is refused,
\* aborted, lost or switched and however often the frame numbers wrapped: every
\* picture the host commits is one the UI task flushed, with each of its rectangles
\* in the order they were written.
THEOREM PictureIsWhole == Spec => []WholeWithoutRaces
<1>1. PipelineInv => WholeWithoutRaces
  BY DEF PipelineInv, PipelineOK, CommittedOK, WholeWithoutRaces, CommittedIsWhole
<1> QED BY <1>1, PipelineInitial, PipelineStep, PTL DEF Spec

\* Under the same premise needFull_ does what it is for: between a PARTIAL
\* picture and the one the host committed before it, no frame is missing.
THEOREM PartialFollowsItsBase == Spec => []ChainUnbroken
<1>1. PipelineInv => ChainUnbroken
  BY DEF PipelineInv, PipelineOK, CommittedOK, ChainUnbroken
<1> QED BY <1>1, PipelineInitial, PipelineStep, PTL DEF Spec

-----------------------------------------------------------------------------
(* The picture of the widget tree reaches the host.  While nothing goes    *)
(* wrong, every area is to be rendered, or rendered and to be written, or  *)
(* the host will show it as it is when what is queued has been sent: that  *)
(* is PictureOK, the part of the invariant from which the theorem follows. *)

\* No race, no frame number used twice, nothing refused and nothing given up.
Calm == races = {} /\ troubles["refusal"] = 0 /\ troubles["giveUp"] = 0

Served == session \in {"announced", "connected"}

\* Areas of this rendering cycle whose pixels are not in the queue yet.
Waiting == IF uiPc = "flush" THEN {} ELSE {todo[i] : i \in DOMAIN todo}

UiOK ==
    /\ IsSeq(todo)
    /\ uiPc \in {"idle", "check", "write", "wait", "flush"}
    /\ uiPc = "idle" <=> todo = <<>>
    /\ uiPc = "flush" => Len(todo) = 1
    /\ uiPc = "write" => enabled
    /\ dirty \subseteq Areas
    /\ content = [a \in Areas |-> content[a]] /\ image = [a \in Areas |-> image[a]]
    /\ troubles \in [Troubles -> Nat]

\* While a session is served, a frame begun is on its way to its END.
ServedOK ==
    /\ ~enabled => ~FrameOpen
    /\ FrameOpen => rectsWritten > 0
    /\ Served =>
         /\ abortPending = NoAbort
         /\ pumpPc \in {"begun", "rectSent"} => sendOk
         /\ pumpPc = "end" => ~endMsg.aborted
         /\ FrameOpen => ~needFull
         /\ pumpPc \in {"rect", "rectSent", "pop"} => wireOpen
         /\ FrameOpen /\ Popped > 0 => wireOpen
         /\ building => uiPc # "idle"

\* What the rectangles R of a frame of some kind leave at an area that showed p.
RectsOn(R, a) == {j \in DOMAIN R : R[j].area = a}
Over(R, kind, a, p) ==
    IF RectsOn(R, a) = {} THEN IF kind = "FULL" THEN 0 ELSE p
    ELSE R[CHOOSE i \in RectsOn(R, a) : \A j \in RectsOn(R, a) : j <= i].pixels

\* What the host will show at an area, when all is sent that is in the queue.
AfterEnd(a) ==
    IF Ending THEN Over(offered[endMsg.frame].rects, begin.kind, a, image[a]) ELSE image[a]
Outcome(a) == IF FrameOpen THEN Over(FrameWritten, frameType, a, AfterEnd(a)) ELSE AfterEnd(a)

\* Every area is to be rendered, to be written, or will be shown as it is.
InService == session = "connected" /\ enabled /\ ~fullInvalidatePending
PictureOK ==
    InService =>
       /\ needFull => Areas \subseteq Waiting
       /\ \A a \in Areas : a \in dirty \/ a \in Waiting \/ Outcome(a) = content[a]

ScreenInv == PipelineInv /\ UiOK /\ (Calm => ServedOK /\ PictureOK)

-----------------------------------------------------------------------------
(* Areas and rectangles.                                                   *)

LEMMA EveryAreaListed ==
    ASSUME NEW S, S \subseteq Areas
    PROVE  /\ IsSeq(InOrder(S))
           /\ \A a \in S : \E i \in DOMAIN InOrder(S) : InOrder(S)[i] = a
           /\ S # {} => InOrder(S) # <<>>
<1> DEFINE Before(a) == {b \in S : b < a}
<1>1. IsFiniteSet(S) /\ S \subseteq Nat BY AreaAssumption, FS_Subset
<1>2. Cardinality(S) \in Nat BY <1>1, FS_CardinalityType
<1>3. \A a \in S : /\ IsFiniteSet(Before(a)) /\ Cardinality(Before(a)) \in Nat
                   /\ Cardinality(Before(a)) < Cardinality(S)
  <2> SUFFICES ASSUME NEW a \in S
               PROVE  /\ IsFiniteSet(Before(a)) /\ Cardinality(Before(a)) \in Nat
                      /\ Cardinality(Before(a)) < Cardinality(S)
    OBVIOUS
  <2>1. Before(a) \subseteq S /\ Before(a) # S BY <1>1
  <2>2. IsFiniteSet(Before(a)) /\ Cardinality(Before(a)) <= Cardinality(S)
        /\ (Cardinality(Before(a)) = Cardinality(S) => Before(a) = S)
    BY <1>1, <2>1, FS_Subset
  <2>3. Cardinality(Before(a)) \in Nat BY <2>2, FS_CardinalityType
  <2> QED BY <1>2, <2>1, <2>2, <2>3
<1>4. \A a, b \in S : Cardinality(Before(a)) = Cardinality(Before(b)) => a = b
  <2>1. ASSUME NEW a \in S, NEW b \in S, a < b
        PROVE  Cardinality(Before(a)) # Cardinality(Before(b))
    <3>1. /\ a \in Nat /\ b \in Nat /\ a \in Before(b) /\ a \notin Before(a)
          /\ \A c \in Before(a) : c \in Before(b)
      BY <1>1, <2>1
    <3>2. Before(a) \subseteq Before(b) /\ Before(a) # Before(b) BY <3>1
    <3> QED BY <1>3, <3>2, FS_Subset
  <2>2. ASSUME NEW a \in S, NEW b \in S, Cardinality(Before(a)) = Cardinality(Before(b)), a # b
        PROVE  FALSE
    <3>1. a < b \/ b < a BY <1>1, <2>2
    <3> QED BY <2>1, <2>2, <3>1
  <2> QED BY <2>2
<1>5. PICK q : q = InOrder(S) OBVIOUS
<1> HIDE DEF Before
<1>6. q = [i \in 1..Cardinality(S) |-> CHOOSE a \in S : Cardinality(Before(a)) = i - 1]
  BY <1>5 DEF InOrder, Before
<1>7. IsSeq(q) /\ Len(q) = Cardinality(S) BY <1>2, <1>6, FunctionSeq
<1>8. \A a \in S : \E i \in DOMAIN q : q[i] = a
  <2> SUFFICES ASSUME NEW a \in S PROVE \E i \in DOMAIN q : q[i] = a OBVIOUS
  <2>1. PICK n \in Nat : n = Cardinality(Before(a)) /\ n < Cardinality(S) BY <1>3
  <2>2. PICK i : i = n + 1 OBVIOUS
  <2>3. i \in 1..Cardinality(S) /\ i - 1 = n BY <1>2, <2>1, <2>2
  <2>4. (CHOOSE b \in S : Cardinality(Before(b)) = n) = a
    <3>1. PICK c : c = (CHOOSE b \in S : Cardinality(Before(b)) = n) OBVIOUS
    <3>2. c \in S /\ Cardinality(Before(c)) = n BY <2>1, <3>1
    <3>3. c = a BY <1>4, <2>1, <3>2
    <3> QED BY <3>1, <3>3
  <2>5. q[i] = a /\ i \in DOMAIN q BY <1>6, <2>3, <2>4
  <2> QED BY <2>5
<1>9. S # {} => q # <<>> BY <1>8
<1> QED BY <1>5, <1>7, <1>8, <1>9

\* A set of numbers that has a bound has a greatest one.
LEMMA GreatestOne ==
    ASSUME NEW S, S # {}, NEW n \in Nat, \A j \in S : j \in Nat /\ j <= n
    PROVE  \E i \in S : \A j \in S : j <= i
<1> DEFINE T == {n - j : j \in S}
<1>1. PICK R : R = OpToRel(<, Nat) OBVIOUS
<1>2. IsWellFoundedOn(R, Nat) BY <1>1, NatLessThanWellFounded, Zenon
<1>3. \A k, m \in Nat : k < m => <<k, m>> \in R BY <1>1 DEF OpToRel
<1>4. T \subseteq Nat /\ T # {} OBVIOUS
<1> HIDE DEF T
<1>5. PICK x \in T : \A y \in T : ~(<<y, x>> \in R) BY <1>2, <1>4, WFMin
<1>6. PICK i \in S : x = n - i BY DEF T
<1>7. ASSUME NEW j \in S PROVE j <= i
  <2>1. n - j \in T BY DEF T
  <2>2. ~(n - j < n - i) BY <1>3, <1>4, <1>5, <1>6, <2>1
  <2> QED BY <1>6, <2>2
<1> QED BY <1>7

LEMMA PaintedIsOver ==
    ASSUME NEW frame, NEW a \in Areas
    PROVE  Painted(frame)[a] = Over(RectsOf(frame), frame.kind, a, image[a])
BY DEF Painted, Over, RectsOn, Black

Longer(A, R, r) == IsSeq(R) /\ A = Append(R, r)

LEMMA OverAppended ==
    ASSUME NEW R, NEW r, NEW A, Longer(A, R, r), NEW kind, NEW a, NEW p
    PROVE  /\ a = r.area => Over(A, kind, a, p) = r.pixels
           /\ a # r.area => Over(A, kind, a, p) = Over(R, kind, a, p)
<1>1. /\ DOMAIN R = 1..Len(R) /\ Len(R) \in Nat /\ DOMAIN A = DOMAIN R \cup {Len(R) + 1}
      /\ A[Len(R) + 1] = r /\ \A i \in DOMAIN R : A[i] = R[i]
  BY LongerByOne, SeqIndices DEF Longer
<1>2. PICK n : n = Len(R) + 1 OBVIOUS
<1>3. CASE a = r.area
  <2>1. PICK S : S = RectsOn(A, a) OBVIOUS
  <2>2. n \in S /\ \A j \in S : j \in Nat /\ j <= n BY <1>1, <1>2, <1>3, <2>1 DEF RectsOn
  <2>3. (CHOOSE i \in S : \A j \in S : j <= i) = n
    <3>1. PICK c : c = (CHOOSE i \in S : \A j \in S : j <= i) OBVIOUS
    <3>2. c \in S /\ \A j \in S : j <= c BY <2>2, <3>1
    <3>3. c = n BY <2>2, <3>2
    <3> QED BY <3>1, <3>3
  <2>4. Over(A, kind, a, p) = A[n].pixels
    <3>1. S # {} BY <2>2
    <3> QED BY <2>1, <2>3, <3>1, Zenon DEF Over
  <2> QED BY <1>1, <1>2, <1>3, <2>4
<1>4. CASE a # r.area
  <2>1. PICK S : S = RectsOn(R, a) /\ S \subseteq DOMAIN R BY DEF RectsOn
  <2>2. RectsOn(A, a) = S BY <1>1, <1>4, <2>1 DEF RectsOn
  <2>3. PICK c : c = (CHOOSE i \in S : \A j \in S : j <= i) OBVIOUS
  <2>4. CASE S = {} BY <1>4, <2>1, <2>2, <2>4 DEF Over
  <2>5. CASE S # {}
    <3>1. c \in S
      <4>1. \E i \in S : \A j \in S : j <= i
        <5>1. Len(R) \in Nat BY <1>1
        <5>2. S \subseteq Nat /\ \A j \in S : j <= Len(R) BY <1>1, <2>1
        <5> QED BY <2>5, <5>1, <5>2, GreatestOne
      <4> QED BY <2>3, <4>1
    <3>2. A[c] = R[c] BY <1>1, <2>1, <3>1
    <3> QED BY <1>4, <2>1, <2>2, <2>3, <2>5, <3>2 DEF Over
  <2> QED BY <2>4, <2>5
<1> QED BY <1>3, <1>4

\* The first rectangle of a frame.
LEMMA OverFirst ==
    ASSUME NEW r, NEW A, A = <<r>>, NEW kind, NEW a, NEW p
    PROVE  Over(A, kind, a, p) = IF a = r.area THEN r.pixels ELSE IF kind = "FULL" THEN 0 ELSE p
<1>1. A[1] = r /\ DOMAIN A = {1}
  <2>1. IsSeq(A) /\ Len(A) = 1 /\ A[1] = r BY SingleSeq
  <2>2. DOMAIN A = 1..1 BY <2>1, SeqIndices
  <2> QED BY <2>1, <2>2
<1>2. CASE a = r.area
  <2>1. PICK S : S = RectsOn(A, a) OBVIOUS
  <2>2. S = {1} BY <1>1, <1>2, <2>1 DEF RectsOn
  <2>3. (CHOOSE i \in S : \A j \in S : j <= i) = 1 BY <2>2
  <2>4. Over(A, kind, a, p) = A[1].pixels
    <3>1. S # {} BY <2>2
    <3> QED BY <2>1, <2>3, <3>1, Zenon DEF Over
  <2> QED BY <1>1, <1>2, <2>4
<1>3. CASE a # r.area
  <2>1. RectsOn(A, a) = {} BY <1>1, <1>3 DEF RectsOn
  <2> QED BY <1>3, <2>1 DEF Over
<1> QED BY <1>2, <1>3

-----------------------------------------------------------------------------
(* LVGL's rendering cycle.                                                 *)

LEMMA NextAreaGoesOn ==
    ASSUME UiOK, uiPc # "idle", NextArea
    PROVE  /\ IsSeq(todo') /\ uiPc' \in {"idle", "check"}
           /\ uiPc' = "idle" <=> todo' = <<>>
           /\ \A a \in Waiting : a = Head(todo) \/ a \in Waiting'
<1>1. IsSeq(todo) /\ todo # <<>> BY DEF UiOK
<1>2. PICK q : q = Tail(todo) OBVIOUS
<1>3. /\ IsSeq(q) /\ Len(q) = Len(todo) - 1 /\ DOMAIN q = 1..Len(q) /\ DOMAIN todo = 1..Len(todo)
      /\ \A i \in 1..Len(q) : i + 1 \in DOMAIN todo /\ q[i] = todo[i + 1]
  BY <1>1, <1>2, ShorterByOne
<1>4. Len(todo) \in Nat /\ Len(q) \in Nat /\ Head(todo) = todo[1] BY <1>1, <1>3, SeqIndices, TailKeeps
<1>5. todo' = q /\ uiPc' = IF Len(todo) = 1 THEN "idle" ELSE "check" BY <1>2 DEF NextArea
<1>6. uiPc' = "idle" <=> todo' = <<>>
  <2>1. q = <<>> <=> Len(q) = 0 BY <1>3, NonEmpty
  <2> QED BY <1>3, <1>4, <1>5, <2>1
<1>7. Waiting' = {q[i] : i \in DOMAIN q} BY <1>5 DEF Waiting
<1>8. ASSUME NEW a \in Waiting PROVE a = Head(todo) \/ a \in Waiting'
  <2>1. PICK i \in DOMAIN todo : a = todo[i]
    <3>1. uiPc # "flush" BY <1>8 DEF Waiting
    <3> QED BY <1>8, <3>1 DEF Waiting
  <2>2. CASE i = 1 BY <1>4, <2>1, <2>2
  <2>3. CASE i # 1
    <3>1. i - 1 \in 1..Len(q) /\ i - 1 + 1 = i BY <1>3, <1>4, <2>3
    <3>2. q[i - 1] = a BY <1>3, <2>1, <3>1
    <3> QED BY <1>3, <1>7, <3>1, <3>2
  <2> QED BY <2>2, <2>3
<1> QED BY <1>3, <1>5, <1>6, <1>8

LEMMA TroubleCounts ==
    ASSUME troubles \in [Troubles -> Nat], NEW t \in Troubles, Trouble(t)
    PROVE  /\ troubles' \in [Troubles -> Nat]
           /\ troubles'[t] # 0
           /\ \A u \in Troubles : troubles'[u] = 0 => troubles[u] = 0
<1>1. troubles' = [troubles EXCEPT ![t] = @ + 1] BY DEF Trouble
<1> QED BY <1>1

\* Troubles are counted, and one that did not happen yet had not happened before.
LEMMA TroublesGrow ==
    ASSUME troubles \in [Troubles -> Nat], Next
    PROVE  /\ troubles' \in [Troubles -> Nat]
           /\ \A u \in Troubles : troubles'[u] = 0 => troubles[u] = 0
<1>1. "refusal" \in Troubles /\ "giveUp" \in Troubles /\ "loss" \in Troubles /\ "switch" \in Troubles
  BY DEF Troubles
<1>2. CASE UNCHANGED troubles BY <1>2
<1>3. CASE \E t \in Troubles : Trouble(t) BY <1>3, TroubleCounts
<1>4. (UNCHANGED troubles) \/ \E t \in Troubles : Trouble(t)
  <2>1. CASE (\E a \in Redrawn : AppDraws(a)) \/ StartCycle \/ CheckLink \/ WriteAccepted
             \/ WriteAborted \/ WriteWaits \/ Retry \/ FlushFrame \/ Pump \/ SessionUp
             \/ NotifyConnected \/ NotifyInvalidate \/ NotifyLost \/ NotifyDisconnected
    BY <2>1 DEF AppDraws, StartCycle, CheckLink, WriteAccepted, WriteAborted, WriteWaits, Retry,
                FlushFrame, Pump, SessionUp, NotifyConnected, NotifyInvalidate, NotifyLost,
                NotifyDisconnected, counters
  <2>2. CASE GiveUp BY <1>1, <2>2, Zenon DEF GiveUp
  <2>3. CASE SessionLost BY <1>1, <2>3, Zenon DEF SessionLost
  <2>4. ASSUME NEW on \in BOOLEAN, SetMode(on) PROVE Trouble("switch") BY <2>4 DEF SetMode
  <2>5. CASE TransmitBegin \/ TransmitRect \/ TransmitEnd
    <3>1. (UNCHANGED troubles) \/ Trouble("refusal")
      BY <2>5 DEF TransmitBegin, TransmitRect, TransmitEnd, Taken, NotTaken, CutShort, counters
    <3> QED BY <1>1, <3>1
  <2> QED BY <1>1, <2>1, <2>2, <2>3, <2>4, <2>5 DEF Next
<1> QED BY <1>2, <1>3, <1>4

LEMMA CalmBefore ==
    ASSUME PipelineInv, UiOK, Next, Calm'
    PROVE  Calm
<1>1. races = {} BY RacesStay DEF Calm
<1>2. troubles["refusal"] = 0 /\ troubles["giveUp"] = 0
  <2>1. "refusal" \in Troubles /\ "giveUp" \in Troubles BY DEF Troubles
  <2> QED BY <2>1, TroublesGrow DEF Calm, UiOK
<1> QED BY <1>1, <1>2 DEF Calm

\* LVGL flushes at least one area in a cycle, each that is to be rendered.
LEMMA CycleStarts ==
    ASSUME UiOK, StartCycle
    PROVE  /\ UiOK' /\ Waiting = {}
           /\ fullInvalidatePending => Areas \subseteq Waiting'
           /\ dirty \subseteq Waiting'
<1>1. PICK S : S = (IF fullInvalidatePending THEN Areas ELSE dirty) OBVIOUS
<1>2. S \subseteq Areas /\ S # {} /\ dirty \subseteq S
  BY <1>1, AreaAssumption DEF StartCycle, UiOK
<1>3. PICK q : q = InOrder(S) OBVIOUS
<1>4. IsSeq(q) /\ q # <<>> /\ \A a \in S : \E i \in DOMAIN q : q[i] = a
  BY <1>2, <1>3, EveryAreaListed
<1>5. /\ todo' = q /\ dirty' = {} /\ uiPc' = "check" /\ uiPc = "idle"
      /\ UNCHANGED <<content, image, troubles, enabled>>
  BY <1>1, <1>3 DEF StartCycle, displayVars, linkVars, hostVars, counters
<1>6. UiOK' BY <1>4, <1>5 DEF UiOK
<1>7. Waiting = {} BY <1>5 DEF Waiting, UiOK
<1>8. S \subseteq Waiting' BY <1>4, <1>5 DEF Waiting
<1> QED BY <1>1, <1>2, <1>6, <1>7, <1>8

LEMMA UiKept ==
    ASSUME UiOK, UNCHANGED lvglVars, troubles' \in [Troubles -> Nat],
           image' = [a \in Areas |-> image'[a]],
           enabled' = enabled \/ uiPc # "write"
    PROVE  UiOK'
BY DEF UiOK, lvglVars

LEMMA ImageKept ==
    ASSUME UiOK, NEW m, Taken(m)
    PROVE  image' = [a \in Areas |-> image'[a]]
<1>1. CASE UNCHANGED image BY <1>1 DEF UiOK
<1>2. ASSUME NEW frame, image' = Painted(frame) PROVE image' = [a \in Areas |-> image'[a]]
  <2>1. PICK v : v = image' OBVIOUS
  <2>2. v = [a \in Areas |-> v[a]] BY <1>2, <2>1 DEF Painted
  <2> QED BY <2>1, <2>2
<1> QED BY <1>1, <1>2 DEF Taken

LEMMA UiStep == ASSUME UiOK, Next PROVE UiOK'
<1>1. troubles' \in [Troubles -> Nat] BY TroublesGrow DEF UiOK
<1> USE DEF displayVars, linkVars, uiVars, hostVars, history, counters
<1>2. ASSUME NEW a \in Redrawn, AppDraws(a) PROVE UiOK'
  <2>1. a \in Areas BY AreaAssumption
  <2>2. content' = [content EXCEPT ![a] = @ + 1] /\ dirty' = dirty \cup {a}
        /\ UNCHANGED <<todo, uiPc, enabled, image>>
    BY <1>2 DEF AppDraws
  <2>3. PICK v : v = content' OBVIOUS
  <2>4. v = [x \in Areas |-> v[x]] BY <2>2, <2>3 DEF UiOK
  <2> QED BY <1>1, <2>1, <2>2, <2>3, <2>4 DEF UiOK
<1>3. CASE StartCycle BY <1>3, CycleStarts
<1>4. CASE /\ uiPc # "idle" /\ NextArea /\ UNCHANGED image
  <2>1. /\ IsSeq(todo') /\ uiPc' \in {"idle", "check"} /\ (uiPc' = "idle" <=> todo' = <<>>)
    BY <1>4, NextAreaGoesOn
  <2> QED BY <1>1, <1>4, <2>1 DEF UiOK, NextArea
<1>5. CASE CheckLink
  <2>1. CASE NextArea BY <1>4, <1>5, <2>1 DEF CheckLink
  <2>2. CASE ~NextArea
    <3>1. LinkVerdict = "Ok" /\ uiPc' = "write" /\ UNCHANGED <<content, dirty, todo, enabled, image>>
          /\ uiPc = "check"
      BY <1>5, <2>2 DEF CheckLink
    <3>2. enabled BY <3>1 DEF LinkVerdict
    <3> QED BY <1>1, <3>1, <3>2 DEF UiOK
  <2> QED BY <2>1, <2>2
<1>6. CASE WriteAccepted
  <2>1. CASE NextArea BY <1>4, <1>6, <2>1 DEF WriteAccepted
  <2>2. CASE ~NextArea
    <3>1. Len(todo) = 1 /\ uiPc' = "flush" /\ UNCHANGED <<content, dirty, todo, image>> /\ uiPc = "write"
      BY <1>6, <2>2 DEF WriteAccepted
    <3> QED BY <1>1, <3>1 DEF UiOK
  <2> QED BY <2>1, <2>2
<1>7. CASE WriteAborted \/ GiveUp \/ FlushFrame
  BY <1>4, <1>7 DEF WriteAborted, GiveUp, FlushFrame
<1>8. CASE WriteWaits \/ Retry
  <2>1. uiPc \in {"write", "wait"} /\ uiPc' \in {"wait", "check"}
        /\ UNCHANGED <<content, dirty, todo, image>>
    BY <1>8 DEF WriteWaits, Retry
  <2> QED BY <1>1, <2>1 DEF UiOK
<1>9. CASE UNCHANGED <<lvglVars, image>> /\ (enabled' = enabled \/ uiPc # "write")
  <2>1. image' = [a \in Areas |-> image'[a]] BY <1>9 DEF UiOK
  <2> QED BY <1>1, <1>9, <2>1, UiKept
<1>10. CASE Pump \/ SessionUp \/ NotifyConnected \/ NotifyInvalidate \/ NotifyLost
            \/ NotifyDisconnected
  <2>1. UNCHANGED <<lvglVars, image, enabled>>
    BY <1>10 DEF Pump, PumpEmpty, PumpStart, PumpPeek, PumpBegun, PumpRectSent, PumpPop, PumpFinish,
                 SessionUp, NotifyConnected, NotifyInvalidate, NotifyLost, NotifyDisconnected,
                 OnConnected, OnDisconnected
  <2> QED BY <1>9, <2>1
<1>11. ASSUME NEW on \in BOOLEAN, SetMode(on) PROVE UiOK' BY <1>9, <1>11 DEF SetMode
<1>12. CASE SessionLost
  <2>1. image' = Black /\ UNCHANGED <<lvglVars, enabled>> BY <1>12 DEF SessionLost
  <2>2. PICK v : v = Black OBVIOUS
  <2>3. v = [a \in Areas |-> v[a]] BY <2>2 DEF Black
  <2> QED BY <1>1, <2>1, <2>2, <2>3, UiKept
<1>13. CASE TransmitBegin \/ TransmitRect \/ TransmitEnd
  <2>1. UNCHANGED <<lvglVars, enabled>>
    BY <1>13 DEF TransmitBegin, TransmitRect, TransmitEnd, SendBegin, SendRect, SendEnd, Sent
  <2>2. (UNCHANGED image) \/ \E m : Taken(m)
    BY <1>13 DEF TransmitBegin, TransmitRect, TransmitEnd, NotTaken, CutShort
  <2>3. image' = [a \in Areas |-> image'[a]] BY <2>2, ImageKept DEF UiOK
  <2> QED BY <1>1, <2>1, <2>3, UiKept
<1> QED
  BY <1>2, <1>3, <1>5, <1>6, <1>7, <1>8, <1>10, <1>11, <1>12, <1>13 DEF Next

-----------------------------------------------------------------------------
(* Frames while a session is served.                                       *)

LEMMA NothingRefused ==
    ASSUME UiOK, Calm', Trouble("refusal") \/ Trouble("giveUp")
    PROVE  FALSE
<1>1. "refusal" \in Troubles /\ "giveUp" \in Troubles BY DEF Troubles
<1>2. troubles'["refusal"] # 0 \/ troubles'["giveUp"] # 0 BY <1>1, TroubleCounts DEF UiOK
<1> QED BY <1>2 DEF Calm

\* The sink takes every message, and so does the host.
LEMMA SinkTakes ==
    ASSUME UiOK, Calm', Up
    PROVE  /\ TransmitBegin => SendBegin(TRUE) /\ Taken(BeginMessage)
           /\ TransmitRect => SendRect(TRUE) /\ Taken(RectMessage)
           /\ TransmitEnd => SendEnd(TRUE) /\ Taken(endMsg)
BY NothingRefused DEF TransmitBegin, TransmitRect, TransmitEnd, NotTaken, CutShort

LEMMA ServedAside ==
    ASSUME ServedOK, UNCHANGED displayVars, Served' => Served,
           Served' /\ building => uiPc' # "idle"
    PROVE  ServedOK'
<1>1. (FrameOpen' <=> FrameOpen) /\ UNCHANGED Popped
  BY DEF displayVars, uiVars, queueVars, wireVars, FrameOpen, Popped
<1> QED BY <1>1 DEF ServedOK, displayVars, uiVars, wireVars, pumpVars, linkVars

LEMMA ServedUser ==
    ASSUME PipelineOK, UiOK, ServedOK,
           \/ \E a \in Redrawn : AppDraws(a)
           \/ StartCycle \/ CheckLink \/ WriteAborted \/ WriteWaits \/ Retry
           \/ NotifyInvalidate \/ NotifyLost \/ SessionUp \/ SessionLost
    PROVE  ServedOK'
<1>1. UNCHANGED displayVars
  BY DEF AppDraws, StartCycle, CheckLink, WriteAborted, WriteWaits, Retry, NotifyInvalidate,
         NotifyLost, SessionUp, SessionLost
<1>2. Served' => Served
  <2>1. CASE UNCHANGED session BY <2>1 DEF Served
  <2>2. CASE NotifyInvalidate \/ NotifyLost \/ SessionUp \/ SessionLost
    BY <2>2 DEF NotifyInvalidate, NotifyLost, SessionUp, SessionLost, Go, Served
  <2> QED BY <2>1, <2>2 DEF AppDraws, StartCycle, CheckLink, WriteAborted, WriteWaits, Retry
<1>3. Served' /\ building => uiPc' # "idle"
  <2> SUFFICES ASSUME Served, building PROVE uiPc' # "idle" BY <1>2
  <2>1. uiPc # "idle" /\ abortPending = NoAbort /\ enabled /\ connected
    <3>1. FrameOpen BY DEF FrameOpen
    <3> QED BY <3>1 DEF ServedOK, PipelineOK, FlagsOK
  <2>2. ~WriteAborted BY <2>1 DEF WriteAborted, WriteVerdict
  <2>3. LinkVerdict = "Ok" BY <2>1 DEF LinkVerdict
  <2> QED BY <2>1, <2>2, <2>3 DEF AppDraws, StartCycle, CheckLink, WriteWaits, Retry,
          NotifyInvalidate, NotifyLost, SessionUp, SessionLost, lvglVars
<1> QED BY <1>1, <1>2, <1>3, ServedAside

LEMMA ServedWrite ==
    ASSUME PipelineOK, UiOK, ServedOK, WriteAccepted
    PROVE  ServedOK'
<1>1. PICK a, px : WriteRect(a, px) BY DEF WriteAccepted
<1>2. UNCHANGED <<session, pumpVars, wireVars, endQueued, abortPending, linkVars>>
      /\ building' = TRUE /\ needFull' = (building /\ needFull)
  BY <1>1 DEF WriteAccepted, WriteRect
<1>3. enabled' /\ uiPc' # "idle"
  BY <1>2 DEF WriteAccepted, UiOK, linkVars, NextArea
<1>4. rectsWritten' > 0
  <2>1. PICK n : n = (IF ~building THEN 0 ELSE rectsWritten) /\ rectsWritten' = n + 1
    BY <1>1 DEF WriteRect
  <2>2. n \in Nat BY <2>1 DEF PipelineOK, QueueOK
  <2> QED BY <2>1, <2>2
<1>5. /\ abortPending = NoAbort
      /\ building => Popped' = Popped
      /\ ~building => Popped' = 0
  BY WriteKeepsQueue
<1>6. building => FrameOpen BY DEF FrameOpen
<1>7. ASSUME Served
      PROVE /\ pumpPc \in {"begun", "rectSent"} => sendOk
            /\ pumpPc = "end" => ~endMsg.aborted
            /\ ~needFull'
            /\ pumpPc \in {"rect", "rectSent", "pop"} => wireOpen
            /\ Popped' > 0 => wireOpen
  <2>1. needFull' = FALSE
    <3>1. building => ~needFull BY <1>6, <1>7 DEF ServedOK
    <3> QED BY <1>2, <3>1, Zenon
  <2>2. Popped' > 0 => building /\ Popped > 0 BY <1>5
  <2> QED BY <1>6, <1>7, <2>1, <2>2 DEF ServedOK
<1> QED BY <1>2, <1>3, <1>4, <1>5, <1>7 DEF ServedOK, Served, pumpVars, wireVars

LEMMA ServedFlush ==
    ASSUME ServedOK, FlushFrame
    PROVE  ServedOK'
<1>1. UNCHANGED <<frameId, frameType, rectsWritten, queueVars, wireVars, pumpVars, linkVars,
                  needFull, abortPending, session>>
      /\ building' = FALSE /\ endQueued' = (endQueued \/ building)
  BY DEF FlushFrame, Flush
<1>2. (FrameOpen' <=> FrameOpen) /\ UNCHANGED Popped
  BY <1>1 DEF FrameOpen, Popped, queueVars, wireVars
<1> QED BY <1>1, <1>2 DEF ServedOK, Served, pumpVars, wireVars, linkVars

LEMMA ServedFinish ==
    ASSUME PipelineOK, ServedOK, PumpEmpty \/ PumpFinish, count = 0, UNCHANGED <<session, uiPc>>
    PROVE  ServedOK'
<1>1. /\ FinishFrame
      /\ UNCHANGED <<frameId, frameType, rectsWritten, queueVars, wire, sendOk, linkVars, needFull>>
  BY DEF PumpEmpty, PumpFinish
<1>2. FrameOpen' => FrameOpen BY <1>1 DEF FinishFrame, FrameOpen, queueVars
<1>3. UNCHANGED Popped BY <1>1 DEF Popped, queueVars
<1>4. CASE Served
  <2>1. abortPending = NoAbort BY <1>4 DEF ServedOK
  <2>2. CASE wireOpen /\ endQueued
    <3>1. PICK b : b = (abortPending # NoAbort) OBVIOUS
    <3>2. /\ pumpPc' = "end" /\ wireOpen' = FALSE /\ building' = FALSE /\ endQueued' = FALSE
          /\ abortPending' = NoAbort /\ endMsg' = EndOfWire(b)
      BY <1>1, <2>2, <3>1, Zenon DEF FinishFrame
    <3>3. endMsg'.aborted = b BY <3>2 DEF EndOfWire
    <3>4. ~endMsg'.aborted BY <2>1, <3>1, <3>3, Zenon
    <3>5. FrameOpen' = FALSE BY <1>1, <3>2 DEF FrameOpen, queueVars
    <3> QED BY <1>1, <3>2, <3>4, <3>5 DEF ServedOK
  <2>3. CASE ~(wireOpen /\ endQueued)
    <3>1. pumpPc' = "idle" /\ UNCHANGED <<wireOpen, building, endQueued, abortPending>>
      BY <1>1, <2>1, <2>3 DEF FinishFrame
    <3> QED BY <1>1, <1>2, <1>3, <3>1 DEF ServedOK, Served, linkVars
  <2> QED BY <2>2, <2>3
<1>5. CASE ~Served
  <2>1. ~Served' BY <1>5 DEF Served
  <2> QED BY <1>1, <1>2, <2>1 DEF ServedOK, linkVars
<1> QED BY <1>4, <1>5

LEMMA ServedPump ==
    ASSUME PipelineOK, ServedOK, Pump, races' = {}
    PROVE  ServedOK'
<1>1. UNCHANGED <<session, uiPc>> BY DEF Pump, lvglVars
<1> USE DEF uiVars, queueVars, wireVars, pumpVars, linkVars
<1>2. CASE PumpEmpty \/ PumpFinish
  <2>1. count = 0 BY <1>2 DEF Pump, Race, PumpEmpty, PumpFinish, PipelineOK, QueueOK
  <2> QED BY <1>1, <1>2, <2>1, ServedFinish
<1>3. CASE PumpStart
  <2>1. (FrameOpen' <=> FrameOpen) /\ UNCHANGED Popped BY <1>3 DEF PumpStart, FrameOpen, Popped
  <2> QED BY <1>1, <1>3, <2>1 DEF PumpStart, ServedOK, Served
<1>4. CASE PumpPeek
  <2>1. count > 0 /\ UNCHANGED <<uiVars, wireVars, sendOk, endMsg, linkVars, needFull, abortPending>>
    BY <1>4 DEF PumpPeek, PipelineOK, PumpOK
  <2>2. FrameOpen BY <2>1 DEF FrameOpen
  <2>3. CASE abortPending # NoAbort /\ SameId(slots[head].frame, abortPending)
    <3>1. ~Served' BY <1>1, <2>3 DEF ServedOK, Served
    <3> QED BY <2>1, <2>2, <3>1 DEF ServedOK
  <2>4. CASE ~(abortPending # NoAbort /\ SameId(slots[head].frame, abortPending))
    <3>1. /\ UNCHANGED queueVars /\ pumpPc' = IF slots[head].first THEN "begin" ELSE "rect"
      BY <1>4, <2>4 DEF PumpPeek
    <3>2. (FrameOpen' <=> FrameOpen) /\ UNCHANGED Popped BY <2>1, <3>1 DEF FrameOpen, Popped
    <3>3. Served /\ pumpPc' = "rect" => wireOpen
      <4>1. (slots[head].first <=> Popped = 0) /\ Popped \in Nat BY <2>1, HeadOfQueue
      <4> QED BY <2>2, <3>1, <4>1 DEF ServedOK
    <3> QED BY <1>1, <2>1, <3>1, <3>2, <3>3 DEF ServedOK, Served
  <2> QED BY <2>3, <2>4
<1>5. CASE PumpBegun \/ PumpRectSent
  <2>1. /\ UNCHANGED <<uiVars, queueVars, entry, entrySlot, sendOk, endMsg, linkVars>>
        /\ count > 0 /\ pumpPc \in {"begun", "rectSent"}
    BY <1>5 DEF PumpBegun, PumpRectSent, PipelineOK, PumpOK
  <2>2. FrameOpen /\ FrameOpen' /\ UNCHANGED Popped BY <2>1 DEF FrameOpen, Popped
  <2>3. ASSUME Served
        PROVE  wireOpen' /\ UNCHANGED <<needFull, abortPending>> /\ pumpPc' \in {"rect", "pop"}
    <3>1. sendOk BY <2>1, <2>3 DEF ServedOK
    <3> QED BY <1>5, <2>3, <3>1 DEF PumpBegun, PumpRectSent, ServedOK
  <2> QED BY <1>1, <2>1, <2>2, <2>3 DEF ServedOK, Served
<1>6. CASE PumpPop
  <2>1. /\ UNCHANGED <<uiVars, wireVars, sendOk, endMsg, linkVars, needFull, abortPending>>
        /\ count > 0 /\ pumpPc = "pop" /\ pumpPc' \in {"finish", "idle"}
    BY <1>6 DEF PumpPop, PipelineOK, PumpOK
  <2>2. FrameOpen BY <2>1 DEF FrameOpen
  <2> QED BY <1>1, <2>1, <2>2 DEF ServedOK, Served
<1> QED BY <1>2, <1>3, <1>4, <1>5, <1>6 DEF Pump

LEMMA ServedTransmit ==
    ASSUME PipelineOK, UiOK, Calm', ServedOK, TransmitBegin \/ TransmitRect \/ TransmitEnd
    PROVE  ServedOK'
<1> USE DEF uiVars, queueVars, wireVars, pumpVars, linkVars
<1>1. /\ UNCHANGED <<session, uiPc, uiVars, queueVars, wireVars, endMsg, linkVars, abortPending>>
      /\ pumpPc' \in {"begun", "rectSent", "idle"}
      /\ pumpPc' = "rectSent" => pumpPc = "rect"
  BY DEF TransmitBegin, TransmitRect, TransmitEnd, SendBegin, SendRect, SendEnd, Sent, lvglVars
<1>2. (FrameOpen' <=> FrameOpen) /\ UNCHANGED Popped BY <1>1 DEF FrameOpen, Popped
<1>3. ASSUME Served PROVE sendOk' = TRUE /\ (needFull' <=> needFull)
  <2>1. SendBegin(TRUE) \/ SendRect(TRUE) \/ SendEnd(TRUE)
    <3>1. Up BY <1>3 DEF Up, Served
    <3> QED BY <3>1, SinkTakes
  <2>2. CASE SendEnd(TRUE)
    <3>1. sendOk' = TRUE /\ needFull' = (needFull \/ ~TRUE) BY <2>2 DEF SendEnd
    <3> QED BY <3>1, Zenon
  <2>3. CASE SendBegin(TRUE) \/ SendRect(TRUE)
    <3>1. sendOk' = TRUE /\ needFull' = needFull BY <2>3 DEF SendBegin, SendRect, Sent
    <3> QED BY <3>1, Zenon
  <2> QED BY <2>1, <2>2, <2>3
<1>4. (~enabled' => ~FrameOpen') /\ (FrameOpen' => rectsWritten' > 0)
  BY <1>1, <1>2 DEF ServedOK
<1>5. ASSUME Served'
      PROVE  /\ abortPending' = NoAbort
             /\ pumpPc' \in {"begun", "rectSent"} => sendOk'
             /\ pumpPc' = "end" => ~endMsg'.aborted
             /\ FrameOpen' => ~needFull'
             /\ pumpPc' \in {"rect", "rectSent", "pop"} => wireOpen'
             /\ FrameOpen' /\ Popped' > 0 => wireOpen'
             /\ building' => uiPc' # "idle"
  <2>1. Served BY <1>1, <1>5 DEF Served
  <2>2. sendOk' BY <1>3, <2>1, Zenon
  <2>3. FrameOpen' => ~needFull'
    <3>1. FrameOpen => ~needFull BY <2>1 DEF ServedOK
    <3> QED BY <1>2, <1>3, <2>1, <3>1, Zenon
  <2> QED BY <1>1, <1>2, <2>1, <2>2, <2>3 DEF ServedOK
<1> QED BY <1>4, <1>5, Zenon DEF ServedOK

\* A session begins with nothing under way, and ends so.
LEMMA ServedSession ==
    ASSUME PipelineOK, ServedOK, races' = {},
           NotifyConnected \/ NotifyDisconnected \/ (\E on \in BOOLEAN : SetMode(on))
    PROVE  ServedOK'
<1> USE DEF uiVars, queueVars, wireVars, pumpVars, linkVars
<1>1. CASE NotifyConnected
  <2>1. ~FrameOpen /\ pumpPc = "idle" /\ abortPending = NoAbort
    BY <1>1 DEF NotifyConnected, Go, PipelineOK, FlagsOK, Linked
  <2>2. UNCHANGED <<uiVars, queueVars, wireVars, pumpVars, enabled, abortPending>>
    BY <1>1 DEF NotifyConnected, OnConnected
  <2>3. FrameOpen' = FALSE /\ ~building' BY <2>1, <2>2 DEF FrameOpen
  <2> QED BY <2>1, <2>2, <2>3 DEF ServedOK
<1>2. CASE NotifyDisconnected \/ (\E on \in BOOLEAN : SetMode(on))
  <2>1. Forget /\ pumpPc = "idle" BY <1>2 DEF NotifyDisconnected, OnDisconnected, SetMode, Disable, Race
  <2>2. FrameOpen' = FALSE /\ ~building' /\ abortPending' = NoAbort /\ pumpPc' = "idle"
    BY <2>1 DEF Forget, FrameOpen
  <2> QED BY <2>2 DEF ServedOK
<1> QED BY <1>1, <1>2

LEMMA ServedStep ==
    ASSUME PipelineOK, UiOK, ServedOK, Next, Calm'
    PROVE  ServedOK'
<1>1. races' = {} BY DEF Calm
<1>2. ~GiveUp BY NothingRefused DEF GiveUp
<1> QED
  BY <1>1, <1>2, ServedUser, ServedWrite, ServedFlush, ServedPump, ServedTransmit, ServedSession
     DEF Next

-----------------------------------------------------------------------------
(* What the host is about to show.                                         *)

LEMMA SameOutcome ==
    ASSUME UNCHANGED <<displayVars, image, offered, begin>>
    PROVE  \A a : Outcome(a)' = Outcome(a)
<1>1. UNCHANGED <<image, offered, begin, endMsg, pumpPc, frameId, frameType, building, endQueued,
                  count, wireOpen>>
  BY DEF displayVars, uiVars, queueVars, wireVars, pumpVars
<1>2. /\ Ending' <=> Ending
      /\ FrameOpen' <=> FrameOpen
      /\ FrameWritten' = FrameWritten
  BY <1>1 DEF Ending, FrameOpen, FrameWritten
<1>3. \A a : AfterEnd(a)' = AfterEnd(a) BY <1>1, <1>2 DEF AfterEnd, Over, RectsOn
<1> QED BY <1>1, <1>2, <1>3 DEF Outcome, Over, RectsOn

\* Steps of the UI task that write nothing.
LEMMA PictureUser ==
    ASSUME PipelineOK, UiOK, ServedOK, PictureOK,
           \/ \E a \in Redrawn : AppDraws(a)
           \/ StartCycle \/ CheckLink \/ WriteAborted \/ WriteWaits \/ Retry
    PROVE  PictureOK'
<1>1. UNCHANGED <<displayVars, image, offered, begin, session>>
  BY DEF AppDraws, StartCycle, CheckLink, WriteAborted, WriteWaits, Retry, hostVars, history,
         assemblerVars
<1>2. UNCHANGED <<enabled, needFull, connected, abortPending>> BY <1>1 DEF displayVars, linkVars
<1>3. \A a : Outcome(a)' = Outcome(a) BY <1>1, SameOutcome
<1>4. CASE StartCycle
  <2>1. /\ Waiting = {} /\ dirty \subseteq Waiting'
        /\ fullInvalidatePending => Areas \subseteq Waiting'
    BY <1>4, CycleStarts
  <2>2. UNCHANGED content BY <1>4 DEF StartCycle
  <2>3. CASE fullInvalidatePending BY <2>1, <2>3 DEF PictureOK
  <2>4. CASE ~fullInvalidatePending
    <3>1. InService' => InService BY <1>1, <1>2, <2>4 DEF InService
    <3> QED BY <1>2, <1>3, <2>1, <2>2, <3>1 DEF PictureOK
  <2> QED BY <2>3, <2>4
<1>5. ASSUME NEW a \in Redrawn, AppDraws(a) PROVE PictureOK'
  <2>1. /\ UNCHANGED <<todo, uiPc, fullInvalidatePending>> /\ dirty' = dirty \cup {a}
        /\ \A b \in Areas : b # a => content'[b] = content[b]
    BY <1>5 DEF AppDraws, UiOK
  <2>2. UNCHANGED Waiting BY <2>1 DEF Waiting
  <2>3. InService' => InService BY <1>1, <1>2, <2>1 DEF InService
  <2> QED BY <1>2, <1>3, <2>1, <2>2, <2>3 DEF PictureOK
<1>6. CASE CheckLink \/ WriteAborted \/ WriteWaits \/ Retry
  <2>1. UNCHANGED <<content, dirty, fullInvalidatePending>>
    BY <1>6 DEF CheckLink, WriteAborted, WriteWaits, Retry, NextArea
  <2>2. InService' => InService BY <1>1, <1>2, <2>1 DEF InService
  <2>3. ASSUME InService PROVE UNCHANGED Waiting
    <3>1. connected /\ abortPending = NoAbort /\ enabled
      BY <2>3 DEF InService, ServedOK, Served, PipelineOK, FlagsOK, Linked
    <3>2. LinkVerdict = "Ok" /\ ~WriteAborted BY <3>1 DEF LinkVerdict, WriteAborted, WriteVerdict
    <3>3. UNCHANGED todo /\ uiPc # "flush" /\ uiPc' # "flush"
      BY <1>6, <3>2 DEF CheckLink, WriteWaits, Retry
    <3> QED BY <3>3 DEF Waiting
  <2> QED BY <1>2, <1>3, <2>1, <2>2, <2>3 DEF PictureOK
<1> QED BY <1>4, <1>5, <1>6

LEMMA FrameGrows ==
    ASSUME OfferedOK, frameId \in Nat, building => frameId > 0,
           NEW r, offered' = Offer(r), frameId' = (IF ~building THEN frameId + 1 ELSE frameId)
    PROVE  FrameWritten' = IF building THEN Append(FrameWritten, r) ELSE <<r>>
<1>1. IsSeq(offered) /\ Len(offered) = frameId /\ DOMAIN offered = 1..frameId
  BY SeqIndices DEF OfferedOK
<1>2. CASE building
  <2>1. frameId \in DOMAIN offered /\ frameId' = frameId BY <1>1, <1>2
  <2>2. PICK R, G, A : R = FrameWritten /\ G = offered[frameId].flushed /\ A = Append(R, r) OBVIOUS
  <2>3. offered[frameId] = [rects |-> R, flushed |-> G]
    BY <2>1, <2>2 DEF OfferedOK, FrameWritten
  <2>4. PICK F, e : F = offered[frameId] /\ e = [rects |-> A, flushed |-> G] OBVIOUS
  <2>5. [F EXCEPT !.rects = A] = e BY <2>3, <2>4, RecordUpdates
  <2>6. offered' = [offered EXCEPT ![frameId] = [F EXCEPT !.rects = Append(F.rects, r)]]
    BY <1>2, <2>4, Zenon DEF Offer
  <2>7. offered' = [offered EXCEPT ![frameId] = e]
    <3>1. Append(F.rects, r) = A BY <2>2, <2>4 DEF FrameWritten
    <3> QED BY <2>5, <2>6, <3>1, Zenon
  <2>8. offered'[frameId] = e /\ e.rects = A BY <2>1, <2>4, <2>7
  <2> QED BY <1>2, <2>1, <2>2, <2>8 DEF FrameWritten
<1>3. CASE ~building
  <2>1. PICK e, a : e = [rects |-> a, flushed |-> FALSE] /\ a = <<r>> OBVIOUS
  <2>2. offered' = Append(offered, e) /\ frameId' = frameId + 1 BY <1>3, <2>1 DEF Offer
  <2>3. Append(offered, e)[frameId + 1] = e BY <1>1, AppendKeeps
  <2>4. offered'[frameId'] = e /\ e.rects = a BY <2>1, <2>2, <2>3
  <2> QED BY <1>3, <2>1, <2>4 DEF FrameWritten
<1> QED BY <1>2, <1>3

LEMMA PictureWrite ==
    ASSUME PipelineOK, UiOK, ServedOK, PictureOK, WriteAccepted
    PROVE  PictureOK'
<1>1. PICK a : WriteRect(a, content[a]) /\ a = Head(todo)
               /\ offered' = Offer([area |-> a, pixels |-> content[a]])
  BY DEF WriteAccepted
<1>2. PICK r : r = [area |-> a, pixels |-> content[a]] OBVIOUS
<1>3. r.area = a /\ r.pixels = content[a] /\ offered' = Offer(r) BY <1>1, <1>2
<1>4. /\ UNCHANGED <<session, pumpVars, wireVars, endQueued, abortPending, linkVars, image, begin,
                     content, dirty, fullInvalidatePending>>
      /\ building' = TRUE /\ needFull' = (building /\ needFull)
      /\ frameId' = (IF ~building THEN frameId + 1 ELSE frameId)
      /\ frameType' = IF building THEN frameType ELSE IF needFull THEN "FULL" ELSE "PARTIAL"
      /\ uiPc = "write"
  BY <1>1 DEF WriteAccepted, WriteRect, NextArea, hostVars, assemblerVars
<1> SUFFICES ASSUME InService' PROVE PictureOK' BY DEF PictureOK
<1>5. InService /\ Served /\ Up BY <1>4 DEF InService, Served, Up, linkVars
<1>6. /\ frameId \in Nat /\ (building \/ ~FrameOpen)
      /\ \A f \in 1..frameId : f # frameId' => offered'[f] = offered[f]
  BY WriteKeepsQueue
<1>7. FrameWritten' = IF building THEN Append(FrameWritten, r) ELSE <<r>>
  <2>1. building => frameId > 0 BY DEF PipelineOK, QueueOK, FrameOpen
  <2> QED BY <1>3, <1>4, <1>6, <2>1, FrameGrows DEF PipelineOK
<1>8. \A b \in Waiting : b = a \/ b \in Waiting'
  <2>1. CASE Len(todo) = 1
    <3>1. IsSeq(todo) /\ todo # <<>> BY <1>4 DEF UiOK
    <3>2. DOMAIN todo = 1..1 /\ Head(todo) = todo[1] BY <2>1, <3>1, SeqIndices, TailKeeps
    <3>3. \A b \in Waiting : b = todo[1] BY <1>4, <3>2 DEF Waiting
    <3> QED BY <1>1, <3>2, <3>3
  <2>2. CASE Len(todo) # 1
    <3>1. NextArea BY <2>2 DEF WriteAccepted
    <3> QED BY <1>1, <1>4, <3>1, NextAreaGoesOn
  <2> QED BY <2>1, <2>2
<1>9. needFull' = FALSE
  <2>1. building => ~needFull BY <1>5 DEF ServedOK, FrameOpen
  <2> QED BY <1>4, <2>1, Zenon
<1>10. \A b : AfterEnd(b)' = AfterEnd(b)
  <2>1. (Ending' <=> Ending) /\ UNCHANGED <<endMsg, begin, image>> BY <1>4 DEF Ending, pumpVars
  <2>2. Ending => offered'[endMsg.frame] = offered[endMsg.frame]
    <3>1. Ending => endMsg.frame \in 1..frameId /\ (FrameOpen => endMsg.frame < frameId)
      BY <1>5 DEF PipelineOK, EndOK
    <3>2. building => FrameOpen BY DEF FrameOpen
    <3>3. Ending => endMsg.frame \in 1..frameId /\ endMsg.frame # frameId' BY <1>4, <1>6, <3>1, <3>2
    <3> QED BY <1>6, <3>3
  <2> SUFFICES ASSUME NEW b PROVE AfterEnd(b)' = AfterEnd(b) OBVIOUS
  <2>3. CASE Ending
    <3>1. PICK R, kind, p : R = offered[endMsg.frame].rects /\ kind = begin.kind /\ p = image[b]
      OBVIOUS
    <3>2. offered'[endMsg'.frame].rects = R /\ begin'.kind = kind /\ image'[b] = p
      BY <2>1, <2>2, <2>3, <3>1
    <3>3. AfterEnd(b)' = Over(R, kind, b, p) BY <2>1, <2>3, <3>2 DEF AfterEnd, Over, RectsOn
    <3>4. AfterEnd(b) = Over(R, kind, b, p) BY <2>3, <3>1 DEF AfterEnd
    <3> QED BY <3>3, <3>4
  <2>4. CASE ~Ending BY <2>1, <2>4 DEF AfterEnd
  <2> QED BY <2>3, <2>4
<1>11. FrameOpen' BY <1>4 DEF FrameOpen
<1>12. ASSUME NEW b \in Areas PROVE b \in dirty' \/ b \in Waiting' \/ Outcome(b)' = content'[b]
  <2>1. PICK p : p = AfterEnd(b) OBVIOUS
  <2>2. PICK A, kind : A = FrameWritten' /\ kind = frameType' OBVIOUS
  <2>3. Outcome(b)' = Over(A, kind, b, p)
    BY <1>10, <1>11, <2>1, <2>2 DEF Outcome, Over, RectsOn
  <2>4. CASE building
    <3>1. PICK R : R = FrameWritten /\ IsSeq(R)
      <4>1. frameId \in DOMAIN offered
        <5>1. frameId > 0 BY <2>4 DEF PipelineOK, QueueOK, FrameOpen
        <5> QED BY <1>6, <5>1, SeqIndices DEF PipelineOK, OfferedOK
      <4> QED BY <4>1 DEF PipelineOK, OfferedOK, FrameWritten
    <3>2. A = Append(R, r) /\ kind = frameType BY <1>4, <1>7, <2>2, <2>4, <3>1
    <3>3. /\ b = r.area => Over(A, kind, b, p) = r.pixels
          /\ b # r.area => Over(A, kind, b, p) = Over(R, kind, b, p)
      <4>1. Longer(A, R, r) BY <3>1, <3>2 DEF Longer
      <4> QED BY <4>1, OverAppended
    <3>4. Outcome(b) = Over(R, kind, b, p)
      <4>1. FrameOpen BY <2>4 DEF FrameOpen
      <4> QED BY <2>1, <3>1, <3>2, <4>1 DEF Outcome
    <3>5. b \in dirty \/ b \in Waiting \/ Outcome(b) = content[b] BY <1>5, <1>12 DEF PictureOK
    <3> QED BY <1>3, <1>4, <1>8, <2>3, <3>3, <3>4, <3>5
  <2>5. CASE ~building
    <3>1. A = <<r>> /\ kind = IF needFull THEN "FULL" ELSE "PARTIAL" BY <1>4, <1>7, <2>2, <2>5
    <3>2. Over(A, kind, b, p) = IF b = r.area THEN r.pixels ELSE IF kind = "FULL" THEN 0 ELSE p
      BY <3>1, OverFirst
    <3>3. Outcome(b) = p BY <1>6, <2>1, <2>5 DEF Outcome
    <3>4. /\ needFull => b \in Waiting
          /\ b \in dirty \/ b \in Waiting \/ Outcome(b) = content[b]
      BY <1>5, <1>12 DEF PictureOK
    <3> QED BY <1>3, <1>4, <1>8, <2>3, <3>1, <3>2, <3>3, <3>4
  <2> QED BY <2>4, <2>5
<1> QED BY <1>9, <1>12 DEF PictureOK

LEMMA OutcomeFollows ==
    ASSUME NEW a, AfterEnd(a)' = AfterEnd(a), FrameOpen' <=> FrameOpen,
           FrameOpen => UNCHANGED <<FrameWritten, frameType>>
    PROVE  Outcome(a)' = Outcome(a)
<1>1. CASE FrameOpen
  <2>1. PICK R, kind, p : R = FrameWritten /\ kind = frameType /\ p = AfterEnd(a) OBVIOUS
  <2>2. FrameWritten' = R /\ frameType' = kind /\ AfterEnd(a)' = p BY <1>1, <2>1
  <2>3. Outcome(a)' = Over(R, kind, a, p) BY <1>1, <2>2 DEF Outcome, Over, RectsOn
  <2>4. Outcome(a) = Over(R, kind, a, p) BY <1>1, <2>1 DEF Outcome
  <2> QED BY <2>3, <2>4
<1>2. CASE ~FrameOpen BY <1>2 DEF Outcome
<1> QED BY <1>1, <1>2

\* Steps after which the host will show what it would have shown.
LEMMA OutcomeKept ==
    ASSUME Ending' <=> Ending, FrameOpen' <=> FrameOpen, UNCHANGED image,
           Ending => /\ offered'[endMsg'.frame].rects = offered[endMsg.frame].rects
                     /\ begin'.kind = begin.kind,
           FrameOpen => UNCHANGED <<FrameWritten, frameType>>
    PROVE  \A a : Outcome(a)' = Outcome(a)
<1> SUFFICES ASSUME NEW a PROVE Outcome(a)' = Outcome(a) OBVIOUS
<1>1. AfterEnd(a)' = AfterEnd(a)
  <2>1. CASE Ending
    <3>1. PICK R, kind, p : R = offered[endMsg.frame].rects /\ kind = begin.kind /\ p = image[a]
      OBVIOUS
    <3>2. offered'[endMsg'.frame].rects = R /\ begin'.kind = kind /\ image'[a] = p BY <2>1, <3>1
    <3>3. AfterEnd(a)' = Over(R, kind, a, p) BY <2>1, <3>2 DEF AfterEnd, Over, RectsOn
    <3>4. AfterEnd(a) = Over(R, kind, a, p) BY <2>1, <3>1 DEF AfterEnd
    <3> QED BY <3>3, <3>4
  <2>2. CASE ~Ending BY <2>2 DEF AfterEnd
  <2> QED BY <2>1, <2>2
<1> QED BY <1>1, OutcomeFollows

\* Steps that change nothing of the picture but what is under way to the host.
LEMMA PictureKept ==
    ASSUME PictureOK, UNCHANGED <<content, dirty, session, enabled, fullInvalidatePending>>,
           \A a \in Waiting : a \in Waiting',
           InService => /\ needFull' => needFull
                        /\ \A a \in Areas : Outcome(a)' = Outcome(a)
    PROVE  PictureOK'
<1>1. InService' => InService BY DEF InService
<1> QED BY <1>1 DEF PictureOK

LEMMA PictureFlush ==
    ASSUME PipelineOK, UiOK, PictureOK, FlushFrame
    PROVE  PictureOK'
<1>1. /\ UNCHANGED <<frameId, frameType, queueVars, wireVars, pumpVars, linkVars, needFull>>
      /\ building' = FALSE /\ endQueued' = (endQueued \/ building)
      /\ UNCHANGED <<fullInvalidatePending, session, image, begin, content, dirty>>
      /\ uiPc = "flush"
  BY DEF FlushFrame, Flush, NextArea, hostVars, assemblerVars
<1>2. frameId \in Nat /\ DOMAIN offered = 1..frameId BY SeqIndices DEF PipelineOK, OfferedOK
<1>3. \A f \in DOMAIN offered : offered'[f].rects = offered[f].rects
  <2>1. building => frameId > 0 BY DEF PipelineOK, QueueOK, FrameOpen
  <2>2. offered' = IF building THEN [offered EXCEPT ![frameId].flushed = TRUE] ELSE offered
    BY DEF FlushFrame
  <2> QED BY <1>1, <1>2, <2>1, <2>2, FlushMarks DEF PipelineOK
<1>4. Waiting = {} BY <1>1 DEF Waiting
<1>5. ASSUME InService PROVE \A a \in Areas : Outcome(a)' = Outcome(a)
  <2>1. (Ending' <=> Ending) /\ UNCHANGED endMsg BY <1>1 DEF Ending, pumpVars
  <2>2. FrameOpen' <=> FrameOpen BY <1>1 DEF FrameOpen, queueVars, wireVars
  <2>3. Ending => offered'[endMsg.frame].rects = offered[endMsg.frame].rects
    <3>1. Ending => endMsg.frame \in 1..frameId
      BY <1>5 DEF InService, Up, PipelineOK, EndOK
    <3> QED BY <1>2, <1>3, <3>1
  <2>4. FrameOpen => FrameWritten' = FrameWritten
    <3>1. FrameOpen => frameId \in DOMAIN offered BY <1>2 DEF PipelineOK, QueueOK
    <3> QED BY <1>1, <1>3, <3>1 DEF FrameWritten
  <2> QED BY <1>1, <2>1, <2>2, <2>3, <2>4, OutcomeKept
<1> QED BY <1>1, <1>4, <1>5, PictureKept DEF linkVars

\* The frame written is ended: what was under way as a frame is so as its END.
LEMMA PictureFinish ==
    ASSUME PipelineOK, ServedOK, InService, PumpEmpty \/ PumpFinish, count = 0,
           UNCHANGED <<image, offered, begin>>, NEW a
    PROVE  Outcome(a)' = Outcome(a)
<1>1. /\ pumpPc \in {"idle", "finish"} /\ FinishFrame
      /\ UNCHANGED <<frameId, frameType, queueVars, wire>>
  BY DEF PumpEmpty, PumpFinish
<1>2. abortPending = NoAbort /\ Up BY DEF InService, ServedOK, Served, Up
<1>3. ~Ending BY <1>1 DEF Ending
<1>4. CASE wireOpen /\ endQueued
  <2>1. PICK b : b = (abortPending # NoAbort) OBVIOUS
  <2>2. /\ pumpPc' = "end" /\ wireOpen' = FALSE /\ building' = FALSE /\ endQueued' = FALSE
        /\ endMsg' = EndOfWire(b)
    BY <1>1, <1>4, <2>1, Zenon DEF FinishFrame
  <2>3. endMsg'.aborted = b /\ endMsg'.frame = frameId
    BY <1>4, <2>2 DEF EndOfWire, PipelineOK, FlagsOK
  <2>4. ~endMsg'.aborted BY <1>2, <2>1, <2>3, Zenon
  <2>5. Ending' = TRUE BY <2>2, <2>4, Zenon DEF Ending
  <2>6. FrameOpen' = FALSE BY <1>1, <2>2 DEF FrameOpen, queueVars
  <2>7. begin.kind = frameType BY <1>1, <1>2, <1>4 DEF PipelineOK, HostFollows, HostHas
  <2>8. PICK R, kind, p : R = FrameWritten /\ kind = frameType /\ p = image[a] OBVIOUS
  <2>9. offered'[endMsg'.frame].rects = R /\ begin'.kind = kind /\ image'[a] = p
    BY <2>3, <2>7, <2>8 DEF FrameWritten
  <2>10. Outcome(a)' = Over(R, kind, a, p)
    <3>1. AfterEnd(a)' = Over(R, kind, a, p) BY <2>5, <2>9 DEF AfterEnd, Over, RectsOn
    <3> QED BY <2>6, <3>1 DEF Outcome
  <2>11. Outcome(a) = Over(R, kind, a, p)
    <3>1. FrameOpen BY <1>4 DEF FrameOpen
    <3>2. AfterEnd(a) = p BY <1>3, <2>8 DEF AfterEnd
    <3> QED BY <2>8, <3>1, <3>2 DEF Outcome
  <2> QED BY <2>10, <2>11
<1>5. CASE ~(wireOpen /\ endQueued)
  <2>1. pumpPc' = "idle" /\ UNCHANGED <<wireOpen, building, endQueued>>
    BY <1>1, <1>2, <1>5 DEF FinishFrame
  <2>2. (FrameOpen' <=> FrameOpen) /\ ~Ending' BY <1>1, <2>1 DEF FrameOpen, Ending, queueVars
  <2> QED BY <1>1, <1>3, <2>2, OutcomeKept DEF FrameWritten
<1> QED BY <1>4, <1>5

LEMMA PicturePump ==
    ASSUME PipelineOK, ServedOK, PictureOK, Pump, races' = {}
    PROVE  PictureOK'
<1> USE DEF uiVars, queueVars, wireVars, pumpVars, linkVars
<1>1. /\ UNCHANGED <<session, fullInvalidatePending, content, dirty, todo, uiPc>>
      /\ UNCHANGED <<image, offered, begin, enabled, frameId, frameType>>
  BY DEF Pump, lvglVars, hostVars, assemblerVars, PumpEmpty, PumpStart, PumpPeek, PumpBegun,
         PumpRectSent, PumpPop, PumpFinish
<1>2. UNCHANGED Waiting BY <1>1 DEF Waiting
<1>3. ASSUME InService
      PROVE  (needFull' => needFull) /\ \A a \in Areas : Outcome(a)' = Outcome(a)
  <2>1. abortPending = NoAbort /\ (pumpPc \in {"begun", "rectSent"} => sendOk)
    BY <1>3 DEF InService, ServedOK, Served
  <2>2. CASE PumpEmpty \/ PumpFinish
    <3>1. count = 0 BY <2>2 DEF Pump, Race, PumpEmpty, PumpFinish, PipelineOK, QueueOK
    <3>2. UNCHANGED needFull BY <2>2 DEF PumpEmpty, PumpFinish
    <3> QED BY <1>1, <1>3, <2>2, <3>1, <3>2, PictureFinish
  <2>3. CASE PumpStart \/ PumpPeek \/ PumpBegun \/ PumpRectSent \/ PumpPop
    <3>1. count > 0 BY <2>3 DEF PumpStart, PumpPeek, PumpBegun, PumpRectSent, PumpPop, PipelineOK, PumpOK
    <3>2. UNCHANGED <<building, endQueued>> /\ pumpPc # "end" /\ pumpPc' # "end"
      BY <2>3 DEF PumpStart, PumpPeek, PumpBegun, PumpRectSent, PumpPop
    <3>3. building \/ endQueued BY <2>1, <3>1 DEF PipelineOK, FlagsOK
    <3>4. FrameOpen /\ FrameOpen' /\ ~Ending /\ ~Ending' BY <3>1, <3>2, <3>3 DEF FrameOpen, Ending
    <3>5. needFull' => needFull
      BY <2>1, <2>3 DEF PumpStart, PumpPeek, PumpBegun, PumpRectSent, PumpPop
    <3> QED BY <1>1, <3>4, <3>5, OutcomeKept DEF FrameWritten
  <2> QED BY <2>2, <2>3 DEF Pump
<1> QED BY <1>1, <1>2, <1>3, PictureKept

\* The host commits the frame ended, and shows it.
LEMMA EndShown ==
    ASSUME PipelineOK, Ending, Up, Taken(endMsg),
           UNCHANGED <<offered, frameId, endMsg>>, FrameOpen' => FrameOpen, pumpPc' = "idle",
           NEW a \in Areas
    PROVE  AfterEnd(a)' = AfterEnd(a)
<1>1. HandleEnd(endMsg)
  <2>1. endMsg.type = "END" BY DEF PipelineOK, PumpOK
  <2> QED BY <2>1 DEF Taken, Received
<1>2. PICK c : /\ committed' # committed /\ committed'[Len(committed')] = c
               /\ c.kind = begin.kind /\ RectsOf(c) = offered[endMsg.frame].rects
  BY <1>1, EndCommits
<1>3. image' = Painted(c) BY <1>2 DEF Taken
<1>4. image'[a] = Over(RectsOf(c), c.kind, a, image[a]) BY <1>3, PaintedIsOver
<1>5. AfterEnd(a) = Over(RectsOf(c), c.kind, a, image[a]) BY <1>2 DEF AfterEnd
<1>6. AfterEnd(a)' = image'[a] BY DEF AfterEnd, Ending
<1> QED BY <1>4, <1>5, <1>6

LEMMA PictureTransmit ==
    ASSUME PipelineOK, UiOK, ServedOK, PictureOK, Calm', TransmitBegin \/ TransmitRect \/ TransmitEnd
    PROVE  PictureOK'
<1> USE DEF uiVars, queueVars, wireVars, pumpVars, linkVars
<1>1. /\ UNCHANGED <<session, fullInvalidatePending, content, dirty, todo, uiPc>>
      /\ UNCHANGED <<offered, enabled, frameId, frameType, building, endQueued, count, wireOpen, endMsg>>
  BY DEF TransmitBegin, TransmitRect, TransmitEnd, SendBegin, SendRect, SendEnd, Sent, lvglVars
<1>2. UNCHANGED Waiting BY <1>1 DEF Waiting
<1>3. (FrameOpen' <=> FrameOpen) /\ UNCHANGED FrameWritten BY <1>1 DEF FrameOpen, FrameWritten
<1>4. ASSUME InService, NEW a \in Areas
      PROVE  (needFull' => needFull) /\ Outcome(a)' = Outcome(a)
  <2>1. Up /\ Served BY <1>4 DEF InService, Up, Served
  <2>2. \/ SendBegin(TRUE) /\ Taken(BeginMessage)
        \/ SendRect(TRUE) /\ Taken(RectMessage)
        \/ SendEnd(TRUE) /\ Taken(endMsg)
    BY <2>1, SinkTakes
  <2>3. needFull' => needFull
    <3>1. CASE SendEnd(TRUE)
      <4>1. needFull' = (needFull \/ ~TRUE) BY <3>1 DEF SendEnd
      <4> QED BY <4>1, Zenon
    <3> QED BY <2>2, <3>1 DEF SendBegin, SendRect, Sent
  <2>4. AfterEnd(a)' = AfterEnd(a)
    <3>1. CASE SendEnd(TRUE) /\ Taken(endMsg)
      <4>1. pumpPc = "end" /\ pumpPc' = "idle" BY <3>1 DEF SendEnd
      <4>2. Ending BY <2>1, <4>1 DEF Ending, ServedOK
      <4> QED BY <1>1, <1>3, <2>1, <3>1, <4>1, <4>2, EndShown
    <3>2. CASE \/ SendBegin(TRUE) /\ Taken(BeginMessage)
               \/ SendRect(TRUE) /\ Taken(RectMessage)
      <4>1. ~Ending /\ ~Ending' BY <3>2 DEF SendBegin, SendRect, Sent, Ending
      <4>2. UNCHANGED committed
        BY <3>2 DEF Taken, Received, BeginMessage, RectMessage, HandleBegin, HandleRect, StartFrame,
                    Discard, Ignore, assemblerVars
      <4>3. UNCHANGED image BY <3>2, <4>2 DEF Taken
      <4> QED BY <4>1, <4>3 DEF AfterEnd
    <3> QED BY <2>2, <3>1, <3>2, Zenon
  <2> QED BY <1>1, <1>3, <2>3, <2>4, OutcomeFollows
<1>5. InService => (needFull' => needFull)
  <2>1. Areas # {} BY AreaAssumption
  <2> QED BY <1>4, <2>1
<1> QED BY <1>1, <1>2, <1>4, <1>5, PictureKept

LEMMA PictureStep ==
    ASSUME PipelineOK, UiOK, ServedOK, PictureOK, Next, Calm'
    PROVE  PictureOK'
<1>1. races' = {} BY DEF Calm
<1>2. CASE NotifyInvalidate \/ \E on \in BOOLEAN : SetMode(on)
  <2>1. fullInvalidatePending' = TRUE BY <1>2 DEF NotifyInvalidate, SetMode
  <2> QED BY <2>1 DEF PictureOK, InService
<1>3. CASE SessionUp \/ NotifyConnected \/ SessionLost \/ NotifyLost \/ NotifyDisconnected
  <2>1. session' # "connected"
    BY <1>3 DEF SessionUp, NotifyConnected, SessionLost, NotifyLost, NotifyDisconnected, Go
  <2> QED BY <2>1 DEF PictureOK, InService
<1>4. ~GiveUp BY NothingRefused DEF GiveUp
<1> QED
  BY <1>1, <1>2, <1>3, <1>4, PictureUser, PictureWrite, PictureFlush, PicturePump, PictureTransmit
     DEF Next

-----------------------------------------------------------------------------
(* The step and the theorem.                                               *)

LEMMA ScreenInitial == Init => ScreenInv
<1> SUFFICES ASSUME Init PROVE ScreenInv OBVIOUS
<1>1. PipelineInv BY PipelineInitial
<1>2. /\ todo = <<>> /\ uiPc = "idle" /\ dirty = {} /\ session = "down"
      /\ content = [a \in Areas |-> 1] /\ image = [a \in Areas |-> 0]
      /\ troubles = [t \in Troubles |-> 0] /\ ~FrameOpen
  BY DEF Init, DisplayInit, Black, FrameOpen
<1>3. IsSeq(todo) BY <1>2, NothingIsSeq
<1>4. UiOK BY <1>2, <1>3 DEF UiOK
<1>5. ServedOK BY <1>2 DEF ServedOK, Served
<1>6. PictureOK BY <1>2 DEF PictureOK, InService
<1> QED BY <1>1, <1>4, <1>5, <1>6 DEF ScreenInv

LEMMA ScreenStep == ScreenInv /\ [Next]_vars => ScreenInv'
<1> SUFFICES ASSUME ScreenInv, [Next]_vars PROVE ScreenInv' OBVIOUS
<1>1. PipelineInv' BY PipelineStep DEF ScreenInv
<1>2. CASE Next
  <2>1. UiOK' BY <1>2, UiStep DEF ScreenInv
  <2>2. ASSUME Calm' PROVE ServedOK' /\ PictureOK'
    <3>1. Calm BY <1>2, <2>2, CalmBefore DEF ScreenInv
    <3>2. PipelineOK /\ UiOK /\ ServedOK /\ PictureOK
      BY <3>1 DEF ScreenInv, PipelineInv, Calm
    <3> QED BY <1>2, <2>2, <3>2, ServedStep, PictureStep
  <2> QED BY <1>1, <2>1, <2>2 DEF ScreenInv
<1>3. CASE UNCHANGED vars
  <2>1. /\ UNCHANGED <<displayVars, lvglVars, image, offered, begin>>
        /\ UNCHANGED <<session, fullInvalidatePending, races, troubles>>
    BY <1>3 DEF vars, hostVars, assemblerVars, counters, history
  <2>2. UNCHANGED <<building, endQueued, frameId, frameType, rectsWritten, count, wireOpen, pumpPc,
                    sendOk, endMsg, enabled, needFull, abortPending, content, dirty, todo, uiPc>>
    BY <2>1 DEF displayVars, uiVars, queueVars, wireVars, pumpVars, linkVars, lvglVars
  <2>3. UiOK' BY <2>1, <2>2 DEF UiOK, ScreenInv
  <2>4. Calm' => Calm BY <2>1, <2>2 DEF Calm
  <2>5. ServedOK => ServedOK' BY <2>1, <2>2 DEF ServedOK, Served, FrameOpen, Popped
  <2>6. \A a : Outcome(a)' = Outcome(a) BY <2>1, SameOutcome
  <2>7. UNCHANGED Waiting BY <2>2 DEF Waiting
  <2>8. PictureOK => PictureOK' BY <2>1, <2>2, <2>6, <2>7, PictureKept
  <2> QED BY <1>1, <2>3, <2>4, <2>5, <2>8 DEF ScreenInv
<1> QED BY <1>2, <1>3

\* At rest, what the host will show is what it shows.
LEMMA RestShown == ScreenInv => Converges
<1> SUFFICES ASSUME ScreenInv, Settled, troubles["giveUp"] = 0 PROVE image = content
  BY DEF Converges
<1>1. UiOK /\ ServedOK /\ PictureOK /\ PipelineOK
  BY DEF ScreenInv, PipelineInv, Calm, Settled
<1>2. InService /\ Served BY DEF Settled, InService, Served
<1>3. Waiting = {} /\ dirty = {}
  <2>1. DOMAIN todo = {} BY <1>1, SeqIndices, NonEmpty DEF UiOK, Settled
  <2> QED BY <2>1 DEF Waiting, Settled
<1>4. ~FrameOpen
  <2> SUFFICES ASSUME FrameOpen PROVE FALSE OBVIOUS
  <2>1. ~building /\ count = 0 /\ abortPending = NoAbort
    BY <1>1, <1>2 DEF ServedOK, Settled
  <2>2. rectsWritten > 0 /\ rectsWritten \in Nat BY <1>1 DEF ServedOK, PipelineOK, QueueOK
  <2>3. Popped > 0 BY <2>1, <2>2 DEF Popped
  <2>4. wireOpen BY <1>1, <1>2, <2>3 DEF ServedOK
  <2> QED BY <1>1, <2>1, <2>4 DEF PipelineOK, FlagsOK, Settled
<1>5. ~Ending BY DEF Ending, Settled
<1>6. \A a \in Areas : image[a] = content[a]
  <2> SUFFICES ASSUME NEW a \in Areas PROVE image[a] = content[a] OBVIOUS
  <2>1. Outcome(a) = image[a] BY <1>4, <1>5 DEF Outcome, AfterEnd
  <2> QED BY <1>1, <1>2, <1>3, <2>1 DEF PictureOK
<1>7. image = [a \in Areas |-> image[a]] /\ content = [a \in Areas |-> content[a]] BY <1>1 DEF UiOK
<1> QED BY <1>6, <1>7

\* When all has come to rest, after reconnects and mode switches too, and the sink refused nothing, the UI task
\* never gave up and none of the four windows opened, the host shows the widget
\* tree as it is (LvglPort::onSessionState, RemoteDisplay::writeRect and pump).
THEOREM PictureConverges == Spec => []Converges
<1>1. Spec => []ScreenInv BY ScreenInitial, ScreenStep, PTL DEF Spec
<1> QED BY <1>1, RestShown, PTL

-----------------------------------------------------------------------------
(* The OLED's picture.  The last picture the host has read, the messages   *)
(* under way, the picture the session task has taken and the next one to   *)
(* be taken form a chain.  In it the numbers of two pictures of one        *)
(* numbering are as far apart as the pictures between them, but for those  *)
(* that were lost; since these are fewer than half of the numbers, the     *)
(* next picture the host reads is newer than the last for it too.          *)

\* A preview message: a picture or the HELLO the device answers with.
Pictures == [id : 0..(PreviewIds - 1), numbering : Nat]
Hello == [id |-> -1, numbering |-> -1]
Previews == Pictures \cup {Hello}

\* How many numbers a message takes.
NumbersOf(m) == IF IsHello(m) THEN 0 ELSE 1

\* Two pictures of one numbering.
SameNumbering(x, y) == ~IsHello(x) /\ ~IsHello(y) /\ x.numbering = y.numbering

Wraps(x) == \E z \in Int : x = z * PreviewIds

\* The messages 1..n of q, of which c counts the pictures: the numbers of two of one numbering
\* are as far apart as the pictures between them, but for at most bound that were lost.
Counted(q, n, c) ==
    c \in [1..n -> Int] /\ \A i \in 1..(n - 1) : c[i + 1] = c[i] + NumbersOf(q[i + 1])
Apart(q, c, i, j, bound) ==
    SameNumbering(q[i], q[j]) =>
        \E k \in 0..bound : Wraps(q[j].id - q[i].id - (c[j] - c[i]) - k)
NumberedBy(q, n, c, sent, next) ==
    /\ Counted(q, n, c)
    /\ \A i, j \in 1..n : i < j => Apart(q, c, i, j, IF j = n THEN next ELSE sent)
Numbered(q, n, sent, next) == \E c : NumberedBy(q, n, c, sent, next)

IsChain(q, n) == n \in Nat \ {0} /\ q \in [1..n -> Previews] /\ ~IsHello(q[n])

LEMMA IdsAreNumbers ==
    ASSUME NEW q, NEW n, IsChain(q, n), NEW i \in 1..n
    PROVE  q[i].id \in Int /\ q[i].numbering \in Int /\ NumbersOf(q[i]) \in {0, 1}
BY PreviewAssumption DEF IsChain, Previews, Pictures, Hello, NumbersOf

\* More may be lost.
LEMMA WiderBound ==
    ASSUME NEW q, NEW c, NEW i, NEW j, NEW b \in Int, NEW d \in Int, b <= d, Apart(q, c, i, j, b)
    PROVE  Apart(q, c, i, j, d)
BY DEF Apart

LEMMA MoreLost ==
    ASSUME NEW q, NEW n, NEW sent \in Int, NEW next \in Int, Numbered(q, n, sent, next),
           NEW sentNow \in Int, NEW nextNow \in Int, sent <= sentNow, next <= nextNow
    PROVE  Numbered(q, n, sentNow, nextNow)
<1>1. PICK c : NumberedBy(q, n, c, sent, next) BY DEF Numbered
<1>2. ASSUME NEW i \in 1..n, NEW j \in 1..n, i < j
      PROVE  Apart(q, c, i, j, IF j = n THEN nextNow ELSE sentNow)
  <2>1. Apart(q, c, i, j, IF j = n THEN next ELSE sent) BY <1>1, <1>2 DEF NumberedBy
  <2>2. CASE j = n BY <2>1, <2>2, WiderBound
  <2>3. CASE j # n BY <2>1, <2>3, WiderBound
  <2> QED BY <2>2, <2>3
<1> QED BY <1>1, <1>2 DEF Numbered, NumberedBy

OnIndices(r, n) == r = [i \in 1..n |-> r[i]]

\* A message that goes missing.
Without(q, n, m, r) ==
    /\ m \in 1..(n - 1) /\ OnIndices(r, n - 1)
    /\ \A i \in 1..(n - 1) : r[i] = IF i < m THEN q[i] ELSE q[i + 1]

LEMMA MessageMissing ==
    ASSUME NEW q, NEW n, IsChain(q, n), NEW sent \in Int, NEW next \in Int,
           Numbered(q, n, sent, next), NEW m, NEW r, Without(q, n, m, r),
           NEW sentNow \in Int, NEW nextNow \in Int, sent <= sentNow, next <= nextNow,
           m = 1 \/ IsHello(q[m]) \/ (next < nextNow /\ (m = n - 1 \/ sent < sentNow))
    PROVE  IsChain(r, n - 1) /\ Numbered(r, n - 1, sentNow, nextNow)
<1>1. PICK c : NumberedBy(q, n, c, sent, next) BY DEF Numbered
<1>2. n \in Nat /\ m \in 1..(n - 1) BY DEF IsChain, Without
<1>3. PICK w \in {0, 1} : w = NumbersOf(q[m]) BY <1>2, IdsAreNumbers
<1>4. c \in [1..n -> Int] BY <1>1 DEF NumberedBy, Counted
<1> DEFINE d == [i \in 1..(n - 1) |-> IF i < m THEN c[i] ELSE c[i + 1] - w]
<1>5. /\ \A i \in 1..(n - 1) : /\ i < m => i \in 1..n /\ r[i] = q[i] /\ d[i] = c[i]
                               /\ ~(i < m) => /\ i + 1 \in 1..n /\ r[i] = q[i + 1]
                                              /\ d[i] = c[i + 1] - w
      /\ d \in [1..(n - 1) -> Int]
  BY <1>2, <1>4 DEF Without
<1> HIDE DEF d
<1>6. IsChain(r, n - 1)
  <2>1. r \in [1..(n - 1) -> Previews]
    <3>1. \A i \in 1..(n - 1) : r[i] \in Previews BY <1>2, <1>5 DEF IsChain
    <3> QED BY <3>1 DEF Without, OnIndices
  <2>2. r[n - 1] = q[n] BY <1>2 DEF Without
  <2> QED BY <1>2, <2>1, <2>2 DEF IsChain
<1>7. Counted(r, n - 1, d)
  <2> SUFFICES ASSUME NEW i \in 1..((n - 1) - 1) PROVE d[i + 1] = d[i] + NumbersOf(r[i + 1])
      BY <1>5 DEF Counted
  <2>1. \A x \in 1..(n - 1) : c[x + 1] = c[x] + NumbersOf(q[x + 1])
    BY <1>1 DEF NumberedBy, Counted
  <2>2. PICK p : p = i + 1 OBVIOUS
  <2>3. /\ i \in 1..(n - 1) /\ p \in 1..(n - 1) /\ p + 1 \in 1..n
        /\ c[p] = c[i] + NumbersOf(q[p]) /\ c[p + 1] = c[p] + NumbersOf(q[p + 1])
    BY <1>2, <2>1, <2>2
  <2>4. NumbersOf(q[p]) \in Int /\ NumbersOf(q[p + 1]) \in Int /\ c[i] \in Int
    <3>1. i \in 1..n BY <1>2, <2>3
    <3>2. c[i] \in Int BY <1>4, <3>1
    <3>3. \A m1 : NumbersOf(m1) \in {0, 1} BY DEF NumbersOf
    <3> QED BY <3>2, <3>3
  <2>5. CASE p < m
    <3>1. i < m BY <1>2, <2>2, <2>5
    <3>2. r[p] = q[p] /\ d[p] = c[p] /\ d[i] = c[i] BY <1>5, <2>3, <2>5, <3>1
    <3> QED BY <2>2, <2>3, <3>2
  <2>6. CASE p = m
    <3>1. i < m /\ ~(p < m) BY <1>2, <2>2, <2>6
    <3>2. r[p] = q[p + 1] /\ d[p] = c[p + 1] - w /\ d[i] = c[i] BY <1>5, <2>3, <3>1
    <3>3. w = NumbersOf(q[p]) BY <1>3, <2>6
    <3> QED BY <2>2, <2>3, <2>4, <3>2, <3>3
  <2>7. CASE p > m
    <3>1. ~(i < m) /\ ~(p < m) BY <1>2, <2>2, <2>7
    <3>2. r[p] = q[p + 1] /\ d[p] = c[p + 1] - w /\ d[i] = c[i + 1] - w
      BY <1>5, <2>3, <3>1
    <3>3. c[p] \in Int /\ w \in Int BY <1>2, <1>4, <2>3
    <3> QED BY <2>2, <2>3, <2>4, <3>2, <3>3
  <2> QED BY <1>2, <2>3, <2>5, <2>6, <2>7
<1>8. ASSUME NEW i \in 1..(n - 1), NEW j \in 1..(n - 1), i < j
      PROVE  Apart(r, d, i, j, IF j = n - 1 THEN nextNow ELSE sentNow)
  <2>1. PICK x, y : /\ x = IF i < m THEN i ELSE i + 1
                    /\ y = IF j < m THEN j ELSE j + 1
    OBVIOUS
  <2>2. /\ x \in 1..n /\ y \in 1..n /\ x < y /\ r[i] = q[x] /\ r[j] = q[y]
        /\ (y = n <=> j = n - 1)
    <3>1. x \in 1..n /\ r[i] = q[x] BY <1>2, <1>5, <2>1
    <3>2. y \in 1..n /\ r[j] = q[y] BY <1>2, <1>5, <2>1
    <3>3. x < y /\ (y = n <=> j = n - 1) BY <1>2, <1>8, <2>1
    <3> QED BY <3>1, <3>2, <3>3
  <2>3. Apart(q, c, x, y, IF y = n THEN next ELSE sent) BY <1>1, <2>2 DEF NumberedBy
  <2> SUFFICES ASSUME SameNumbering(r[i], r[j])
               PROVE  \E k \in 0..(IF j = n - 1 THEN nextNow ELSE sentNow) :
                          Wraps(r[j].id - r[i].id - (d[j] - d[i]) - k)
      BY DEF Apart
  <2>4. PICK k \in 0..(IF y = n THEN next ELSE sent) :
            Wraps(q[y].id - q[x].id - (c[y] - c[x]) - k)
    BY <2>2, <2>3 DEF Apart
  <2>5. PICK s, t, u, v : s = q[x].id /\ t = q[y].id /\ u = c[x] /\ v = c[y] OBVIOUS
  <2>6. s \in Int /\ t \in Int /\ u \in Int /\ v \in Int /\ k \in Nat /\ Wraps(t - s - (v - u) - k)
    BY <1>4, <2>2, <2>4, <2>5, IdsAreNumbers
  <2>7. CASE i < m /\ ~(j < m)
    <3>1. d[i] = u /\ d[j] = v - w /\ w \in Int BY <1>5, <2>1, <2>5, <2>7
    <3>2. t - s - (v - u) - k = t - s - ((v - w) - u) - (k + w) BY <2>6, <3>1
    <3>3. Wraps(t - s - ((v - w) - u) - (k + w)) BY <2>6, <3>2
    <3>4. k + w \in 0..(IF j = n - 1 THEN nextNow ELSE sentNow)
      BY <1>2, <1>3, <2>2, <2>4, <2>7 DEF NumbersOf
    <3>5. Wraps(r[j].id - r[i].id - (d[j] - d[i]) - (k + w)) BY <2>2, <2>5, <3>1, <3>3
    <3> QED BY <3>4, <3>5
  <2>8. CASE (i < m /\ j < m) \/ (~(i < m) /\ ~(j < m))
    <3>1. d[i] \in Int /\ d[j] \in Int /\ d[j] - d[i] = v - u 
      <4>1. CASE i < m /\ j < m
        <5>1. d[i] = u /\ d[j] = v BY <1>5, <2>1, <2>5, <4>1
        <5> QED BY <2>6, <5>1
      <4>2. CASE ~(i < m) /\ ~(j < m)
        <5>1. d[i] = u - w /\ d[j] = v - w /\ w \in Int BY <1>5, <2>1, <2>5, <4>2
        <5> QED BY <2>6, <5>1
      <4> QED BY <2>8, <4>1, <4>2
    <3>2. Wraps(r[j].id - r[i].id - (d[j] - d[i]) - k) BY <2>2, <2>5, <2>6, <3>1
    <3>3. k \in 0..(IF j = n - 1 THEN nextNow ELSE sentNow) BY <2>2, <2>4
    <3> QED BY <3>2, <3>3
  <2> QED BY <1>2, <1>8, <2>7, <2>8
<1>9. NumberedBy(r, n - 1, d, sentNow, nextNow) BY <1>7, <1>8 DEF NumberedBy
<1> QED BY <1>6, <1>9 DEF Numbered

\* A HELLO that is put in before the last.
WithHello(q, n, m, r) ==
    /\ m \in 1..n /\ OnIndices(r, n + 1)
    /\ \A i \in 1..(n + 1) : r[i] = IF i < m THEN q[i] ELSE IF i = m THEN Hello ELSE q[i - 1]

LEMMA HelloPut ==
    ASSUME NEW q, NEW n, IsChain(q, n), NEW sent \in Int, NEW next \in Int,
           Numbered(q, n, sent, next), NEW m, NEW r, WithHello(q, n, m, r)
    PROVE  IsChain(r, n + 1) /\ Numbered(r, n + 1, sent, next)
<1>1. PICK c : NumberedBy(q, n, c, sent, next) BY DEF Numbered
<1>2. /\ n \in Nat /\ m \in Nat /\ m \in 1..n /\ OnIndices(r, n + 1)
      /\ \A i \in 1..(n + 1) : r[i] = IF i < m THEN q[i] ELSE IF i = m THEN Hello ELSE q[i - 1]
  BY DEF IsChain, WithHello
<1>3. c \in [1..n -> Int] BY <1>1 DEF NumberedBy, Counted
<1> DEFINE d == [i \in 1..(n + 1) |-> IF i < m THEN c[i]
                                     ELSE IF i = m THEN c[m] - NumbersOf(q[m]) ELSE c[i - 1]]
<1>4. c[m] \in Int /\ NumbersOf(q[m]) \in Int
  <2>1. m \in 1..n BY <1>2
  <2> QED BY <1>3, <2>1, IdsAreNumbers
<1>5. /\ \A i \in 1..(n + 1) : /\ i < m => i \in 1..n /\ r[i] = q[i] /\ d[i] = c[i]
                               /\ i > m => /\ i - 1 \in 1..n /\ r[i] = q[i - 1] /\ d[i] = c[i - 1]
                               /\ i = m => /\ r[i] = Hello /\ d[i] = c[m] - NumbersOf(q[m])
      /\ d \in [1..(n + 1) -> Int]
  <2>1. c[m] - NumbersOf(q[m]) \in Int BY <1>4
  <2> QED BY <1>2, <1>3, <2>1
<1> HIDE DEF d
<1>6. IsHello(Hello) /\ NumbersOf(Hello) = 0 BY DEF IsHello, Hello, NumbersOf
<1>7. IsChain(r, n + 1)
  <2>1. \A i \in 1..(n + 1) : r[i] \in Previews BY <1>2, <1>5 DEF IsChain, Previews
  <2>2. r \in [1..(n + 1) -> Previews] BY <1>2, <2>1 DEF OnIndices
  <2>3. r[n + 1] = q[n] BY <1>2, <1>5
  <2> QED BY <1>2, <2>2, <2>3 DEF IsChain
<1>8. Counted(r, n + 1, d)
  <2> SUFFICES ASSUME NEW i \in 1..((n + 1) - 1) PROVE d[i + 1] = d[i] + NumbersOf(r[i + 1])
      BY <1>5 DEF Counted
  <2>1. \A x \in 1..(n - 1) : c[x + 1] = c[x] + NumbersOf(q[x + 1])
    BY <1>1 DEF NumberedBy, Counted
  <2>2. PICK p : p = i + 1 OBVIOUS
  <2>3. i \in 1..n /\ p \in 1..(n + 1) BY <1>2, <2>2
  <2>4. CASE p < m
    <3>1. c[p] = c[i] + NumbersOf(q[p]) BY <1>2, <2>1, <2>2, <2>3, <2>4
    <3> QED BY <1>2, <1>5, <2>2, <2>3, <2>4, <3>1
  <2>5. CASE p = m
    <3>1. c[m] = c[i] + NumbersOf(q[m]) BY <1>2, <2>1, <2>2, <2>3, <2>5
    <3>2. c[i] \in Int /\ NumbersOf(q[m]) \in Int BY <1>3, <1>4, <2>3
    <3> QED BY <1>2, <1>5, <1>6, <2>2, <2>3, <2>5, <3>1, <3>2
  <2>6. CASE i = m
    <3>1. c[m] \in Int /\ NumbersOf(q[m]) \in Int BY <1>4
    <3>2. d[p] = c[m] /\ r[p] = q[m] /\ d[i] = c[m] - NumbersOf(q[m])
      BY <1>2, <1>5, <2>2, <2>3, <2>6
    <3> QED BY <2>2, <3>1, <3>2
  <2>7. CASE i > m
    <3>1. i - 1 \in 1..(n - 1) /\ (i - 1) + 1 = i /\ p - 1 = i BY <1>2, <2>2, <2>3, <2>7
    <3>2. c[i] = c[i - 1] + NumbersOf(q[i]) BY <2>1, <3>1
    <3> QED BY <1>2, <1>5, <2>2, <2>3, <2>7, <3>1, <3>2
  <2> QED BY <1>2, <2>2, <2>3, <2>4, <2>5, <2>6, <2>7
<1>9. ASSUME NEW i \in 1..(n + 1), NEW j \in 1..(n + 1), i < j
      PROVE  Apart(r, d, i, j, IF j = n + 1 THEN next ELSE sent)
  <2>1. CASE i = m \/ j = m BY <1>5, <1>6, <2>1 DEF Apart, SameNumbering
  <2>2. CASE i # m /\ j # m
    <3>1. PICK x, y : /\ x = IF i < m THEN i ELSE i - 1
                      /\ y = IF j < m THEN j ELSE j - 1
      OBVIOUS
    <3>2. /\ x \in 1..n /\ y \in 1..n /\ x < y /\ r[i] = q[x] /\ r[j] = q[y]
          /\ d[i] = c[x] /\ d[j] = c[y] /\ (y = n <=> j = n + 1)
      <4>1. CASE i < m /\ j < m BY <1>2, <1>5, <1>9, <3>1, <4>1
      <4>2. CASE i < m /\ j > m
        <5>1. x = i /\ y = j - 1 BY <1>2, <3>1, <4>2
        <5>2. x \in 1..n /\ r[i] = q[x] /\ d[i] = c[x] BY <1>5, <4>2, <5>1
        <5>3. y \in 1..n /\ r[j] = q[y] /\ d[j] = c[y] BY <1>5, <4>2, <5>1
        <5>4. x < y /\ (y = n <=> j = n + 1) BY <1>2, <4>2, <5>1
        <5> QED BY <5>2, <5>3, <5>4
      <4>3. CASE i > m /\ j > m
        <5>1. x = i - 1 /\ y = j - 1 BY <1>2, <3>1, <4>3
        <5>2. /\ x \in 1..n /\ r[i] = q[x] /\ d[i] = c[x]
              /\ y \in 1..n /\ r[j] = q[y] /\ d[j] = c[y]
          BY <1>5, <4>3, <5>1
        <5> QED BY <1>2, <1>9, <5>1, <5>2
      <4> QED BY <1>2, <1>9, <2>2, <4>1, <4>2, <4>3
    <3>3. Apart(q, c, x, y, IF y = n THEN next ELSE sent) BY <1>1, <3>2 DEF NumberedBy
    <3> QED BY <3>2, <3>3 DEF Apart
  <2> QED BY <2>1, <2>2
<1>10. NumberedBy(r, n + 1, d, sent, next) BY <1>8, <1>9 DEF NumberedBy
<1> QED BY <1>7, <1>10 DEF Numbered

\* A picture is taken: the next one has the next number.
Extended(q, n, slot, r) ==
    /\ slot \in Pictures /\ slot.id = (q[n].id + 1) % PreviewIds
    /\ slot.numbering = q[n].numbering
    /\ OnIndices(r, n + 1) /\ \A i \in 1..(n + 1) : r[i] = IF i <= n THEN q[i] ELSE slot

LEMMA NextNumber ==
    ASSUME NEW q, NEW n, IsChain(q, n), NEW sent \in Int, NEW next \in Nat, next <= sent,
           Numbered(q, n, sent, next), NEW slot, NEW r, Extended(q, n, slot, r)
    PROVE  IsChain(r, n + 1) /\ Numbered(r, n + 1, sent, next)
<1>0. /\ slot \in Pictures /\ slot.id = (q[n].id + 1) % PreviewIds
      /\ slot.numbering = q[n].numbering
      /\ OnIndices(r, n + 1) /\ \A i \in 1..(n + 1) : r[i] = IF i <= n THEN q[i] ELSE slot
  BY DEF Extended
<1>1. PICK c : NumberedBy(q, n, c, sent, next) BY DEF Numbered
<1>2. n \in Nat \ {0} BY DEF IsChain
<1>3. c \in [1..n -> Int] BY <1>1 DEF NumberedBy, Counted
<1> DEFINE d == [i \in 1..(n + 1) |-> IF i <= n THEN c[i] ELSE c[n] + 1]
<1>4. /\ \A i \in 1..n : i \in 1..(n + 1) /\ r[i] = q[i] /\ d[i] = c[i]
      /\ r[n + 1] = slot /\ d[n + 1] = c[n] + 1 /\ n + 1 \in 1..(n + 1)
      /\ d \in [1..(n + 1) -> Int]
  BY <1>0, <1>2, <1>3
<1> HIDE DEF d
<1>5. ~IsHello(slot) /\ NumbersOf(slot) = 1
  BY <1>0, PreviewAssumption DEF Pictures, IsHello, NumbersOf
<1>6. IsChain(r, n + 1)
  <2>1. \A i \in 1..(n + 1) : r[i] \in Previews BY <1>0, <1>2 DEF IsChain, Previews
  <2>2. r \in [1..(n + 1) -> Previews] BY <1>0, <2>1 DEF OnIndices
  <2> QED BY <1>2, <1>4, <1>5, <2>2 DEF IsChain
<1>7. Counted(r, n + 1, d)
  <2> SUFFICES ASSUME NEW i \in 1..((n + 1) - 1) PROVE d[i + 1] = d[i] + NumbersOf(r[i + 1])
      BY <1>4 DEF Counted
  <2>1. \A x \in 1..(n - 1) : c[x + 1] = c[x] + NumbersOf(q[x + 1])
    BY <1>1 DEF NumberedBy, Counted
  <2>2. CASE i = n
    <3>0. i \in 1..n BY <1>2, <2>2
    <3>1. d[i] = c[i] /\ c[i] = c[n] BY <1>4, <2>2, <3>0
    <3> QED BY <1>4, <1>5, <2>2, <3>1
  <2>3. CASE i < n
    <3>1. PICK p : p = i + 1 OBVIOUS
    <3>2. i \in 1..(n - 1) /\ i \in 1..n /\ p \in 1..n BY <1>2, <2>3, <3>1
    <3> QED BY <1>4, <2>1, <3>1, <3>2
  <2> QED BY <1>2, <2>2, <2>3
<1>8. q[n] \in Pictures BY <1>2 DEF IsChain, Previews, Hello, IsHello
<1>9. PICK g : g = q[n].id OBVIOUS
<1>10. g \in 0..(PreviewIds - 1) BY <1>8, <1>9 DEF Pictures
<1>11. \/ slot.id = g + 1
       \/ slot.id = g + 1 - PreviewIds
  BY <1>0, <1>9, <1>10, PreviewAssumption
<1>12. PICK z \in {0, 1} : slot.id = g + 1 - z * PreviewIds
  BY <1>10, <1>11, PreviewAssumption
<1>13. ASSUME NEW i \in 1..n PROVE Apart(r, d, i, n + 1, next)
  <2> SUFFICES ASSUME SameNumbering(r[i], slot)
               PROVE  \E k \in 0..next : Wraps(slot.id - r[i].id - (d[n + 1] - d[i]) - k)
      BY <1>4 DEF Apart
  <2>1. PICK s, u, v : s = q[i].id /\ u = c[i] /\ v = c[n] OBVIOUS
  <2>2. s \in Int /\ u \in Int /\ v \in Int BY <1>2, <1>3, <2>1, IdsAreNumbers
  <2>3. PICK k \in 0..next : Wraps(g - s - (v - u) - k)
    <3>1. CASE i = n
      <4>1. g - s - (v - u) - 0 = 0 * PreviewIds BY <1>9, <1>10, <2>1, <2>2, <3>1, PreviewAssumption
      <4>2. Wraps(g - s - (v - u) - 0) BY <4>1 DEF Wraps
      <4>3. 0 \in 0..next OBVIOUS
      <4> QED BY <4>2, <4>3
    <3>2. CASE i < n
      <4>1. SameNumbering(q[i], q[n])
        <5>1. q[n].id \in 0..(PreviewIds - 1) BY <1>8 DEF Pictures
        <5>2. ~IsHello(q[n]) BY <5>1, PreviewAssumption DEF IsHello
        <5>3. r[i] = q[i] BY <1>4
        <5>4. ~IsHello(q[i]) /\ q[i].numbering = slot.numbering BY <5>3 DEF SameNumbering
        <5>5. slot.numbering = q[n].numbering BY <1>0
        <5> QED BY <5>2, <5>4, <5>5 DEF SameNumbering
      <4>2. Apart(q, c, i, n, next) BY <1>1, <1>2, <3>2 DEF NumberedBy
      <4> QED BY <1>9, <2>1, <4>1, <4>2 DEF Apart
    <3> QED BY <1>2, <3>1, <3>2
  <2>4. PICK y \in Int : g - s - (v - u) - k = y * PreviewIds BY <2>3 DEF Wraps
  <2>5. slot.id - s - ((v + 1) - u) - k = y * PreviewIds - z * PreviewIds
    <3>1. y * PreviewIds \in Int /\ z * PreviewIds \in Int BY <2>4, PreviewAssumption
    <3> QED BY <1>10, <1>12, <2>2, <2>4, <3>1
  <2>6. y * PreviewIds - z * PreviewIds = (y - z) * PreviewIds BY PreviewAssumption
  <2>7. y - z \in Int OBVIOUS
  <2>8. Wraps(slot.id - s - ((v + 1) - u) - k) BY <2>5, <2>6, <2>7 DEF Wraps
  <2>9. slot.id - r[i].id - (d[n + 1] - d[i]) - k = slot.id - s - ((v + 1) - u) - k
    BY <1>4, <2>1
  <2> QED BY <2>8, <2>9
<1>14. ASSUME NEW i \in 1..(n + 1), NEW j \in 1..(n + 1), i < j
       PROVE  Apart(r, d, i, j, IF j = n + 1 THEN next ELSE sent)
  <2>1. CASE j = n + 1 BY <1>2, <1>13, <1>14, <2>1
  <2>2. CASE j # n + 1
    <3>1. i \in 1..n /\ j \in 1..n BY <1>2, <1>14, <2>2
    <3>2. Apart(q, c, i, j, IF j = n THEN next ELSE sent) BY <1>1, <1>14, <3>1 DEF NumberedBy
    <3>3. Apart(q, c, i, j, sent)
      <4>1. CASE j = n BY <3>2, <4>1, WiderBound
      <4>2. CASE j # n BY <3>2, <4>2
      <4> QED BY <4>1, <4>2
    <3> QED BY <1>4, <2>2, <3>1, <3>3 DEF Apart
  <2> QED BY <2>1, <2>2
<1>15. NumberedBy(r, n + 1, d, sent, next) BY <1>7, <1>14 DEF NumberedBy
<1> QED BY <1>6, <1>15 DEF Numbered

\* The numbers start anew.
Renumbered(q, n, slot, r) ==
    /\ slot \in Pictures /\ \A i \in 1..n : q[i].numbering < slot.numbering
    /\ OnIndices(r, n) /\ \A i \in 1..n : r[i] = IF i < n THEN q[i] ELSE slot

LEMMA NumbersAnew ==
    ASSUME NEW q, NEW n, IsChain(q, n), NEW sent \in Int, NEW next \in Int,
           Numbered(q, n, sent, next), NEW slot, NEW r, Renumbered(q, n, slot, r)
    PROVE  IsChain(r, n) /\ Numbered(r, n, sent, next)
<1>0. /\ slot \in Pictures /\ \A i \in 1..n : q[i].numbering < slot.numbering
      /\ OnIndices(r, n) /\ \A i \in 1..n : r[i] = IF i < n THEN q[i] ELSE slot
  BY DEF Renumbered
<1>1. PICK c : NumberedBy(q, n, c, sent, next) BY DEF Numbered
<1>2. n \in Nat \ {0} BY DEF IsChain
<1>3. /\ \A i \in 1..(n - 1) : i \in 1..n /\ r[i] = q[i]
      /\ r[n] = slot
  BY <1>0, <1>2
<1>4. /\ ~IsHello(slot) /\ NumbersOf(slot) = 1
      /\ ~IsHello(q[n]) /\ NumbersOf(q[n]) = 1
  BY <1>0, PreviewAssumption DEF Pictures, IsHello, NumbersOf, IsChain
<1>5. IsChain(r, n)
  <2>1. \A i \in 1..n : r[i] \in Previews BY <1>0, <1>2 DEF IsChain, Previews
  <2>2. r \in [1..n -> Previews] BY <1>0, <2>1 DEF OnIndices
  <2> QED BY <1>2, <1>3, <1>4, <2>2 DEF IsChain
<1>6. \A i \in 1..n : NumbersOf(r[i]) = NumbersOf(q[i]) BY <1>2, <1>3, <1>4
<1>7. Counted(r, n, c) BY <1>1, <1>2, <1>6 DEF NumberedBy, Counted
<1>8. ASSUME NEW i \in 1..n, NEW j \in 1..n, i < j
      PROVE  Apart(r, c, i, j, IF j = n THEN next ELSE sent)
  <2>1. i \in 1..(n - 1) BY <1>2, <1>8
  <2>2. CASE j = n
    <3>1. q[i].numbering \in Int /\ slot.numbering \in Int /\ q[i].numbering < slot.numbering
      BY <1>0, IdsAreNumbers DEF Pictures
    <3>2. q[i].numbering # slot.numbering BY <3>1
    <3> QED BY <1>3, <2>1, <2>2, <3>2 DEF Apart, SameNumbering
  <2>3. CASE j # n
    <3>1. j \in 1..(n - 1) BY <1>2, <2>3
    <3>2. Apart(q, c, i, j, IF j = n THEN next ELSE sent) BY <1>1, <1>8 DEF NumberedBy
    <3> QED BY <1>3, <2>1, <2>3, <3>1, <3>2 DEF Apart
  <2> QED BY <2>2, <2>3
<1>9. NumberedBy(r, n, c, sent, next) BY <1>7, <1>8 DEF NumberedBy
<1> QED BY <1>5, <1>9 DEF Numbered

\* A picture that follows another of its numbering is taken for the newer one.
LEMMA NewerAccepted ==
    ASSUME NEW a \in 0..(PreviewIds - 1), NEW b \in 0..(PreviewIds - 1), NEW k \in Nat,
           k + 1 < PreviewIds \div 2, Wraps(b - a - 1 - k)
    PROVE  (b - a) % PreviewIds \in 1..(PreviewIds \div 2 - 1)
<1>1. PICK z \in Int : b - a - 1 - k = z * PreviewIds BY DEF Wraps
<1>2. PICK h, p : h = PreviewIds \div 2 /\ p = PreviewIds OBVIOUS
<1>3. p \in Nat /\ h \in Nat /\ 2 * h <= p /\ k + 1 < h
  BY <1>2, PreviewAssumption
<1>4. z * p < p /\ z * p > (-2) * p BY <1>1, <1>2, <1>3
<1>5. z \in {0, -1}
  <2>1. z >= 1 => z * p >= p BY <1>3
  <2>2. z <= -2 => z * p <= (-2) * p BY <1>3
  <2> QED BY <1>3, <1>4, <2>1, <2>2
<1>6. \/ b - a = 1 + k
      \/ b - a = 1 + k - p
  BY <1>1, <1>2, <1>3, <1>5
<1>7. (b - a) % p = 1 + k
  <2>1. PICK x \in Int : x = b - a OBVIOUS
  <2>2. x = 1 + k \/ x = 1 + k - p BY <1>6, <2>1
  <2>3. x % p = 1 + k BY <1>3, <2>2
  <2> QED BY <2>1, <2>3
<1> QED BY <1>2, <1>3, <1>7

\* What the host has read last, what is under way, what was taken, and the next picture.
ChainOf(a, w, s, slot) ==
    [i \in 1..(Len(a) + Len(w) + Len(s) + 1) |->
        IF i <= Len(a) THEN a[i]
        ELSE IF i <= Len(a) + Len(w) THEN w[i - Len(a)]
        ELSE IF i <= Len(a) + Len(w) + Len(s) THEN s[i - Len(a) - Len(w)]
        ELSE slot]
LengthOf(a, w, s) == Len(a) + Len(w) + Len(s) + 1

HasPictures(s) == IsSeq(s) /\ Len(s) <= 1 /\ \A i \in DOMAIN s : s[i] \in Pictures
Parts(a, w, s, slot) ==
    /\ HasPictures(a) /\ HasPictures(s) /\ slot \in Pictures
    /\ IsSeq(w) /\ \A i \in DOMAIN w : w[i] \in Previews

ChainInOrder(a, w, s, slot, sent, next) ==
    /\ Parts(a, w, s, slot)
    /\ Numbered(ChainOf(a, w, s, slot), LengthOf(a, w, s), sent, next)

Laid(q, n, a, w, s, slot) ==
    /\ Len(a) \in {0, 1} /\ Len(w) \in Nat /\ Len(s) \in {0, 1}
    /\ n = Len(a) + Len(w) + Len(s) + 1
    /\ OnIndices(q, n)
    /\ \A i \in 1..Len(a) : q[i] = a[i]
    /\ \A i \in 1..Len(w) : q[Len(a) + i] = w[i]
    /\ \A i \in 1..Len(s) : q[Len(a) + Len(w) + i] = s[i]
    /\ q[n] = slot
    /\ IsChain(q, n)

LEMMA ChainPlaces ==
    ASSUME NEW a, NEW w, NEW s, NEW slot, Parts(a, w, s, slot),
           NEW q, q = ChainOf(a, w, s, slot), NEW n, n = LengthOf(a, w, s)
    PROVE  Laid(q, n, a, w, s, slot)
<1>1. /\ Len(a) \in {0, 1} /\ Len(w) \in Nat /\ Len(s) \in {0, 1}
      /\ DOMAIN a = 1..Len(a) /\ DOMAIN w = 1..Len(w) /\ DOMAIN s = 1..Len(s)
  <2>1. IsSeq(a) /\ IsSeq(w) /\ IsSeq(s) /\ Len(a) <= 1 /\ Len(s) <= 1
    BY DEF Parts, HasPictures
  <2>2. /\ Len(a) \in Nat /\ DOMAIN a = 1..Len(a)
        /\ Len(w) \in Nat /\ DOMAIN w = 1..Len(w)
        /\ Len(s) \in Nat /\ DOMAIN s = 1..Len(s)
    BY <2>1, SeqIndices
  <2> QED BY <2>1, <2>2
<1>2. OnIndices(q, n) /\ n \in Nat \ {0} BY <1>1 DEF OnIndices, ChainOf, LengthOf
<1>3. /\ \A i \in 1..n : q[i] = IF i <= Len(a) THEN a[i]
                               ELSE IF i <= Len(a) + Len(w) THEN w[i - Len(a)]
                               ELSE IF i <= Len(a) + Len(w) + Len(s) THEN s[i - Len(a) - Len(w)]
                               ELSE slot
      /\ n = Len(a) + Len(w) + Len(s) + 1
  BY <1>1 DEF ChainOf, LengthOf
<1>4. \A i \in 1..n : q[i] \in Previews
  <2> SUFFICES ASSUME NEW i \in 1..n PROVE q[i] \in Previews OBVIOUS
  <2>1. CASE i <= Len(a) BY <1>1, <1>3, <2>1 DEF Parts, HasPictures, Previews
  <2>2. CASE i > Len(a) /\ i <= Len(a) + Len(w)
    <3>1. i - Len(a) \in 1..Len(w) BY <1>1, <2>2
    <3> QED BY <1>1, <1>3, <2>2, <3>1 DEF Parts
  <2>3. CASE i > Len(a) + Len(w) /\ i <= Len(a) + Len(w) + Len(s)
    <3>1. i - Len(a) - Len(w) \in 1..Len(s) BY <1>1, <2>3
    <3> QED BY <1>1, <1>3, <2>3, <3>1 DEF Parts, HasPictures, Previews
  <2>4. CASE i > Len(a) + Len(w) + Len(s) BY <1>1, <1>3, <2>4 DEF Parts, Previews
  <2> QED BY <1>1, <1>3, <2>1, <2>2, <2>3, <2>4
<1>5. q \in [1..n -> Previews] BY <1>2, <1>4 DEF OnIndices
<1>6. q[n] = slot BY <1>1, <1>3
<1>7. ~IsHello(slot) BY PreviewAssumption DEF Parts, Pictures, IsHello
<1>8. IsChain(q, n) BY <1>2, <1>5, <1>6, <1>7 DEF IsChain
<1>9. \A i \in 1..Len(a) : q[i] = a[i]
  <2>1. \A i \in 1..Len(a) : i \in 1..n /\ i <= Len(a) BY <1>1, <1>3
  <2> QED BY <1>3, <2>1
<1>10. \A i \in 1..Len(w) : q[Len(a) + i] = w[i]
  <2>1. ASSUME NEW i \in 1..Len(w) PROVE q[Len(a) + i] = w[i]
    <3>1. PICK j : j = Len(a) + i OBVIOUS
    <3>2. j \in 1..n /\ ~(j <= Len(a)) /\ j <= Len(a) + Len(w) /\ j - Len(a) = i
      BY <1>1, <1>3, <3>1
    <3>3. q[j] = w[j - Len(a)] BY <1>3, <3>2
    <3> QED BY <3>1, <3>2, <3>3
  <2> QED BY <2>1
<1>11. \A i \in 1..Len(s) : q[Len(a) + Len(w) + i] = s[i]
  <2>1. ASSUME NEW i \in 1..Len(s) PROVE q[Len(a) + Len(w) + i] = s[i]
    <3>1. PICK j : j = Len(a) + Len(w) + i OBVIOUS
    <3>2. /\ j \in 1..n /\ ~(j <= Len(a)) /\ ~(j <= Len(a) + Len(w))
          /\ j <= Len(a) + Len(w) + Len(s) /\ j - Len(a) - Len(w) = i
      BY <1>1, <1>3, <3>1
    <3>3. q[j] = s[j - Len(a) - Len(w)] BY <1>3, <3>2
    <3> QED BY <3>1, <3>2, <3>3
  <2> QED BY <2>1
<1> QED BY <1>1, <1>2, <1>3, <1>6, <1>8, <1>9, <1>10, <1>11 DEF Laid

\* Two chains of the same messages.
LEMMA SameChain ==
    ASSUME NEW q, NEW n \in Nat, NEW r, OnIndices(q, n), OnIndices(r, n),
           \A i \in 1..n : q[i] = r[i]
    PROVE  q = r
BY DEF OnIndices

LEMMA WiderOrder ==
    ASSUME NEW a, NEW w, NEW s, NEW slot, NEW sent \in Int, NEW next \in Int,
           ChainInOrder(a, w, s, slot, sent, next),
           NEW sentNow \in Int, NEW nextNow \in Int, sent <= sentNow, next <= nextNow
    PROVE  ChainInOrder(a, w, s, slot, sentNow, nextNow)
BY MoreLost DEF ChainInOrder

\* A picture is taken ...
LEMMA OrderTaken ==
    ASSUME NEW a, NEW w, NEW s, s = <<>>, NEW slot,
           NEW sent \in Int, NEW next \in Nat, next <= sent,
           ChainInOrder(a, w, s, slot, sent, next),
           NEW new \in Pictures, new.id = (slot.id + 1) % PreviewIds,
           new.numbering = slot.numbering, NEW t, t = <<slot>>
    PROVE  ChainInOrder(a, w, t, new, sent, next)
<1>0. Parts(a, w, s, slot) BY DEF ChainInOrder
<1>1. PICK q, n : q = ChainOf(a, w, s, slot) /\ n = LengthOf(a, w, s) OBVIOUS
<1>2. PICK r : r = ChainOf(a, w, t, new) OBVIOUS
<1>3. Len(s) = 0 BY NothingIsSeq
<1>4. IsSeq(t) /\ Len(t) = 1 /\ t[1] = slot BY SingleSeq
<1>5. Parts(a, w, t, new) BY <1>0, <1>4, SeqIndices DEF Parts, HasPictures
<1>6. /\ Len(a) \in {0, 1} /\ Len(w) \in Nat /\ n = Len(a) + Len(w) + 1
      /\ \A i \in 1..Len(a) : q[i] = a[i]
      /\ \A i \in 1..Len(w) : q[Len(a) + i] = w[i]
      /\ q[n] = slot /\ IsChain(q, n)
  <2>1. Laid(q, n, a, w, s, slot) BY <1>0, <1>1, ChainPlaces
  <2> QED BY <1>3, <2>1 DEF Laid
<1>7. LengthOf(a, w, t) = n + 1 BY <1>4, <1>6 DEF LengthOf
<1>8. /\ OnIndices(r, n + 1)
      /\ \A i \in 1..Len(a) : r[i] = a[i]
      /\ \A i \in 1..Len(w) : r[Len(a) + i] = w[i]
      /\ \A i \in 1..Len(t) : r[Len(a) + Len(w) + i] = t[i]
      /\ r[n + 1] = new
  <2>1. Laid(r, n + 1, a, w, t, new) BY <1>2, <1>5, <1>7, ChainPlaces
  <2> QED BY <2>1 DEF Laid
<1>9. \A i \in 1..(n + 1) : r[i] = IF i <= n THEN q[i] ELSE new
  <2> SUFFICES ASSUME NEW i \in 1..(n + 1) PROVE r[i] = IF i <= n THEN q[i] ELSE new OBVIOUS
  <2>1. CASE i <= Len(a) BY <1>6, <1>8, <2>1
  <2>2. CASE i > Len(a) /\ i <= Len(a) + Len(w)
    <3>1. PICK j : j = i - Len(a) OBVIOUS
    <3>2. j \in 1..Len(w) /\ i = Len(a) + j /\ i <= n BY <1>6, <2>2, <3>1
    <3> QED BY <1>6, <1>8, <3>2
  <2>3. CASE i = n
    <3>1. 1 \in 1..Len(t) /\ i = Len(a) + Len(w) + 1 /\ i <= n BY <1>4, <1>6, <2>3
    <3> QED BY <1>4, <1>6, <1>8, <2>3, <3>1
  <2>4. CASE i = n + 1 BY <1>6, <1>8, <2>4
  <2>5. i <= Len(a) \/ (i > Len(a) /\ i <= Len(a) + Len(w)) \/ i = n \/ i = n + 1 BY <1>6
  <2> QED BY <2>1, <2>2, <2>3, <2>4, <2>5
<1>10. Numbered(q, n, sent, next) BY <1>1 DEF ChainInOrder
<1>11. new.id = (q[n].id + 1) % PreviewIds /\ new.numbering = q[n].numbering BY <1>6
<1>12. Extended(q, n, new, r) BY <1>8, <1>9, <1>11 DEF Extended
<1>13. Numbered(r, n + 1, sent, next) BY <1>6, <1>10, <1>12, NextNumber
<1> QED BY <1>2, <1>5, <1>7, <1>13 DEF ChainInOrder

\* ... and sent, ...
LEMMA OrderSent ==
    ASSUME NEW a, NEW w, NEW x, NEW s, s = <<x>>, NEW slot,
           NEW sent \in Int, NEW next \in Int, ChainInOrder(a, w, s, slot, sent, next),
           NEW v, v = w \o s, NEW t, t = <<>>
    PROVE  ChainInOrder(a, v, t, slot, sent, next)
<1>0. Parts(a, w, s, slot) BY DEF ChainInOrder
<1>1. PICK q, n : q = ChainOf(a, w, s, slot) /\ n = LengthOf(a, w, s) OBVIOUS
<1>2. PICK r : r = ChainOf(a, v, t, slot) OBVIOUS
<1>3. Len(t) = 0 /\ IsSeq(t) BY NothingIsSeq
<1>4. IsSeq(s) /\ Len(s) = 1 /\ s[1] = x /\ x \in Pictures
  BY <1>0, SingleSeq, SeqIndices DEF Parts, HasPictures
<1>5. v = Append(w, x) BY <1>0 DEF Parts, IsSeq
<1>6. /\ IsSeq(v) /\ Len(v) = Len(w) + 1 /\ v[Len(w) + 1] = x
      /\ \A i \in DOMAIN w : v[i] = w[i]
      /\ DOMAIN v = DOMAIN w \cup {Len(w) + 1} /\ DOMAIN w = 1..Len(w)
  <2>1. IsSeq(w) BY <1>0 DEF Parts
  <2> QED BY <1>5, <2>1, LongerByOne
<1>7. Parts(a, v, t, slot) BY <1>0, <1>3, <1>4, <1>6, SeqIndices DEF Parts, HasPictures, Previews
<1>8. /\ Len(a) \in {0, 1} /\ Len(w) \in Nat /\ n = Len(a) + Len(w) + 2
      /\ \A i \in 1..Len(a) : q[i] = a[i]
      /\ \A i \in 1..Len(w) : q[Len(a) + i] = w[i]
      /\ \A i \in 1..Len(s) : q[Len(a) + Len(w) + i] = s[i]
      /\ q[n] = slot /\ OnIndices(q, n)
  <2>1. Laid(q, n, a, w, s, slot) BY <1>0, <1>1, ChainPlaces
  <2>2. Len(s) = 1 BY <1>4
  <2> QED BY <2>1, <2>2 DEF Laid
<1>9. LengthOf(a, v, t) = n BY <1>3, <1>6, <1>8 DEF LengthOf
<1>10. /\ OnIndices(r, n)
       /\ \A i \in 1..Len(a) : r[i] = a[i]
       /\ \A i \in 1..Len(v) : r[Len(a) + i] = v[i]
       /\ r[n] = slot
  <2>1. Laid(r, n, a, v, t, slot) BY <1>2, <1>7, <1>9, ChainPlaces
  <2> QED BY <2>1 DEF Laid
<1>11. \A i \in 1..n : q[i] = r[i]
  <2> SUFFICES ASSUME NEW i \in 1..n PROVE q[i] = r[i] OBVIOUS
  <2>1. CASE i <= Len(a) BY <1>8, <1>10, <2>1
  <2>2. CASE i > Len(a) /\ i <= Len(a) + Len(w)
    <3>1. PICK j : j = i - Len(a) OBVIOUS
    <3>2. j \in 1..Len(w) /\ j \in 1..Len(v) /\ i = Len(a) + j BY <1>6, <1>8, <2>2, <3>1
    <3>3. q[i] = w[j] /\ r[i] = v[j] BY <1>8, <1>10, <3>2
    <3> QED BY <1>6, <3>2, <3>3
  <2>3. CASE i = n - 1
    <3>1. PICK j : j = Len(w) + 1 OBVIOUS
    <3>2. /\ 1 \in 1..Len(s) /\ i = Len(a) + Len(w) + 1 /\ i = Len(a) + j /\ j \in 1..Len(v)
      BY <1>4, <1>6, <1>8, <2>3, <3>1
    <3>3. q[i] = s[1] BY <1>8, <3>2
    <3>4. r[i] = v[j] BY <1>10, <3>2
    <3> QED BY <1>4, <1>6, <3>1, <3>3, <3>4
  <2>4. CASE i = n BY <1>8, <1>10, <2>4
  <2> QED BY <1>8, <2>1, <2>2, <2>3, <2>4
<1>12. q = r
  <2>1. n \in Nat BY <1>8
  <2> QED BY <1>8, <1>10, <1>11, <2>1, SameChain
<1> QED BY <1>1, <1>2, <1>7, <1>9, <1>12 DEF ChainInOrder

\* ... or not.
LEMMA OrderUnsent ==
    ASSUME NEW a, NEW w, NEW x, NEW s, s = <<x>>, NEW slot,
           NEW sent \in Int, NEW next \in Int, ChainInOrder(a, w, s, slot, sent, next),
           NEW sentNow \in Int, NEW nextNow \in Int, sent <= sentNow, next < nextNow,
           NEW t, t = <<>>
    PROVE  ChainInOrder(a, w, t, slot, sentNow, nextNow)
<1>0. Parts(a, w, s, slot) BY DEF ChainInOrder
<1>1. PICK q, n : q = ChainOf(a, w, s, slot) /\ n = LengthOf(a, w, s) OBVIOUS
<1>2. PICK r : r = ChainOf(a, w, t, slot) OBVIOUS
<1>3. Len(t) = 0 /\ IsSeq(t) BY NothingIsSeq
<1>4. IsSeq(s) /\ Len(s) = 1 BY SingleSeq
<1>5. Parts(a, w, t, slot) BY <1>0, <1>3, SeqIndices DEF Parts, HasPictures
<1>6. /\ Len(a) \in {0, 1} /\ Len(w) \in Nat /\ n = Len(a) + Len(w) + 2
      /\ \A i \in 1..Len(a) : q[i] = a[i]
      /\ \A i \in 1..Len(w) : q[Len(a) + i] = w[i]
      /\ q[n] = slot /\ IsChain(q, n)
  <2>1. Laid(q, n, a, w, s, slot) BY <1>0, <1>1, ChainPlaces
  <2> QED BY <1>4, <2>1 DEF Laid
<1>7. LengthOf(a, w, t) = n - 1 BY <1>3, <1>6 DEF LengthOf
<1>8. /\ OnIndices(r, n - 1)
      /\ \A i \in 1..Len(a) : r[i] = a[i]
      /\ \A i \in 1..Len(w) : r[Len(a) + i] = w[i]
      /\ r[n - 1] = slot
  <2>1. Laid(r, n - 1, a, w, t, slot) BY <1>2, <1>5, <1>7, ChainPlaces
  <2> QED BY <2>1 DEF Laid
<1>9. ASSUME NEW i \in 1..(n - 1) PROVE r[i] = IF i < n - 1 THEN q[i] ELSE q[i + 1]
  <2>1. CASE i <= Len(a) BY <1>6, <1>8, <2>1
  <2>2. CASE i > Len(a) /\ i <= Len(a) + Len(w)
    <3>1. PICK j : j = i - Len(a) OBVIOUS
    <3>2. j \in 1..Len(w) /\ i = Len(a) + j /\ i < n - 1 BY <1>6, <2>2, <3>1
    <3> QED BY <1>6, <1>8, <3>2
  <2>3. CASE i = n - 1
    <3>1. i + 1 = n /\ ~(i < n - 1) BY <1>6, <2>3
    <3> QED BY <1>6, <1>8, <2>3, <3>1
  <2> QED BY <1>6, <2>1, <2>2, <2>3
<1>10. PICK m : m = n - 1 OBVIOUS
<1>11. Without(q, n, m, r)
  <2>1. m \in 1..(n - 1) /\ OnIndices(r, n - 1) BY <1>6, <1>8, <1>10
  <2>2. \A i \in 1..(n - 1) : r[i] = IF i < m THEN q[i] ELSE q[i + 1] BY <1>9, <1>10
  <2> QED BY <2>1, <2>2 DEF Without
<1>12. Numbered(q, n, sent, next) BY <1>1 DEF ChainInOrder
<1>13. Numbered(r, n - 1, sentNow, nextNow)
  <2>1. sent <= sentNow /\ next <= nextNow /\ next < nextNow /\ m = n - 1 BY <1>10
  <2> QED BY <1>6, <1>11, <1>12, <2>1, MessageMissing
<1> QED BY <1>2, <1>5, <1>7, <1>13 DEF ChainInOrder

\* The device answers the HELLO.
LEMMA OrderHello ==
    ASSUME NEW a, NEW w, NEW s, NEW slot,
           NEW sent \in Int, NEW next \in Int, ChainInOrder(a, w, s, slot, sent, next),
           NEW v, v = Append(w, Hello)
    PROVE  ChainInOrder(a, v, s, slot, sent, next)
<1>0. Parts(a, w, s, slot) BY DEF ChainInOrder
<1>1. PICK q, n : q = ChainOf(a, w, s, slot) /\ n = LengthOf(a, w, s) OBVIOUS
<1>2. PICK r : r = ChainOf(a, v, s, slot) OBVIOUS
<1>3. /\ IsSeq(v) /\ Len(v) = Len(w) + 1 /\ v[Len(w) + 1] = Hello
      /\ \A i \in DOMAIN w : v[i] = w[i]
      /\ DOMAIN v = DOMAIN w \cup {Len(w) + 1} /\ DOMAIN w = 1..Len(w)
  <2>1. IsSeq(w) BY <1>0 DEF Parts
  <2>2. PICK h : h = Hello OBVIOUS
  <2>3. v = Append(w, h) BY <2>2
  <2> QED BY <2>1, <2>2, <2>3, LongerByOne
<1>4. Parts(a, v, s, slot) BY <1>0, <1>3 DEF Parts, Previews
<1>5. /\ Len(a) \in {0, 1} /\ Len(w) \in Nat /\ Len(s) \in {0, 1}
      /\ n = Len(a) + Len(w) + Len(s) + 1
      /\ \A i \in 1..Len(a) : q[i] = a[i]
      /\ \A i \in 1..Len(w) : q[Len(a) + i] = w[i]
      /\ \A i \in 1..Len(s) : q[Len(a) + Len(w) + i] = s[i]
      /\ q[n] = slot /\ IsChain(q, n)
  <2>1. Laid(q, n, a, w, s, slot) BY <1>0, <1>1, ChainPlaces
  <2> QED BY <2>1 DEF Laid
<1>6. LengthOf(a, v, s) = n + 1 BY <1>3, <1>5 DEF LengthOf
<1>7. /\ OnIndices(r, n + 1)
      /\ \A i \in 1..Len(a) : r[i] = a[i]
      /\ \A i \in 1..Len(v) : r[Len(a) + i] = v[i]
      /\ \A i \in 1..Len(s) : r[Len(a) + Len(v) + i] = s[i]
      /\ r[n + 1] = slot
  <2>1. Laid(r, n + 1, a, v, s, slot) BY <1>2, <1>4, <1>6, ChainPlaces
  <2> QED BY <2>1 DEF Laid
<1>8. PICK m : m = Len(a) + Len(w) + 1 OBVIOUS
<1>9. ASSUME NEW i \in 1..(n + 1)
      PROVE  r[i] = IF i < m THEN q[i] ELSE IF i = m THEN Hello ELSE q[i - 1]
  <2>1. CASE i <= Len(a) BY <1>5, <1>7, <1>8, <2>1
  <2>2. CASE i > Len(a) /\ i < m
    <3>1. PICK j : j = i - Len(a) OBVIOUS
    <3>2. j \in 1..Len(w) /\ i = Len(a) + j BY <1>5, <1>8, <2>2, <3>1
    <3>3. j \in 1..Len(v) BY <1>3, <1>5, <3>2
    <3>4. q[i] = w[j] /\ r[i] = v[j] BY <1>5, <1>7, <3>2, <3>3
    <3> QED BY <1>3, <2>2, <3>4, <3>2, <3>3
  <2>3. CASE i = m
    <3>1. PICK j : j = Len(w) + 1 OBVIOUS
    <3>2. i = Len(a) + j /\ j \in 1..Len(v) /\ ~(i < m) BY <1>3, <1>5, <1>8, <2>3, <3>1
    <3>3. r[i] = v[j] BY <1>7, <3>2
    <3> QED BY <1>3, <2>3, <3>1, <3>2, <3>3
  <2>4. CASE i > m /\ i <= n
    <3>1. PICK j : j = i - m OBVIOUS
    <3>2. /\ j \in 1..Len(s) /\ i = Len(a) + Len(v) + j /\ i - 1 = Len(a) + Len(w) + j
      BY <1>3, <1>5, <1>8, <2>4, <3>1
    <3>3. r[i] = s[j] /\ q[i - 1] = s[j] BY <1>5, <1>7, <3>2
    <3>4. ~(i < m) /\ i # m BY <1>5, <1>8, <2>4
    <3> QED BY <3>3, <3>4
  <2>5. CASE i = n + 1
    <3>1. i - 1 = n /\ ~(i < m) /\ i # m BY <1>5, <1>8, <2>5
    <3> QED BY <1>5, <1>7, <2>5, <3>1
  <2>6. \/ i <= Len(a) \/ (i > Len(a) /\ i < m) \/ i = m \/ (i > m /\ i <= n) \/ i = n + 1
    <3>1. i \in Int /\ i <= n + 1 /\ n \in Int /\ m \in Int /\ Len(a) \in Int BY <1>5, <1>8
    <3> QED BY <3>1
  <2> QED BY <2>1, <2>2, <2>3, <2>4, <2>5, <2>6
<1>10. WithHello(q, n, m, r)
  <2>1. m \in 1..n BY <1>5, <1>8
  <2> QED BY <1>7, <1>9, <2>1 DEF WithHello
<1>11. Numbered(q, n, sent, next) BY <1>1 DEF ChainInOrder
<1>12. Numbered(r, n + 1, sent, next) BY <1>5, <1>10, <1>11, HelloPut
<1> QED BY <1>2, <1>4, <1>6, <1>12 DEF ChainInOrder

\* A message is gone: dropped, a HELLO that was read, or one nobody has read a picture before.
LEMMA HeadGone ==
    ASSUME NEW a, NEW w, NEW s, NEW slot,
           NEW sent \in Int, NEW next \in Int, ChainInOrder(a, w, s, slot, sent, next),
           w # <<>>, NEW v, v = Tail(w),
           NEW sentNow \in Int, NEW nextNow \in Int, sent <= sentNow, next <= nextNow,
           a = <<>> \/ IsHello(Head(w)) \/ (sent < sentNow /\ next < nextNow)
    PROVE  ChainInOrder(a, v, s, slot, sentNow, nextNow)
<1>0. Parts(a, w, s, slot) BY DEF ChainInOrder
<1>1. PICK q, n : q = ChainOf(a, w, s, slot) /\ n = LengthOf(a, w, s) OBVIOUS
<1>2. PICK r : r = ChainOf(a, v, s, slot) OBVIOUS
<1>3. /\ IsSeq(v) /\ Len(v) = Len(w) - 1 /\ DOMAIN v = 1..Len(v) /\ DOMAIN w = 1..Len(w)
      /\ \A i \in 1..Len(v) : i + 1 \in DOMAIN w /\ v[i] = w[i + 1]
  BY <1>0, ShorterByOne DEF Parts
<1>4. Parts(a, v, s, slot) BY <1>0, <1>3 DEF Parts
<1>5. /\ Len(a) \in {0, 1} /\ Len(w) \in Nat /\ Len(s) \in {0, 1}
      /\ n = Len(a) + Len(w) + Len(s) + 1
      /\ \A i \in 1..Len(a) : q[i] = a[i]
      /\ \A i \in 1..Len(w) : q[Len(a) + i] = w[i]
      /\ \A i \in 1..Len(s) : q[Len(a) + Len(w) + i] = s[i]
      /\ q[n] = slot /\ IsChain(q, n)
  <2>1. Laid(q, n, a, w, s, slot) BY <1>0, <1>1, ChainPlaces
  <2> QED BY <2>1 DEF Laid
<1>6. LengthOf(a, v, s) = n - 1 /\ Len(w) >= 1
  <2>1. Len(v) \in Nat BY <1>3, SeqIndices
  <2> QED BY <1>3, <1>5, <2>1 DEF LengthOf
<1>7. /\ OnIndices(r, n - 1)
      /\ \A i \in 1..Len(a) : r[i] = a[i]
      /\ \A i \in 1..Len(v) : r[Len(a) + i] = v[i]
      /\ \A i \in 1..Len(s) : r[Len(a) + Len(v) + i] = s[i]
      /\ r[n - 1] = slot
  <2>1. Laid(r, n - 1, a, v, s, slot) BY <1>2, <1>4, <1>6, ChainPlaces
  <2> QED BY <2>1 DEF Laid
<1>8. PICK m : m = Len(a) + 1 OBVIOUS
<1>9. ASSUME NEW i \in 1..(n - 1) PROVE r[i] = IF i < m THEN q[i] ELSE q[i + 1]
  <2>1. CASE i <= Len(a) BY <1>5, <1>7, <1>8, <2>1
  <2>2. CASE i > Len(a) /\ i <= Len(a) + Len(v)
    <3>1. PICK j : j = i - Len(a) OBVIOUS
    <3>2. /\ j \in 1..Len(v) /\ j + 1 \in 1..Len(w) /\ i = Len(a) + j
          /\ i + 1 = Len(a) + (j + 1) /\ ~(i < m)
      BY <1>3, <1>5, <1>8, <2>2, <3>1
    <3>3. r[i] = v[j] /\ q[i + 1] = w[j + 1] BY <1>5, <1>7, <3>2
    <3> QED BY <1>3, <3>2, <3>3
  <2>3. CASE i > Len(a) + Len(v) /\ i < n - 1
    <3>1. PICK j : j = i - Len(a) - Len(v) OBVIOUS
    <3>2. /\ j \in 1..Len(s) /\ i = Len(a) + Len(v) + j /\ i + 1 = Len(a) + Len(w) + j
          /\ ~(i < m)
      BY <1>3, <1>5, <1>6, <1>8, <2>3, <3>1
    <3>3. r[i] = s[j] /\ q[i + 1] = s[j] BY <1>5, <1>7, <3>2
    <3> QED BY <3>2, <3>3
  <2>4. CASE i = n - 1
    <3>1. i + 1 = n /\ ~(i < m) BY <1>5, <1>6, <1>8, <2>4
    <3> QED BY <1>5, <1>7, <2>4, <3>1
  <2> QED BY <1>5, <2>1, <2>2, <2>3, <2>4
<1>10. Without(q, n, m, r)
  <2>1. m \in 1..(n - 1) BY <1>5, <1>6, <1>8
  <2> QED BY <1>7, <1>9, <2>1 DEF Without
<1>11. Numbered(q, n, sent, next) BY <1>1 DEF ChainInOrder
<1>12. m = 1 \/ IsHello(q[m]) \/ (next < nextNow /\ sent < sentNow)
  <2>1. a = <<>> => m = 1 BY <1>8, NothingIsSeq
  <2>2. q[m] = Head(w)
    <3>1. 1 \in 1..Len(w) /\ q[Len(a) + 1] = w[1] BY <1>5, <1>6
    <3> QED BY <1>8, <3>1
  <2> QED BY <2>1, <2>2
<1>13. Numbered(r, n - 1, sentNow, nextNow) BY <1>5, <1>10, <1>11, <1>12, MessageMissing
<1> QED BY <1>2, <1>4, <1>6, <1>13 DEF ChainInOrder

\* The last picture the host has read no longer counts.
LEMMA ArrivedForgotten ==
    ASSUME NEW x, NEW a, a = <<x>>, NEW w, NEW s, NEW slot,
           NEW sent \in Int, NEW next \in Int, ChainInOrder(a, w, s, slot, sent, next),
           NEW b, b = <<>>
    PROVE  ChainInOrder(b, w, s, slot, sent, next)
<1>0. Parts(a, w, s, slot) BY DEF ChainInOrder
<1>1. PICK q, n : q = ChainOf(a, w, s, slot) /\ n = LengthOf(a, w, s) OBVIOUS
<1>2. PICK r : r = ChainOf(b, w, s, slot) OBVIOUS
<1>3. Len(b) = 0 /\ IsSeq(b) BY NothingIsSeq
<1>4. Len(a) = 1 BY SingleSeq
<1>5. Parts(b, w, s, slot) BY <1>0, <1>3, SeqIndices DEF Parts, HasPictures
<1>6. /\ Len(w) \in Nat /\ Len(s) \in {0, 1} /\ n = Len(w) + Len(s) + 2
      /\ \A i \in 1..Len(w) : q[1 + i] = w[i]
      /\ \A i \in 1..Len(s) : q[1 + Len(w) + i] = s[i]
      /\ q[n] = slot /\ IsChain(q, n)
  <2>1. Laid(q, n, a, w, s, slot) BY <1>0, <1>1, ChainPlaces
  <2>2. /\ Len(w) \in Nat /\ Len(s) \in {0, 1} /\ n = 1 + Len(w) + Len(s) + 1
        /\ q[n] = slot /\ IsChain(q, n)
    BY <1>4, <2>1 DEF Laid
  <2>3. \A i \in 1..Len(w) : q[1 + i] = w[i] BY <1>4, <2>1 DEF Laid
  <2>4. \A i \in 1..Len(s) : q[1 + Len(w) + i] = s[i] BY <1>4, <2>1 DEF Laid
  <2>5. n = Len(w) + Len(s) + 2 BY <2>2
  <2> QED BY <2>2, <2>3, <2>4, <2>5
<1>7. LengthOf(b, w, s) = n - 1 BY <1>3, <1>6 DEF LengthOf
<1>8. /\ OnIndices(r, n - 1)
      /\ \A i \in 1..Len(w) : r[0 + i] = w[i]
      /\ \A i \in 1..Len(s) : r[0 + Len(w) + i] = s[i]
      /\ r[n - 1] = slot
  <2>1. Laid(r, n - 1, b, w, s, slot) BY <1>2, <1>5, <1>7, ChainPlaces
  <2> QED BY <1>3, <2>1 DEF Laid
<1>9. ASSUME NEW i \in 1..(n - 1) PROVE r[i] = q[i + 1]
  <2>1. CASE i <= Len(w)
    <3>1. i \in 1..Len(w) /\ 0 + i = i /\ 1 + i = i + 1 BY <1>6, <2>1
    <3> QED BY <1>6, <1>8, <3>1
  <2>2. CASE i > Len(w) /\ i < n - 1
    <3>1. PICK j : j = i - Len(w) OBVIOUS
    <3>2. j \in 1..Len(s) /\ 0 + Len(w) + j = i /\ 1 + Len(w) + j = i + 1
      BY <1>6, <2>2, <3>1
    <3> QED BY <1>6, <1>8, <3>2
  <2>3. CASE i = n - 1
    <3>1. i + 1 = n BY <1>6, <2>3
    <3> QED BY <1>6, <1>8, <2>3, <3>1
  <2>4. n \in Int /\ Len(w) \in Int BY <1>6
  <2>5. i <= Len(w) \/ (i > Len(w) /\ i < n - 1) \/ i = n - 1 BY <2>4
  <2> QED BY <2>1, <2>2, <2>3, <2>5
<1>10. Without(q, n, 1, r)
  <2>1. 1 \in 1..(n - 1) BY <1>6
  <2>2. \A i \in 1..(n - 1) : ~(i < 1) BY <1>6
  <2> QED BY <1>8, <1>9, <2>1, <2>2 DEF Without
<1>11. Numbered(q, n, sent, next) BY <1>1 DEF ChainInOrder
<1>12. Numbered(r, n - 1, sent, next)
  <2>1. PICK m : m = 1 OBVIOUS
  <2>2. Without(q, n, m, r) /\ sent <= sent /\ next <= next BY <1>10, <2>1
  <2> QED BY <1>6, <1>11, <2>1, <2>2, MessageMissing
<1> QED BY <1>2, <1>5, <1>7, <1>12 DEF ChainInOrder

\* The host reads a picture, the first since it has forgotten the one before.
LEMMA OrderRead ==
    ASSUME NEW a, a = <<>>, NEW w, w # <<>>, NEW s, NEW slot,
           NEW sent \in Int, NEW next \in Int, ChainInOrder(a, w, s, slot, sent, next),
           ~IsHello(Head(w)), NEW b, b = <<Head(w)>>, NEW v, v = Tail(w)
    PROVE  ChainInOrder(b, v, s, slot, sent, next)
<1>0. Parts(a, w, s, slot) BY DEF ChainInOrder
<1>1. PICK q, n : q = ChainOf(a, w, s, slot) /\ n = LengthOf(a, w, s) OBVIOUS
<1>2. PICK r : r = ChainOf(b, v, s, slot) OBVIOUS
<1>3. /\ IsSeq(v) /\ Len(v) = Len(w) - 1 /\ DOMAIN v = 1..Len(v) /\ DOMAIN w = 1..Len(w)
      /\ \A i \in 1..Len(v) : i + 1 \in DOMAIN w /\ v[i] = w[i + 1]
  BY <1>0, ShorterByOne DEF Parts
<1>4. Len(a) = 0 BY NothingIsSeq
<1>5. IsSeq(b) /\ Len(b) = 1 /\ b[1] = w[1] /\ DOMAIN b = 1..1
  <2>1. PICK x : x = Head(w) OBVIOUS
  <2>2. b = <<x>> /\ x = w[1] BY <2>1
  <2> QED BY <2>2, SingleSeq, SeqIndices
<1>6. /\ Len(w) \in Nat /\ Len(s) \in {0, 1} /\ n = Len(w) + Len(s) + 1
      /\ \A i \in 1..Len(w) : q[0 + i] = w[i]
      /\ \A i \in 1..Len(s) : q[0 + Len(w) + i] = s[i]
      /\ q[n] = slot /\ OnIndices(q, n)
  <2>1. Laid(q, n, a, w, s, slot) BY <1>0, <1>1, ChainPlaces
  <2> QED BY <1>4, <2>1 DEF Laid
<1>7. Len(w) >= 1
  <2>1. Len(v) \in Nat BY <1>3, SeqIndices
  <2> QED BY <1>3, <1>6, <2>1
<1>8. w[1] \in Pictures
  <2>1. w[1] \in Previews BY <1>0, <1>3, <1>6, <1>7 DEF Parts
  <2> QED BY <2>1 DEF Previews, Hello, IsHello
<1>9. Parts(b, v, s, slot) BY <1>0, <1>3, <1>5, <1>8 DEF Parts, HasPictures
<1>10. LengthOf(b, v, s) = n BY <1>3, <1>5, <1>6 DEF LengthOf
<1>11. /\ OnIndices(r, n)
       /\ \A i \in 1..Len(b) : r[i] = b[i]
       /\ \A i \in 1..Len(v) : r[1 + i] = v[i]
       /\ \A i \in 1..Len(s) : r[1 + Len(v) + i] = s[i]
       /\ r[n] = slot
  <2>1. Laid(r, n, b, v, s, slot) BY <1>2, <1>9, <1>10, ChainPlaces
  <2>2. Len(b) = 1 BY <1>5
  <2> QED BY <2>1, <2>2 DEF Laid
<1>12. \A i \in 1..n : q[i] = r[i]
  <2> SUFFICES ASSUME NEW i \in 1..n PROVE q[i] = r[i] OBVIOUS
  <2>1. CASE i = 1
    <3>1. 1 \in 1..Len(b) /\ 1 \in 1..Len(w) /\ 0 + 1 = 1 BY <1>5, <1>6, <1>7
    <3> QED BY <1>5, <1>6, <1>11, <2>1, <3>1
  <2>2. CASE i > 1 /\ i <= Len(w)
    <3>1. PICK j : j = i - 1 OBVIOUS
    <3>2. j \in 1..Len(v) /\ j + 1 = i /\ 1 + j = i /\ i \in 1..Len(w) /\ 0 + i = i
      BY <1>3, <1>6, <2>2, <3>1
    <3>3. q[i] = w[i] /\ r[i] = v[j] BY <1>6, <1>11, <3>2
    <3> QED BY <1>3, <3>2, <3>3
  <2>3. CASE i > Len(w) /\ i < n
    <3>1. PICK j : j = i - Len(w) OBVIOUS
    <3>2. j \in 1..Len(s) /\ 0 + Len(w) + j = i /\ 1 + Len(v) + j = i
      BY <1>3, <1>6, <2>3, <3>1
    <3> QED BY <1>6, <1>11, <3>2
  <2>4. CASE i = n BY <1>6, <1>11, <2>4
  <2> QED BY <1>6, <1>7, <2>1, <2>2, <2>3, <2>4
<1>13. n \in Nat BY <1>6
<1>14. q = r BY <1>6, <1>11, <1>12, <1>13, SameChain
<1> QED BY <1>1, <1>2, <1>9, <1>10, <1>14 DEF ChainInOrder

\* The pictures there are were numbered no later than g.
KnownBy(a, w, s, g) ==
    /\ \A i \in DOMAIN a : a[i].numbering <= g
    /\ \A i \in DOMAIN w : w[i].numbering <= g
    /\ \A i \in DOMAIN s : s[i].numbering <= g

\* The slot is reset.
LEMMA OrderAnew ==
    ASSUME NEW a, NEW w, NEW s, NEW slot,
           NEW sent \in Int, NEW next \in Int, ChainInOrder(a, w, s, slot, sent, next),
           KnownBy(a, w, s, slot.numbering),
           NEW new \in Pictures, new.numbering = slot.numbering + 1
    PROVE  ChainInOrder(a, w, s, new, sent, next)
<1>0. Parts(a, w, s, slot) BY DEF ChainInOrder
<1>1. PICK q, n : q = ChainOf(a, w, s, slot) /\ n = LengthOf(a, w, s) OBVIOUS
<1>2. PICK r : r = ChainOf(a, w, s, new) OBVIOUS
<1>3. Parts(a, w, s, new) BY <1>0 DEF Parts
<1>4. PICK g : g = slot.numbering OBVIOUS
<1>5. g \in Nat /\ new.numbering = g + 1 BY <1>0, <1>4 DEF Parts, Pictures
<1>6. /\ Len(a) \in {0, 1} /\ Len(w) \in Nat /\ Len(s) \in {0, 1}
      /\ n = Len(a) + Len(w) + Len(s) + 1
      /\ \A i \in 1..Len(a) : q[i] = a[i]
      /\ \A i \in 1..Len(w) : q[Len(a) + i] = w[i]
      /\ \A i \in 1..Len(s) : q[Len(a) + Len(w) + i] = s[i]
      /\ q[n] = slot /\ IsChain(q, n)
  <2>1. Laid(q, n, a, w, s, slot) BY <1>0, <1>1, ChainPlaces
  <2> QED BY <2>1 DEF Laid
<1>7. /\ OnIndices(r, n) /\ r[n] = new
      /\ \A i \in 1..Len(a) : r[i] = a[i]
      /\ \A i \in 1..Len(w) : r[Len(a) + i] = w[i]
      /\ \A i \in 1..Len(s) : r[Len(a) + Len(w) + i] = s[i]
  <2>1. Laid(r, n, a, w, s, new) BY <1>1, <1>2, <1>3, ChainPlaces
  <2> QED BY <2>1 DEF Laid
<1>8. DOMAIN a = 1..Len(a) /\ DOMAIN w = 1..Len(w) /\ DOMAIN s = 1..Len(s)
  BY <1>0, SeqIndices DEF Parts, HasPictures
<1>9. ASSUME NEW i \in 1..n
      PROVE  q[i].numbering <= g /\ r[i] = IF i < n THEN q[i] ELSE new
  <2>1. CASE i <= Len(a)
    <3>1. i \in 1..Len(a) /\ i < n BY <1>6, <2>1
    <3> QED BY <1>4, <1>6, <1>7, <1>8, <3>1 DEF KnownBy
  <2>2. CASE i > Len(a) /\ i <= Len(a) + Len(w)
    <3>1. PICK j : j = i - Len(a) OBVIOUS
    <3>2. j \in 1..Len(w) /\ i = Len(a) + j /\ i < n BY <1>6, <2>2, <3>1
    <3>3. q[i] = w[j] /\ r[i] = w[j] BY <1>6, <1>7, <3>2
    <3> QED BY <1>4, <1>8, <3>2, <3>3 DEF KnownBy
  <2>3. CASE i > Len(a) + Len(w) /\ i < n
    <3>1. PICK j : j = i - Len(a) - Len(w) OBVIOUS
    <3>2. j \in 1..Len(s) /\ i = Len(a) + Len(w) + j BY <1>6, <2>3, <3>1
    <3>3. q[i] = s[j] /\ r[i] = s[j] BY <1>6, <1>7, <3>2
    <3> QED BY <1>4, <1>8, <2>3, <3>2, <3>3 DEF KnownBy
  <2>4. CASE i = n BY <1>4, <1>5, <1>6, <1>7, <2>4
  <2>5. i <= Len(a) \/ (i > Len(a) /\ i <= Len(a) + Len(w)) \/ (i > Len(a) + Len(w) /\ i < n)
        \/ i = n
    <3>1. i \in Int /\ i <= n /\ n \in Int /\ Len(a) \in Int /\ Len(w) \in Int BY <1>6
    <3> QED BY <3>1
  <2> QED BY <2>1, <2>2, <2>3, <2>4, <2>5
<1>10. Renumbered(q, n, new, r)
  <2>1. \A i \in 1..n : q[i].numbering < new.numbering
    <3> SUFFICES ASSUME NEW i \in 1..n PROVE q[i].numbering < g + 1 BY <1>5
    <3>1. q[i].numbering <= g /\ q[i].numbering \in Int BY <1>6, <1>9, IdsAreNumbers
    <3> QED BY <1>5, <3>1
  <2> QED BY <1>7, <1>9, <2>1 DEF Renumbered
<1>11. Numbered(q, n, sent, next) BY <1>1 DEF ChainInOrder
<1>12. Numbered(r, n, sent, next) BY <1>6, <1>10, <1>11, NumbersAnew
<1> QED BY <1>1, <1>2, <1>3, <1>12 DEF ChainInOrder

\* A picture that is read after another of its numbering.
LEMMA ReadNext ==
    ASSUME NEW x, NEW a, a = <<x>>, NEW w, w # <<>>, NEW s, NEW slot,
           NEW sent \in Int, NEW next \in Int, ChainInOrder(a, w, s, slot, sent, next),
           NEW m, m = Head(w), ~IsHello(m), x.numbering = m.numbering
    PROVE  /\ x.id \in 0..(PreviewIds - 1) /\ m.id \in 0..(PreviewIds - 1)
           /\ \E k \in 0..sent : Wraps(m.id - x.id - 1 - k)
<1>0. Parts(a, w, s, slot) BY DEF ChainInOrder
<1>1. PICK q, n : q = ChainOf(a, w, s, slot) /\ n = LengthOf(a, w, s) OBVIOUS
<1>2. Len(a) = 1 /\ a[1] = x BY SingleSeq
<1>3. /\ Len(w) \in Nat /\ Len(s) \in {0, 1} /\ n = Len(w) + Len(s) + 2
      /\ \A i \in 1..Len(a) : q[i] = a[i]
      /\ \A i \in 1..Len(w) : q[1 + i] = w[i]
      /\ IsChain(q, n)
  <2>1. Laid(q, n, a, w, s, slot) BY <1>0, <1>1, ChainPlaces
  <2> QED BY <1>2, <2>1 DEF Laid
<1>4. Len(w) >= 1 BY <1>0, <1>3, NonEmpty DEF Parts
<1>5. q[1] = x /\ q[2] = m
  <2>1. 1 \in 1..Len(a) /\ 1 \in 1..Len(w) BY <1>2, <1>3, <1>4
  <2>2. q[1] = a[1] /\ q[1 + 1] = w[1] BY <1>3, <2>1
  <2> QED BY <1>2, <2>2
<1>6. 1 \in 1..n /\ 2 \in 1..n /\ 2 # n /\ 1 \in 1..(n - 1) BY <1>3, <1>4
<1>7. x \in Pictures /\ m \in Pictures
  <2>1. q[1] \in Previews /\ q[2] \in Previews BY <1>3, <1>6 DEF IsChain
  <2>2. 1 \in DOMAIN a BY <1>0, <1>2, SeqIndices DEF Parts, HasPictures
  <2> QED BY <1>0, <1>2, <1>5, <2>1, <2>2
          DEF Previews, Hello, IsHello, Parts, HasPictures
<1>8. PICK c : NumberedBy(q, n, c, sent, next) BY <1>1 DEF ChainInOrder, Numbered
<1>9. c[1] \in Int /\ c[2] = c[1] + 1
  <2>1. c \in [1..n -> Int] /\ c[1 + 1] = c[1] + NumbersOf(q[1 + 1])
    BY <1>6, <1>8 DEF NumberedBy, Counted
  <2> QED BY <1>5, <1>6, <2>1 DEF NumbersOf
<1>10. Apart(q, c, 1, 2, sent) BY <1>6, <1>8 DEF NumberedBy
<1>11. SameNumbering(q[1], q[2])
  BY <1>5, <1>7, PreviewAssumption DEF SameNumbering, Pictures, IsHello
<1>12. PICK k \in 0..sent : Wraps(m.id - x.id - (c[2] - c[1]) - k)
  BY <1>5, <1>10, <1>11 DEF Apart
<1>13. c[2] - c[1] = 1 BY <1>9
<1> QED BY <1>7, <1>12, <1>13 DEF Pictures

-----------------------------------------------------------------------------
(* The invariant.                                                          *)

NewSlot == [id |-> slotId, numbering |-> numbering]

\* A session the host has opened has not ended for the device.
Unit(b) == IF b THEN 1 ELSE 0
Busy == Unit(hostHello) + Unit(devSession \/ snapshot # <<>>)

\* How many pictures were lost between two that were sent, and since the last that was taken.
LostOfSent == previewLosses + MaxPreviewSessions - 1
LostOfTaken == previewLosses + previewSessions - Busy

PreviewTypes ==
    /\ slotId \in 0..(PreviewIds - 1) /\ numbering \in Nat
    /\ devSession \in BOOLEAN /\ hostHello \in BOOLEAN
    /\ previewSessions \in 0..MaxPreviewSessions /\ previewLosses \in 0..MaxPreviewLosses

ShownIsArrived ==
    /\ hostSession = "down" => arrived = <<>>
    /\ arrived = <<>> => ~receivedAny
    /\ arrived # <<>> /\ ~mixed => hasPixels /\ receivedAny /\ shownId = arrived[1].id

PicturesInOrder == ChainInOrder(arrived, previewWire, snapshot, NewSlot, LostOfSent, LostOfTaken)

PreviewInv ==
    /\ PreviewTypes /\ Busy <= previewSessions
    /\ KnownBy(arrived, previewWire, snapshot, numbering)
    /\ PicturesInOrder /\ ShownIsArrived

LEMMA PreviewConstants ==
    /\ PreviewIds \in Nat /\ MaxPreviewSessions \in Nat /\ MaxPreviewLosses \in Nat
    /\ MaxPreviewLosses + MaxPreviewSessions < PreviewIds \div 2 /\ PreviewIds > 0
BY PreviewAssumption

LEMMA PreviewNumbers ==
    ASSUME PreviewTypes
    PROVE  /\ Busy \in 0..2 /\ LostOfSent \in Int /\ LostOfTaken \in Int
           /\ NewSlot \in Pictures /\ previewLosses \in Nat /\ previewSessions \in Nat
           /\ PreviewIds \in Nat /\ PreviewIds > 0 /\ MaxPreviewSessions \in Nat
<1>1. Unit(hostHello) \in {0, 1} /\ Unit(devSession \/ snapshot # <<>>) \in {0, 1} BY DEF Unit
<1>2. Busy \in 0..2 BY <1>1 DEF Busy
<1>3. previewLosses \in Nat /\ previewSessions \in Nat BY PreviewConstants DEF PreviewTypes
<1>4. NewSlot \in Pictures BY DEF PreviewTypes, NewSlot, Pictures
<1> QED BY <1>2, <1>3, <1>4, PreviewConstants DEF LostOfSent, LostOfTaken

LEMMA PreviewNumbersNext ==
    ASSUME PreviewTypes'
    PROVE  /\ Busy' \in 0..2 /\ LostOfSent' \in Int /\ LostOfTaken' \in Int
           /\ NewSlot' \in Pictures
<1>1. Unit(hostHello)' \in {0, 1} /\ Unit(devSession \/ snapshot # <<>>)' \in {0, 1}
  BY DEF Unit
<1>2. Busy' \in 0..2 BY <1>1 DEF Busy
<1>3. previewLosses' \in Nat /\ previewSessions' \in Nat BY PreviewConstants DEF PreviewTypes
<1>4. NewSlot' \in Pictures BY DEF PreviewTypes, NewSlot, Pictures
<1> QED BY <1>2, <1>3, <1>4, PreviewConstants DEF LostOfSent, LostOfTaken

LEMMA NothingYet ==
    ASSUME NEW a, NEW w, NEW s, a = <<>>, w = <<>>, s = <<>>, NEW slot \in Pictures,
           NEW sent \in Int, NEW next \in Int
    PROVE  ChainInOrder(a, w, s, slot, sent, next)
<1>1. /\ IsSeq(a) /\ IsSeq(w) /\ IsSeq(s) /\ Len(a) = 0 /\ Len(w) = 0 /\ Len(s) = 0
  BY NothingIsSeq
<1>2. DOMAIN a = {} /\ DOMAIN w = {} /\ DOMAIN s = {} BY <1>1, SeqIndices
<1>3. Parts(a, w, s, slot) BY <1>1, <1>2 DEF Parts, HasPictures
<1>4. LengthOf(a, w, s) = 1 BY <1>1 DEF LengthOf
<1>5. PICK q : q = ChainOf(a, w, s, slot) OBVIOUS
<1>6. PICK c : c = [i \in 1..1 |-> 0] OBVIOUS
<1>7. Counted(q, 1, c)
  <2>1. c \in [1..1 -> Int] BY <1>6
  <2>2. 1..(1 - 1) = {} OBVIOUS
  <2> QED BY <2>1, <2>2 DEF Counted
<1>8. NumberedBy(q, 1, c, sent, next)
  <2>1. \A i, j \in 1..1 : ~(i < j) OBVIOUS
  <2> QED BY <1>7, <2>1 DEF NumberedBy
<1> QED BY <1>3, <1>4, <1>5, <1>8 DEF ChainInOrder, Numbered

LEMMA PreviewStarts == ASSUME PreviewInit PROVE PreviewInv
<1>1. PreviewTypes /\ Busy = 0 /\ previewSessions = 0
  <2>1. /\ PreviewIds \in Nat /\ PreviewIds > 0
        /\ MaxPreviewSessions \in Nat /\ MaxPreviewLosses \in Nat
    BY PreviewAssumption
  <2>2. Busy = 0 BY DEF PreviewInit, Busy, Unit
  <2>3. 0 \in 0..(PreviewIds - 1) /\ 0 \in 0..MaxPreviewSessions /\ 0 \in 0..MaxPreviewLosses
    BY <2>1
  <2>4. PreviewTypes /\ previewSessions = 0 BY <2>3 DEF PreviewInit, PreviewTypes
  <2> QED BY <2>2, <2>4
<1>2. PicturesInOrder
  <2>1. arrived = <<>> /\ previewWire = <<>> /\ snapshot = <<>> BY DEF PreviewInit
  <2> QED BY <1>1, <2>1, PreviewNumbers, NothingYet DEF PicturesInOrder
<1>3. KnownBy(arrived, previewWire, snapshot, numbering)
  <2>1. DOMAIN arrived = {} /\ DOMAIN previewWire = {} /\ DOMAIN snapshot = {}
    BY NothingIsSeq, SeqIndices DEF PreviewInit
  <2> QED BY <2>1 DEF KnownBy
<1>4. ShownIsArrived BY DEF ShownIsArrived, PreviewInit
<1> QED BY <1>1, <1>2, <1>3, <1>4 DEF PreviewInv

\* Nothing of the chain is touched, and no bound falls.
LEMMA BoundsGrow ==
    ASSUME PreviewInv, PreviewTypes', Busy' <= previewSessions',
           UNCHANGED <<arrived, previewWire, snapshot, slotId, numbering>>,
           LostOfSent <= LostOfSent', LostOfTaken <= LostOfTaken'
    PROVE  KnownBy(arrived, previewWire, snapshot, numbering)' /\ PicturesInOrder'
<1>1. /\ LostOfSent \in Int /\ LostOfTaken \in Int
      /\ LostOfSent' \in Int /\ LostOfTaken' \in Int
  BY PreviewNumbers, PreviewNumbersNext DEF PreviewInv
<1>2. NewSlot' = NewSlot BY DEF NewSlot
<1>3. ChainInOrder(arrived, previewWire, snapshot, NewSlot, LostOfSent', LostOfTaken')
  BY <1>1, WiderOrder DEF PreviewInv, PicturesInOrder
<1>4. PicturesInOrder' BY <1>2, <1>3 DEF PicturesInOrder
<1>5. KnownBy(arrived, previewWire, snapshot, numbering)' BY DEF PreviewInv
<1> QED BY <1>4, <1>5

LEMMA StoresKeepsOrder == ASSUME PreviewInv, Stores PROVE PreviewInv'
<1>1. PreviewTypes' /\ Busy' = Busy /\ Busy' <= previewSessions' /\ ShownIsArrived'
  BY DEF PreviewInv, PreviewTypes, ShownIsArrived, Stores, Busy, deviceVars, shownVars,
         previewBounds
<1>2. LostOfSent <= LostOfSent' /\ LostOfTaken <= LostOfTaken'
  BY <1>1, PreviewNumbers DEF PreviewInv, PreviewTypes, Stores, LostOfSent, LostOfTaken,
     previewBounds
<1>3. UNCHANGED <<arrived, previewWire, snapshot, slotId, numbering>>
  BY DEF Stores, deviceVars, shownVars
<1> QED BY <1>1, <1>2, <1>3, BoundsGrow DEF PreviewInv

LEMMA DeviceEndsKeepsOrder == ASSUME PreviewInv, DeviceEnds PROVE PreviewInv'
<1>1. /\ devSession /\ devSession' = FALSE
      /\ UNCHANGED <<arrived, previewWire, snapshot, slotId, numbering, hostHello, hostSession,
                     receivedAny, shownId, hasPixels, mixed, previewSessions, previewLosses>>
  BY DEF DeviceEnds, slotVars, shownVars, previewBounds
<1>2. PreviewTypes' /\ ShownIsArrived' BY <1>1 DEF PreviewInv, PreviewTypes, ShownIsArrived
<1>3. Busy' <= Busy /\ Busy \in 0..2 /\ Busy' \in 0..2
  <2>1. Busy \in 0..2 /\ Busy' \in 0..2
    BY <1>2, PreviewNumbers DEF PreviewInv, Busy, Unit
  <2>2. Unit(devSession \/ snapshot # <<>>) = 1 BY <1>1 DEF Unit
  <2>3. Unit(devSession \/ snapshot # <<>>)' \in {0, 1} BY DEF Unit
  <2>4. Unit(hostHello)' = Unit(hostHello) /\ Unit(hostHello) \in {0, 1} BY <1>1 DEF Unit
  <2> QED BY <2>1, <2>2, <2>3, <2>4 DEF Busy
<1>4. LostOfSent <= LostOfSent' /\ LostOfTaken <= LostOfTaken' /\ Busy' <= previewSessions'
  <2>1. /\ Busy <= previewSessions /\ previewLosses \in Nat /\ previewSessions \in Nat
        /\ MaxPreviewSessions \in Nat
    BY PreviewNumbers DEF PreviewInv
  <2>2. PICK l, p, b, c : /\ l = previewLosses /\ p = previewSessions
                          /\ b = Busy /\ c = Busy'
    OBVIOUS
  <2>3. previewLosses' = l /\ previewSessions' = p BY <1>1, <2>2
  <2>4. /\ LostOfSent' = LostOfSent /\ LostOfTaken = l + p - b
        /\ LostOfTaken' = l + p - c
    BY <2>2, <2>3, Zenon DEF LostOfSent, LostOfTaken
  <2>5. LostOfSent \in Int BY PreviewNumbers DEF PreviewInv
  <2>6. LostOfSent <= LostOfSent' BY <2>4, <2>5
  <2>7. l \in Nat /\ p \in Nat /\ b \in 0..2 /\ c \in 0..3 /\ c <= b /\ b <= p
    BY <1>3, <2>1, <2>2
  <2>8. l + p - b <= l + p - c /\ c <= p BY <2>7
  <2> QED BY <2>2, <2>3, <2>4, <2>6, <2>8
<1> QED BY <1>1, <1>2, <1>4, BoundsGrow DEF PreviewInv

LEMMA HostReopensKeepsOrder == ASSUME PreviewInv, HostReopens PROVE PreviewInv'
<1>1. /\ previewSessions < MaxPreviewSessions /\ previewSessions' = previewSessions + 1
      /\ hostSession = "down" /\ hostHello' = TRUE
      /\ UNCHANGED <<arrived, previewWire, snapshot, slotId, numbering, devSession, resetsDue,
                     receivedAny, shownId, hasPixels, mixed, previewLosses>>
  BY DEF HostReopens, slotVars, deviceVars, shownVars
<1>2. PreviewTypes' /\ ShownIsArrived'
  BY <1>1, PreviewAssumption DEF PreviewInv, PreviewTypes, ShownIsArrived
<1>3. Busy' <= Busy + 1 /\ Busy \in 0..2 /\ Busy' \in 0..3
  <2>1. /\ Unit(devSession \/ snapshot # <<>>)' = Unit(devSession \/ snapshot # <<>>)
        /\ Unit(devSession \/ snapshot # <<>>) \in {0, 1}
    BY <1>1 DEF Unit
  <2>2. Unit(hostHello)' = 1 /\ Unit(hostHello) \in {0, 1} BY <1>1 DEF Unit
  <2> QED BY <2>1, <2>2 DEF Busy
<1>4. LostOfSent <= LostOfSent' /\ LostOfTaken <= LostOfTaken' /\ Busy' <= previewSessions'
  <2>1. /\ Busy <= previewSessions /\ previewLosses \in Nat /\ previewSessions \in Nat
        /\ MaxPreviewSessions \in Nat
    BY PreviewNumbers DEF PreviewInv
  <2>2. PICK l, p, b, c : /\ l = previewLosses /\ p = previewSessions
                          /\ b = Busy /\ c = Busy'
    OBVIOUS
  <2>3. previewLosses' = l /\ previewSessions' = p + 1 BY <1>1, <2>2
  <2>4. /\ LostOfSent' = LostOfSent /\ LostOfTaken = l + p - b
        /\ LostOfTaken' = l + (p + 1) - c
    BY <2>2, <2>3, Zenon DEF LostOfSent, LostOfTaken
  <2>5. LostOfSent \in Int BY PreviewNumbers DEF PreviewInv
  <2>6. LostOfSent <= LostOfSent' BY <2>4, <2>5
  <2>7. l \in Nat /\ p \in Nat /\ b \in 0..2 /\ c \in 0..3 /\ c <= b + 1 /\ b <= p
    BY <1>3, <2>1, <2>2
  <2>8. l + p - b <= l + (p + 1) - c /\ c <= p + 1 BY <2>7
  <2> QED BY <2>2, <2>3, <2>4, <2>6, <2>8
<1> QED BY <1>1, <1>2, <1>4, BoundsGrow DEF PreviewInv

LEMMA TakesSnapshotKeepsOrder == ASSUME PreviewInv, TakesSnapshot PROVE PreviewInv'
<1>1. /\ devSession /\ snapshot = <<>> /\ snapshot' = <<NewSlot>>
      /\ slotId' = (slotId + 1) % PreviewIds
      /\ UNCHANGED <<arrived, previewWire, numbering, devSession, hostHello, hostSession,
                     receivedAny, shownId, hasPixels, mixed, previewSessions, previewLosses>>
  BY DEF TakesSnapshot, shownVars, NewSlot
<1>2. PreviewTypes' /\ ShownIsArrived'
  <2>1. PreviewIds \in Nat /\ PreviewIds > 0 /\ slotId \in 0..(PreviewIds - 1)
    BY PreviewNumbers DEF PreviewInv, PreviewTypes
  <2>2. slotId' \in 0..(PreviewIds - 1) BY <1>1, <2>1
  <2> QED BY <1>1, <2>2 DEF PreviewInv, PreviewTypes, ShownIsArrived
<1>3. Busy' = Busy /\ Busy >= 1
  <2>1. Unit(devSession \/ snapshot # <<>>) = 1 /\ Unit(devSession \/ snapshot # <<>>)' = 1
    BY <1>1 DEF Unit
  <2>2. Unit(hostHello)' = Unit(hostHello) /\ Unit(hostHello) \in {0, 1} BY <1>1 DEF Unit
  <2> QED BY <2>1, <2>2 DEF Busy
<1>4. Busy' <= previewSessions' BY <1>1, <1>3 DEF PreviewInv
<1>5. PICK sent, next : sent = LostOfSent /\ next = LostOfTaken OBVIOUS
<1>6. sent \in Int /\ next \in Nat /\ next <= sent
  <2>1. /\ Busy \in 0..2 /\ previewLosses \in Nat /\ previewSessions \in Nat
        /\ MaxPreviewSessions \in Nat /\ previewSessions <= MaxPreviewSessions
        /\ Busy <= previewSessions
    BY PreviewNumbers, PreviewConstants DEF PreviewInv, PreviewTypes
  <2> QED BY <1>3, <1>5, <2>1 DEF LostOfSent, LostOfTaken
<1>7. LostOfSent' = sent /\ LostOfTaken' = next
  BY <1>1, <1>3, <1>5 DEF LostOfSent, LostOfTaken
<1>8. PICK a, w, s, t, slot, new : /\ a = arrived /\ w = previewWire /\ s = snapshot
                                   /\ t = snapshot' /\ slot = NewSlot /\ new = NewSlot'
  OBVIOUS
<1>9. /\ new \in Pictures /\ new.id = (slot.id + 1) % PreviewIds
      /\ new.numbering = slot.numbering /\ slot.numbering = numbering
  BY <1>1, <1>2, <1>8 DEF NewSlot, Pictures, PreviewTypes
<1>10. ChainInOrder(a, w, s, slot, sent, next) BY <1>5, <1>8 DEF PreviewInv, PicturesInOrder
<1>11. s = <<>> /\ t = <<slot>> BY <1>1, <1>8
<1>12. ChainInOrder(a, w, t, new, sent, next) BY <1>6, <1>9, <1>10, <1>11, OrderTaken
<1>13. PicturesInOrder' BY <1>1, <1>7, <1>8, <1>12 DEF PicturesInOrder
<1>14. KnownBy(arrived, previewWire, snapshot, numbering)'
  <2>1. DOMAIN t = 1..1 /\ t[1] = slot BY <1>11, SingleSeq, SeqIndices
  <2>2. \A i \in DOMAIN t : t[i].numbering <= numbering
    BY <1>9, <2>1 DEF PreviewInv, PreviewTypes
  <2>3. \A i \in DOMAIN snapshot' : snapshot'[i].numbering <= numbering BY <1>8, <2>2
  <2> QED BY <1>1, <2>3 DEF PreviewInv, KnownBy
<1> QED BY <1>2, <1>4, <1>13, <1>14 DEF PreviewInv

LEMMA SendsSnapshotKeepsOrder == ASSUME PreviewInv, SendsSnapshot PROVE PreviewInv'
<1>1. /\ snapshot # <<>> /\ snapshot' = <<>>
      /\ UNCHANGED <<arrived, slotId, numbering, devSession, hostHello, hostSession,
                     receivedAny, shownId, hasPixels, mixed, previewSessions>>
      /\ \/ /\ devSession /\ previewWire' = previewWire \o snapshot
            /\ UNCHANGED previewLosses
         \/ /\ devSession /\ previewWire' = previewWire
            /\ previewLosses < MaxPreviewLosses /\ previewLosses' = previewLosses + 1
         \/ ~devSession /\ previewWire' = previewWire /\ previewLosses' = previewLosses
  BY DEF SendsSnapshot, shownVars, slotVars, PreviewLost
<1>2. PreviewTypes' /\ ShownIsArrived'
  <2>1. previewLosses' \in 0..MaxPreviewLosses
    BY <1>1, PreviewConstants DEF PreviewInv, PreviewTypes
  <2> QED BY <1>1, <2>1 DEF PreviewInv, PreviewTypes, ShownIsArrived
<1>3. /\ devSession => Busy' = Busy
      /\ ~devSession => Busy' = Busy - 1
      /\ Busy \in 0..2 /\ Busy' \in 0..2
  <2>1. /\ Unit(devSession \/ snapshot # <<>>) = 1
        /\ Unit(devSession \/ snapshot # <<>>)' = IF devSession THEN 1 ELSE 0
    BY <1>1 DEF Unit
  <2>2. Unit(hostHello)' = Unit(hostHello) /\ Unit(hostHello) \in {0, 1} BY <1>1 DEF Unit
  <2> QED BY <2>1, <2>2 DEF Busy
<1>4. PICK sent, next, losses, busy, sessions :
          /\ sent = LostOfSent /\ next = LostOfTaken
          /\ losses = previewLosses /\ busy = Busy /\ sessions = previewSessions
  OBVIOUS
<1>5. /\ sent \in Int /\ next \in Int /\ losses \in Nat /\ sessions \in Nat
      /\ busy \in 0..2 /\ busy <= sessions /\ MaxPreviewSessions \in Nat
      /\ sent = losses + MaxPreviewSessions - 1 /\ next = losses + sessions - busy
  BY <1>4, PreviewNumbers DEF PreviewInv, LostOfSent, LostOfTaken
<1>6. Busy' <= previewSessions' BY <1>1, <1>3, <1>4, <1>5
<1>7. PICK a, w, s, t, v, slot : /\ a = arrived /\ w = previewWire /\ s = snapshot
                                 /\ t = snapshot' /\ v = previewWire' /\ slot = NewSlot
  OBVIOUS
<1>8. ChainInOrder(a, w, s, slot, sent, next) BY <1>4, <1>7 DEF PreviewInv, PicturesInOrder
<1>9. PICK x : s = <<x>>
  <2>1. IsSeq(s) /\ Len(s) <= 1 BY <1>8 DEF ChainInOrder, Parts, HasPictures
  <2>2. Len(s) = 1
    <3>1. s # <<>> BY <1>1, <1>7
    <3>2. Len(s) # 0 /\ Len(s) \in Nat BY <2>1, <3>1, NonEmpty, SeqIndices
    <3>3. PICK k \in Nat : k = Len(s) BY <3>2
    <3>4. k # 0 /\ k <= 1 BY <2>1, <3>2, <3>3
    <3>5. k = 1 BY <3>4
    <3> QED BY <3>3, <3>5
  <2>3. IsSeq(<<s[1]>>) /\ Len(<<s[1]>>) = 1 /\ <<s[1]>>[1] = s[1] BY SingleSeq
  <2>4. s = <<s[1]>> BY <2>1, <2>2, <2>3, SameSeq
  <2> QED BY <2>4
<1>10. t = <<>> BY <1>1, <1>7
<1>11. NewSlot' = slot BY <1>1, <1>7 DEF NewSlot
<1>12. CASE devSession /\ previewWire' = previewWire \o snapshot /\ UNCHANGED previewLosses
  <2>1. LostOfSent' = sent /\ LostOfTaken' = next
    BY <1>1, <1>3, <1>4, <1>12 DEF LostOfSent, LostOfTaken
  <2>2. v = w \o s BY <1>7, <1>12
  <2>3. ChainInOrder(a, v, t, slot, sent, next) BY <1>5, <1>8, <1>9, <1>10, <2>2, OrderSent
  <2>4. PicturesInOrder' BY <1>1, <1>7, <1>11, <2>1, <2>3 DEF PicturesInOrder
  <2>5. KnownBy(a, v, t, numbering)
    <3>1. KnownBy(a, w, s, numbering) BY <1>7 DEF PreviewInv
    <3>2. IsSeq(w) BY <1>8 DEF ChainInOrder, Parts
    <3>3. v = Append(w, x) BY <1>9, <2>2, <3>2 DEF IsSeq
    <3>4. /\ v[Len(w) + 1] = x /\ \A i \in DOMAIN w : v[i] = w[i]
          /\ DOMAIN v = DOMAIN w \cup {Len(w) + 1}
      BY <3>2, <3>3, LongerByOne
    <3>5. 1 \in DOMAIN s /\ s[1] = x BY <1>9, SingleSeq, SeqIndices
    <3>6. DOMAIN t = {} BY <1>10, NothingIsSeq, SeqIndices
    <3> QED BY <3>1, <3>4, <3>5, <3>6 DEF KnownBy
  <2>6. KnownBy(arrived, previewWire, snapshot, numbering)' BY <1>1, <1>7, <2>5
  <2> QED BY <1>2, <1>6, <2>4, <2>6 DEF PreviewInv
<1>13. CASE previewWire' = previewWire
  <2> SUFFICES ASSUME ~(devSession /\ previewWire' = previewWire \o snapshot
                        /\ UNCHANGED previewLosses)
               PROVE  PreviewInv'
      BY <1>12
  <2>1. PICK sentNow, nextNow : sentNow = LostOfSent' /\ nextNow = LostOfTaken' OBVIOUS
  <2>2. sentNow \in Int /\ nextNow \in Int /\ sent <= sentNow /\ next < nextNow
    <3>1. CASE devSession
      <4>1. previewLosses' = losses + 1 /\ Busy' = busy /\ previewSessions' = sessions
        BY <1>1, <1>3, <1>4, <3>1
      <4>2. sentNow = losses + 1 + MaxPreviewSessions - 1 /\ nextNow = losses + 1 + sessions - busy
        BY <2>1, <4>1 DEF LostOfSent, LostOfTaken
      <4> QED BY <1>5, <4>2
    <3>2. CASE ~devSession
      <4>1. previewLosses' = losses /\ Busy' = busy - 1 /\ previewSessions' = sessions
        BY <1>1, <1>3, <1>4, <3>2
      <4>2. sentNow = losses + MaxPreviewSessions - 1 /\ nextNow = losses + sessions - (busy - 1)
        BY <2>1, <4>1 DEF LostOfSent, LostOfTaken
      <4> QED BY <1>5, <4>2
    <3> QED BY <3>1, <3>2
  <2>3. ChainInOrder(a, w, t, slot, sentNow, nextNow)
    BY <1>5, <1>8, <1>9, <1>10, <2>2, OrderUnsent
  <2>4. PicturesInOrder' BY <1>1, <1>7, <1>11, <1>13, <2>1, <2>3 DEF PicturesInOrder
  <2>5. KnownBy(a, w, t, numbering)
    <3>1. KnownBy(a, w, s, numbering) BY <1>7 DEF PreviewInv
    <3>2. DOMAIN t = {} BY <1>10, NothingIsSeq, SeqIndices
    <3> QED BY <3>1, <3>2 DEF KnownBy
  <2>6. KnownBy(arrived, previewWire, snapshot, numbering)' BY <1>1, <1>7, <1>13, <2>5
  <2> QED BY <1>2, <1>6, <2>4, <2>6 DEF PreviewInv
<1> QED BY <1>1, <1>12, <1>13

LEMMA DeviceConnectsKeepsOrder == ASSUME PreviewInv, DeviceConnects PROVE PreviewInv'
<1>1. /\ ~devSession /\ hostHello /\ hostHello' = FALSE /\ devSession' = TRUE
      /\ previewWire' = Append(previewWire, Hello)
      /\ UNCHANGED <<arrived, slotId, numbering, snapshot, hostSession,
                     receivedAny, shownId, hasPixels, mixed, previewSessions, previewLosses>>
  BY DEF DeviceConnects, shownVars, slotVars, previewBounds, Hello
<1>2. PreviewTypes' /\ ShownIsArrived' BY <1>1 DEF PreviewInv, PreviewTypes, ShownIsArrived
<1>3. Busy' <= Busy
  <2>1. /\ Unit(devSession \/ snapshot # <<>>) \in {0, 1}
        /\ Unit(devSession \/ snapshot # <<>>)' = 1
    BY <1>1 DEF Unit
  <2>2. Unit(hostHello)' = 0 /\ Unit(hostHello) = 1 BY <1>1 DEF Unit
  <2> QED BY <2>1, <2>2 DEF Busy
<1>4. PICK sent, next, sentNow, nextNow :
          /\ sent = LostOfSent /\ next = LostOfTaken
          /\ sentNow = LostOfSent' /\ nextNow = LostOfTaken'
  OBVIOUS
<1>5. /\ sent \in Int /\ next \in Int /\ sentNow \in Int /\ nextNow \in Int
      /\ sent <= sentNow /\ next <= nextNow /\ Busy' <= previewSessions'
  <2>1. /\ Busy <= previewSessions /\ previewLosses \in Nat /\ previewSessions \in Nat
        /\ MaxPreviewSessions \in Nat /\ Busy \in 0..2 /\ Busy' \in 0..2
    BY <1>2, PreviewNumbers, PreviewNumbersNext DEF PreviewInv
  <2>2. previewLosses' = previewLosses /\ previewSessions' = previewSessions BY <1>1
  <2>3. PICK l, p, b, c, x : /\ l = previewLosses /\ p = previewSessions
                             /\ b = Busy /\ c = Busy' /\ x = MaxPreviewSessions
    OBVIOUS
  <2>4. sent = l + x - 1 /\ sentNow = l + x - 1 /\ next = l + p - b /\ nextNow = l + p - c
    BY <1>4, <2>2, <2>3, Zenon DEF LostOfSent, LostOfTaken
  <2>5. /\ l \in Nat /\ p \in Nat /\ b \in 0..2 /\ c \in 0..2 /\ c <= b /\ b <= p
        /\ x \in Nat
    BY <1>3, <2>1, <2>3
  <2>6. /\ sent \in Int /\ next \in Int /\ sentNow \in Int /\ nextNow \in Int
        /\ sent <= sentNow /\ next <= nextNow /\ c <= p
    BY <2>4, <2>5
  <2> QED BY <2>2, <2>3, <2>6
<1>6. PICK a, w, s, v, slot : /\ a = arrived /\ w = previewWire /\ s = snapshot
                              /\ v = previewWire' /\ slot = NewSlot
  OBVIOUS
<1>7. ChainInOrder(a, w, s, slot, sent, next) BY <1>4, <1>6 DEF PreviewInv, PicturesInOrder
<1>8. v = Append(w, Hello) BY <1>1, <1>6
<1>9. ChainInOrder(a, v, s, slot, sent, next) BY <1>5, <1>7, <1>8, OrderHello
<1>10. ChainInOrder(a, v, s, slot, sentNow, nextNow) BY <1>5, <1>9, WiderOrder
<1>11. NewSlot' = slot BY <1>1, <1>6 DEF NewSlot
<1>12. PicturesInOrder' BY <1>1, <1>4, <1>6, <1>10, <1>11 DEF PicturesInOrder
<1>13. KnownBy(a, v, s, numbering)
  <2>1. KnownBy(a, w, s, numbering) BY <1>6 DEF PreviewInv
  <2>2. IsSeq(w) BY <1>7 DEF ChainInOrder, Parts
  <2>3. PICK h : h = Hello OBVIOUS
  <2>4. /\ v[Len(w) + 1] = h /\ \A i \in DOMAIN w : v[i] = w[i]
        /\ DOMAIN v = DOMAIN w \cup {Len(w) + 1}
    BY <1>8, <2>2, <2>3, LongerByOne
  <2>5. h.numbering <= numbering BY <2>3 DEF Hello, PreviewInv, PreviewTypes
  <2> QED BY <2>1, <2>4, <2>5 DEF KnownBy
<1>14. KnownBy(arrived, previewWire, snapshot, numbering)' BY <1>1, <1>6, <1>13
<1> QED BY <1>2, <1>5, <1>12, <1>14 DEF PreviewInv

\* No session begins or ends, and nothing more is lost.
LEMMA SameBounds ==
    ASSUME PreviewInv,
           UNCHANGED <<devSession, snapshot, hostHello, previewSessions, previewLosses>>
    PROVE  /\ Busy' = Busy /\ Busy' <= previewSessions'
           /\ LostOfSent' = LostOfSent /\ LostOfTaken' = LostOfTaken
<1>1. Unit(hostHello)' = Unit(hostHello) BY DEF Unit
<1>2. Unit(devSession \/ snapshot # <<>>)' = Unit(devSession \/ snapshot # <<>>) BY DEF Unit
<1>3. Busy' = Busy BY <1>1, <1>2 DEF Busy
<1>4. LostOfSent' = LostOfSent /\ LostOfTaken' = LostOfTaken
  BY <1>3, Zenon DEF LostOfSent, LostOfTaken
<1>5. Busy' <= previewSessions' BY <1>3 DEF PreviewInv
<1> QED BY <1>3, <1>4, <1>5

LEMMA ResetsSlotKeepsOrder == ASSUME PreviewInv, ResetsSlot PROVE PreviewInv'
<1>1. /\ slotId' = 0 /\ numbering' = numbering + 1
      /\ UNCHANGED <<arrived, previewWire, snapshot, devSession, hostHello, hostSession,
                     receivedAny, shownId, hasPixels, mixed, previewSessions, previewLosses>>
  BY DEF ResetsSlot, shownVars, previewBounds
<1>2. PreviewTypes' /\ ShownIsArrived'
  <2>1. 0 \in 0..(PreviewIds - 1) BY PreviewConstants
  <2> QED BY <1>1, <2>1 DEF PreviewInv, PreviewTypes, ShownIsArrived
<1>3. /\ Busy' <= previewSessions' /\ LostOfSent' = LostOfSent /\ LostOfTaken' = LostOfTaken
  BY <1>1, SameBounds
<1>4. PICK a, w, s, slot, new, sent, next :
          /\ a = arrived /\ w = previewWire /\ s = snapshot /\ slot = NewSlot
          /\ new = NewSlot' /\ sent = LostOfSent /\ next = LostOfTaken
  OBVIOUS
<1>5. /\ sent \in Int /\ next \in Int /\ new \in Pictures
      /\ slot.numbering = numbering /\ new.numbering = slot.numbering + 1
  BY <1>1, <1>2, <1>4, PreviewNumbers, PreviewNumbersNext DEF PreviewInv, NewSlot
<1>6. ChainInOrder(a, w, s, slot, sent, next) BY <1>4 DEF PreviewInv, PicturesInOrder
<1>7. KnownBy(a, w, s, slot.numbering) BY <1>4, <1>5 DEF PreviewInv
<1>8. ChainInOrder(a, w, s, new, sent, next) BY <1>5, <1>6, <1>7, OrderAnew
<1>9. PicturesInOrder' BY <1>1, <1>3, <1>4, <1>8 DEF PicturesInOrder
<1>10. KnownBy(arrived, previewWire, snapshot, numbering)'
  <2>1. PICK g : g = numbering OBVIOUS
  <2>2. g \in Nat /\ KnownBy(a, w, s, g) BY <1>4, <2>1 DEF PreviewInv, PreviewTypes
  <2>3. Parts(a, w, s, slot) BY <1>6 DEF ChainInOrder
  <2>4. \A m \in Previews : m.numbering \in Int BY DEF Previews, Pictures, Hello
  <2>5. /\ \A i \in DOMAIN a : a[i].numbering \in Int
        /\ \A i \in DOMAIN w : w[i].numbering \in Int
        /\ \A i \in DOMAIN s : s[i].numbering \in Int
    BY <2>3, <2>4 DEF Parts, HasPictures, Previews
  <2>6. KnownBy(a, w, s, g + 1) BY <2>2, <2>5 DEF KnownBy
  <2> QED BY <1>1, <1>4, <2>1, <2>6
<1> QED BY <1>2, <1>3, <1>9, <1>10 DEF PreviewInv

\* The host forgets what it read.
LEMMA HostForgets ==
    ASSUME NEW a, NEW w, NEW s, NEW slot,
           NEW sent \in Int, NEW next \in Int, ChainInOrder(a, w, s, slot, sent, next),
           NEW b, b = <<>>
    PROVE  ChainInOrder(b, w, s, slot, sent, next)
<1>1. CASE a = <<>> BY <1>1
<1>2. CASE a # <<>>
  <2>1. IsSeq(a) /\ Len(a) <= 1 BY DEF ChainInOrder, Parts, HasPictures
  <2>2. Len(a) # 0 /\ Len(a) \in Nat BY <1>2, <2>1, NonEmpty, SeqIndices
  <2>3. PICK k \in Nat : k = Len(a) BY <2>2
  <2>4. k # 0 /\ k <= 1 BY <2>1, <2>2, <2>3
  <2>5. k = 1 BY <2>4
  <2>6. IsSeq(<<a[1]>>) /\ Len(<<a[1]>>) = 1 /\ <<a[1]>>[1] = a[1] BY SingleSeq
  <2>7. a = <<a[1]>>
    <3>1. Len(a) = 1 BY <2>3, <2>5
    <3> QED BY <2>1, <2>6, <3>1, SameSeq
  <2>8. PICK x : a = <<x>> BY <2>7
  <2> QED BY <2>8, ArrivedForgotten
<1> QED BY <1>1, <1>2

LEMMA HostEndsKeepsOrder == ASSUME PreviewInv, HostEnds PROVE PreviewInv'
<1>1. /\ arrived' = <<>> /\ receivedAny' = FALSE
      /\ UNCHANGED <<slotId, numbering, previewWire, snapshot, devSession, hostHello,
                     previewSessions, previewLosses>>
  BY DEF HostEnds, slotVars, deviceVars, previewBounds
<1>2. PreviewTypes' /\ ShownIsArrived'
  BY <1>1 DEF PreviewInv, PreviewTypes, ShownIsArrived
<1>3. /\ Busy' <= previewSessions' /\ LostOfSent' = LostOfSent /\ LostOfTaken' = LostOfTaken
  BY <1>1, SameBounds
<1>4. PICK a, b, w, s, slot, sent, next :
          /\ a = arrived /\ b = arrived' /\ w = previewWire /\ s = snapshot /\ slot = NewSlot
          /\ sent = LostOfSent /\ next = LostOfTaken
  OBVIOUS
<1>5. sent \in Int /\ next \in Int /\ NewSlot' = slot /\ b = <<>>
  BY <1>1, <1>4, PreviewNumbers DEF PreviewInv, NewSlot
<1>6. ChainInOrder(a, w, s, slot, sent, next) BY <1>4 DEF PreviewInv, PicturesInOrder
<1>7. ChainInOrder(b, w, s, slot, sent, next) BY <1>5, <1>6, HostForgets
<1>8. PicturesInOrder' BY <1>1, <1>3, <1>4, <1>5, <1>7 DEF PicturesInOrder
<1>9. KnownBy(b, w, s, numbering)
  <2>1. DOMAIN b = {} BY <1>5, NothingIsSeq, SeqIndices
  <2>2. KnownBy(a, w, s, numbering) BY <1>4 DEF PreviewInv
  <2> QED BY <2>1, <2>2 DEF KnownBy
<1>10. KnownBy(arrived, previewWire, snapshot, numbering)' BY <1>1, <1>4, <1>9
<1> QED BY <1>2, <1>3, <1>8, <1>10 DEF PreviewInv

\* The head of what is under way is known, and so is the rest.
LEMMA RestIsKnown ==
    ASSUME NEW a, NEW w, NEW s, NEW g, KnownBy(a, w, s, g), IsSeq(w), w # <<>>,
           NEW v, v = Tail(w)
    PROVE  KnownBy(a, v, s, g) /\ Head(w).numbering <= g /\ 1 \in DOMAIN w /\ Head(w) = w[1]
<1>1. /\ IsSeq(v) /\ DOMAIN v = 1..Len(v) /\ DOMAIN w = 1..Len(w)
      /\ \A i \in 1..Len(v) : i + 1 \in DOMAIN w /\ v[i] = w[i + 1]
  BY ShorterByOne
<1>2. KnownBy(a, v, s, g) BY <1>1 DEF KnownBy
<1>3. Len(w) # 0 /\ Len(w) \in Nat BY NonEmpty, SeqIndices
<1>4. PICK k \in Nat : k = Len(w) BY <1>3
<1>5. 1 \in 1..k BY <1>3, <1>4
<1>6. 1 \in DOMAIN w BY <1>1, <1>4, <1>5
<1>7. Head(w) = w[1] OBVIOUS
<1> QED BY <1>2, <1>6, <1>7 DEF KnownBy

LEMMA DroppedKeepsOrder == ASSUME PreviewInv, PreviewDropped PROVE PreviewInv'
<1>1. /\ previewWire # <<>> /\ previewWire' = Tail(previewWire)
      /\ previewLosses < MaxPreviewLosses /\ previewLosses' = previewLosses + 1
      /\ UNCHANGED <<slotId, numbering, arrived, snapshot, devSession, hostHello, hostSession,
                     receivedAny, shownId, hasPixels, mixed, previewSessions>>
  BY DEF PreviewDropped, PreviewLost, slotVars, deviceVars, shownVars
<1>2. PreviewTypes' /\ ShownIsArrived'
  <2>1. previewLosses' \in 0..MaxPreviewLosses
    BY <1>1, PreviewConstants DEF PreviewInv, PreviewTypes
  <2> QED BY <1>1, <2>1 DEF PreviewInv, PreviewTypes, ShownIsArrived
<1>3. Busy' = Busy
  <2>1. Unit(hostHello)' = Unit(hostHello) BY <1>1 DEF Unit
  <2>2. Unit(devSession \/ snapshot # <<>>)' = Unit(devSession \/ snapshot # <<>>)
    BY <1>1 DEF Unit
  <2> QED BY <2>1, <2>2 DEF Busy
<1>4. PICK a, v, w, s, slot, sent, next, sentNow, nextNow :
          /\ a = arrived /\ v = previewWire' /\ w = previewWire /\ s = snapshot
          /\ slot = NewSlot /\ sent = LostOfSent /\ next = LostOfTaken
          /\ sentNow = LostOfSent' /\ nextNow = LostOfTaken'
  OBVIOUS
<1>5. sent \in Int /\ next \in Int /\ sentNow = sent + 1 /\ nextNow = next + 1
  <2>1. PICK l, p, b, x : /\ l = previewLosses /\ p = previewSessions
                          /\ b = Busy /\ x = MaxPreviewSessions
    OBVIOUS
  <2>2. previewLosses' = l + 1 /\ previewSessions' = p /\ Busy' = b BY <1>1, <1>3, <2>1
  <2>3. /\ sent = l + x - 1 /\ sentNow = (l + 1) + x - 1
        /\ next = l + p - b /\ nextNow = (l + 1) + p - b
    BY <1>4, <2>1, <2>2, Zenon DEF LostOfSent, LostOfTaken
  <2>4. l \in Nat /\ p \in Nat /\ b \in 0..2 /\ x \in Nat
    BY <2>1, PreviewNumbers DEF PreviewInv
  <2> QED BY <2>3, <2>4
<1>6. /\ sentNow \in Int /\ nextNow \in Int /\ sent <= sentNow /\ next <= nextNow
      /\ sent < sentNow /\ next < nextNow
  BY <1>5
<1>7. ChainInOrder(a, w, s, slot, sent, next) BY <1>4 DEF PreviewInv, PicturesInOrder
<1>8. w # <<>> /\ v = Tail(w) BY <1>1, <1>4
<1>9. ChainInOrder(a, v, s, slot, sentNow, nextNow) BY <1>5, <1>6, <1>7, <1>8, HeadGone
<1>10. PicturesInOrder' BY <1>1, <1>4, <1>9 DEF PicturesInOrder, NewSlot
<1>11. KnownBy(a, v, s, numbering)
  <2>1. KnownBy(a, w, s, numbering) BY <1>4 DEF PreviewInv
  <2>2. IsSeq(w) BY <1>7 DEF ChainInOrder, Parts
  <2> QED BY <1>8, <2>1, <2>2, RestIsKnown
<1>12. KnownBy(arrived, previewWire, snapshot, numbering)' BY <1>1, <1>4, <1>11
<1>13. Busy' <= previewSessions' BY <1>1, <1>3 DEF PreviewInv
<1> QED BY <1>2, <1>10, <1>12, <1>13 DEF PreviewInv

\* The host reads a message it does nothing with, or a HELLO.
LEMMA HostReadsOver ==
    ASSUME PreviewInv, PreviewTypes', ShownIsArrived', previewWire # <<>>,
           previewWire' = Tail(previewWire), arrived = <<>> \/ IsHello(Head(previewWire)),
           arrived' \in {arrived, <<>>},
           UNCHANGED <<slotId, numbering, snapshot, devSession, hostHello,
                       previewSessions, previewLosses>>
    PROVE  PreviewInv'
<1>1. /\ Busy' <= previewSessions' /\ LostOfSent' = LostOfSent /\ LostOfTaken' = LostOfTaken
  BY SameBounds
<1>2. PICK a, b, w, v, s, slot, sent, next :
          /\ a = arrived /\ b = arrived' /\ w = previewWire /\ v = previewWire'
          /\ s = snapshot /\ slot = NewSlot /\ sent = LostOfSent /\ next = LostOfTaken
  OBVIOUS
<1>3. /\ sent \in Int /\ next \in Int /\ sent <= sent /\ next <= next /\ NewSlot' = slot
      /\ w # <<>> /\ v = Tail(w) /\ (a = <<>> \/ IsHello(Head(w))) /\ b \in {a, <<>>}
  BY <1>2, PreviewNumbers DEF PreviewInv, NewSlot
<1>4. ChainInOrder(a, w, s, slot, sent, next) BY <1>2 DEF PreviewInv, PicturesInOrder
<1>5. ChainInOrder(a, v, s, slot, sent, next) BY <1>3, <1>4, HeadGone
<1>6. ChainInOrder(b, v, s, slot, sent, next) BY <1>3, <1>5, HostForgets
<1>7. PicturesInOrder' BY <1>1, <1>2, <1>3, <1>6 DEF PicturesInOrder
<1>8. KnownBy(b, v, s, numbering)
  <2>1. KnownBy(a, w, s, numbering) BY <1>2 DEF PreviewInv
  <2>2. IsSeq(w) BY <1>4 DEF ChainInOrder, Parts
  <2>3. KnownBy(a, v, s, numbering) BY <1>3, <2>1, <2>2, RestIsKnown
  <2>4. CASE b = <<>>
    <3>1. DOMAIN b = {} BY <2>4, NothingIsSeq, SeqIndices
    <3> QED BY <2>3, <3>1 DEF KnownBy
  <2> QED BY <1>3, <2>3, <2>4
<1>9. KnownBy(arrived, previewWire, snapshot, numbering)' BY <1>2, <1>8
<1> QED BY <1>1, <1>7, <1>9 DEF PreviewInv

\* The host reads a picture.
LEMMA HostReadsPicture ==
    ASSUME PreviewInv, PreviewTypes', ShownIsArrived', previewWire # <<>>,
           previewWire' = Tail(previewWire), ~IsHello(Head(previewWire)),
           arrived' = <<Head(previewWire)>>,
           UNCHANGED <<slotId, numbering, snapshot, devSession, hostHello,
                       previewSessions, previewLosses>>
    PROVE  PreviewInv'
<1>1. /\ Busy' <= previewSessions' /\ LostOfSent' = LostOfSent /\ LostOfTaken' = LostOfTaken
  BY SameBounds
<1>2. PICK a, b, z, w, v, s, slot, sent, next :
          /\ a = arrived /\ b = arrived' /\ z = <<>> /\ w = previewWire /\ v = previewWire'
          /\ s = snapshot /\ slot = NewSlot /\ sent = LostOfSent /\ next = LostOfTaken
  OBVIOUS
<1>3. /\ sent \in Int /\ next \in Int /\ NewSlot' = slot
      /\ w # <<>> /\ v = Tail(w) /\ ~IsHello(Head(w)) /\ b = <<Head(w)>>
  BY <1>2, PreviewNumbers DEF PreviewInv, NewSlot
<1>4. ChainInOrder(a, w, s, slot, sent, next) BY <1>2 DEF PreviewInv, PicturesInOrder
<1>5. ChainInOrder(z, w, s, slot, sent, next) BY <1>2, <1>3, <1>4, HostForgets
<1>6. ChainInOrder(b, v, s, slot, sent, next) BY <1>2, <1>3, <1>5, OrderRead
<1>7. PicturesInOrder' BY <1>1, <1>2, <1>3, <1>6 DEF PicturesInOrder
<1>8. KnownBy(b, v, s, numbering)
  <2>1. KnownBy(a, w, s, numbering) BY <1>2 DEF PreviewInv
  <2>2. IsSeq(w) BY <1>4 DEF ChainInOrder, Parts
  <2>3. KnownBy(a, v, s, numbering) /\ Head(w).numbering <= numbering
    BY <1>3, <2>1, <2>2, RestIsKnown
  <2>4. PICK m : m = Head(w) OBVIOUS
  <2>5. DOMAIN b = 1..1 /\ b[1] = m BY <1>3, <2>4, SingleSeq, SeqIndices
  <2>6. \A i \in DOMAIN b : b[i].numbering <= numbering BY <2>3, <2>4, <2>5
  <2> QED BY <2>3, <2>6 DEF KnownBy
<1>9. KnownBy(arrived, previewWire, snapshot, numbering)' BY <1>2, <1>8
<1> QED BY <1>1, <1>7, <1>9 DEF PreviewInv

\* The picture that is read is shown, unless two numberings are mixed.
LEMMA ReadIsShown ==
    ASSUME PreviewInv, previewWire # <<>>, ~IsHello(Head(previewWire)),
           SetFrame(Head(previewWire)), hostSession # "down", ~mixed'
    PROVE  hasPixels' /\ receivedAny' /\ shownId' = Head(previewWire).id
<1>1. PICK m : m = Head(previewWire) OBVIOUS
<1>2. /\ AcceptFrameId(m.id) => receivedAny' = TRUE /\ shownId' = m.id /\ hasPixels' = TRUE
      /\ mixed' = (mixed \/ (arrived # <<>> /\ arrived[1].numbering # m.numbering))
  BY <1>1 DEF SetFrame
<1>3. AcceptFrameId(m.id)
  <2>1. CASE arrived = <<>> BY <2>1 DEF PreviewInv, ShownIsArrived, AcceptFrameId
  <2>2. CASE arrived # <<>>
    <3>1. ~mixed /\ arrived[1].numbering = m.numbering BY <1>2, <2>2, Zenon
    <3>2. shownId = arrived[1].id BY <2>2, <3>1 DEF PreviewInv, ShownIsArrived
    <3>3. PICK a, w, s, slot, sent, next :
              /\ a = arrived /\ w = previewWire /\ s = snapshot /\ slot = NewSlot
              /\ sent = LostOfSent /\ next = LostOfTaken
      OBVIOUS
    <3>4. ChainInOrder(a, w, s, slot, sent, next) BY <3>3 DEF PreviewInv, PicturesInOrder
    <3>5. PICK x : a = <<x>> /\ x = a[1]
      <4>1. IsSeq(a) /\ Len(a) <= 1 BY <3>4 DEF ChainInOrder, Parts, HasPictures
      <4>2. Len(a) # 0 /\ Len(a) \in Nat BY <2>2, <3>3, <4>1, NonEmpty, SeqIndices
      <4>3. PICK k \in Nat : k = Len(a) BY <4>2
      <4>4. k # 0 /\ k <= 1 BY <4>1, <4>2, <4>3
      <4>5. k = 1 BY <4>4
      <4>6. IsSeq(<<a[1]>>) /\ Len(<<a[1]>>) = 1 /\ <<a[1]>>[1] = a[1] BY SingleSeq
      <4>7. Len(a) = 1 BY <4>3, <4>5
      <4>8. a = <<a[1]>> BY <4>1, <4>6, <4>7, SameSeq
      <4> QED BY <4>8
    <3>6. sent \in Int /\ next \in Int BY <3>3, PreviewNumbers DEF PreviewInv
    <3>7. w # <<>> /\ m = Head(w) /\ ~IsHello(m) /\ x.numbering = m.numbering
      BY <1>1, <3>1, <3>3, <3>5
    <3>8. /\ x.id \in 0..(PreviewIds - 1) /\ m.id \in 0..(PreviewIds - 1)
          /\ \E k \in 0..sent : Wraps(m.id - x.id - 1 - k)
      BY <3>4, <3>5, <3>6, <3>7, ReadNext
    <3>9. PICK k \in 0..sent : Wraps(m.id - x.id - 1 - k) BY <3>8
    <3>10. k \in Nat /\ k + 1 < PreviewIds \div 2
      <4>1. PICK l, y, o, h : /\ l = previewLosses /\ y = MaxPreviewSessions
                              /\ o = MaxPreviewLosses /\ h = PreviewIds \div 2
        OBVIOUS
      <4>2. l \in 0..o /\ o + y < h /\ y \in Nat /\ o \in Nat /\ h \in Int
        BY <4>1, PreviewConstants DEF PreviewInv, PreviewTypes
      <4>3. sent = l + y - 1 BY <3>3, <4>1, Zenon DEF LostOfSent
      <4> QED BY <3>6, <3>9, <4>1, <4>2, <4>3
    <3>11. PICK f, e : f = m.id /\ e = x.id OBVIOUS
    <3>12. (f - e) % PreviewIds \in 1..(PreviewIds \div 2 - 1)
      BY <3>8, <3>9, <3>10, <3>11, NewerAccepted
    <3>13. shownId = e BY <3>2, <3>3, <3>5, <3>11
    <3> QED BY <3>11, <3>12, <3>13 DEF AcceptFrameId
  <2> QED BY <2>1, <2>2
<1> QED BY <1>1, <1>2, <1>3

LEMMA HostReadsKeepsOrder == ASSUME PreviewInv, HostReads PROVE PreviewInv'
<1>1. /\ previewWire # <<>> /\ previewWire' = Tail(previewWire)
      /\ UNCHANGED <<slotId, numbering, snapshot, devSession, hostHello,
                     previewSessions, previewLosses>>
      /\ IsHello(Head(previewWire)) => HostConnected
      /\ ~IsHello(Head(previewWire)) => SetFrame(Head(previewWire))
  BY DEF HostReads, slotVars, deviceVars, previewBounds
<1>2. PreviewTypes' BY <1>1 DEF PreviewInv, PreviewTypes
<1>3. CASE IsHello(Head(previewWire)) /\ hostSession = "up"
  <2>1. UNCHANGED <<hostSession, receivedAny, arrived, mixed, shownId, hasPixels>>
    BY <1>1, <1>3 DEF HostConnected
  <2>2. ShownIsArrived' BY <2>1 DEF PreviewInv, ShownIsArrived
  <2> QED BY <1>1, <1>2, <1>3, <2>1, <2>2, HostReadsOver
<1>4. CASE IsHello(Head(previewWire)) /\ hostSession # "up"
  <2>1. hostSession' = "up" /\ receivedAny' = FALSE /\ arrived' = <<>>
    BY <1>1, <1>4 DEF HostConnected
  <2>2. ShownIsArrived' BY <2>1 DEF ShownIsArrived
  <2> QED BY <1>1, <1>2, <1>4, <2>1, <2>2, HostReadsOver
<1>5. CASE ~IsHello(Head(previewWire)) /\ hostSession = "down"
  <2>1. UNCHANGED <<hostSession, receivedAny, arrived, mixed, shownId, hasPixels>>
    BY <1>1, <1>5 DEF SetFrame, shownVars
  <2>2. ShownIsArrived' BY <2>1 DEF PreviewInv, ShownIsArrived
  <2>3. arrived = <<>> BY <1>5 DEF PreviewInv, ShownIsArrived
  <2> QED BY <1>1, <1>2, <2>1, <2>2, <2>3, HostReadsOver
<1>6. CASE ~IsHello(Head(previewWire)) /\ hostSession # "down"
  <2>1. PICK m : m = Head(previewWire) OBVIOUS
  <2>2. hostSession' = hostSession /\ arrived' = <<m>> BY <1>1, <1>6, <2>1 DEF SetFrame
  <2>3. ~mixed' => hasPixels' /\ receivedAny' /\ shownId' = m.id
    BY <1>1, <1>6, <2>1, ReadIsShown
  <2>4. arrived' # <<>> /\ arrived'[1] = m
    <3>1. Len(arrived') = 1 /\ arrived'[1] = m BY <2>2, SingleSeq
    <3> QED BY <3>1, NothingIsSeq
  <2>5. ShownIsArrived' BY <1>6, <2>2, <2>3, <2>4 DEF ShownIsArrived
  <2> QED BY <1>1, <1>2, <1>6, <2>1, <2>2, <2>5, HostReadsPicture
<1> QED BY <1>3, <1>4, <1>5, <1>6

LEMMA PreviewKeeps == ASSUME PreviewInv, [PreviewNext]_previewVars PROVE PreviewInv'
<1>1. CASE Stores BY <1>1, StoresKeepsOrder
<1>2. CASE TakesSnapshot BY <1>2, TakesSnapshotKeepsOrder
<1>3. CASE SendsSnapshot BY <1>3, SendsSnapshotKeepsOrder
<1>4. CASE DeviceEnds BY <1>4, DeviceEndsKeepsOrder
<1>5. CASE DeviceConnects BY <1>5, DeviceConnectsKeepsOrder
<1>6. CASE ResetsSlot BY <1>6, ResetsSlotKeepsOrder
<1>7. CASE HostEnds BY <1>7, HostEndsKeepsOrder
<1>8. CASE HostReopens BY <1>8, HostReopensKeepsOrder
<1>9. CASE HostReads BY <1>9, HostReadsKeepsOrder
<1>10. CASE PreviewDropped BY <1>10, DroppedKeepsOrder
<1>11. CASE UNCHANGED previewVars
  <2>1. /\ UNCHANGED <<slotId, numbering, arrived, previewWire, snapshot, devSession, hostHello,
                       hostSession, receivedAny, shownId, hasPixels, mixed, previewSessions,
                       previewLosses>>
    BY <1>11 DEF previewVars, slotVars, deviceVars, shownVars, previewBounds
  <2>2. PreviewTypes' /\ ShownIsArrived' BY <2>1 DEF PreviewInv, PreviewTypes, ShownIsArrived
  <2>3. /\ Busy' <= previewSessions' /\ LostOfSent' = LostOfSent
        /\ LostOfTaken' = LostOfTaken
    BY <2>1, SameBounds
  <2>4. PicturesInOrder' BY <2>1, <2>3 DEF PreviewInv, PicturesInOrder, NewSlot
  <2>5. KnownBy(arrived, previewWire, snapshot, numbering)' BY <2>1 DEF PreviewInv
  <2> QED BY <2>2, <2>3, <2>4, <2>5 DEF PreviewInv
<1> QED BY <1>1, <1>2, <1>3, <1>4, <1>5, <1>6, <1>7, <1>8, <1>9, <1>10, <1>11 DEF PreviewNext

\* In a session whose pictures were numbered in one go the host shows the last one that arrived,
\* however many numbers there are, as long as fewer pictures than half of them are lost in a row
\* (sendPhysicalPreviewMessage, PhysicalPreviewState::acceptFrameId).
THEOREM NewestShown == PreviewSpec => []NewestIsShown
<1>1. PreviewInit => PreviewInv BY PreviewStarts
<1>2. PreviewInv /\ [PreviewNext]_previewVars => PreviewInv' BY PreviewKeeps
<1>3. PreviewInv => NewestIsShown BY DEF PreviewInv, ShownIsArrived, NewestIsShown
<1> QED BY <1>1, <1>2, <1>3, PTL DEF PreviewSpec
===============================================================================

----------------------------- MODULE CmbProofs ------------------------------
(***************************************************************************)
(* The flush of a commit reaches every entry of the transaction, for a     *)
(* queue of any size, if ccNVMe has one stream and a transaction has fewer *)
(* entries than the queue has slots.  Without either condition it fails.   *)
(***************************************************************************)
EXTENDS Cmb, RingProofs

\* The inductive invariant: what has not been flushed are entries between
\* last_queue_flushed and tail, and the distance of the two, which
\* stream_tx_commit_core computes modulo the size of the queue, is the number
\* of entries since the last commit.
FlushInv ==
  /\ tail \in [Stream -> Slot] /\ lastFlushed \in [Stream -> Slot]
  /\ written \in [Stream -> 0 .. MaxWrites]
  /\ \A s \in Stream :
       /\ written[s] = RingCount(lastFlushed[s], tail[s], NrOmeta)
       /\ unflushed \subseteq RingSlots(lastFlushed[s], tail[s], NrOmeta)

\* One more entry: the slot at tail joins the range.
LEMMA RingExtend ==
  ASSUME NEW N \in Nat, N >= 2, NEW f \in 0 .. N-1, NEW t \in 0 .. N-1,
         RingCount(f, t, N) < N - 1
  PROVE  /\ RingNext(t, N) \in 0 .. N-1
         /\ RingCount(f, RingNext(t, N), N) = RingCount(f, t, N) + 1
         /\ RingSlots(f, t, N) \cup {t} \subseteq RingSlots(f, RingNext(t, N), N)
<1> DEFINE u == RingNext(t, N)
<1>1. N \in Nat \ {0}
  OBVIOUS
<1>2. u = (IF t = N - 1 THEN 0 ELSE t + 1) /\ u \in 0 .. N-1
  BY <1>1, RingNextCases
<1>3. /\ RingCount(f, t, N) = IF f <= t THEN t - f ELSE N + t - f
      /\ RingCount(f, t, N) \in 0 .. N-1
  BY <1>1, RingCountCases
<1>4. RingCount(f, u, N) = IF f <= u THEN u - f ELSE N + u - f
  BY Zenon, <1>1, <1>2, RingCountCases
<1> HIDE DEF u
<1>5. RingCount(f, u, N) = RingCount(f, t, N) + 1
  BY <1>2, <1>3, <1>4
<1>6. \A x \in 0 .. N-1 :
        x \in RingSlots(f, u, N) <=> RingCount(f, x, N) < RingCount(f, u, N)
  BY <1>1, <1>2, RingSlotsMember
<1>7. /\ RingSlots(f, t, N) \subseteq 0 .. N-1
      /\ \A x \in 0 .. N-1 :
           x \in RingSlots(f, t, N) <=> RingCount(f, x, N) < RingCount(f, t, N)
  BY <1>1, RingSlotsMember
<1>8. \A x \in 0 .. N-1 : RingCount(f, x, N) \in 0 .. N-1
  BY Zenon, <1>1, RingCountCases
<1>9. RingSlots(f, t, N) \cup {t} \subseteq RingSlots(f, u, N)
  BY <1>3, <1>5, <1>6, <1>7, <1>8
<1> QED BY <1>2, <1>5, <1>9 DEF u

\* cmb_flush covers the range it is given, wrapped or not, if the memory of
\* the device is the queue of one stream.
LEMMA FlushCovers ==
  ASSUME NrStreams = 1, NEW f \in Slot, NEW t \in Slot
  PROVE  RingSlots(f, t, NrOmeta)
           \subseteq CmbFlush(0, f, RingCount(f, t, NrOmeta))
<1> DEFINE n == RingCount(f, t, NrOmeta)
<1>1. NrOmeta \in Nat \ {0} /\ f \in 0 .. NrOmeta - 1 /\ t \in 0 .. NrOmeta - 1
  BY CmbAssumption DEF Slot
<1>2. n \in 0 .. NrOmeta - 1 /\ n = IF f <= t THEN t - f ELSE NrOmeta + t - f
  BY <1>1, RingCountCases
<1>3. /\ RingSlots(f, t, NrOmeta) \subseteq 0 .. NrOmeta - 1
      /\ \A x \in 0 .. NrOmeta - 1 :
           x \in RingSlots(f, t, NrOmeta) <=> RingCount(f, x, NrOmeta) < n
  BY <1>1, RingSlotsMember
<1> HIDE DEF n
<1>4. DevSize = NrOmeta /\ OffInCmb(0) = 0
  BY CmbAssumption DEF DevSize, OffInCmb
<1>5. ASSUME NEW x \in RingSlots(f, t, NrOmeta) PROVE x \in CmbFlush(0, f, n)
  <2>1. x \in 0 .. NrOmeta - 1 /\ RingCount(f, x, NrOmeta) < n
    BY <1>3
  <2>2. RingCount(f, x, NrOmeta) = IF f <= x THEN x - f ELSE NrOmeta + x - f
    BY <1>1, <2>1, RingCountCases
  <2> QED BY <1>1, <1>2, <1>4, <2>1, <2>2 DEF CmbFlush, Cells
<1> QED BY <1>5 DEF n

\* A submission keeps the invariant: the range grows with tail.
LEMMA SubmitKeeps ==
  ASSUME NrStreams = 1, MaxWrites < NrOmeta, FlushInv,
         NEW s \in Stream, Submit(s)
  PROVE  FlushInv'
<1>1. Stream = {0} /\ s = 0 /\ OffInCmb(0) = 0
  BY CmbAssumption DEF Stream, OffInCmb
<1>2. /\ tail[0] \in 0 .. NrOmeta - 1 /\ lastFlushed[0] \in 0 .. NrOmeta - 1
      /\ RingCount(lastFlushed[0], tail[0], NrOmeta) < NrOmeta - 1
      /\ written[0] + 1 \in 0 .. MaxWrites
  BY <1>1, CmbAssumption DEF FlushInv, Submit, Slot
<1>3. NrOmeta \in Nat /\ NrOmeta >= 2
  BY CmbAssumption
<1> DEFINE u == RingNext(tail[0], NrOmeta)
<1>4. /\ u \in 0 .. NrOmeta - 1
      /\ RingCount(lastFlushed[0], u, NrOmeta)
           = RingCount(lastFlushed[0], tail[0], NrOmeta) + 1
      /\ RingSlots(lastFlushed[0], tail[0], NrOmeta) \cup {tail[0]}
           \subseteq RingSlots(lastFlushed[0], u, NrOmeta)
  BY <1>2, <1>3, RingExtend
<1>5. /\ tail' = [tail EXCEPT ![0] = u] /\ lastFlushed' = lastFlushed
      /\ written' = [written EXCEPT ![0] = written[0] + 1]
      /\ unflushed' = unflushed \cup {tail[0]}
  BY <1>1, CmbAssumption DEF Submit, FlushInv, Slot, OffInCmb
<1> HIDE DEF u
<1>6. tail'[0] = u /\ lastFlushed'[0] = lastFlushed[0]
      /\ written'[0] = written[0] + 1
  BY <1>1, <1>5 DEF FlushInv
<1>7. /\ tail' \in [Stream -> Slot] /\ lastFlushed' \in [Stream -> Slot]
      /\ written' \in [Stream -> 0 .. MaxWrites]
  BY <1>1, <1>2, <1>4, <1>5 DEF FlushInv, Slot
<1>8. written'[0] = RingCount(lastFlushed'[0], tail'[0], NrOmeta)
  BY <1>1, <1>4, <1>6 DEF FlushInv
<1>9. unflushed' \subseteq RingSlots(lastFlushed'[0], tail'[0], NrOmeta)
  BY <1>1, <1>4, <1>5, <1>6 DEF FlushInv
<1> QED BY <1>1, <1>7, <1>8, <1>9 DEF FlushInv, RingSlots, RingCount, RingAt

\* A commit leaves nothing unflushed.
LEMMA CommitKeeps ==
  ASSUME NrStreams = 1, FlushInv, NEW s \in Stream, CommitTx(s)
  PROVE  FlushInv'
<1>1. Stream = {0} /\ s = 0
  BY CmbAssumption DEF Stream
<1>2. tail[0] \in Slot /\ lastFlushed[0] \in Slot
  BY <1>1 DEF FlushInv
<1>3. unflushed \subseteq CmbFlush(0, lastFlushed[0], NrQEntries(0))
  BY <1>1, <1>2, FlushCovers DEF FlushInv, NrQEntries
<1>4. unflushed' = {}
  BY <1>1, <1>3 DEF CommitTx
<1>5. /\ tail' = tail /\ lastFlushed'[0] = tail[0] /\ written'[0] = 0
      /\ lastFlushed' \in [Stream -> Slot]
      /\ written' \in [Stream -> 0 .. MaxWrites]
  BY <1>1, <1>2, CmbAssumption DEF CommitTx, FlushInv
<1>6. RingCount(tail[0], tail[0], NrOmeta) = 0
  <2>1. NrOmeta \in Nat \ {0} /\ tail[0] \in 0 .. NrOmeta - 1
    BY <1>2, CmbAssumption DEF Slot
  <2>2. RingCount(tail[0], tail[0], NrOmeta) = IF tail[0] <= tail[0]
          THEN tail[0] - tail[0] ELSE NrOmeta + tail[0] - tail[0]
    BY Zenon, <2>1, RingCountCases
  <2> QED BY <2>1, <2>2
<1>7. written'[0] = RingCount(lastFlushed'[0], tail'[0], NrOmeta)
  BY <1>5, <1>6
<1> QED BY <1>1, <1>4, <1>5, <1>7 DEF FlushInv

\* With one stream, and transactions shorter than its queue, the two flushes
\* of cmb_flush reach every entry that was copied since the last commit,
\* wherever the transaction lies in the ring.
THEOREM OneStreamFlushed ==
  ASSUME NrStreams = 1, MaxWrites < NrOmeta
  PROVE  Spec => []CommittedFlushed
<1>1. Init => FlushInv
  <2> SUFFICES ASSUME Init PROVE FlushInv
    OBVIOUS
  <2>1. RingCount(0, 0, NrOmeta) = 0
    BY CmbAssumption, RingCountCases
  <2> QED BY <2>1, CmbAssumption DEF Init, FlushInv, Slot
<1>2. FlushInv /\ [Next]_vars => FlushInv'
  <2> SUFFICES ASSUME FlushInv, [Next]_vars PROVE FlushInv'
    OBVIOUS
  <2>1. CASE UNCHANGED vars
    BY <2>1 DEF vars, FlushInv, RingSlots, RingCount, RingAt
  <2>2. CASE Next
    BY <2>2, SubmitKeeps, CommitKeeps DEF Next
  <2> QED BY <2>1, <2>2
<1>3. FlushInv => CommittedFlushed
  <2> SUFFICES ASSUME FlushInv, NEW s \in Stream, written[s] = 0
               PROVE  unflushed = {}
    BY DEF CommittedFlushed
  <2>1. tail[s] \in 0 .. NrOmeta - 1 /\ lastFlushed[s] \in 0 .. NrOmeta - 1
    BY DEF FlushInv, Slot
  <2>2. RingCount(lastFlushed[s], tail[s], NrOmeta) = 0
    BY DEF FlushInv
  <2>3. RingSlots(lastFlushed[s], tail[s], NrOmeta) = {}
    BY <2>2 DEF RingSlots
  <2> QED BY <2>3 DEF FlushInv
<1> QED BY <1>1, <1>2, <1>3, PTL DEF Spec
=============================================================================

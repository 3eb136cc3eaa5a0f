--------------------------- MODULE PSQRefinement ----------------------------
(***************************************************************************)
(* Under the stream lock the pointers of a P-SQ implement the ordered log, *)
(* for every number of threads, queue slots and journal blocks.            *)
(***************************************************************************)
EXTENDS PSQProofs, SequenceTheorems

\* The slots from h up to t, in order.
QueueOf(h, t) == [k \in 1 .. Count(h, t) |-> RingAt(h, k - 1, NrOmeta)]

\* k slots after h is at distance k from h.
LEMMA AtFacts ==
  ASSUME NEW h \in Slot, NEW k \in 0 .. NrOmeta - 1
  PROVE  /\ RingAt(h, k, NrOmeta) = IF h + k < NrOmeta THEN h + k
                                    ELSE h + k - NrOmeta
         /\ RingAt(h, k, NrOmeta) \in Slot
BY PSQAssumption, RingAtCases DEF Slot

\* The queue is a sequence of as many slots as horae_count says.
LEMMA QueueSeq ==
  ASSUME NEW h \in Slot, NEW t \in Slot
  PROVE  /\ QueueOf(h, t) \in Seq(Slot)
         /\ Len(QueueOf(h, t)) = Count(h, t)
         /\ \A k \in 1 .. Count(h, t) :
              QueueOf(h, t)[k] = RingAt(h, k - 1, NrOmeta)
<1>1. Count(h, t) \in 0 .. NrOmeta - 1 /\ Count(h, t) \in Nat
  BY CountFacts, PSQAssumption
<1>2. \A k \in 1 .. Count(h, t) : RingAt(h, k - 1, NrOmeta) \in Slot
  BY <1>1, AtFacts, PSQAssumption
<1>3. QueueOf(h, t) \in [1 .. Count(h, t) -> Slot]
  BY <1>2 DEF QueueOf
<1>4. QueueOf(h, t) \in Seq(Slot)
  BY <1>1, <1>3, SeqDef
<1>5. /\ Len(QueueOf(h, t)) \in Nat
      /\ DOMAIN QueueOf(h, t) = 1 .. Len(QueueOf(h, t))
  BY <1>4, LenProperties
<1>6. 1 .. Len(QueueOf(h, t)) = 1 .. Count(h, t)
  BY <1>3, <1>5
<1>7. Len(QueueOf(h, t)) = Count(h, t)
  BY <1>1, <1>5, <1>6
<1>8. \A k \in 1 .. Count(h, t) : QueueOf(h, t)[k] = RingAt(h, k - 1, NrOmeta)
  BY DEF QueueOf
<1> QED BY <1>4, <1>7, <1>8

\* tail is the next slot of the queue, and not in it.
LEMMA QueueAppend ==
  ASSUME NEW h \in Slot, NEW t \in Slot, Count(h, t) < NrOmeta - 1
  PROVE  /\ QueueOf(h, Succ(t)) = Append(QueueOf(h, t), t)
         /\ \A k \in 1 .. Len(QueueOf(h, t)) : QueueOf(h, t)[k] # t
<1> DEFINE n == Count(h, t)
<1>1. n \in 0 .. NrOmeta - 2 /\ n = IF h <= t THEN t - h ELSE NrOmeta + t - h
  BY CountFacts, PSQAssumption
<1>2. Count(h, Succ(t)) = n + 1 /\ Succ(t) \in Slot
  BY CountSucc, SlotFacts
<1>3. RingAt(h, n, NrOmeta) = t
  <2>1. RingAt(h, n, NrOmeta) = IF h + n < NrOmeta THEN h + n ELSE h + n - NrOmeta
    BY <1>1, AtFacts, PSQAssumption
  <2> HIDE DEF n
  <2> QED BY <1>1, <2>1, PSQAssumption DEF Slot
<1>4. /\ QueueOf(h, t) \in Seq(Slot) /\ Len(QueueOf(h, t)) = n
      /\ \A k \in 1 .. n : QueueOf(h, t)[k] = RingAt(h, k - 1, NrOmeta)
  BY QueueSeq
<1>5. /\ QueueOf(h, Succ(t)) \in Seq(Slot) /\ Len(QueueOf(h, Succ(t))) = n + 1
      /\ \A k \in 1 .. n + 1 :
           QueueOf(h, Succ(t))[k] = RingAt(h, k - 1, NrOmeta)
  BY <1>2, QueueSeq
<1>6. ASSUME NEW k \in 1 .. n PROVE QueueOf(h, t)[k] # t
  <2>1. k - 1 \in 0 .. NrOmeta - 1 /\ k - 1 < n
    BY <1>1, PSQAssumption
  <2>2. RingAt(h, k - 1, NrOmeta) = IF h + (k - 1) < NrOmeta THEN h + (k - 1)
                                    ELSE h + (k - 1) - NrOmeta
    BY <2>1, AtFacts
  <2>3. QueueOf(h, t)[k] = RingAt(h, k - 1, NrOmeta)
    BY <1>4
  <2> HIDE DEF n
  <2> QED BY <1>1, <2>1, <2>2, <2>3, PSQAssumption DEF Slot
<1> HIDE DEF n
<1>7. /\ Append(QueueOf(h, t), t) \in Seq(Slot)
      /\ Len(Append(QueueOf(h, t), t)) = n + 1
      /\ \A k \in 1 .. n + 1 :
           Append(QueueOf(h, t), t)[k] = IF k <= n THEN QueueOf(h, t)[k] ELSE t
  BY <1>1, <1>4
<1>8. \A k \in 1 .. n + 1 : QueueOf(h, Succ(t))[k] = Append(QueueOf(h, t), t)[k]
  <2> TAKE k \in 1 .. n + 1
  <2>1. CASE k <= n
    BY <1>1, <1>4, <1>5, <1>7, <2>1
  <2>2. CASE k = n + 1
    BY <1>1, <1>3, <1>5, <1>7, <2>2
  <2>3. k <= n \/ k = n + 1
    BY <1>1, PSQAssumption
  <2> QED BY Zenon, <2>1, <2>2, <2>3
<1>9. QueueOf(h, Succ(t)) = Append(QueueOf(h, t), t)
  BY <1>5, <1>7, <1>8, SeqEqual
<1> QED BY <1>4, <1>6, <1>9

\* Moving head to m removes the slots before m from the front.
LEMMA QueueDrop ==
  ASSUME NEW h \in Slot, NEW m \in Slot, NEW t \in Slot,
         Count(h, m) <= Count(h, t)
  PROVE  QueueOf(m, t) =
           SubSeq(QueueOf(h, t), Count(h, m) + 1, Len(QueueOf(h, t)))
<1> DEFINE c == Count(h, m)
           n == Count(h, t)
           q == QueueOf(h, t)
<1>1. /\ c \in 0 .. NrOmeta - 1 /\ c = IF h <= m THEN m - h ELSE NrOmeta + m - h
      /\ n \in 0 .. NrOmeta - 1 /\ c <= n
  BY CountFacts
<1>2. Count(m, t) = n - c
  BY CountShift
<1>3. /\ q \in Seq(Slot) /\ Len(q) = n
      /\ \A k \in 1 .. n : q[k] = RingAt(h, k - 1, NrOmeta)
  BY QueueSeq
<1>4. /\ QueueOf(m, t) \in Seq(Slot) /\ Len(QueueOf(m, t)) = n - c
      /\ \A k \in 1 .. n - c : QueueOf(m, t)[k] = RingAt(m, k - 1, NrOmeta)
  BY <1>2, QueueSeq
<1> HIDE DEF c, n, q
<1>5. \A i \in c + 1 .. n : q[i] \in Slot
  BY <1>1, <1>3, ElementOfSeq
<1>6. /\ SubSeq(q, c + 1, n) \in Seq(Slot)
      /\ Len(SubSeq(q, c + 1, n)) = IF c + 1 <= n THEN n - (c + 1) + 1 ELSE 0
      /\ \A k \in 1 .. n - (c + 1) + 1 : SubSeq(q, c + 1, n)[k] = q[(c + 1) + k - 1]
  <2>1. c + 1 \in Int /\ n \in Int
    BY <1>1, PSQAssumption
  <2> QED BY <1>5, <2>1, SubSeqProperties
<1>7. Len(SubSeq(q, c + 1, n)) = n - c
  BY <1>1, <1>6, PSQAssumption
<1>8. ASSUME NEW k \in 1 .. n - c
      PROVE  QueueOf(m, t)[k] = SubSeq(q, c + 1, n)[k]
  <2>1. /\ k - 1 \in 0 .. NrOmeta - 1 /\ c + k - 1 \in 0 .. NrOmeta - 1
        /\ c + k \in 1 .. n /\ (c + 1) + k - 1 = c + k
        /\ k \in 1 .. n - (c + 1) + 1 /\ (c + k) - 1 = c + k - 1
    BY <1>1, PSQAssumption
  <2>2. SubSeq(q, c + 1, n)[k] = RingAt(h, c + k - 1, NrOmeta)
    BY <1>3, <1>6, <2>1
  <2>3. RingAt(h, c + k - 1, NrOmeta) = IF h + (c + k - 1) < NrOmeta
                                        THEN h + (c + k - 1)
                                        ELSE h + (c + k - 1) - NrOmeta
    BY <2>1, AtFacts
  <2>4. RingAt(m, k - 1, NrOmeta) = IF m + (k - 1) < NrOmeta THEN m + (k - 1)
                                    ELSE m + (k - 1) - NrOmeta
    BY <2>1, AtFacts
  <2>5. RingAt(m, k - 1, NrOmeta) = RingAt(h, c + k - 1, NrOmeta)
    BY <1>1, <2>1, <2>3, <2>4, PSQAssumption DEF Slot
  <2> QED BY Zenon, <1>4, <2>2, <2>5
<1>9. QueueOf(m, t) = SubSeq(q, c + 1, n)
  BY <1>4, <1>6, <1>7, <1>8, SeqEqual
<1> QED BY <1>3, <1>9 DEF c, n, q
-----------------------------------------------------------------------------
(* The steps of the pointers as steps of the log.                          *)

\* A checkpoint drops everything only when there is no room: the space it has
\* checked cannot change before head moves.
FullAtSwap ==
  \A t \in Threads : pc[t] = "cp_swap" => Count(head, tail) = NrOmeta - 1

\* In every step of a locked stream a checkpoint that is about to drop the
\* queue has found it full.
LEMMA FullAtSwapStep ==
  ASSUME TypeOK, Locked, ExclusiveInv, FullAtSwap, [Next]_vars
  PROVE  FullAtSwap'
<1>1. CASE UNCHANGED vars
  BY <1>1 DEF vars, ptrs, FullAtSwap, Count, RingCount
<1>2. ASSUME NEW t \in Threads, Call(t) \/ (Step(t) /\ ~CpCheck(t))
      PROVE  FullAtSwap'
  <2>1. pc'[t] # "cp_swap"
    BY Zenon, <1>2 DEF TypeOK, Call, GetStream, PutStream, SubmitBio, SubmitBioIpu,
       SubmitBioIpuTooLarge, AllocJournalBlock, CommitRead, FlushBegin, Step,
       Submit, Checkpoint, Journal, Finish, ReadWatermark, HasSpace, NoSpace,
       Reserve, ReserveLost, Fill, Publish, CpLock, CpTruncate, CpReplay, CpSwap,
       JournalAlloc, JournalFull, JournalWrap, Allocated, CommitMark, FlushRead,
       FlushEnd, Goto
  <2>2. \A u \in Threads : u # t => pc'[u] = pc[u]
    BY Zenon, <1>2 DEF TypeOK, Call, GetStream, PutStream, SubmitBio, SubmitBioIpu,
       SubmitBioIpuTooLarge, AllocJournalBlock, CommitRead, FlushBegin, Step,
       Submit, Checkpoint, Journal, Finish, ReadWatermark, HasSpace, NoSpace,
       Reserve, ReserveLost, Fill, Publish, CpLock, CpTruncate, CpReplay, CpSwap,
       JournalAlloc, JournalFull, JournalWrap, Allocated, CommitMark, FlushRead,
       FlushEnd, Goto
  <2>3. holder = t \/ holder = NoThread
    BY Zenon, <1>2 DEF ExclusiveInv, Exclusive, Call, GetStream, PutStream, SubmitBio,
       SubmitBioIpu, SubmitBioIpuTooLarge, AllocJournalBlock, CommitRead,
       FlushBegin, MayCall, Step, Submit, Checkpoint, Journal, Finish,
       ReadWatermark, HasSpace, NoSpace, Reserve, ReserveLost, Fill, Publish,
       CpLock, CpTruncate, CpReplay, CpSwap, JournalAlloc, JournalFull,
       JournalWrap, Allocated, CommitMark, FlushRead, FlushEnd, Goto
  <2>4. \A u \in Threads : u # t => pc[u] = "idle"
    BY <2>3, PSQAssumption DEF ExclusiveInv, Exclusive
  <2> QED BY <2>1, <2>2, <2>4 DEF FullAtSwap
<1>3. ASSUME NEW t \in Threads, CpCheck(t) PROVE FullAtSwap'
  <2>1. head' = head /\ tail' = tail /\ head \in Slot /\ tail \in Slot
    BY <1>3 DEF CpCheck, ptrs, TypeOK
  <2>2. \A u \in Threads : u # t => pc'[u] = pc[u]
    BY <1>3 DEF CpCheck, Goto, TypeOK
  <2>3. pc'[t] = "cp_swap" => Space(head, tail) < 1
    BY <1>3 DEF CpCheck, Goto, TypeOK
  <2>4. Space(head, tail) < 1 => Count(head, tail) = NrOmeta - 1
    BY <2>1, CountFacts, PSQAssumption
  <2>5. Count(head, tail)' = Count(head, tail)
    BY <2>1 DEF Count, RingCount
  <2> QED BY <2>2, <2>3, <2>4, <2>5 DEF FullAtSwap
<1> QED BY <1>1, <1>2, <1>3 DEF Next

\* Each step of a locked stream is a step of the log or leaves it alone.
LEMMA LogStep ==
  ASSUME TypeOK, TypeOK', ExclusiveInv, FullAtSwap, [Next]_vars
  PROVE  [Log!LogNext]_(Log!logVars)
<1> DEFINE f == Count(head, flushed)
<1>1. /\ head \in Slot /\ tail \in Slot /\ flushed \in Slot
      /\ head' \in Slot /\ tail' \in Slot /\ flushed' \in Slot
      /\ old \in [Threads -> Slot]
  BY DEF TypeOK
<1>2. /\ Queue = QueueOf(head, tail) /\ Queue' = QueueOf(head', tail')
      /\ f = Count(head, flushed) /\ f' = Count(head', flushed')
  BY DEF Queue, QueueOf, Count, RingCount, RingAt
<1>3. Len(Queue) = Count(head, tail)
  BY <1>1, <1>2, QueueSeq
<1>4. f <= Len(Queue)
  BY <1>1, <1>3, BetweenSubset DEF ExclusiveInv, FlushedInQueue
<1>5. CASE UNCHANGED <<head, tail, flushed>>
  <2>1. Queue' = Queue /\ f' = f
    BY <1>2, <1>5
  <2> QED BY <2>1 DEF Log!logVars
<1>6. ASSUME NEW t \in Threads, Publish(t) PROVE Log!LogNext
  <2>1. /\ UNCHANGED <<head, flushed>> /\ tail' = Succ(tail)
        /\ Count(head, tail) < NrOmeta - 1
    BY <1>1, <1>6 DEF ExclusiveInv, CallState, Publish, Goto
  <2>2. /\ Queue' = Append(Queue, tail)
        /\ \A k \in 1 .. Len(Queue) : Queue[k] # tail
    BY <1>1, <1>2, <2>1, QueueAppend
  <2>3. f' = f
    BY <1>2, <2>1
  <2>4. Log!Publish(tail)
    BY <1>3, <2>1, <2>2, <2>3 DEF Log!Publish
  <2> QED BY <1>1, <2>4 DEF Log!LogNext
<1>7. ASSUME NEW t \in Threads, FlushEnd(t) PROVE Log!LogNext
  <2>1. flushed' = tail /\ head' = head /\ tail' = tail
    BY <1>1, <1>7 DEF ExclusiveInv, CallState, FlushEnd, Goto
  <2>2. Queue' = Queue /\ f' = Len(Queue)
    BY <1>2, <1>3, <2>1
  <2> QED BY <2>2 DEF Log!LogNext, Log!FlushAll
<1>8. ASSUME NEW t \in Threads, CpReplay(t) \/ JournalWrap(t) PROVE Log!LogNext
  <2>1. head' = flushed /\ flushed' = flushed /\ tail' = tail
    BY <1>8 DEF CpReplay, JournalWrap, SetHead
  <2>2. Queue' = SubSeq(Queue, f + 1, Len(Queue))
    BY <1>1, <1>2, <1>3, <1>4, <2>1, QueueDrop
  <2>3. f' = 0
    BY <1>1, <1>2, <2>1, EmptyRange
  <2> QED BY <2>2, <2>3 DEF Log!LogNext, Log!DropFlushed
<1>9. ASSUME NEW t \in Threads, CpSwap(t) PROVE Log!LogNext
  <2>1. head' = tail /\ flushed' = tail /\ tail' = tail
    BY <1>9 DEF CpSwap, SetHead
  <2>2. Len(Queue) = NrOmeta - 1
    BY <1>3, <1>9 DEF FullAtSwap, CpSwap, Goto
  <2>3. f' = 0 /\ Count(tail, tail) = 0
    BY <1>1, <1>2, <2>1, EmptyRange
  <2>4. Queue' = <<>>
    BY <1>1, <1>2, <2>1, <2>3, QueueSeq, EmptySeq
  <2> QED BY <2>2, <2>3, <2>4 DEF Log!LogNext, Log!DropAll
<1>10. ASSUME NEW t \in Threads, Call(t) PROVE UNCHANGED <<head, tail, flushed>>
  BY <1>10 DEF Call, GetStream, PutStream, SubmitBio, SubmitBioIpu,
     SubmitBioIpuTooLarge, AllocJournalBlock, CommitRead, FlushBegin, ptrs
<1>11. ASSUME NEW t \in Threads, Step(t), ~Publish(t), ~FlushEnd(t),
              ~CpReplay(t), ~JournalWrap(t), ~CpSwap(t)
       PROVE  UNCHANGED <<head, tail, flushed>>
  BY Zenon, <1>11 DEF Step, Submit, Checkpoint, Journal, Finish, ReadWatermark, HasSpace,
     NoSpace, Reserve, ReserveLost, Fill, CpLock, CpTruncate, CpCheck,
     JournalAlloc, JournalFull, CommitMark, FlushRead, ptrs
<1>12. CASE UNCHANGED vars
  BY <1>5, <1>12 DEF vars, ptrs
<1> QED
  BY <1>5, <1>6, <1>7, <1>8, <1>9, <1>10, <1>11, <1>12 DEF Next

\* The P-SQ of a stream whose users hold the stream lock, as MQFS does,
\* implements the ordered log: entries are never reordered, lost or doubled, a
\* flush covers everything submitted before it, and nothing that is not flushed
\* is dropped without a checkpoint of a full queue.
THEOREM LockedImplementsLog ==
  ASSUME Locked PROVE Spec => ImplementsOrderedLog
<1>1. Init => Log!LogInit /\ FullAtSwap
  <2> SUFFICES ASSUME Init PROVE Log!LogInit /\ FullAtSwap
    OBVIOUS
  <2>1. FullAtSwap
    BY DEF Init, FullAtSwap
  <2>2. Count(head, flushed) = 0 /\ Count(head, tail) = 0 /\ 0 \in Slot
    BY SlotFacts, EmptyRange DEF Init
  <2>3. Queue = <<>>
    BY <2>2, QueueSeq, EmptySeq DEF Init, Queue, QueueOf
  <2> QED BY <2>1, <2>2, <2>3 DEF Log!LogInit
<1>2. TypeOK /\ ExclusiveInv /\ FullAtSwap /\ [Next]_vars => FullAtSwap'
  BY FullAtSwapStep
<1>3. TypeOK /\ TypeOK' /\ ExclusiveInv /\ FullAtSwap /\ [Next]_vars
        => [Log!LogNext]_(Log!logVars)
  BY LogStep
<1>4. Spec => [](Locked => ExclusiveInv)
  BY Zenon, ExclusiveAlways
<1>5. Locked
  OBVIOUS
<1>6. Spec => []ExclusiveInv
  BY <1>4, <1>5, PTL
<1> QED
  BY <1>1, <1>2, <1>3, <1>6, TypeCorrect, PTL
  DEF Spec, ImplementsOrderedLog, Log!LogSpec
=============================================================================

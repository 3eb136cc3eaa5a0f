------------------------------ MODULE PSQProofs -----------------------------
(***************************************************************************)
(* Theorems about PSQ for every number of threads, queue slots and journal *)
(* blocks, and every mix of calls.                                         *)
(***************************************************************************)
EXTENDS PSQ, RingProofs

\* The slot after a slot is a slot, and 0 is one.
LEMMA SlotFacts ==
  /\ NrOmeta \in Nat \ {0}
  /\ 0 \in Slot
  /\ \A i \in Slot : Succ(i) \in Slot
BY PSQAssumption, RingNextCases DEF Slot, Succ

\* horae_count and horae_ring_space of this queue.
LEMMA CountFacts ==
  ASSUME NEW h \in Slot, NEW t \in Slot
  PROVE  /\ Count(h, t) = IF h <= t THEN t - h ELSE NrOmeta + t - h
         /\ Count(h, t) \in 0 .. NrOmeta - 1
         /\ Space(h, t) = NrOmeta - 1 - Count(h, t)
BY PSQAssumption, RingCountCases, RingSpaceCount DEF Slot, Count, Space

\* Different slots are at different distances from h.
LEMMA CountInjective ==
  ASSUME NEW h \in Slot, NEW x \in Slot, NEW y \in Slot
  PROVE  Count(h, x) = Count(h, y) <=> x = y
<1>1. Count(h, x) = IF h <= x THEN x - h ELSE NrOmeta + x - h
  BY CountFacts
<1>2. Count(h, y) = IF h <= y THEN y - h ELSE NrOmeta + y - h
  BY CountFacts
<1> QED BY <1>1, <1>2, PSQAssumption DEF Slot

\* One slot further on is one more, unless that completes the round.
LEMMA CountSucc ==
  ASSUME NEW h \in Slot, NEW t \in Slot, Count(h, t) < NrOmeta - 1
  PROVE  Count(h, Succ(t)) = Count(h, t) + 1
<1>1. /\ Succ(t) = IF t = NrOmeta - 1 THEN 0 ELSE t + 1
      /\ Succ(t) \in Slot
  BY PSQAssumption, RingNextCases DEF Slot, Succ
<1>2. Count(h, t) = IF h <= t THEN t - h ELSE NrOmeta + t - h
  BY CountFacts
<1>3. Count(h, Succ(t)) =
        IF h <= Succ(t) THEN Succ(t) - h ELSE NrOmeta + Succ(t) - h
  BY <1>1, CountFacts
<1> QED BY <1>1, <1>2, <1>3, PSQAssumption DEF Slot

\* Counted from the next slot every other slot is one nearer.
LEMMA CountFromSucc ==
  ASSUME NEW h \in Slot, NEW x \in Slot
  PROVE  Count(Succ(h), x) = IF x = h THEN NrOmeta - 1 ELSE Count(h, x) - 1
<1>1. /\ Succ(h) = IF h = NrOmeta - 1 THEN 0 ELSE h + 1
      /\ Succ(h) \in Slot
  BY PSQAssumption, RingNextCases DEF Slot, Succ
<1>2. Count(h, x) = IF h <= x THEN x - h ELSE NrOmeta + x - h
  BY CountFacts
<1>3. Count(Succ(h), x) =
        IF Succ(h) <= x THEN x - Succ(h) ELSE NrOmeta + x - Succ(h)
  BY <1>1, CountFacts
<1> QED BY <1>1, <1>2, <1>3, PSQAssumption DEF Slot

\* The slots from h up to t are those nearer to h than t is.
LEMMA BetweenFacts ==
  ASSUME NEW h \in Slot, NEW t \in Slot
  PROVE  /\ Between(h, t) \subseteq Slot
         /\ \A x \in Slot : x \in Between(h, t) <=> Count(h, x) < Count(h, t)
BY PSQAssumption, RingSlotsMember DEF Slot, Count, Between

\* Distances from m in terms of distances from h.
LEMMA CountShift ==
  ASSUME NEW h \in Slot, NEW m \in Slot, NEW x \in Slot
  PROVE  Count(m, x) = IF Count(h, m) <= Count(h, x)
                       THEN Count(h, x) - Count(h, m)
                       ELSE NrOmeta + Count(h, x) - Count(h, m)
<1>1. Count(h, x) = IF h <= x THEN x - h ELSE NrOmeta + x - h
  BY CountFacts
<1>2. Count(h, m) = IF h <= m THEN m - h ELSE NrOmeta + m - h
  BY CountFacts
<1>3. Count(m, x) = IF m <= x THEN x - m ELSE NrOmeta + x - m
  BY CountFacts
<1> QED BY <1>1, <1>2, <1>3, PSQAssumption DEF Slot

\* The range up to a nearer slot is contained in the range up to a farther.
LEMMA BetweenSubset ==
  ASSUME NEW h \in Slot, NEW a \in Slot, NEW b \in Slot
  PROVE  Between(h, a) \subseteq Between(h, b) <=> Count(h, a) <= Count(h, b)
<1>1. Count(h, a) \in 0 .. NrOmeta - 1 /\ Count(h, b) \in 0 .. NrOmeta - 1
  BY CountFacts
<1>2. ASSUME Count(h, a) <= Count(h, b)
      PROVE  Between(h, a) \subseteq Between(h, b)
  <2>1. ASSUME NEW x \in Slot, x \in Between(h, a) PROVE x \in Between(h, b)
    BY <1>1, <1>2, <2>1, BetweenFacts, CountFacts, PSQAssumption
  <2> QED BY <2>1, BetweenFacts
<1>3. ASSUME Count(h, a) > Count(h, b)
      PROVE  ~(Between(h, a) \subseteq Between(h, b))
  <2>1. b \in Between(h, a) /\ b \notin Between(h, b)
    BY <1>1, <1>3, BetweenFacts, PSQAssumption
  <2> QED BY <2>1
<1> QED BY <1>1, <1>2, <1>3, PSQAssumption

\* Moving the head of a range to m drops the slots up to m.
LEMMA DropSlots ==
  ASSUME NEW h \in Slot, NEW m \in Slot, NEW t \in Slot,
         Count(h, m) <= Count(h, t)
  PROVE  Between(m, t) = Between(h, t) \ Between(h, m)
<1>1. ASSUME NEW x \in Slot
      PROVE  x \in Between(m, t) <=> x \in Between(h, t) /\ x \notin Between(h, m)
  <2>1. /\ x \in Between(m, t) <=> Count(m, x) < Count(m, t)
        /\ x \in Between(h, t) <=> Count(h, x) < Count(h, t)
        /\ x \in Between(h, m) <=> Count(h, x) < Count(h, m)
    BY BetweenFacts
  <2>2. Count(m, x) = IF Count(h, m) <= Count(h, x)
                      THEN Count(h, x) - Count(h, m)
                      ELSE NrOmeta + Count(h, x) - Count(h, m)
    BY CountShift
  <2>3. Count(m, t) = Count(h, t) - Count(h, m)
    BY CountShift
  <2>4. /\ Count(h, x) \in 0 .. NrOmeta - 1
        /\ Count(h, m) \in 0 .. NrOmeta - 1
        /\ Count(h, t) \in 0 .. NrOmeta - 1
    BY CountFacts
  <2> QED BY <2>1, <2>2, <2>3, <2>4, PSQAssumption
<1>2. Between(m, t) \subseteq Slot /\ Between(h, t) \subseteq Slot
  BY BetweenFacts
<1> QED BY <1>1, <1>2

\* Publishing the slot at the end of a range adds it to the range.
LEMMA AddSlot ==
  ASSUME NEW h \in Slot, NEW t \in Slot, Count(h, t) < NrOmeta - 1
  PROVE  Between(h, Succ(t)) = Between(h, t) \cup {t}
<1>1. Count(h, Succ(t)) = Count(h, t) + 1 /\ Succ(t) \in Slot
  BY CountSucc, SlotFacts
<1>2. ASSUME NEW x \in Slot
      PROVE  x \in Between(h, Succ(t)) <=> x \in Between(h, t) \/ x = t
  <2>1. /\ x \in Between(h, Succ(t)) <=> Count(h, x) < Count(h, Succ(t))
        /\ x \in Between(h, t) <=> Count(h, x) < Count(h, t)
    BY <1>1, BetweenFacts
  <2>2. Count(h, x) = Count(h, t) <=> x = t
    BY CountInjective
  <2>3. Count(h, x) \in 0 .. NrOmeta - 1 /\ Count(h, t) \in 0 .. NrOmeta - 1
    BY CountFacts
  <2> QED BY <1>1, <2>1, <2>2, <2>3, PSQAssumption
<1>3. Between(h, Succ(t)) \subseteq Slot /\ Between(h, t) \subseteq Slot
  BY <1>1, BetweenFacts
<1> QED BY <1>2, <1>3

\* The range from a slot to itself is empty.
LEMMA EmptyRange ==
  ASSUME NEW h \in Slot
  PROVE  Between(h, h) = {} /\ Count(h, h) = 0
<1>1. Count(h, h) = 0
  BY CountFacts, PSQAssumption DEF Slot
<1>2. \A x \in Slot : Count(h, x) \in 0 .. NrOmeta - 1
  BY CountFacts
<1> QED BY <1>1, <1>2, BetweenFacts, PSQAssumption

\* Type correctness: every pointer stays in its range, in every step of every
\* thread.
THEOREM TypeCorrect == Spec => []TypeOK
<1>1. Init => TypeOK
  BY PSQAssumption, SlotFacts DEF Init, TypeOK, Label
<1>2. TypeOK /\ [Next]_vars => TypeOK'
  <2> SUFFICES ASSUME TypeOK, [Next]_vars PROVE TypeOK'
    OBVIOUS
  <2> USE PSQAssumption, SlotFacts DEF TypeOK, Goto, Reads, SetHead, ptrs, locks
  <2>1. CASE UNCHANGED vars
    BY <2>1 DEF vars
  <2>2. ASSUME NEW t \in Threads, Call(t) PROVE TypeOK'
    <3>1. CASE GetStream(t)
      BY <3>1 DEF GetStream
    <3>2. CASE PutStream(t)
      BY <3>2 DEF PutStream
    <3>3. CASE SubmitBio(t)
      BY <3>3 DEF SubmitBio, Label
    <3>4. ASSUME NEW n \in 1 .. MaxBlocks, SubmitBioIpu(t, n) PROVE TypeOK'
      BY <3>4 DEF SubmitBioIpu, Label
    <3>5. ASSUME NEW n \in 1 .. MaxBlocks, SubmitBioIpuTooLarge(t, n)
          PROVE  TypeOK'
      BY <3>5 DEF SubmitBioIpuTooLarge, Label
    <3>6. CASE AllocJournalBlock(t)
      BY <3>6 DEF AllocJournalBlock, Label
    <3>7. CASE CommitRead(t)
      BY <3>7 DEF CommitRead, Label
    <3>8. CASE FlushBegin(t)
      BY <3>8 DEF FlushBegin, Label
    <3> QED
      BY <2>2, <3>1, <3>2, <3>3, <3>4, <3>5, <3>6, <3>7, <3>8 DEF Call
  <2>3. ASSUME NEW t \in Threads, Submit(t) PROVE TypeOK'
    <3>1. CASE ReadWatermark(t)
      BY <3>1 DEF ReadWatermark, Label
    <3>2. CASE HasSpace(t)
      BY <3>2 DEF HasSpace, Label
    <3>3. CASE NoSpace(t)
      BY <3>3 DEF NoSpace, Label
    <3>4. CASE Reserve(t)
      BY <3>4 DEF Reserve, Label
    <3>5. CASE ReserveLost(t)
      BY <3>5 DEF ReserveLost, Label
    <3>6. CASE Fill(t)
      BY <3>6 DEF Fill, Label
    <3>7. CASE Publish(t)
      BY <3>7 DEF Publish, Label
    <3> QED BY <2>3, <3>1, <3>2, <3>3, <3>4, <3>5, <3>6, <3>7 DEF Submit
  <2>4. ASSUME NEW t \in Threads, Checkpoint(t) PROVE TypeOK'
    <3>1. CASE CpLock(t)
      BY <3>1 DEF CpLock, Label
    <3>2. CASE CpTruncate(t)
      BY <3>2 DEF CpTruncate, Label
    <3>3. CASE CpReplay(t)
      BY <3>3 DEF CpReplay, Label
    <3>4. CASE CpCheck(t)
      BY <3>4 DEF CpCheck, Label
    <3>5. CASE CpSwap(t)
      BY <3>5 DEF CpSwap, Label
    <3> QED BY <2>4, <3>1, <3>2, <3>3, <3>4, <3>5 DEF Checkpoint
  <2>5. ASSUME NEW t \in Threads, Journal(t) PROVE TypeOK'
    <3>1. CASE JournalAlloc(t)
      BY <3>1 DEF JournalAlloc, Allocated, Label
    <3>2. CASE JournalFull(t)
      BY <3>2 DEF JournalFull, Label
    <3>3. CASE JournalWrap(t)
      BY <3>3 DEF JournalWrap, Allocated, Label
    <3> QED BY <2>5, <3>1, <3>2, <3>3 DEF Journal
  <2>6. ASSUME NEW t \in Threads, Finish(t) PROVE TypeOK'
    <3>1. CASE CommitMark(t)
      BY <3>1 DEF CommitMark, Label
    <3>2. CASE FlushRead(t)
      BY <3>2 DEF FlushRead, Label
    <3>3. CASE FlushEnd(t)
      BY <3>3 DEF FlushEnd, Label
    <3> QED BY <2>6, <3>1, <3>2, <3>3 DEF Finish
  <2> QED BY <2>1, <2>2, <2>3, <2>4, <2>5, <2>6 DEF Next, Step
<1> QED BY <1>1, <1>2, PTL DEF Spec
-----------------------------------------------------------------------------
(* The two compare-and-swap loops.                                         *)

Holders == {t \in Threads : Holding(t)}

\* A step that neither moves tail or tail_watermark nor changes who writes
\* which slot.
KeepsReservations ==
  /\ tail' = tail /\ wm' = wm
  /\ \A u \in Threads : /\ Holding(u)' <=> Holding(u)
                        /\ Holding(u) => old'[u] = old[u]

\* Such a step preserves ReservationsExact.
LEMMA ReservationsFrame ==
  ReservationsExact /\ KeepsReservations => ReservationsExact'
<1> SUFFICES ASSUME ReservationsExact, KeepsReservations
             PROVE  ReservationsExact'
  OBVIOUS
<1>1. Holders' = Holders
  BY DEF Holders, KeepsReservations
<1>2. \A u \in Holders : old'[u] = old[u]
  BY DEF Holders, KeepsReservations
<1>3. {old'[u] : u \in Holders'} = {old[u] : u \in Holders}
  BY <1>1, <1>2
<1>4. Between(tail, wm)' = Between(tail, wm)
  BY DEF KeepsReservations, Between, RingSlots, RingAt, RingCount
<1>5. \A u, v \in Threads :
        Holding(u)' /\ Holding(v)' /\ old'[u] = old'[v] => u = v
  BY DEF KeepsReservations, ReservationsExact
<1> QED BY <1>3, <1>4, <1>5 DEF ReservationsExact, Holders

\* While a thread without a slot wants one, the other threads cannot have
\* taken all the slots behind tail: the watermark never laps the tail, even
\* though no thread compares the two.
LEMMA WatermarkNeverLaps ==
  ASSUME TypeOK, ReservationsExact, NEW t \in Threads, ~Holding(t)
  PROVE  Count(tail, wm) < NrOmeta - 1
<1> SUFFICES ASSUME Count(tail, wm) >= NrOmeta - 1 PROVE FALSE
  BY CountFacts, PSQAssumption DEF TypeOK
<1>1. Count(tail, wm) = NrOmeta - 1 /\ tail \in Slot /\ wm \in Slot
  BY CountFacts, PSQAssumption DEF TypeOK
<1>2. Between(tail, wm) = Slot \ {wm}
  <2>1. ASSUME NEW x \in Slot
        PROVE  x \in Between(tail, wm) <=> x # wm
    <3>1. x \in Between(tail, wm) <=> Count(tail, x) < NrOmeta - 1
      BY <1>1, BetweenFacts
    <3>2. Count(tail, x) = NrOmeta - 1 <=> x = wm
      BY <1>1, CountInjective
    <3>3. Count(tail, x) \in 0 .. NrOmeta - 1
      BY <1>1, CountFacts
    <3> QED BY <3>1, <3>2, <3>3, PSQAssumption
  <2> QED BY <2>1, <1>1, BetweenFacts
<1>3. IsFiniteSet(Slot) /\ Cardinality(Slot) = NrOmeta
  BY PSQAssumption, FS_Interval DEF Slot
<1>4. Cardinality(Between(tail, wm)) = NrOmeta - 1
  BY <1>1, <1>2, <1>3, FS_RemoveElement
<1>5. /\ IsFiniteSet(Threads \ {t})
      /\ Cardinality(Threads \ {t}) = Cardinality(Threads) - 1
  BY ThreadsAssumption, FS_RemoveElement
<1>6. /\ IsFiniteSet(Holders)
      /\ Cardinality(Holders) <= Cardinality(Threads) - 1
  <2>1. Holders \subseteq Threads \ {t}
    BY DEF Holders
  <2> QED BY <1>5, <2>1, FS_Subset
<1>7. Between(tail, wm) = {old[u] : u \in Holders}
  BY DEF ReservationsExact, Holders
<1>8. Cardinality(Between(tail, wm)) <= Cardinality(Holders)
  <2> DEFINE f == [u \in Holders |-> old[u]]
  <2>1. f \in Surjection(Holders, Between(tail, wm))
    BY <1>7 DEF Surjection
  <2> QED BY <1>6, <2>1, FS_Surjection
<1>9. Cardinality(Threads) \in Nat /\ Cardinality(Holders) \in Nat
  BY ThreadsAssumption, <1>6, FS_CardinalityType
<1> QED BY <1>4, <1>6, <1>8, <1>9, ThreadsAssumption, PSQAssumption

\* Reservations are exact: whatever the space check has read, every slot
\* between tail and tail_watermark is being written by exactly one thread and
\* no other slot is, for any number of threads sharing the stream.
THEOREM Reservations == Spec => []ReservationsExact
<1>1. Init => ReservationsExact
  <2> SUFFICES ASSUME Init PROVE ReservationsExact
    OBVIOUS
  <2>1. \A t \in Threads : ~Holding(t)
    BY DEF Init, Holding
  <2>2. Between(tail, wm) = {}
    BY SlotFacts, EmptyRange DEF Init
  <2> QED BY <2>1, <2>2 DEF ReservationsExact
<1>2. TypeOK /\ TypeOK' /\ ReservationsExact /\ [Next]_vars => ReservationsExact'
  <2> SUFFICES ASSUME TypeOK, TypeOK', ReservationsExact, [Next]_vars
               PROVE  ReservationsExact'
    OBVIOUS
  <2>1. CASE UNCHANGED vars
    <3>1. KeepsReservations
      BY <2>1 DEF KeepsReservations, vars, ptrs, Holding
    <3> QED BY <3>1, ReservationsFrame
  <2>2. ASSUME NEW t \in Threads, Call(t) PROVE ReservationsExact'
    <3>1. KeepsReservations
      BY <2>2 DEF KeepsReservations, Holding, TypeOK, Call, GetStream, PutStream,
         SubmitBio, SubmitBioIpu, SubmitBioIpuTooLarge, AllocJournalBlock,
         CommitRead, FlushBegin, Goto, Reads, ptrs
    <3> QED BY <3>1, ReservationsFrame
  <2>3. ASSUME NEW t \in Threads, Reserve(t) PROVE ReservationsExact'
    <3>1. ~Holding(t)
      BY <2>3 DEF Reserve, Goto, Holding
    <3>2. /\ tail \in Slot /\ wm \in Slot /\ old[t] = wm
          /\ tail' = tail /\ wm' = Succ(wm) /\ wm' \in Slot /\ old' = old
      BY <2>3, SlotFacts DEF Reserve, TypeOK
    <3>3. Holders' = Holders \cup {t} /\ Holding(t)'
      BY <2>3 DEF Reserve, Goto, Holders, Holding, TypeOK
    <3>4. Between(tail, wm)' = Between(tail, wm) \cup {wm}
      <4>1. Between(tail, Succ(wm)) = Between(tail, wm) \cup {wm}
        BY <3>1, <3>2, WatermarkNeverLaps, AddSlot
      <4> QED BY <3>2, <4>1 DEF Between, RingSlots, RingAt, RingCount
    <3>5. wm \notin Between(tail, wm)
      BY <3>2, BetweenFacts, CountFacts
    <3>6. \A u \in Holders : old[u] # wm
      BY <3>5 DEF ReservationsExact, Holders
    <3>7. {old[u] : u \in Holders'} = Between(tail, wm)'
      BY <3>2, <3>3, <3>4 DEF ReservationsExact, Holders
    <3>8. \A u, v \in Holders' : old[u] = old[v] => u = v
      BY <3>2, <3>3, <3>6 DEF ReservationsExact, Holders
    <3> QED BY <3>2, <3>7, <3>8 DEF ReservationsExact, Holders
  <2>4. ASSUME NEW t \in Threads, Publish(t) PROVE ReservationsExact'
    <3>1. /\ Holding(t) /\ tail = old[t] /\ wm' = wm
          /\ tail' = Succ(tail) /\ tail' \in Slot /\ tail \in Slot /\ wm \in Slot
      BY <2>4, SlotFacts DEF Publish, Goto, Holding, TypeOK
    <3>2. /\ Holders' = Holders \ {t}
          /\ \A u \in Holders' : old'[u] = old[u]
      BY <2>4 DEF Publish, Goto, Reads, Holders, Holding, TypeOK
    <3>3. tail \in Between(tail, wm)
      BY <3>1 DEF ReservationsExact
    <3>4. Between(tail, wm)' = Between(tail, wm) \ {tail}
      <4>1. ASSUME NEW x \in Slot
            PROVE  x \in Between(Succ(tail), wm) <=>
                     x \in Between(tail, wm) /\ x # tail
        <5>1. wm # tail
          BY <3>1, <3>3, BetweenFacts, CountFacts
        <5>2. Count(Succ(tail), wm) = Count(tail, wm) - 1
          BY <3>1, <5>1, CountFromSucc
        <5>3. Count(Succ(tail), x) = IF x = tail THEN NrOmeta - 1
                                     ELSE Count(tail, x) - 1
          BY <3>1, CountFromSucc
        <5>4. /\ Count(tail, x) \in 0 .. NrOmeta - 1
              /\ Count(tail, wm) \in 0 .. NrOmeta - 1
          BY <3>1, CountFacts
        <5>5. x \in Between(Succ(tail), wm) <=>
                Count(Succ(tail), x) < Count(Succ(tail), wm)
          BY <3>1, BetweenFacts, SlotFacts
        <5>6. x \in Between(tail, wm) <=> Count(tail, x) < Count(tail, wm)
          BY <3>1, BetweenFacts
        <5> QED BY <5>2, <5>3, <5>4, <5>5, <5>6, PSQAssumption
      <4>2. /\ Between(Succ(tail), wm) \subseteq Slot
            /\ Between(tail, wm) \subseteq Slot
        BY <3>1, BetweenFacts, SlotFacts
      <4>3. Between(Succ(tail), wm) = Between(tail, wm) \ {tail}
        BY <4>1, <4>2
      <4> QED BY <3>1, <4>3 DEF Between, RingSlots, RingAt, RingCount
    <3>5. {old'[u] : u \in Holders'} = Between(tail, wm)'
      BY <3>1, <3>2, <3>4 DEF ReservationsExact, Holders
    <3>6. \A u, v \in Holders' : old'[u] = old'[v] => u = v
      BY <3>2 DEF ReservationsExact, Holders
    <3> QED BY <3>5, <3>6 DEF ReservationsExact, Holders
  <2>5. ASSUME NEW t \in Threads, Submit(t), ~Reserve(t), ~Publish(t)
        PROVE  ReservationsExact'
    <3>1. KeepsReservations
      BY <2>5 DEF KeepsReservations, Holding, TypeOK, Submit, ReadWatermark,
         HasSpace, NoSpace, ReserveLost, Fill, Goto, Reads, ptrs
    <3> QED BY <3>1, ReservationsFrame
  <2>6. ASSUME NEW t \in Threads, Checkpoint(t) PROVE ReservationsExact'
    <3>1. KeepsReservations
      BY <2>6 DEF KeepsReservations, Holding, TypeOK, Checkpoint, CpLock,
         CpTruncate, CpReplay, CpCheck, CpSwap, Goto, ptrs
    <3> QED BY <3>1, ReservationsFrame
  <2>7. ASSUME NEW t \in Threads, Journal(t) PROVE ReservationsExact'
    <3>1. KeepsReservations
      BY <2>7 DEF KeepsReservations, Holding, TypeOK, Journal, JournalAlloc,
         JournalFull, JournalWrap, Allocated, Goto, Reads, ptrs
    <3> QED BY <3>1, ReservationsFrame
  <2>8. ASSUME NEW t \in Threads, Finish(t) PROVE ReservationsExact'
    <3>1. KeepsReservations
      BY <2>8 DEF KeepsReservations, Holding, TypeOK, Finish, CommitMark,
         FlushRead, FlushEnd, Goto, Reads, ptrs
    <3> QED BY <3>1, ReservationsFrame
  <2> QED
    BY <2>1, <2>2, <2>3, <2>4, <2>5, <2>6, <2>7, <2>8 DEF Next, Step
<1> QED BY <1>1, <1>2, TypeCorrect, PTL DEF Spec
-----------------------------------------------------------------------------
(* Exclusive use of a stream, as in MQFS.                                  *)

\* Only the holder of the stream lock is inside a call.
Exclusive == \A t \in Threads : pc[t] # "idle" => holder = t

\* What the thread inside a call knows of the pointers.
CallState ==
  \A t \in Threads :
    /\ pc[t] = "space" => old[t] = wm
    /\ pc[t] = "cas" => old[t] = wm /\ Count(head, wm) < NrOmeta - 1
    /\ pc[t] \in {"fill", "publish"} =>
         old[t] = tail /\ Count(head, tail) < NrOmeta - 1
    /\ pc[t] = "publish" => old[t] \notin mark
    /\ pc[t] = "ja_head" => old[t] = flushed
    /\ pc[t] = "fl_end" => old[t] = tail

ExclusiveInv == Exclusive /\ CallState /\ QueueExact /\ FlushedInQueue

\* Without a reservation in flight the watermark is the tail.
LEMMA WatermarkAtRest ==
  ASSUME TypeOK, ReservationsExact, \A t \in Threads : ~Holding(t)
  PROVE  tail = wm
<1>1. tail \in Slot /\ wm \in Slot
  BY DEF TypeOK
<1>2. Between(tail, wm) = {}
  BY DEF ReservationsExact
<1>3. tail \notin Between(tail, wm) /\ Count(tail, tail) = 0
  BY <1>1, <1>2, EmptyRange
<1>4. Count(tail, wm) = 0
  BY <1>1, <1>3, BetweenFacts, CountFacts, PSQAssumption
<1> QED BY <1>1, <1>3, <1>4, CountInjective

\* A step that leaves the queue alone preserves what is said of it.
LEMMA QueueFrame ==
  ASSUME QueueExact, FlushedInQueue,
         UNCHANGED <<head, tail, flushed, live>>
  PROVE  QueueExact' /\ FlushedInQueue'
BY DEF QueueExact, FlushedInQueue, Between, RingSlots, RingAt, RingCount

\* Replaying and dropping the flushed entries keeps the queue exact.
LEMMA DropFlushed ==
  ASSUME TypeOK, QueueExact, FlushedInQueue, SetHead(flushed),
         UNCHANGED <<tail, flushed>>
  PROVE  QueueExact' /\ FlushedInQueue'
<1>1. head \in Slot /\ tail \in Slot /\ flushed \in Slot
  BY DEF TypeOK
<1>2. Count(head, flushed) <= Count(head, tail)
  BY <1>1, BetweenSubset DEF FlushedInQueue
<1>3. Between(flushed, tail) = Between(head, tail) \ Between(head, flushed)
  BY <1>1, <1>2, DropSlots
<1>4. live' = Between(flushed, tail)
  BY <1>3 DEF QueueExact, SetHead
<1>5. QueueExact'
  BY Zenon, <1>4 DEF QueueExact, SetHead, Between, RingSlots, RingAt, RingCount
<1>6. Between(flushed, flushed) = {}
  BY <1>1, EmptyRange
<1>7. FlushedInQueue'
  BY <1>6 DEF FlushedInQueue, SetHead, Between, RingSlots, RingAt, RingCount
<1> QED BY <1>5, <1>7

\* The inductive step for a thread inside a call.
LEMMA ExclusiveStep ==
  ASSUME TypeOK, TypeOK', ReservationsExact, ExclusiveInv,
         NEW t \in Threads, Step(t)
  PROVE  ExclusiveInv'
<1> USE DEF ExclusiveInv
<1>1. pc[t] # "idle" /\ holder = t
  BY Zenon DEF Exclusive, Step, Submit, Checkpoint, Journal, Finish, ReadWatermark,
     HasSpace, NoSpace, Reserve, ReserveLost, Fill, Publish, CpLock, CpTruncate,
     CpReplay, CpCheck, CpSwap, JournalAlloc, JournalFull, JournalWrap,
     Allocated, CommitMark, FlushRead, FlushEnd, Goto
<1>2. \A u \in Threads : u # t => pc[u] = "idle"
  BY <1>1 DEF Exclusive
<1>3. /\ head \in Slot /\ tail \in Slot /\ wm \in Slot /\ flushed \in Slot
      /\ old \in [Threads -> Slot] /\ pc \in [Threads -> Label]
  BY DEF TypeOK
<1>4. CASE Submit(t) /\ ~Publish(t)
  <2>1. UNCHANGED <<head, tail, flushed, live, holder>>
    BY Zenon, <1>4 DEF Submit, ReadWatermark, HasSpace, NoSpace, Reserve, ReserveLost,
       Fill, ptrs, locks
  <2>2. QueueExact' /\ FlushedInQueue'
    BY <2>1, QueueFrame
  <2>3. Exclusive'
    BY Zenon, <1>1, <1>2, <1>3, <1>4, <2>1 DEF Exclusive, Submit, ReadWatermark,
       HasSpace, NoSpace, Reserve, ReserveLost, Fill, Goto
  <2>4. CASE ReadWatermark(t)
    <3>1. CallState'
      BY <1>2, <1>3, <2>4 DEF CallState, ReadWatermark, Goto, Reads, ptrs
    <3> QED BY <2>2, <2>3, <3>1
  <2>5. CASE HasSpace(t)
    <3>1. old[t] = wm /\ Space(head, wm) >= 1
      BY <1>3, <2>5 DEF CallState, HasSpace, Goto
    <3>2. Count(head, wm) < NrOmeta - 1
      BY <1>3, <3>1, CountFacts, PSQAssumption
    <3>3. UNCHANGED <<head, tail, wm, old>>
      BY <2>5 DEF HasSpace, ptrs
    <3>4. Count(head, wm)' < NrOmeta - 1
      BY <3>2, <3>3 DEF Count, RingCount
    <3>5. CallState'
      BY <1>2, <1>3, <2>5, <3>1, <3>3, <3>4 DEF CallState, HasSpace, Goto
    <3> QED BY <2>2, <2>3, <3>5
  <2>6. CASE NoSpace(t)
    <3>1. CallState'
      BY <1>2, <1>3, <2>6 DEF CallState, NoSpace, Goto, Reads
    <3> QED BY <2>2, <2>3, <3>1
  <2>7. CASE Reserve(t)
    <3>1. \A u \in Threads : ~Holding(u)
      BY <1>2, <2>7 DEF Holding, Reserve, Goto
    <3>2. tail = wm
      BY <3>1, WatermarkAtRest
    <3>3. old[t] = tail /\ Count(head, tail) < NrOmeta - 1
      BY <1>3, <2>7, <3>2 DEF CallState, Reserve, Goto
    <3>4. Count(head, tail)' < NrOmeta - 1
      BY <2>1, <3>3 DEF Count, RingCount
    <3>5. CallState'
      BY <1>2, <1>3, <2>7, <2>1, <3>3, <3>4 DEF CallState, Reserve, Goto
    <3> QED BY <2>2, <2>3, <3>5
  <2>8. CASE ReserveLost(t)
    <3>1. CallState'
      BY <1>2, <1>3, <2>8 DEF CallState, ReserveLost, Goto, Reads
    <3> QED BY <2>2, <2>3, <3>1
  <2>9. CASE Fill(t)
    <3>1. old[t] = tail /\ Count(head, tail) < NrOmeta - 1
      BY <1>3, <2>9 DEF CallState, Fill, Goto
    <3>2. Count(head, tail)' < NrOmeta - 1
      BY <2>1, <3>1 DEF Count, RingCount
    <3>3. CallState'
      BY <1>2, <1>3, <2>9, <2>1, <3>1, <3>2 DEF CallState, Fill, Goto
    <3> QED BY <2>2, <2>3, <3>3
  <2> QED BY <1>4, <2>4, <2>5, <2>6, <2>7, <2>8, <2>9 DEF Submit
<1>5. CASE Publish(t)
  <2>1. /\ UNCHANGED <<head, flushed, holder>>
        /\ tail' = Succ(tail) /\ live' = live \cup {tail}
        /\ old[t] = tail /\ Count(head, tail) < NrOmeta - 1
    BY <1>3, <1>5 DEF CallState, Publish, Goto, locks
  <2>2. Exclusive'
    BY <1>1, <1>2, <1>3, <1>5, <2>1 DEF Exclusive, Publish, Goto
  <2>3. CallState'
    BY <1>2, <1>3, <1>5 DEF CallState, Publish, Goto
  <2>4. Between(head, Succ(tail)) = Between(head, tail) \cup {tail}
    BY <1>3, <2>1, AddSlot
  <2>5. QueueExact'
    BY <2>1, <2>4 DEF QueueExact, Between, RingSlots, RingAt, RingCount
  <2>6. FlushedInQueue'
    BY <2>1, <2>4 DEF FlushedInQueue, Between, RingSlots, RingAt, RingCount
  <2> QED BY <2>2, <2>3, <2>5, <2>6
<1>6. CASE Checkpoint(t) \/ Journal(t) \/ Finish(t)
  <2>1. holder' = holder /\ \A u \in Threads : u # t => pc'[u] = "idle"
    BY <1>2, <1>3, <1>6 DEF Checkpoint, Journal, Finish, CpLock, CpTruncate,
       CpReplay, CpCheck, CpSwap, JournalAlloc, JournalFull, JournalWrap,
       Allocated, CommitMark, FlushRead, FlushEnd, Goto, locks
  <2>2. Exclusive'
    BY <1>1, <2>1 DEF Exclusive
  <2>3. CallState'
    <3>1. CASE JournalFull(t)
      BY <1>2, <1>3, <3>1 DEF CallState, JournalFull, Goto, Reads, ptrs
    <3>2. CASE FlushRead(t)
      BY <1>2, <1>3, <3>2 DEF CallState, FlushRead, Goto, Reads, ptrs
    <3>3. CASE ~JournalFull(t) /\ ~FlushRead(t)
      <4>1. pc'[t] \in {"idle", "read", "cp_trunc", "cp_replay", "cp_check",
                        "cp_swap"}
        BY Zenon, <1>3, <1>6, <3>3 DEF TypeOK, Checkpoint, Journal, Finish, CpLock,
           CpTruncate, CpReplay, CpCheck, CpSwap, JournalAlloc, JournalWrap,
           Allocated, CommitMark, FlushEnd, Goto
      <4> QED BY <2>1, <4>1 DEF CallState
    <3> QED BY <3>1, <3>2, <3>3
  <2>4. CASE UNCHANGED <<head, tail, flushed, live>>
    BY <2>2, <2>3, <2>4, QueueFrame
  <2>5. CASE CpReplay(t) \/ JournalWrap(t)
    BY <2>2, <2>3, <2>5, DropFlushed DEF CpReplay, JournalWrap
  <2>6. CASE CpSwap(t)
    <3>1. /\ head' = tail /\ flushed' = tail /\ tail' = tail
          /\ live' = live \ Between(head, tail)
      BY <2>6 DEF CpSwap, SetHead
    <3>2. Between(tail, tail) = {}
      BY <1>3, EmptyRange
    <3>3. QueueExact' /\ FlushedInQueue'
      BY <3>1, <3>2 DEF QueueExact, FlushedInQueue, Between, RingSlots, RingAt,
         RingCount
    <3> QED BY <2>2, <2>3, <3>3
  <2>7. CASE FlushEnd(t)
    <3>1. /\ flushed' = tail /\ UNCHANGED <<head, tail, live>>
      BY <1>3, <2>7 DEF CallState, FlushEnd, Goto
    <3>2. QueueExact' /\ FlushedInQueue'
      BY <3>1 DEF QueueExact, FlushedInQueue, Between, RingSlots, RingAt,
         RingCount
    <3> QED BY <2>2, <2>3, <3>2
  <2> QED
    BY Zenon, <1>6, <2>4, <2>5, <2>6, <2>7 DEF Checkpoint, Journal, Finish, CpLock,
       CpTruncate, CpCheck, JournalAlloc, JournalFull, CommitMark, FlushRead, ptrs
<1> QED BY <1>4, <1>5, <1>6 DEF Step

\* The calls of a stream whose users hold its lock keep the inductive
\* invariant: one of them at a time, each with valid values in its hands.
LEMMA ExclusiveAlways == Spec => [](Locked => ExclusiveInv)
<1>1. Init => (Locked => ExclusiveInv)
  <2> SUFFICES ASSUME Init PROVE ExclusiveInv
    OBVIOUS
  <2>1. Exclusive /\ CallState
    BY DEF Init, Exclusive, CallState
  <2>2. QueueExact /\ FlushedInQueue
    BY SlotFacts, EmptyRange DEF Init, QueueExact, FlushedInQueue
  <2> QED BY <2>1, <2>2 DEF ExclusiveInv
<1>2. /\ TypeOK /\ TypeOK' /\ ReservationsExact
      /\ (Locked => ExclusiveInv) /\ [Next]_vars
      => (Locked => ExclusiveInv)'
  <2> SUFFICES ASSUME TypeOK, TypeOK', ReservationsExact, Locked, ExclusiveInv,
                      [Next]_vars
               PROVE  ExclusiveInv'
    OBVIOUS
  <2>1. CASE UNCHANGED vars
    <3>1. QueueExact' /\ FlushedInQueue'
      BY <2>1, QueueFrame DEF vars, ptrs, ExclusiveInv
    <3>2. Count(head, tail)' = Count(head, tail) /\ Count(head, wm)' = Count(head, wm)
      BY <2>1 DEF vars, ptrs, Count, RingCount
    <3>3. Exclusive' /\ CallState'
      BY <2>1, <3>2 DEF vars, ptrs, locks, ExclusiveInv, Exclusive, CallState
    <3> QED BY <3>1, <3>3 DEF ExclusiveInv
  <2>2. ASSUME NEW t \in Threads, Step(t) PROVE ExclusiveInv'
    BY <2>2, ExclusiveStep
  <2>3. ASSUME NEW t \in Threads, Call(t) PROVE ExclusiveInv'
    <3>1. /\ UNCHANGED <<head, tail, flushed, live>>
          /\ holder' = t \/ (holder' = NoThread /\ pc'[t] = "idle")
          /\ holder = t \/ holder = NoThread
          /\ pc'[t] \in {"idle", "read", "ja_lock", "ct_mark", "fl_lock"}
          /\ \A u \in Threads : u # t => pc'[u] = pc[u]
      BY <2>3 DEF Call, GetStream, PutStream, SubmitBio, SubmitBioIpu,
         SubmitBioIpuTooLarge, AllocJournalBlock, CommitRead, FlushBegin,
         MayCall, Goto, ptrs, locks, TypeOK
    <3>2. QueueExact' /\ FlushedInQueue'
      BY <3>1, QueueFrame DEF ExclusiveInv
    <3>3. \A u \in Threads : u # t => pc[u] = "idle"
      BY <3>1, PSQAssumption DEF ExclusiveInv, Exclusive
    <3>4. Exclusive' /\ CallState'
      BY <3>1, <3>3 DEF Exclusive, CallState
    <3> QED BY <3>2, <3>4 DEF ExclusiveInv
  <2> QED BY <2>1, <2>2, <2>3 DEF Next
<1> QED BY <1>1, <1>2, TypeCorrect, Reservations, PTL DEF Spec

\* Under the stream lock of MQFS the queue of a stream is exact for every
\* number of threads and slots: no published entry is overwritten or lost,
\* the flush pointer stays in the queue, a journal wrap drops only what it
\* has replayed, and a commit marks no other call's entry.
THEOREM ExclusiveSafety ==
  Spec => [](Locked => /\ NoOverrun /\ QueueExact /\ FlushedInQueue
                       /\ DropOnlyReplayed /\ EntryIntact)
<1>1. TypeOK /\ ExclusiveInv =>
        /\ NoOverrun /\ QueueExact /\ FlushedInQueue
        /\ DropOnlyReplayed /\ EntryIntact
  <2> SUFFICES ASSUME TypeOK, ExclusiveInv
               PROVE  NoOverrun /\ DropOnlyReplayed /\ EntryIntact
    BY DEF ExclusiveInv
  <2>1. head \in Slot /\ tail \in Slot
    BY DEF TypeOK
  <2>2. tail \notin live
    BY <2>1, BetweenFacts, CountFacts DEF ExclusiveInv, QueueExact
  <2>3. NoOverrun
    BY <2>2 DEF NoOverrun, ExclusiveInv, CallState
  <2>4. DropOnlyReplayed /\ EntryIntact
    BY DEF DropOnlyReplayed, EntryIntact, ExclusiveInv, CallState
  <2> QED BY <2>3, <2>4
<1> QED BY <1>1, TypeCorrect, ExclusiveAlways, PTL
=============================================================================

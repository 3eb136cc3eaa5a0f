----------------------------- MODULE RingProofs -----------------------------
(***************************************************************************)
(* Facts about the index arithmetic of Ring, for every ring size.  They    *)
(* turn the modulo operations of the C macros into the case distinction    *)
(* "wrapped or not", and the loops over slots into comparisons of          *)
(* distances from the loop's start.                                        *)
(***************************************************************************)
EXTENDS Ring, FiniteSetTheorems, TLAPS

\* horae_count is the distance from head to tail, wrapped or not.
LEMMA RingCountCases ==
  ASSUME NEW N \in Nat \ {0}, NEW h \in 0 .. N-1, NEW t \in 0 .. N-1
  PROVE  /\ RingCount(h, t, N) = IF h <= t THEN t - h ELSE N + t - h
         /\ RingCount(h, t, N) \in 0 .. N-1
<1>1. CASE h <= t
  <2>1. (N + t - h) % N = N + t - h - N
    BY <1>1
  <2> QED BY <1>1, <2>1 DEF RingCount
<1>2. CASE h > t
  <2>1. (N + t - h) % N = N + t - h
    BY <1>2
  <2> QED BY <1>2, <2>1 DEF RingCount
<1> QED BY <1>1, <1>2

\* horae_ring_space leaves one slot free.
LEMMA RingSpaceCount ==
  ASSUME NEW N \in Nat \ {0}, NEW h \in 0 .. N-1, NEW t \in 0 .. N-1
  PROVE  RingSpace(h, t, N) = N - 1 - RingCount(h, t, N)
<1>1. CASE h <= t
  <2>1. (N + h - t - 1) % N = N + h - t - 1
    BY <1>1
  <2> QED BY <1>1, <2>1, RingCountCases DEF RingSpace
<1>2. CASE h > t
  <2>1. (N + h - t - 1) % N = N + h - t - 1 - N
    BY <1>2
  <2> QED BY <1>2, <2>1, RingCountCases DEF RingSpace
<1> QED BY <1>1, <1>2

\* The index after i.
LEMMA RingNextCases ==
  ASSUME NEW N \in Nat \ {0}, NEW i \in 0 .. N-1
  PROVE  /\ RingNext(i, N) = IF i = N - 1 THEN 0 ELSE i + 1
         /\ RingNext(i, N) \in 0 .. N-1
<1>1. CASE i = N - 1
  <2>1. (i + 1) % N = 0
    BY <1>1
  <2> QED BY <1>1, <2>1 DEF RingNext
<1>2. CASE i < N - 1
  <2>1. (i + 1) % N = i + 1
    BY <1>2
  <2> QED BY <1>2, <2>1 DEF RingNext
<1> QED BY <1>1, <1>2

\* The index k slots after i, for k below the size.
LEMMA RingAtCases ==
  ASSUME NEW N \in Nat \ {0}, NEW i \in 0 .. N-1, NEW k \in 0 .. N-1
  PROVE  /\ RingAt(i, k, N) = IF i + k < N THEN i + k ELSE i + k - N
         /\ RingAt(i, k, N) \in 0 .. N-1
<1>1. CASE i + k < N
  <2>1. (i + k) % N = i + k
    BY <1>1
  <2> QED BY <1>1, <2>1 DEF RingAt
<1>2. CASE i + k >= N
  <2>1. (i + k) % N = i + k - N
    BY <1>2
  <2> QED BY <1>2, <2>1 DEF RingAt
<1> QED BY <1>1, <1>2

\* A loop from "from" to "to" visits the slots nearer to "from" than "to" is.
LEMMA RingSlotsMember ==
  ASSUME NEW N \in Nat \ {0}, NEW f \in 0 .. N-1, NEW t \in 0 .. N-1
  PROVE  /\ RingSlots(f, t, N) \subseteq 0 .. N-1
         /\ \A x \in 0 .. N-1 :
              x \in RingSlots(f, t, N) <=> RingCount(f, x, N) < RingCount(f, t, N)
<1> DEFINE c == RingCount(f, t, N)
<1>0. c \in 0 .. N-1
  BY RingCountCases
<1>1. ASSUME NEW k \in 0 .. c - 1
      PROVE  /\ RingAt(f, k, N) \in 0 .. N-1
             /\ RingCount(f, RingAt(f, k, N), N) = k
  <2>1. k \in 0 .. N-1
    BY <1>0
  <2> DEFINE y == RingAt(f, k, N)
  <2>2. /\ y = IF f + k < N THEN f + k ELSE f + k - N
        /\ y \in 0 .. N-1
    BY <2>1, RingAtCases
  <2>3. RingCount(f, y, N) = IF f <= y THEN y - f ELSE N + y - f
    BY Zenon, <2>2, RingCountCases
  <2> HIDE DEF y
  <2> QED BY <2>1, <2>2, <2>3 DEF y
<1>2. ASSUME NEW x \in 0 .. N-1, RingCount(f, x, N) < c
      PROVE  /\ RingCount(f, x, N) \in 0 .. c - 1
             /\ x = RingAt(f, RingCount(f, x, N), N)
  <2> DEFINE k == RingCount(f, x, N)
  <2>1. k \in 0 .. N-1 /\ k = IF f <= x THEN x - f ELSE N + x - f
    BY RingCountCases
  <2>2. RingAt(f, k, N) = IF f + k < N THEN f + k ELSE f + k - N
    BY <2>1, RingAtCases
  <2> HIDE DEF k
  <2>3. k \in 0 .. c - 1
    BY <2>1, <1>0, <1>2 DEF k
  <2>4. x = RingAt(f, k, N)
    BY <2>1, <2>2
  <2> QED BY <2>3, <2>4 DEF k
<1> HIDE DEF c
<1>3. RingSlots(f, t, N) = {RingAt(f, k, N) : k \in 0 .. c - 1}
  BY DEF RingSlots, c
<1>4. RingSlots(f, t, N) \subseteq 0 .. N-1
  BY <1>1, <1>3
<1>5. ASSUME NEW x \in 0 .. N-1
      PROVE  x \in RingSlots(f, t, N) <=> RingCount(f, x, N) < c
  <2>1. ASSUME x \in RingSlots(f, t, N) PROVE RingCount(f, x, N) < c
    <3>1. PICK k \in 0 .. c - 1 : x = RingAt(f, k, N)
      BY <1>3, <2>1
    <3>2. RingCount(f, x, N) = k
      BY <1>1, <3>1
    <3> QED BY <3>2, <1>0
  <2>2. ASSUME RingCount(f, x, N) < c PROVE x \in RingSlots(f, t, N)
    BY <1>2, <1>3, <2>2
  <2> QED BY <2>1, <2>2
<1> QED BY <1>4, <1>5 DEF c
=============================================================================

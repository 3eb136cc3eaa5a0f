---------------------------- MODULE StreamsProofs ---------------------------
(***************************************************************************)
(* For any number of streams, any mounts with any options, any threads and *)
(* any number of CPUs: mounts and unmounts neither lose nor double a       *)
(* stream, and where the options are aligned no two threads use one.       *)
(***************************************************************************)
EXTENDS Streams, SequenceTheorems, FiniteSetTheorems, TLAPS

\* Where the ids are, position by position.
FifoOnce ==
  /\ free \in Seq(Id)
  /\ \A i, j \in 1 .. Len(free) : free[i] = free[j] => i = j

HeldOnce ==
  /\ streams \in [Mounts -> Seq(Id)]
  /\ \A m, k \in Mounts :
       \A i \in 1 .. Len(streams[m]), j \in 1 .. Len(streams[k]) :
         streams[m][i] = streams[k][j] => m = k /\ i = j

Apart ==
  \A m \in Mounts : \A i \in 1 .. Len(streams[m]), j \in 1 .. Len(free) :
    streams[m][i] # free[j]

NoneLost ==
  \A s \in Id :
    \/ \E i \in 1 .. Len(free) : free[i] = s
    \/ \E m \in Mounts : \E i \in 1 .. Len(streams[m]) : streams[m][i] = s

Placed ==
  wanted \in [Mounts -> Nat \ {0}] /\ FifoOnce /\ HeldOnce /\ Apart /\ NoneLost

\* What Mount hands out: at least one stream, at most what the FIFO has.
LEMMA Handed ==
  ASSUME Placed, NEW m \in Mounts, free # <<>>
  PROVE  LET n == Least(Least(wanted[m], NrStreams), Len(free))
             s == SubSeq(free, 1, n)
             f == SubSeq(free, n + 1, Len(free))
         IN  /\ n \in 1 .. Len(free) /\ Len(free) \in Nat
             /\ s \in Seq(Id) /\ Len(s) = n
             /\ \A i \in 1 .. n : s[i] = free[i]
             /\ f \in Seq(Id) /\ Len(f) = Len(free) - n
             /\ \A i \in 1 .. Len(free) - n : f[i] = free[n + i]
<1> DEFINE n == Least(Least(wanted[m], NrStreams), Len(free))
<1>1. Len(free) \in Nat \ {0} /\ \A i \in 1 .. Len(free) : free[i] \in Id
  BY EmptySeq, LenProperties, ElementOfSeq DEF Placed, FifoOnce
<1>2. wanted[m] \in Nat \ {0} /\ NrStreams \in Nat \ {0}
  BY StreamsAssumption DEF Placed
<1>3. n \in 1 .. Len(free)
  BY <1>1, <1>2 DEF Least
<1> HIDE DEF n
<1>4. /\ SubSeq(free, 1, n) \in Seq(Id) /\ Len(SubSeq(free, 1, n)) = n
      /\ \A i \in 1 .. n : SubSeq(free, 1, n)[i] = free[i]
  <2>1. \A i \in 1 .. n : free[i] \in Id
    BY <1>1, <1>3
  <2>2. n \in Int /\ 1 \in Int /\ 1 <= n /\ n - 1 + 1 = n /\ \A i \in 1 .. n : 1 + i - 1 = i
    BY <1>1, <1>3
  <2> QED BY <2>1, <2>2, SubSeqProperties
<1>5. LET f == SubSeq(free, n + 1, Len(free)) IN
      /\ f \in Seq(Id) /\ Len(f) = Len(free) - n
      /\ \A i \in 1 .. Len(free) - n : f[i] = free[n + i]
  <2> DEFINE f == SubSeq(free, n + 1, Len(free))
  <2>1. \A i \in n + 1 .. Len(free) : free[i] \in Id
    BY <1>1, <1>3
  <2>2. n + 1 \in Int /\ Len(free) \in Int
    BY <1>1, <1>3
  <2>3. /\ f \in Seq(Id) /\ Len(f) = IF n + 1 <= Len(free) THEN Len(free) - (n + 1) + 1 ELSE 0
        /\ \A i \in 1 .. Len(free) - (n + 1) + 1 : f[i] = free[n + 1 + i - 1]
    BY <2>1, <2>2, SubSeqProperties
  <2> HIDE DEF f
  <2> QED BY <2>3, <1>1, <1>3 DEF f
<1> QED BY <1>1, <1>3, <1>4, <1>5 DEF n

\* What Unmount puts back: the streams of the mount, behind the others.
LEMMA Returned ==
  ASSUME Placed, NEW m \in Mounts
  PROVE  LET f == free \o streams[m] IN
           /\ Len(free) \in Nat /\ Len(streams[m]) \in Nat
           /\ f \in Seq(Id) /\ Len(f) = Len(free) + Len(streams[m])
           /\ \A i \in 1 .. Len(free) + Len(streams[m]) :
                f[i] = IF i <= Len(free) THEN free[i] ELSE streams[m][i - Len(free)]
<1>1. free \in Seq(Id) /\ streams[m] \in Seq(Id)
  BY DEF Placed, FifoOnce, HeldOnce
<1> QED BY <1>1, ConcatProperties, LenProperties

LEMMA MountPlaced ==
  ASSUME Placed, NEW m \in Mounts, Mount(m)
  PROVE  Placed'
<1> DEFINE n == Least(Least(wanted[m], NrStreams), Len(free))
<1>1. /\ n \in 1 .. Len(free) /\ Len(free) \in Nat
      /\ free' \in Seq(Id) /\ Len(free') = Len(free) - n
      /\ \A i \in 1 .. Len(free) - n : free'[i] = free[n + i]
      /\ streams' = [streams EXCEPT ![m] = SubSeq(free, 1, n)]
      /\ SubSeq(free, 1, n) \in Seq(Id) /\ Len(SubSeq(free, 1, n)) = n
      /\ \A i \in 1 .. n : SubSeq(free, 1, n)[i] = free[i]
      /\ Len(streams[m]) = 0 /\ wanted' = wanted
  BY Handed DEF Mount, Nr
<1> HIDE DEF n
<1>2. /\ streams' \in [Mounts -> Seq(Id)] /\ Len(streams'[m]) = n
      /\ \A i \in 1 .. n : streams'[m][i] = free[i]
      /\ \A k \in Mounts \ {m} : streams'[k] = streams[k]
  BY <1>1 DEF Placed, HeldOnce
<1>3. FifoOnce'
  <2> SUFFICES ASSUME NEW i \in 1 .. Len(free'), NEW j \in 1 .. Len(free'), free'[i] = free'[j]
               PROVE  i = j
    BY <1>1 DEF FifoOnce
  <2>1. n + i \in 1 .. Len(free) /\ n + j \in 1 .. Len(free) /\ free[n + i] = free[n + j]
    BY <1>1
  <2>2. n + i = n + j
    BY <2>1 DEF Placed, FifoOnce
  <2> QED BY <2>2, <1>1
<1>4. HeldOnce'
  <2> SUFFICES ASSUME NEW a \in Mounts, NEW k \in Mounts,
                      NEW i \in 1 .. Len(streams'[a]), NEW j \in 1 .. Len(streams'[k]),
                      streams'[a][i] = streams'[k][j]
               PROVE  a = k /\ i = j
    BY <1>2 DEF HeldOnce
  <2>1. CASE a # m /\ k # m
    BY <2>1, <1>2 DEF Placed, HeldOnce
  <2>2. CASE a = m /\ k = m
    BY <2>2, <1>1, <1>2 DEF Placed, FifoOnce
  <2>3. CASE a = m /\ k # m
    <3>1. i \in 1 .. Len(free) /\ free[i] = streams[k][j] /\ j \in 1 .. Len(streams[k])
      BY <2>3, <1>1, <1>2
    <3> QED BY <3>1 DEF Placed, Apart
  <2>4. CASE a # m /\ k = m
    <3>1. j \in 1 .. Len(free) /\ streams[a][i] = free[j] /\ i \in 1 .. Len(streams[a])
      BY <2>4, <1>1, <1>2
    <3> QED BY <3>1 DEF Placed, Apart
  <2> QED BY <2>1, <2>2, <2>3, <2>4
<1>5. Apart'
  <2> SUFFICES ASSUME NEW k \in Mounts, NEW i \in 1 .. Len(streams'[k]), NEW j \in 1 .. Len(free'),
                      streams'[k][i] = free'[j]
               PROVE  FALSE
    BY DEF Apart
  <2>1. n + j \in 1 .. Len(free) /\ free'[j] = free[n + j]
    BY <1>1
  <2>2. CASE k = m
    <3>1. i \in 1 .. n /\ i \in 1 .. Len(free) /\ free[i] = free[n + j] /\ i # n + j
      BY <2>1, <2>2, <1>1, <1>2
    <3> QED BY <3>1, <2>1 DEF Placed, FifoOnce
  <2>3. CASE k # m
    <3>1. i \in 1 .. Len(streams[k]) /\ streams[k][i] = free[n + j]
      BY <2>1, <2>3, <1>2
    <3> QED BY <3>1, <2>1 DEF Placed, Apart
  <2> QED BY <2>2, <2>3
<1>6. NoneLost'
  <2> SUFFICES ASSUME NEW s \in Id
               PROVE  \/ \E i \in 1 .. Len(free') : free'[i] = s
                      \/ \E k \in Mounts : \E i \in 1 .. Len(streams'[k]) : streams'[k][i] = s
    BY DEF NoneLost
  <2>1. CASE \E i \in 1 .. Len(free) : free[i] = s
    <3>1. PICK i \in 1 .. Len(free) : free[i] = s
      BY <2>1
    <3>2. CASE i <= n
      <4>1. i \in 1 .. Len(streams'[m]) /\ streams'[m][i] = s
        BY <3>1, <3>2, <1>1, <1>2
      <4> QED BY <4>1
    <3>3. CASE i > n
      <4>1. i - n \in 1 .. Len(free') /\ free'[i - n] = s
        BY <3>1, <3>3, <1>1
      <4> QED BY <4>1
    <3> QED BY <3>2, <3>3, <1>1
  <2>2. CASE \E k \in Mounts : \E i \in 1 .. Len(streams[k]) : streams[k][i] = s
    <3>1. PICK k \in Mounts : \E i \in 1 .. Len(streams[k]) : streams[k][i] = s
      BY <2>2
    <3>2. k # m
      BY <3>1, <1>1
    <3> QED BY <3>1, <3>2, <1>2
  <2> QED BY <2>1, <2>2 DEF Placed, NoneLost
<1> QED BY <1>1, <1>3, <1>4, <1>5, <1>6 DEF Placed
LEMMA UnmountPlaced ==
  ASSUME Placed, NEW m \in Mounts, Unmount(m)
  PROVE  Placed'
<1>1. /\ Len(free) \in Nat /\ Len(streams[m]) \in Nat
      /\ free' \in Seq(Id) /\ Len(free') = Len(free) + Len(streams[m])
      /\ \A i \in 1 .. Len(free) + Len(streams[m]) :
           free'[i] = IF i <= Len(free) THEN free[i] ELSE streams[m][i - Len(free)]
      /\ streams' = [streams EXCEPT ![m] = <<>>] /\ wanted' = wanted
  BY Returned DEF Unmount
<1>2. /\ streams' \in [Mounts -> Seq(Id)] /\ Len(streams'[m]) = 0
      /\ \A k \in Mounts \ {m} : streams'[k] = streams[k]
  <2>1. <<>> \in Seq(Id) /\ Len(<<>>) = 0
    BY EmptySeq
  <2> QED BY <1>1, <2>1 DEF Placed, HeldOnce
\* Each position of the new FIFO is one of the old FIFO or of the mount.
<1>3. ASSUME NEW i \in 1 .. Len(free')
      PROVE  \/ i \in 1 .. Len(free) /\ free'[i] = free[i]
             \/ \E p \in 1 .. Len(streams[m]) : i = Len(free) + p /\ free'[i] = streams[m][p]
  <2>1. CASE i <= Len(free)
    BY <2>1, <1>1
  <2>2. CASE i > Len(free)
    <3>1. i - Len(free) \in 1 .. Len(streams[m]) /\ i = Len(free) + (i - Len(free))
      BY <2>2, <1>1
    <3>2. free'[i] = streams[m][i - Len(free)]
      BY <2>2, <1>1
    <3> QED BY <3>1, <3>2
  <2> QED BY <2>1, <2>2, <1>1
<1>4. FifoOnce'
  <2> SUFFICES ASSUME NEW i \in 1 .. Len(free'), NEW j \in 1 .. Len(free'), free'[i] = free'[j]
               PROVE  i = j
    BY Zenon, <1>1 DEF FifoOnce
  <2>1. CASE i \in 1 .. Len(free) /\ free'[i] = free[i]
    <3>1. CASE j \in 1 .. Len(free) /\ free'[j] = free[j]
      BY Zenon, <2>1, <3>1 DEF Placed, FifoOnce
    <3>2. CASE \E p \in 1 .. Len(streams[m]) : j = Len(free) + p /\ free'[j] = streams[m][p]
      BY Zenon, <2>1, <3>2 DEF Placed, Apart
    <3> QED BY Zenon, <3>1, <3>2, <1>3
  <2>2. CASE \E p \in 1 .. Len(streams[m]) : i = Len(free) + p /\ free'[i] = streams[m][p]
    <3>1. CASE j \in 1 .. Len(free) /\ free'[j] = free[j]
      BY <2>2, <3>1 DEF Placed, Apart
    <3>2. CASE \E p \in 1 .. Len(streams[m]) : j = Len(free) + p /\ free'[j] = streams[m][p]
      <4>1. PICK p \in 1 .. Len(streams[m]) : i = Len(free) + p /\ free'[i] = streams[m][p]
        BY <2>2
      <4>2. PICK q \in 1 .. Len(streams[m]) : j = Len(free) + q /\ free'[j] = streams[m][q]
        BY <3>2
      <4>3. p = q
        BY <4>1, <4>2 DEF Placed, HeldOnce
      <4> QED BY <4>1, <4>2, <4>3
    <3> QED BY Zenon, <3>1, <3>2, <1>3
  <2> QED BY Zenon, <2>1, <2>2, <1>3
<1>5. HeldOnce'
  <2> SUFFICES ASSUME NEW a \in Mounts, NEW k \in Mounts,
                      NEW i \in 1 .. Len(streams'[a]), NEW j \in 1 .. Len(streams'[k]),
                      streams'[a][i] = streams'[k][j]
               PROVE  a = k /\ i = j
    BY <1>2 DEF HeldOnce
  <2>1. a # m /\ k # m
    BY <1>2
  <2> QED BY <2>1, <1>2 DEF Placed, HeldOnce
<1>6. Apart'
  <2> SUFFICES ASSUME NEW k \in Mounts, NEW i \in 1 .. Len(streams'[k]), NEW j \in 1 .. Len(free'),
                      streams'[k][i] = free'[j]
               PROVE  FALSE
    BY DEF Apart
  <2>1. k # m /\ i \in 1 .. Len(streams[k]) /\ streams[k][i] = free'[j]
    BY <1>2
  <2>2. CASE j \in 1 .. Len(free) /\ free'[j] = free[j]
    BY <2>1, <2>2 DEF Placed, Apart
  <2>3. CASE \E p \in 1 .. Len(streams[m]) : j = Len(free) + p /\ free'[j] = streams[m][p]
    BY <2>1, <2>3 DEF Placed, HeldOnce
  <2> QED BY <2>2, <2>3, <1>3
<1>7. NoneLost'
  <2> SUFFICES ASSUME NEW s \in Id
               PROVE  \/ \E i \in 1 .. Len(free') : free'[i] = s
                      \/ \E k \in Mounts : \E i \in 1 .. Len(streams'[k]) : streams'[k][i] = s
    BY DEF NoneLost
  <2>1. CASE \E i \in 1 .. Len(free) : free[i] = s
    <3>1. PICK i \in 1 .. Len(free) : free[i] = s
      BY <2>1
    <3>2. i \in 1 .. Len(free') /\ free'[i] = s
      BY <3>1, <1>1
    <3> QED BY <3>2
  <2>2. CASE \E k \in Mounts : \E i \in 1 .. Len(streams[k]) : streams[k][i] = s
    <3>1. PICK k \in Mounts : \E i \in 1 .. Len(streams[k]) : streams[k][i] = s
      BY <2>2
    <3>2. CASE k # m
      BY <3>1, <3>2, <1>2
    <3>3. CASE k = m
      <4>1. PICK i \in 1 .. Len(streams[m]) : streams[m][i] = s
        BY <3>1, <3>3
      <4>2. /\ Len(free) + i \in 1 .. Len(free') /\ ~ (Len(free) + i <= Len(free))
            /\ (Len(free) + i) - Len(free) = i
        BY <4>1, <1>1
      <4>3. free'[Len(free) + i] = s
        BY <4>1, <4>2, <1>1
      <4> QED BY <4>2, <4>3
    <3> QED BY <3>2, <3>3
  <2> QED BY <2>1, <2>2 DEF Placed, NoneLost
<1> QED BY <1>1, <1>4, <1>5, <1>6, <1>7 DEF Placed

\* The other steps move no stream.
LEMMA OthersMoveNone ==
  ASSUME \/ \E s \in Id : ResetStream(s)
         \/ \E t \in Threads : \/ \E m \in Mounts, c \in 0 .. NrCpus - 1 : GetFreeStream(t, m, c)
                               \/ Fsync(t)
         \/ UNCHANGED vars
  PROVE  UNCHANGED <<wanted, free, streams>>
BY Zenon DEF ResetStream, GetFreeStream, Fsync, TryLock, TryNext, WaitLock, Take, PutStream, vars

LEMMA PlacedAlways == Spec => []Placed
<1>1. Init => Placed
  <2> SUFFICES ASSUME Init PROVE Placed
    OBVIOUS
  <2>1. /\ NrStreams \in Nat /\ free = [i \in 1 .. NrStreams |-> i - 1]
        /\ \A i \in 1 .. NrStreams : i - 1 \in Id
    BY StreamsAssumption DEF Init, Id
  <2>2. free \in Seq(Id) /\ Len(free) = NrStreams /\ \A i \in 1 .. NrStreams : free[i] = i - 1
    BY <2>1
  <2>3. FifoOnce
    BY <2>1, <2>2 DEF FifoOnce
  <2>4. streams \in [Mounts -> Seq(Id)] /\ \A m \in Mounts : Len(streams[m]) = 0
    BY EmptySeq DEF Init
  <2>5. HeldOnce /\ Apart
    BY <2>4 DEF HeldOnce, Apart
  <2>6. NoneLost
    <3> SUFFICES ASSUME NEW s \in Id PROVE \E i \in 1 .. Len(free) : free[i] = s
      BY DEF NoneLost
    <3>1. s + 1 \in 1 .. Len(free) /\ free[s + 1] = s
      BY <2>1, <2>2 DEF Id
    <3> QED BY <3>1
  <2>7. wanted \in [Mounts -> Nat \ {0}]
    BY StreamsAssumption DEF Init
  <2> QED BY <2>3, <2>5, <2>6, <2>7 DEF Placed
<1>2. Placed /\ [Next]_vars => Placed'
  <2> SUFFICES ASSUME Placed, [Next]_vars PROVE Placed'
    OBVIOUS
  <2>1. ASSUME NEW m \in Mounts, Mount(m) PROVE Placed'
    BY <2>1, MountPlaced
  <2>2. ASSUME NEW m \in Mounts, Unmount(m) PROVE Placed'
    BY <2>2, UnmountPlaced
  <2>3. CASE UNCHANGED <<wanted, free, streams>>
    BY <2>3 DEF Placed, FifoOnce, HeldOnce, Apart, NoneLost
  <2> QED BY <2>1, <2>2, <2>3, OthersMoveNone DEF Next
<1> QED BY <1>1, <1>2, PTL DEF Spec

\* Each stream id is in the FIFO or with one mount, exactly once, whatever the
\* mounts ask for and in whatever order they come and go.
THEOREM Conserved == Spec => []StreamsConserved
<1>1. Placed => StreamsConserved
  <2> SUFFICES ASSUME Placed, NEW s \in Id
               PROVE  LET held(m) == Cardinality({i \in DOMAIN streams[m] : streams[m][i] = s})
                          inFifo == Cardinality({i \in DOMAIN free : free[i] = s})
                      IN  \/ inFifo = 1 /\ \A m \in Mounts : held(m) = 0
                          \/ inFifo = 0 /\ \E m \in Mounts :
                               held(m) = 1 /\ \A k \in Mounts \ {m} : held(k) = 0
    BY DEF StreamsConserved
  <2> DEFINE at_(q) == {i \in DOMAIN q : q[i] = s}
  <2>1. DOMAIN free = 1 .. Len(free) /\ \A m \in Mounts : DOMAIN streams[m] = 1 .. Len(streams[m])
    BY LenProperties DEF Placed, FifoOnce, HeldOnce
  <2>2. Cardinality({}) = 0 /\ \A x : Cardinality({x}) = 1
    BY FS_EmptySet, FS_Singleton
  <2>3. CASE \E i \in 1 .. Len(free) : free[i] = s
    <3>1. PICK i \in 1 .. Len(free) : free[i] = s
      BY <2>3
    <3>2. at_(free) = {i}
      BY <3>1, <2>1 DEF Placed, FifoOnce
    <3>3. \A m \in Mounts : at_(streams[m]) = {}
      BY <3>1, <2>1 DEF Placed, Apart
    <3> QED BY Zenon, <3>2, <3>3, <2>2
  <2>4. CASE ~ \E i \in 1 .. Len(free) : free[i] = s
    <3>1. PICK m \in Mounts : \E i \in 1 .. Len(streams[m]) : streams[m][i] = s
      BY <2>4 DEF Placed, NoneLost
    <3>2. PICK i \in 1 .. Len(streams[m]) : streams[m][i] = s
      BY <3>1
    <3>3. at_(free) = {}
      BY <2>4, <2>1
    <3>4. at_(streams[m]) = {i}
      BY <3>2, <2>1 DEF Placed, HeldOnce
    <3>5. \A k \in Mounts \ {m} : at_(streams[k]) = {}
      BY <3>2, <2>1 DEF Placed, HeldOnce
    <3> QED BY Zenon, <3>3, <3>4, <3>5, <2>2
  <2> QED BY Zenon, <2>3, <2>4
<1> QED BY <1>1, PlacedAlways, PTL
-----------------------------------------------------------------------------
(* Remainders.                                                             *)

LEMMA Remainder ==
  ASSUME NEW a \in Nat, NEW w \in Nat \ {0}
  PROVE  /\ a = w * (a \div w) + (a % w)
         /\ a % w \in 0 .. w - 1 /\ a \div w \in Nat
OBVIOUS

LEMMA RemainderUnique ==
  ASSUME NEW a \in Nat, NEW w \in Nat \ {0}, NEW q \in Nat, NEW r \in 0 .. w - 1,
         a = w * q + r
  PROVE  a % w = r
<1> DEFINE p == a \div w
<1>1. a = w * p + (a % w) /\ a % w \in 0 .. w - 1 /\ p \in Nat
  BY Zenon, Remainder
<1> HIDE DEF p
<1>2. ASSUME NEW x \in Nat, NEW y \in Nat, x > y PROVE w * x >= w * y + w
  <2>1. x - y \in Nat \ {0} /\ x = y + (x - y)
    BY <1>2
  <2>2. ASSUME NEW d \in Nat \ {0} PROVE w * (y + d) = w * y + w * d /\ w * d >= w
    OBVIOUS
  <2>3. w * (y + (x - y)) = w * y + w * (x - y) /\ w * (x - y) >= w
    BY <2>1, <2>2
  <2> QED BY <2>1, <2>3
<1>3. w * p \in Nat /\ w * q \in Nat
  BY <1>1
<1>4. ~ p > q /\ ~ q > p
  BY <1>1, <1>2, <1>3
<1>5. p = q
  BY <1>1, <1>4
<1> QED BY <1>1, <1>3, <1>5

LEMMA RemainderAdd ==
  ASSUME NEW a \in Nat, NEW b \in Nat, NEW w \in Nat \ {0}, b % w = 0
  PROVE  (b + a) % w = a % w
<1> DEFINE q == a \div w
           p == b \div w
<1>1. a = w * q + (a % w) /\ a % w \in 0 .. w - 1 /\ q \in Nat
  BY Zenon, Remainder
<1>2. b = w * p + (b % w) /\ p \in Nat
  BY Remainder
<1> HIDE DEF p, q
<1>3. w * (p + q) = w * p + w * q /\ w * p \in Nat /\ w * q \in Nat /\ p + q \in Nat
  BY <1>1, <1>2
<1>4. b + a = w * (p + q) + (a % w) /\ b + a \in Nat
  <2> DEFINE P == w * p
             Q == w * q
             r == a % w
  <2>1. a = Q + r /\ b = P /\ w * (p + q) = P + Q /\ P \in Nat /\ Q \in Nat /\ r \in Nat
    BY <1>1, <1>2, <1>3
  <2> HIDE DEF P, Q, r
  <2>2. b + a = (P + Q) + r /\ b + a \in Nat
    BY <2>1
  <2> QED BY <2>1, <2>2 DEF r
<1> DEFINE c == b + a
           r == a % w
           u == p + q
<1>5. c \in Nat /\ u \in Nat /\ r \in 0 .. w - 1 /\ c = w * u + r
  BY <1>1, <1>3, <1>4
<1> HIDE DEF c, r, u
<1>6. c % w = r
  BY <1>5, RemainderUnique
<1> QED BY <1>6 DEF c, r

LEMMA RemainderSmall ==
  ASSUME NEW w \in Nat \ {0}, NEW a \in 0 .. w - 1
  PROVE  a % w = a
<1>1. a \in Nat /\ a = w * 0 + a
  OBVIOUS
<1> QED BY <1>1, RemainderUnique

\* A multiple of w that is not zero is at least w, and w less is a multiple.
LEMMA Multiple ==
  ASSUME NEW w \in Nat \ {0}, NEW a \in Nat \ {0}, a % w = 0
  PROVE  w <= a /\ (a - w) % w = 0
<1>1. w <= a
  <2>1. CASE a < w
    BY <2>1, RemainderSmall
  <2> QED BY <2>1
<1>2. w % w = 0
  <2>1. w = w * 1 + 0 /\ 0 \in 0 .. w - 1 /\ w \in Nat
    OBVIOUS
  <2> QED BY <2>1, RemainderUnique
<1>3. a - w \in Nat /\ w + (a - w) = a
  BY <1>1
<1>4. (w + (a - w)) % w = (a - w) % w
  BY Zenon, <1>2, <1>3, RemainderAdd
<1> QED BY <1>1, <1>3, <1>4
-----------------------------------------------------------------------------
(* Where the options are aligned, position and id agree modulo them ...    *)

Grid ==
  \A k \in Mounts :
    /\ Len(free) % wanted[k] = 0
    /\ \A i \in 1 .. Len(free) : free[i] % wanted[k] = (i - 1) % wanted[k]
    /\ Len(streams[k]) \in {0, wanted[k]}
    /\ \A i \in 1 .. Len(streams[k]) : streams[k][i] % wanted[k] = i - 1

LEMMA MountGrid ==
  ASSUME Placed, Aligned, Grid, NEW m \in Mounts, Mount(m)
  PROVE  Grid'
<1> DEFINE n == Least(Least(wanted[m], NrStreams), Len(free))
           w == wanted[m]
<1>1. /\ n \in 1 .. Len(free) /\ Len(free) \in Nat
      /\ Len(free') = Len(free) - n
      /\ \A i \in 1 .. Len(free) - n : free'[i] = free[n + i]
      /\ streams' = [streams EXCEPT ![m] = SubSeq(free, 1, n)]
      /\ Len(SubSeq(free, 1, n)) = n
      /\ \A i \in 1 .. n : SubSeq(free, 1, n)[i] = free[i]
      /\ wanted' = wanted
  BY Handed DEF Mount, Nr
<1>2. w \in Nat \ {0} /\ \A k \in Mounts : wanted[k] = w
  BY DEF Placed, Aligned
<1>3. Len(free) \in Nat \ {0} /\ Len(free) % w = 0
  BY <1>1 DEF Grid
<1>4. w <= Len(free) /\ (Len(free) - w) % w = 0
  BY <1>2, <1>3, Multiple
<1>5. w <= NrStreams
  BY <1>2, StreamsAssumption, Multiple DEF Aligned
<1>6. n = w
  BY <1>1, <1>2, <1>4, <1>5, StreamsAssumption DEF Least
<1> HIDE DEF n, w
<1>7. ASSUME NEW i \in 1 .. Len(free')
      PROVE  free'[i] % w = (i - 1) % w
  <2>1. n + i \in 1 .. Len(free) /\ free'[i] = free[n + i]
    BY <1>1
  <2>2. free[n + i] % w = ((n + i) - 1) % w
    BY <2>1 DEF Grid, w
  <2>3. w % w = 0
    <3>1. w = w * 1 + 0 /\ 0 \in 0 .. w - 1 /\ w \in Nat
      BY <1>2
    <3> QED BY <1>2, <3>1, RemainderUnique
  <2>4. i - 1 \in Nat /\ (n + i) - 1 = w + (i - 1)
    BY <1>1, <1>2, <1>6
  <2>5. (w + (i - 1)) % w = (i - 1) % w
    BY Zenon, <1>2, <2>3, <2>4, RemainderAdd
  <2> QED BY <2>1, <2>2, <2>4, <2>5
<1>8. ASSUME NEW i \in 1 .. n
      PROVE  SubSeq(free, 1, n)[i] % w = i - 1
  <2>1. i \in 1 .. Len(free) /\ i - 1 \in 0 .. w - 1
    BY <1>1, <1>2, <1>6
  <2>2. (i - 1) % w = i - 1
    BY <1>2, <2>1, RemainderSmall
  <2> QED BY <1>1, <2>1, <2>2 DEF Grid, w
<1>9. Len(free') % w = 0
  BY <1>1, <1>4, <1>6
<1> SUFFICES ASSUME NEW k \in Mounts
             PROVE  /\ Len(streams'[k]) \in {0, w}
                    /\ \A i \in 1 .. Len(streams'[k]) : streams'[k][i] % w = i - 1
  <2>1. \A k \in Mounts : wanted'[k] = w
    BY <1>1, <1>2
  <2>2. \A i \in 1 .. Len(free') : free'[i] % w = (i - 1) % w
    BY <1>7
  <2> QED BY <1>9, <2>1, <2>2 DEF Grid
<1>10. CASE k = m
  <2>1. streams'[k] = SubSeq(free, 1, n)
    BY <1>1, <1>10 DEF Placed, HeldOnce
  <2> QED BY <1>1, <1>6, <1>8, <2>1
<1>11. CASE k # m
  <2>1. streams'[k] = streams[k]
    BY <1>1, <1>11 DEF Placed, HeldOnce
  <2> QED BY <1>2, <2>1 DEF Grid
<1> QED BY <1>10, <1>11

LEMMA UnmountGrid ==
  ASSUME Placed, Aligned, Grid, NEW m \in Mounts, Unmount(m)
  PROVE  Grid'
<1> DEFINE w == wanted[m]
           l == Len(free)
<1>1. /\ l \in Nat /\ Len(streams[m]) \in Nat
      /\ Len(free') = l + Len(streams[m])
      /\ \A i \in 1 .. l + Len(streams[m]) :
           free'[i] = IF i <= l THEN free[i] ELSE streams[m][i - l]
      /\ streams' = [streams EXCEPT ![m] = <<>>] /\ wanted' = wanted
      /\ Len(streams[m]) > 0
  BY Returned DEF Unmount, Nr
<1>2. w \in Nat \ {0} /\ \A k \in Mounts : wanted[k] = w
  BY DEF Placed, Aligned
<1>3. l % w = 0 /\ Len(streams[m]) = w
  BY <1>1 DEF Grid
<1> HIDE DEF w, l
<1>4. Len(free') % w = 0
  <2>1. w % w = 0
    <3>1. w = w * 1 + 0 /\ 0 \in 0 .. w - 1 /\ w \in Nat
      BY <1>2
    <3> QED BY <1>2, <3>1, RemainderUnique
  <2>2. (l + w) % w = w % w
    BY Zenon, <1>1, <1>2, <1>3, RemainderAdd
  <2> QED BY <1>1, <1>3, <2>1, <2>2
<1>5. ASSUME NEW i \in 1 .. Len(free')
      PROVE  free'[i] % w = (i - 1) % w
  <2>1. CASE i <= l
    <3>1. i \in 1 .. l /\ free'[i] = free[i]
      BY <1>1, <2>1
    <3> QED BY <3>1 DEF Grid, w, l
  <2>2. CASE i > l
    <3> DEFINE p == i - l
    <3>1. p \in 1 .. Len(streams[m]) /\ i - 1 = l + (p - 1) /\ p - 1 \in 0 .. w - 1
      BY <1>1, <1>2, <1>3, <2>2
    <3>2. free'[i] = streams[m][p]
      BY <1>1, <2>2
    <3> HIDE DEF p
    <3>3. streams[m][p] % w = p - 1
      BY Zenon, <3>1 DEF Grid, w
    <3> DEFINE a == p - 1
    <3>4. a \in Nat /\ a \in 0 .. w - 1
      BY <1>2, <3>1
    <3> HIDE DEF a
    <3>5. (l + a) % w = a % w
      <4>1. l \in Nat /\ l % w = 0 /\ w \in Nat \ {0} /\ a \in Nat
        BY <1>1, <1>2, <1>3, <3>4
      <4> QED BY ONLY <4>1, RemainderAdd, Zenon
    <3>6. a % w = a
      BY <1>2, <3>4, RemainderSmall
    <3> QED BY <3>1, <3>2, <3>3, <3>5, <3>6 DEF a
  <2> QED BY <2>1, <2>2, <1>1
<1> SUFFICES ASSUME NEW k \in Mounts
             PROVE  /\ Len(streams'[k]) \in {0, w}
                    /\ \A i \in 1 .. Len(streams'[k]) : streams'[k][i] % w = i - 1
  <2>1. \A k \in Mounts : wanted'[k] = w
    BY <1>1, <1>2
  <2>2. \A i \in 1 .. Len(free') : free'[i] % w = (i - 1) % w
    BY <1>5
  <2> QED BY <1>4, <2>1, <2>2 DEF Grid
<1>6. CASE k = m
  <2>1. Len(streams'[k]) = 0
    BY <1>1, <1>6, EmptySeq DEF Placed, HeldOnce
  <2> QED BY <2>1
<1>7. CASE k # m
  <2>1. streams'[k] = streams[k]
    BY <1>1, <1>7 DEF Placed, HeldOnce
  <2> QED BY <1>2, <2>1 DEF Grid
<1> QED BY <1>6, <1>7
-----------------------------------------------------------------------------
(* ... so that put_stream opens the lock get_free_stream has closed.       *)

Asking == [pc : {"try", "wait"}, mount : Mounts, i : Nat, left : Int]
Owning == [pc : {"own"}, mount : Mounts, id : Id]

\* A thread in a call is at a position of a mounted file system; one that owns
\* a stream holds the lock at the position where the mount has that stream.
WellPlaced(t) ==
  \/ at[t] = Idle
  \/ at[t] \in Asking /\ at[t].i \in 1 .. Len(streams[at[t].mount])
  \/ /\ at[t] \in Owning
     /\ \E i \in 1 .. Len(streams[at[t].mount]) :
          at[t].id = streams[at[t].mount][i] /\ lock[at[t].mount][i] = t

Locks ==
  /\ DOMAIN at = Threads /\ at = [t \in Threads |-> at[t]]
  /\ lock = [m \in Mounts |-> lock[m]]
  /\ \A m \in Mounts : lock[m] \in [1 .. Len(streams[m]) -> Threads \cup {NoThread}]
  /\ \A t \in Threads : WellPlaced(t)

LEMMA MountLocks ==
  ASSUME Placed, Locks, NEW m \in Mounts, Mount(m)
  PROVE  Locks'
<1> DEFINE n == Least(Least(wanted[m], NrStreams), Len(free))
<1>1. /\ streams' = [streams EXCEPT ![m] = SubSeq(free, 1, n)]
      /\ lock' = [lock EXCEPT ![m] = [i \in 1 .. n |-> NoThread]]
      /\ Len(SubSeq(free, 1, n)) = n /\ Len(streams[m]) = 0 /\ at' = at
  BY Handed DEF Mount, Nr
<1> HIDE DEF n
<1>2. /\ Len(streams'[m]) = n /\ lock'[m] = [i \in 1 .. n |-> NoThread]
      /\ \A k \in Mounts \ {m} : streams'[k] = streams[k] /\ lock'[k] = lock[k]
  BY Zenon, <1>1 DEF Placed, HeldOnce, Locks
<1>3. lock' = [k \in Mounts |-> lock'[k]]
  BY Zenon, <1>1 DEF Locks
<1>4. \A k \in Mounts : lock'[k] \in [1 .. Len(streams'[k]) -> Threads \cup {NoThread}]
  BY <1>2 DEF Locks
<1>5. ASSUME NEW t \in Threads PROVE WellPlaced(t)'
  <2>1. WellPlaced(t)
    BY DEF Locks
  <2>2. CASE at[t] = Idle
    BY <2>2, <1>1 DEF WellPlaced
  <2>3. CASE at[t] \in Asking /\ at[t].i \in 1 .. Len(streams[at[t].mount])
    <3>1. at[t].mount \in Mounts \ {m}
      BY <2>3, <1>1 DEF Asking
    <3> QED BY <2>3, <3>1, <1>1, <1>2 DEF WellPlaced
  <2>4. CASE /\ at[t] \in Owning
             /\ \E i \in 1 .. Len(streams[at[t].mount]) :
                  at[t].id = streams[at[t].mount][i] /\ lock[at[t].mount][i] = t
    <3>1. at[t].mount \in Mounts \ {m}
      BY <2>4, <1>1 DEF Owning
    <3> QED BY <2>4, <3>1, <1>1, <1>2 DEF WellPlaced
  <2> QED BY <2>1, <2>2, <2>3, <2>4 DEF WellPlaced
<1> QED BY Zenon, <1>1, <1>3, <1>4, <1>5 DEF Locks

LEMMA UnmountLocks ==
  ASSUME Placed, Locks, NEW m \in Mounts, Unmount(m)
  PROVE  Locks'
<1>1. /\ streams' = [streams EXCEPT ![m] = <<>>] /\ lock' = [lock EXCEPT ![m] = <<>>]
      /\ at' = at /\ NobodyIn(m)
  BY DEF Unmount
<1>2. /\ streams'[m] = <<>> /\ lock'[m] = <<>>
      /\ \A k \in Mounts \ {m} : streams'[k] = streams[k] /\ lock'[k] = lock[k]
  BY <1>1 DEF Placed, HeldOnce, Locks
<1>3. lock' = [k \in Mounts |-> lock'[k]]
  BY <1>1 DEF Locks
<1>4. \A k \in Mounts : lock'[k] \in [1 .. Len(streams'[k]) -> Threads \cup {NoThread}]
  <2>1. <<>> \in [1 .. Len(<<>>) -> Threads \cup {NoThread}]
    BY EmptySeq, LenProperties
  <2> QED BY Zenon, <1>2, <2>1 DEF Locks
<1>5. ASSUME NEW t \in Threads PROVE WellPlaced(t)'
  <2>1. WellPlaced(t)
    BY DEF Locks
  <2>2. CASE at[t] = Idle
    BY <2>2, <1>1 DEF WellPlaced
  <2>3. CASE at[t] # Idle
    <3>1. at[t].mount \in Mounts \ {m}
      <4>1. at[t] \in Asking \/ at[t] \in Owning
        BY <2>1, <2>3 DEF WellPlaced
      <4>2. at[t].mount \in Mounts
        BY <4>1 DEF Asking, Owning
      <4> QED BY <2>3, <4>2, <1>1 DEF NobodyIn
    <3> QED BY <2>1, <2>3, <3>1, <1>1, <1>2 DEF WellPlaced
  <2> QED BY <2>2, <2>3
<1> QED BY <1>1, <1>3, <1>4, <1>5 DEF Locks

\* A step that leaves the streams alone, changes one thread's place and no
\* lock that another thread owns a stream by.
LEMMA ThreadLocks ==
  ASSUME Locks, NEW t \in Threads, streams' = streams,
         at' = [at EXCEPT ![t] = at'[t]],
         lock' = [m \in Mounts |-> lock'[m]],
         \A m \in Mounts : lock'[m] \in [1 .. Len(streams[m]) -> Threads \cup {NoThread}],
         \A m \in Mounts : \A i \in 1 .. Len(streams[m]) :
           lock[m][i] \in Threads \ {t} => lock'[m][i] = lock[m][i],
         WellPlaced(t)'
  PROVE  Locks'
<1>1. ASSUME NEW u \in Threads \ {t} PROVE WellPlaced(u)'
  <2>1. WellPlaced(u) /\ at'[u] = at[u]
    BY DEF Locks
  <2>2. CASE at[u] \in Owning
    <3> DEFINE m == at[u].mount
    <3>1. m \in Mounts /\ at[u].pc = "own"
      BY <2>2 DEF Owning
    <3>2. PICK i \in 1 .. Len(streams[m]) : at[u].id = streams[m][i] /\ lock[m][i] = u
      BY <2>1, <3>1 DEF WellPlaced, Asking, Idle
    <3>3. lock'[m][i] = u
      BY <3>1, <3>2
    <3> QED BY <2>1, <2>2, <3>2, <3>3 DEF WellPlaced
  <2>3. CASE at[u] \notin Owning
    BY <2>1, <2>3 DEF WellPlaced
  <2> QED BY <2>2, <2>3
<1>2. DOMAIN at' = Threads /\ at' = [u \in Threads |-> at'[u]]
  BY DEF Locks
<1> QED BY <1>1, <1>2 DEF Locks

LEMMA AskLocks ==
  ASSUME Placed, Locks, NEW t \in Threads, NEW m \in Mounts, NEW c \in Nat,
         GetFreeStream(t, m, c)
  PROVE  Locks'
<1> DEFINE a == [pc |-> "try", mount |-> m, i |-> (c % Nr(m)) + 1, left |-> Nr(m)]
<1>1. at' = [at EXCEPT ![t] = a] /\ at'[t] = a /\ streams' = streams /\ lock' = lock
  BY DEF GetFreeStream, Locks
<1>2. Len(streams[m]) \in Nat \ {0}
  BY LenProperties DEF GetFreeStream, Nr, Placed, HeldOnce
<1> DEFINE r == c % Len(streams[m])
<1>3. r \in 0 .. Len(streams[m]) - 1
  BY Zenon, <1>2, Remainder
<1>4. a \in Asking /\ a.i \in 1 .. Len(streams[a.mount])
  <2>1. a = [pc |-> "try", mount |-> m, i |-> r + 1, left |-> Len(streams[m])]
    BY DEF Nr
  <2> HIDE DEF r, a
  <2>2. r + 1 \in Nat /\ r + 1 \in 1 .. Len(streams[m]) /\ Len(streams[m]) \in Int
    BY <1>2, <1>3
  <2> QED BY <2>1, <2>2 DEF Asking
<1>5. WellPlaced(t)'
  BY <1>1, <1>4 DEF WellPlaced
<1> QED BY <1>1, <1>5, ThreadLocks DEF Locks

LEMMA NextLocks ==
  ASSUME Placed, Locks, NEW t \in Threads, TryNext(t)
  PROVE  Locks'
<1> DEFINE m == at[t].mount
           a == [pc |-> IF at[t].left = 1 THEN "wait" ELSE "try", mount |-> m,
                 i |-> (at[t].i % Nr(m)) + 1, left |-> at[t].left - 1]
<1>1. at' = [at EXCEPT ![t] = a] /\ at'[t] = a /\ streams' = streams /\ lock' = lock
  BY DEF TryNext, Locks
<1>2. at[t] \in Asking /\ at[t].i \in 1 .. Len(streams[m])
  BY DEF TryNext, Locks, WellPlaced, Owning, Idle
<1>3. m \in Mounts /\ at[t].i \in Nat /\ at[t].left \in Int
  BY <1>2 DEF Asking
<1>4. Len(streams[m]) \in Nat \ {0}
  BY <1>2, <1>3, LenProperties DEF Placed, HeldOnce
<1> DEFINE r == at[t].i % Len(streams[m])
<1>5. r \in 0 .. Len(streams[m]) - 1
  BY Zenon, <1>3, <1>4, Remainder
<1>6. a \in Asking /\ a.i \in 1 .. Len(streams[a.mount])
  <2> DEFINE pc == IF at[t].left = 1 THEN "wait" ELSE "try"
             left == at[t].left - 1
  <2>1. a = [pc |-> pc, mount |-> m, i |-> r + 1, left |-> left]
    BY DEF Nr
  <2>2. pc \in {"try", "wait"} /\ left \in Int
    BY <1>3
  <2> HIDE DEF r, a, pc, left
  <2>3. r + 1 \in Nat /\ r + 1 \in 1 .. Len(streams[m])
    BY <1>4, <1>5
  <2> QED BY <1>3, <2>1, <2>2, <2>3 DEF Asking
<1>7. WellPlaced(t)'
  BY <1>1, <1>6 DEF WellPlaced
<1> QED BY <1>1, <1>7, ThreadLocks DEF Locks

LEMMA TakeLocks ==
  ASSUME Placed, Locks, NEW t \in Threads, TryLock(t) \/ WaitLock(t)
  PROVE  Locks'
<1> DEFINE m == at[t].mount
           i == at[t].i
           a == [pc |-> "own", mount |-> m, id |-> streams[m][i]]
<1>1. /\ at' = [at EXCEPT ![t] = a] /\ at'[t] = a /\ streams' = streams
      /\ lock' = [lock EXCEPT ![m][i] = t] /\ lock[m][i] = NoThread
  BY DEF TryLock, WaitLock, Take, Locks
<1>2. at[t] \in Asking /\ i \in 1 .. Len(streams[m])
  BY DEF TryLock, WaitLock, Locks, WellPlaced, Owning, Idle
<1>3. m \in Mounts
  BY <1>2 DEF Asking
<1>4. streams[m][i] \in Id
  BY <1>2, <1>3, ElementOfSeq DEF Placed, HeldOnce
<1> HIDE DEF m, i
<1>5. /\ lock' = [k \in Mounts |-> lock'[k]]
      /\ lock'[m] = [lock[m] EXCEPT ![i] = t]
      /\ \A k \in Mounts \ {m} : lock'[k] = lock[k]
  BY Zenon, <1>1, <1>3 DEF Locks
<1>6. \A k \in Mounts : lock'[k] \in [1 .. Len(streams[k]) -> Threads \cup {NoThread}]
  <2>1. lock[m] \in [1 .. Len(streams[m]) -> Threads \cup {NoThread}]
    BY <1>3 DEF Locks
  <2>2. lock'[m] \in [1 .. Len(streams[m]) -> Threads \cup {NoThread}]
    BY Zenon, <1>5, <2>1
  <2> QED BY Zenon, <1>5, <2>2 DEF Locks
<1>7. \A k \in Mounts : \A j \in 1 .. Len(streams[k]) :
        lock[k][j] \in Threads \ {t} => lock'[k][j] = lock[k][j]
  BY <1>1, <1>3, <1>5, StreamsAssumption DEF Locks
<1>8. a \in Owning /\ a.mount = m /\ a.id = streams[m][i]
  BY <1>3, <1>4 DEF Owning
<1>9. lock'[m][i] = t
  BY <1>2, <1>3, <1>5 DEF Locks
<1> HIDE DEF a
<1>10. WellPlaced(t)'
  BY <1>1, <1>2, <1>8, <1>9 DEF WellPlaced
<1> QED BY Zenon, <1>1, <1>5, <1>6, <1>7, <1>10, ThreadLocks

\* The only step that needs the alignment.
LEMMA PutLocks ==
  ASSUME Placed, Aligned, Grid, Locks, NEW t \in Threads, PutStream(t)
  PROVE  Locks'
<1> DEFINE m == at[t].mount
           p == Position(m, at[t].id)
<1>1. /\ at' = [at EXCEPT ![t] = Idle] /\ at'[t] = Idle /\ streams' = streams
      /\ lock' = [lock EXCEPT ![m][p] = NoThread]
  BY DEF PutStream, Locks
<1>2. /\ at[t] \in Owning
      /\ \E i \in 1 .. Len(streams[m]) : at[t].id = streams[m][i] /\ lock[m][i] = t
  BY DEF PutStream, Locks, WellPlaced, Asking, Idle
<1>3. m \in Mounts
  BY <1>2 DEF Owning
<1>4. PICK i \in 1 .. Len(streams[m]) : at[t].id = streams[m][i] /\ lock[m][i] = t
  BY <1>2
<1>5. p = i
  <2>1. Len(streams[m]) = wanted[m] /\ streams[m][i] % wanted[m] = i - 1
    BY <1>3, <1>4 DEF Grid
  <2>2. Len(streams[m]) \in Nat
    BY <1>3, LenProperties DEF Placed, HeldOnce
  <2> QED BY <1>4, <2>1, <2>2 DEF Position, Nr
<1> HIDE DEF m, p
<1>6. /\ lock' = [k \in Mounts |-> lock'[k]]
      /\ lock'[m] = [lock[m] EXCEPT ![i] = NoThread]
      /\ \A k \in Mounts \ {m} : lock'[k] = lock[k]
  BY Zenon, <1>1, <1>3, <1>5 DEF Locks
<1>7. \A k \in Mounts : lock'[k] \in [1 .. Len(streams[k]) -> Threads \cup {NoThread}]
  <2>1. lock[m] \in [1 .. Len(streams[m]) -> Threads \cup {NoThread}]
    BY <1>3 DEF Locks
  <2>2. lock'[m] \in [1 .. Len(streams[m]) -> Threads \cup {NoThread}]
    BY <1>6, <2>1
  <2> QED BY Zenon, <1>6, <2>2 DEF Locks
<1>8. \A k \in Mounts : \A j \in 1 .. Len(streams[k]) :
        lock[k][j] \in Threads \ {t} => lock'[k][j] = lock[k][j]
  BY <1>3, <1>4, <1>6 DEF Locks
<1>9. WellPlaced(t)'
  BY <1>1 DEF WellPlaced, Idle
<1> QED BY Zenon, <1>1, <1>6, <1>7, <1>8, <1>9, ThreadLocks

LEMMA LocksAlways == Spec => [](Aligned => Grid /\ Locks)
<1>1. Init => (Aligned => Grid /\ Locks)
  <2> SUFFICES ASSUME Init, Aligned PROVE Grid /\ Locks
    OBVIOUS
  <2>1. /\ NrStreams \in Nat /\ Len(free) = NrStreams
        /\ \A i \in 1 .. NrStreams : free[i] = i - 1
    BY StreamsAssumption DEF Init
  <2>2. \A m \in Mounts : streams[m] = <<>> /\ Len(streams[m]) = 0 /\ lock[m] = <<>>
    BY EmptySeq DEF Init
  <2>3. Grid
    BY <2>1, <2>2 DEF Grid, Aligned
  <2>4. <<>> \in [1 .. Len(<<>>) -> Threads \cup {NoThread}]
    BY EmptySeq, LenProperties
  <2>5. \A m \in Mounts : lock[m] \in [1 .. Len(streams[m]) -> Threads \cup {NoThread}]
    BY Zenon, <2>2, <2>4
  <2>6. /\ DOMAIN at = Threads /\ at = [t \in Threads |-> at[t]]
        /\ lock = [m \in Mounts |-> lock[m]]
    BY DEF Init
  <2>7. \A t \in Threads : WellPlaced(t)
    BY DEF Init, WellPlaced
  <2> QED BY <2>3, <2>5, <2>6, <2>7 DEF Locks
<1>2. Placed /\ (Aligned => Grid /\ Locks) /\ [Next]_vars => (Aligned => Grid /\ Locks)'
  <2> SUFFICES ASSUME Placed, Aligned => Grid /\ Locks, [Next]_vars, Aligned'
               PROVE  Grid' /\ Locks'
    OBVIOUS
  <2>1. wanted' = wanted
    BY OthersMoveNone DEF Next, Mount, Unmount
  <2>2. Aligned /\ Grid /\ Locks
    BY <2>1 DEF Aligned
  <2>3. ASSUME NEW m \in Mounts, Mount(m) PROVE Grid' /\ Locks'
    BY <2>2, <2>3, MountGrid, MountLocks
  <2>4. ASSUME NEW m \in Mounts, Unmount(m) PROVE Grid' /\ Locks'
    BY <2>2, <2>4, UnmountGrid, UnmountLocks
  <2>5. CASE UNCHANGED <<wanted, free, streams>>
    <3>1. Grid'
      BY <2>2, <2>5 DEF Grid
    <3>2. ASSUME NEW t \in Threads, Fsync(t) PROVE Locks'
      BY <2>2, <3>2, TakeLocks, NextLocks, PutLocks DEF Fsync
    <3>3. ASSUME NEW t \in Threads, NEW m \in Mounts, NEW c \in 0 .. NrCpus - 1,
                 GetFreeStream(t, m, c)
          PROVE  Locks'
      <4>1. c \in Nat
        BY StreamsAssumption
      <4> QED BY <2>2, <3>3, <4>1, AskLocks
    <3>4. CASE UNCHANGED <<lock, at>>
      <4>1. \A t \in Threads : WellPlaced(t) => WellPlaced(t)'
        BY <2>5, <3>4 DEF WellPlaced
      <4> QED BY <2>2, <2>5, <3>1, <3>4, <4>1 DEF Locks
    <3>5. ASSUME NEW m \in Mounts, Mount(m) \/ Unmount(m) PROVE Locks'
      BY <2>3, <2>4, <3>5
    <3> QED BY <3>1, <3>2, <3>3, <3>4, <3>5 DEF Next, ResetStream, vars
  <2> QED BY <2>3, <2>4, <2>5, OthersMoveNone DEF Next
<1> QED BY <1>1, <1>2, PlacedAlways, PTL DEF Spec

\* Where every mount asks for as many streams and their number divides the
\* number of streams, no two threads are ever in ccNVMe with the same stream.
THEOREM ExclusiveWhenAligned == Spec => []AlignedExclusive
<1>1. Placed /\ (Aligned => Grid /\ Locks) => AlignedExclusive
  <2> SUFFICES ASSUME Placed, Locks, NEW t \in Threads, NEW u \in Threads,
                      at[t].pc = "own", at[u].pc = "own", at[t].id = at[u].id
               PROVE  t = u
    BY DEF AlignedExclusive, StreamExclusive
  <2>1. /\ at[t] \in Owning
        /\ \E i \in 1 .. Len(streams[at[t].mount]) :
             at[t].id = streams[at[t].mount][i] /\ lock[at[t].mount][i] = t
    BY DEF Locks, WellPlaced, Asking, Idle
  <2>2. /\ at[u] \in Owning
        /\ \E i \in 1 .. Len(streams[at[u].mount]) :
             at[u].id = streams[at[u].mount][i] /\ lock[at[u].mount][i] = u
    BY DEF Locks, WellPlaced, Asking, Idle
  <2> DEFINE m == at[t].mount
             k == at[u].mount
  <2>3. PICK i \in 1 .. Len(streams[m]) : at[t].id = streams[m][i] /\ lock[m][i] = t
    BY <2>1
  <2>4. PICK j \in 1 .. Len(streams[k]) : at[u].id = streams[k][j] /\ lock[k][j] = u
    BY <2>2
  <2>5. m \in Mounts /\ k \in Mounts
    BY <2>1, <2>2 DEF Owning
  <2>6. streams[m][i] = streams[k][j]
    BY Zenon, <2>3, <2>4
  <2> HIDE DEF m, k
  <2>7. m = k /\ i = j
    BY <2>3, <2>4, <2>5, <2>6 DEF Placed, HeldOnce
  <2> QED BY <2>3, <2>4, <2>7
<1> QED BY <1>1, PlacedAlways, LocksAlways, PTL
=============================================================================

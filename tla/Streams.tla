------------------------------ MODULE Streams -------------------------------
(***************************************************************************)
(* Who may use which stream.  ccNVMe keeps the ids of unused streams in a  *)
(* FIFO; a mount takes some of them and an unmount returns them            *)
(* (olayer_register_streams, olayer_unregister_streams).  Inside a mount   *)
(* every position of sbi->streams has a mutex, and fsync takes the first   *)
(* free one from the position of its CPU on (get_free_stream, put_stream). *)
(***************************************************************************)
EXTENDS Naturals, Sequences, FiniteSets, Functions

CONSTANTS
  NrStreams,  \* streams of ccNVMe
  Mounts,     \* file systems that can be mounted
  Options,    \* the nr_streams mount options they may have
  Threads,    \* threads that call fsync
  NrCpus,     \* CPUs they run on
  NoThread    \* "nobody holds the lock"

ASSUME StreamsAssumption ==
  /\ NrStreams \in Nat \ {0} /\ NrCpus \in Nat \ {0}
  /\ Options \subseteq [Mounts -> Nat \ {0}]
  /\ NoThread \notin Threads

VARIABLES
  wanted,   \* per mount: its nr_streams option
  free,     \* olayer->free_stream_q
  streams,  \* per mount: sbi->streams, empty when not mounted
  lock,     \* per mount: sbi->stream_lock, the holder of each position
  dirty,    \* streams returned by an unmount and not yet reset
  at        \* per thread: where it is in get_free_stream .. put_stream

vars == <<wanted, free, streams, lock, dirty, at>>

Id == 0 .. NrStreams - 1

Idle == [pc |-> "idle"]

Init ==
  /\ wanted \in Options
  /\ free = [i \in 1 .. NrStreams |-> i - 1]
  /\ streams = [m \in Mounts |-> <<>>]
  /\ lock = [m \in Mounts |-> <<>>]
  /\ dirty = {}
  /\ at = [t \in Threads |-> Idle]

\* sbi->nr_streams once mounted: the number of streams registered.
Nr(m) == Len(streams[m])

NobodyIn(m) == ~ \E t \in Threads : at[t] # Idle /\ at[t].mount = m

Least(a, b) == IF a < b THEN a ELSE b
-----------------------------------------------------------------------------
\* The end of ext4_fill_super: olayer_register_streams hands out as many
\* streams as are left.
Mount(m) ==
  /\ Nr(m) = 0 /\ free # <<>>
  /\ LET n == Least(Least(wanted[m], NrStreams), Len(free)) IN
       /\ streams' = [streams EXCEPT ![m] = SubSeq(free, 1, n)]
       /\ lock' = [lock EXCEPT ![m] = [i \in 1 .. n |-> NoThread]]
       /\ free' = SubSeq(free, n + 1, Len(free))
  /\ UNCHANGED <<wanted, dirty, at>>

\* Mutant: the number of streams asked for is returned, not the number
\* registered; sbi->streams is zero past the latter.
UnmountWanted(m) ==
  /\ Nr(m) > 0
  /\ NobodyIn(m)
  /\ free' = free \o streams[m] \o [i \in 1 .. wanted[m] - Nr(m) |-> 0]
  /\ dirty' = dirty \cup Range(streams[m])
  /\ streams' = [streams EXCEPT ![m] = <<>>]
  /\ lock' = [lock EXCEPT ![m] = <<>>]
  /\ UNCHANGED <<wanted, at>>

\* The end of ext4_put_super: no file is open any more.  The ids are back in
\* the FIFO before olayer_reset_stream has reset the streams.
Unmount(m) ==
  /\ Nr(m) > 0
  /\ NobodyIn(m)
  /\ free' = free \o streams[m]
  /\ dirty' = dirty \cup Range(streams[m])
  /\ streams' = [streams EXCEPT ![m] = <<>>]
  /\ lock' = [lock EXCEPT ![m] = <<>>]
  /\ UNCHANGED <<wanted, at>>

ResetStream(s) ==
  /\ s \in dirty
  /\ dirty' = dirty \ {s}
  /\ UNCHANGED <<wanted, free, streams, lock, at>>
-----------------------------------------------------------------------------
\* get_free_stream: "left" tries of mutex_trylock from position i on ...
GetFreeStream(t, m, cpu) ==
  /\ at[t] = Idle /\ Nr(m) > 0
  /\ at' = [at EXCEPT ![t] =
              [pc |-> "try", mount |-> m, i |-> (cpu % Nr(m)) + 1, left |-> Nr(m)]]
  /\ UNCHANGED <<wanted, free, streams, lock, dirty>>

Take(t, m, i) ==
  /\ lock[m][i] = NoThread
  /\ lock' = [lock EXCEPT ![m][i] = t]
  /\ at' = [at EXCEPT ![t] = [pc |-> "own", mount |-> m, id |-> streams[m][i]]]
  /\ UNCHANGED <<wanted, free, streams, dirty>>

TryLock(t) == at[t].pc = "try" /\ Take(t, at[t].mount, at[t].i)

\* ... at the next position if this one is held; after the last try the next
\* position is again the first, and the thread waits there.
TryNext(t) ==
  /\ at[t].pc = "try"
  /\ LET m == at[t].mount IN
       /\ lock[m][at[t].i] # NoThread
       /\ at' = [at EXCEPT ![t] =
                  [pc |-> IF at[t].left = 1 THEN "wait" ELSE "try", mount |-> m,
                   i |-> (at[t].i % Nr(m)) + 1, left |-> at[t].left - 1]]
  /\ UNCHANGED <<wanted, free, streams, lock, dirty>>

WaitLock(t) == at[t].pc = "wait" /\ Take(t, at[t].mount, at[t].i)

\* Mutant: the id itself is taken for the position.
PositionById(m, id) == Least(id, Nr(m) - 1) + 1

\* put_stream derives the position from the id of the stream.
Position(m, id) == (id % Nr(m)) + 1

\* Mutant: the lock is only opened for an id below nr_streams - 1.
PutStreamKeepsLock(t) ==
  /\ at[t].pc = "own"
  /\ LET m == at[t].mount IN
       lock' = IF at[t].id >= Nr(m) - 1 THEN lock
               ELSE [lock EXCEPT ![m][Position(m, at[t].id)] = NoThread]
  /\ at' = [at EXCEPT ![t] = Idle]
  /\ UNCHANGED <<wanted, free, streams, dirty>>

PutStream(t) ==
  /\ at[t].pc = "own"
  /\ LET m == at[t].mount IN
       lock' = [lock EXCEPT ![m][Position(m, at[t].id)] = NoThread]
  /\ at' = [at EXCEPT ![t] = Idle]
  /\ UNCHANGED <<wanted, free, streams, dirty>>
-----------------------------------------------------------------------------
Fsync(t) == TryLock(t) \/ TryNext(t) \/ WaitLock(t) \/ PutStream(t)

Next ==
  \/ \E m \in Mounts : Mount(m) \/ Unmount(m)
  \/ \E s \in Id : ResetStream(s)
  \/ \E t \in Threads :
       \/ \E m \in Mounts, c \in 0 .. NrCpus - 1 : GetFreeStream(t, m, c)
       \/ Fsync(t)

Spec == Init /\ [][Next]_vars

\* A thread in fsync keeps running and gives its stream back; the fairness is
\* strong because a mutex queues its waiters.
FairSpec == Spec /\ \A t \in Threads : SF_vars(Fsync(t))
-----------------------------------------------------------------------------
(* Properties.                                                             *)

\* Every stream id is in the FIFO or with exactly one mount, exactly once:
\* none is lost or doubled by mounts that get fewer streams than they ask for.
StreamsConserved ==
  LET held(m, s) == Cardinality({i \in DOMAIN streams[m] : streams[m][i] = s})
      inFifo(s) == Cardinality({i \in DOMAIN free : free[i] = s})
  IN  \A s \in Id :
        \/ inFifo(s) = 1 /\ \A m \in Mounts : held(m, s) = 0
        \/ inFifo(s) = 0 /\ \E m \in Mounts :
             held(m, s) = 1 /\ \A k \in Mounts \ {m} : held(k, s) = 0

\* No two threads use a stream at the same time, which is what the calls into
\* ccNVMe rely on: put_stream opens the lock that get_free_stream has closed.
StreamExclusive ==
  \A t, u \in Threads :
    at[t].pc = "own" /\ at[u].pc = "own" /\ at[t].id = at[u].id => t = u

\* The same where every mount asks for as many streams and their number
\* divides the number of streams: then position and id agree modulo it.
Aligned ==
  \A m, k \in Mounts : wanted[m] = wanted[k] /\ NrStreams % wanted[m] = 0

AlignedExclusive == Aligned => StreamExclusive

\* There, a thread that asks for a stream gets one: no lock stays closed that
\* nobody holds.
StreamGranted ==
  \A t \in Threads : Aligned /\ at[t].pc = "try" ~> at[t].pc = "own"
=============================================================================

--------------------------------- MODULE PSQ --------------------------------
(***************************************************************************)
(* One stream of ccNVMe: its persistent submission queue (P-SQ) as the     *)
(* threads that call the exported stream_* functions see it.  The module   *)
(* is about the concurrency of the queue pointers: reservation by          *)
(* compare-and-swap on tail_watermark, publication by compare-and-swap on  *)
(* tail, the flush pointer, the journal write pointer, the truncation of   *)
(* the queue and the checkpoint, each at the granularity of the shared     *)
(* accesses of the C code.  What a queue entry says is left to the module  *)
(* TxLog; here it only matters who was the last to write a slot, the       *)
(* thread that fills it or a commit.                                       *)
(*                                                                         *)
(* With Locked = TRUE a thread calls the stream only between               *)
(* get_free_stream and put_stream, as MQFS does; with Locked = FALSE the   *)
(* threads share the stream, as the threads of ccnvme-test do.             *)
(*                                                                         *)
(* Lock acquisition is merged with the first access under the lock and     *)
(* release with the last one.                                              *)
(***************************************************************************)
EXTENDS Ring, FiniteSets, Sequences

CONSTANTS
  Threads,    \* the threads that call the stream
  NrOmeta,    \* stream->nr_ometa, the number of queue slots
  NrJournal,  \* stream->nr_journal_block, the blocks of the journal region
  MaxBlocks,  \* the largest bio, in blocks
  Calls,      \* the entry points the users of the stream call
  Locked,     \* are calls made under the stream lock of MQFS?
  NoThread    \* "no thread holds the lock"

ASSUME PSQAssumption ==
  /\ NrOmeta \in Nat /\ NrOmeta >= 2
  /\ NrJournal \in Nat \ {0}
  /\ MaxBlocks \in Nat \ {0}
  /\ Calls \subseteq {"bio", "ipu", "alloc", "commit", "flush"}
  /\ Locked \in BOOLEAN
  /\ NoThread \notin Threads

\* Every calling thread has at most one reservation; there are fewer threads
\* than slots (the P-SQ of a stream has thousands).
ASSUME ThreadsAssumption ==
  IsFiniteSet(Threads) /\ Cardinality(Threads) < NrOmeta

VARIABLES
  head, tail, wm, flushed,  \* stream->head, tail, tail_watermark, flushed
  jptr,                     \* stream->j_write_ptr - stream->off_in_journal
  mark,                     \* slots of ometa_start a commit was the last to write
  cpReaders, cpWriter,      \* holders of stream->cp_rwsem
  jLock,                    \* holder of stream->journal_lock
  holder,                   \* holder of the sbi->stream_lock of this stream
  pc,                       \* per thread: where it is in its call
  old,                      \* per thread: the pointer the call has read
  blocks, cont,             \* per thread: nr_blocks, what follows the allocation
  live                      \* history: published slots not yet dropped

ptrs  == <<head, tail, wm, flushed, jptr>>
locks == <<cpReaders, cpWriter, jLock, holder>>
vars  == <<ptrs, mark, locks, pc, old, blocks, cont, live>>

Slot == 0 .. NrOmeta - 1

Label == {"idle", "read", "space", "cas", "fill", "publish", "cp_lock",
          "cp_trunc", "cp_replay", "cp_check", "cp_swap",
          "ja_lock", "ja_head", "ct_mark", "fl_lock", "fl_end"}

Space(h, t)    == RingSpace(h, t, NrOmeta)
Count(h, t)    == RingCount(h, t, NrOmeta)
Succ(i)        == RingNext(i, NrOmeta)
Between(h, t)  == RingSlots(h, t, NrOmeta)

Init ==
  /\ head = 0 /\ tail = 0 /\ wm = 0 /\ flushed = 0 /\ jptr = 0
  /\ mark = {}
  /\ cpReaders = {} /\ cpWriter = NoThread
  /\ jLock = NoThread /\ holder = NoThread
  /\ pc = [t \in Threads |-> "idle"]
  /\ old = [t \in Threads |-> 0]
  /\ blocks = [t \in Threads |-> 0]
  /\ cont = [t \in Threads |-> "idle"]
  /\ live = {}

Goto(t, from, to) == pc[t] = from /\ pc' = [pc EXCEPT ![t] = to]

\* The call of t reads p; 0 when it is done with what it read.
Reads(t, p) == old' = [old EXCEPT ![t] = p]

\* Mutant: the stream lock is not taken.
MayCallUnlocked(t, call) == call \in Calls

MayCall(t, call) == call \in Calls /\ (Locked => holder = t)

\* head moves to h: the slots it passes are dropped from the queue.
SetHead(h) == head' = h /\ live' = live \ Between(head, h)
-----------------------------------------------------------------------------
(* The stream lock of MQFS around a sequence of calls.                     *)

GetStream(t) ==
  /\ Locked /\ holder = NoThread /\ pc[t] = "idle"
  /\ holder' = t
  /\ UNCHANGED <<ptrs, mark, cpReaders, cpWriter, jLock, pc, old, blocks, cont,
                 live>>

PutStream(t) ==
  /\ Locked /\ holder = t /\ pc[t] = "idle"
  /\ holder' = NoThread
  /\ UNCHANGED <<ptrs, mark, cpReaders, cpWriter, jLock, pc, old, blocks, cont,
                 live>>
-----------------------------------------------------------------------------
(* stream_submit_bio, stream_submit_bh: straight to the queue.             *)

SubmitBio(t) ==
  /\ MayCall(t, "bio")
  /\ Goto(t, "idle", "read")
  /\ UNCHANGED <<ptrs, mark, locks, old, blocks, cont, live>>

\* stream_submit_bio_ipu: journal space first.  A bio larger than the journal
\* region gets the plba -1, which as a u32 is not < 0: it is queued as well.
SubmitBioIpu(t, n) ==
  /\ MayCall(t, "ipu")
  /\ n <= NrJournal
  /\ Goto(t, "idle", "ja_lock")
  /\ blocks' = [blocks EXCEPT ![t] = n]
  /\ cont' = [cont EXCEPT ![t] = "read"]
  /\ UNCHANGED <<ptrs, mark, locks, old, live>>

SubmitBioIpuTooLarge(t, n) ==
  /\ MayCall(t, "ipu")
  /\ n > NrJournal
  /\ Goto(t, "idle", "read")
  /\ UNCHANGED <<ptrs, mark, locks, old, blocks, cont, live>>

\* stream_submit_bio_core, the reservation loop: read the watermark ...
ReadWatermark(t) ==
  /\ Goto(t, "read", "space")
  /\ Reads(t, wm)
  /\ UNCHANGED <<ptrs, mark, locks, blocks, cont, live>>

\* Mutant: no look at the space.
HasSpaceUnchecked(t) ==
  /\ Goto(t, "space", "cas")
  /\ UNCHANGED <<ptrs, mark, locks, old, blocks, cont, live>>

\* ... check the space behind it, or go and wait for a checkpoint ...
HasSpace(t) ==
  /\ Space(head, old[t]) >= 1
  /\ Goto(t, "space", "cas")
  /\ UNCHANGED <<ptrs, mark, locks, old, blocks, cont, live>>

NoSpace(t) ==
  /\ Space(head, old[t]) < 1
  /\ Goto(t, "space", "cp_lock")
  /\ Reads(t, 0)
  /\ UNCHANGED <<ptrs, mark, locks, blocks, cont, live>>

\* Mutant: a plain store in place of the compare-and-swap.
ReserveStore(t) ==
  /\ Goto(t, "cas", "fill")
  /\ wm' = Succ(old[t])
  /\ UNCHANGED <<head, tail, flushed, jptr, mark, locks, old, blocks, cont,
                 live>>

\* ... and take the slot if the watermark is still the one that was read.
Reserve(t) ==
  /\ wm = old[t]
  /\ Goto(t, "cas", "fill")
  /\ wm' = Succ(old[t])
  /\ UNCHANGED <<head, tail, flushed, jptr, mark, locks, old, blocks, cont,
                 live>>

ReserveLost(t) ==
  /\ wm # old[t]
  /\ Goto(t, "cas", "read")
  /\ Reads(t, 0)
  /\ UNCHANGED <<ptrs, mark, locks, blocks, cont, live>>

\* Fill the slot.
Fill(t) ==
  /\ Goto(t, "fill", "publish")
  /\ mark' = mark \ {old[t]}
  /\ UNCHANGED <<ptrs, locks, old, blocks, cont, live>>

\* Mutant: publish everything that is reserved.
PublishAll(t) ==
  /\ tail = old[t]
  /\ Goto(t, "publish", "idle")
  /\ tail' = wm
  /\ Reads(t, 0)
  /\ live' = live \cup {old[t]}
  /\ UNCHANGED <<head, wm, flushed, jptr, mark, locks, blocks, cont>>

\* Publish in reservation order: spin until tail is the own slot.
Publish(t) ==
  /\ tail = old[t]
  /\ Goto(t, "publish", "idle")
  /\ tail' = Succ(old[t])
  /\ Reads(t, 0)
  /\ live' = live \cup {old[t]}
  /\ UNCHANGED <<head, wm, flushed, jptr, mark, locks, blocks, cont>>
-----------------------------------------------------------------------------
(* stream_do_checkpoint, entered when a reservation finds no space.        *)

CpLock(t) ==
  /\ cpReaders = {} /\ cpWriter = NoThread
  /\ \/ /\ Space(head, tail) >= 1
        /\ Goto(t, "cp_lock", "read")
        /\ UNCHANGED cpWriter
     \/ /\ Space(head, tail) < 1
        /\ Goto(t, "cp_lock", "cp_trunc")
        /\ cpWriter' = t
  /\ UNCHANGED <<ptrs, mark, cpReaders, jLock, holder, old, blocks, cont, live>>

\* truncate_ordering_log: nothing to do if nothing has been flushed ...
CpTruncate(t) ==
  /\ Goto(t, "cp_trunc", IF head = flushed THEN "cp_check" ELSE "cp_replay")
  /\ UNCHANGED <<ptrs, mark, locks, old, blocks, cont, live>>

\* ... otherwise replay and drop the flushed entries and reset the journal,
\* under the journal lock.
CpReplay(t) ==
  /\ jLock = NoThread
  /\ Goto(t, "cp_replay", "cp_check")
  /\ SetHead(flushed)
  /\ jptr' = 0
  /\ UNCHANGED <<tail, wm, flushed, mark, locks, old, blocks, cont>>

CpCheck(t) ==
  /\ \/ /\ Space(head, tail) >= 1
        /\ Goto(t, "cp_check", "read")
        /\ cpWriter' = NoThread
     \/ /\ Space(head, tail) < 1
        /\ Goto(t, "cp_check", "cp_swap")
        /\ UNCHANGED cpWriter
  /\ UNCHANGED <<ptrs, mark, cpReaders, jLock, holder, old, blocks, cont, live>>

\* Mutant: flushed is left behind.
CpSwapKeepsFlushed(t) ==
  /\ Goto(t, "cp_swap", "read")
  /\ SetHead(tail)
  /\ cpWriter' = NoThread
  /\ UNCHANGED <<tail, wm, flushed, jptr, mark, cpReaders, jLock, holder, old,
                 blocks, cont>>

\* Mutant: the swapped entries stay in the queue.
CpSwapKeepsHead(t) ==
  /\ Goto(t, "cp_swap", "read")
  /\ cpWriter' = NoThread
  /\ UNCHANGED <<ptrs, mark, cpReaders, jLock, holder, old, blocks, cont, live>>

\* After write_checkpoint the whole queue is dropped.
CpSwap(t) ==
  /\ Goto(t, "cp_swap", "read")
  /\ SetHead(tail)
  /\ flushed' = tail
  /\ cpWriter' = NoThread
  /\ UNCHANGED <<tail, wm, jptr, mark, cpReaders, jLock, holder, old, blocks,
                 cont>>
-----------------------------------------------------------------------------
(* alloc_journal_block and the allocation in journal_write_alloc.          *)

AllocJournalBlock(t) ==
  /\ MayCall(t, "alloc")
  /\ Goto(t, "idle", "ja_lock")
  /\ blocks' = [blocks EXCEPT ![t] = 1]
  /\ UNCHANGED <<ptrs, mark, locks, old, cont, live>>

\* An IPU write goes on to the queue, a descriptor block is only allocated.
Allocated(t, from) ==
  /\ Goto(t, from, cont[t])
  /\ blocks' = [blocks EXCEPT ![t] = 0]
  /\ cont' = [cont EXCEPT ![t] = "idle"]

JournalAlloc(t) ==
  /\ jLock = NoThread
  /\ blocks[t] + jptr <= NrJournal
  /\ Allocated(t, "ja_lock")
  /\ jptr' = jptr + blocks[t]
  /\ UNCHANGED <<head, tail, wm, flushed, mark, locks, old, live>>

\* The region is used up: commit_write replays from head up to flushed ...
JournalFull(t) ==
  /\ jLock = NoThread
  /\ blocks[t] + jptr > NrJournal
  /\ Goto(t, "ja_lock", "ja_head")
  /\ jLock' = t
  /\ Reads(t, flushed)
  /\ UNCHANGED <<ptrs, mark, cpReaders, cpWriter, holder, blocks, cont, live>>

\* Mutant: the journal write pointer is not reset.
JournalWrapKeepsPtr(t) ==
  /\ Allocated(t, "ja_head")
  /\ SetHead(flushed)
  /\ jptr' = jptr + blocks[t]
  /\ jLock' = NoThread
  /\ Reads(t, 0)
  /\ UNCHANGED <<tail, wm, flushed, mark, cpReaders, cpWriter, holder>>

\* ... then head = flushed, and the region is used from its start again.
JournalWrap(t) ==
  /\ Allocated(t, "ja_head")
  /\ SetHead(flushed)
  /\ jptr' = blocks[t]
  /\ jLock' = NoThread
  /\ Reads(t, 0)
  /\ UNCHANGED <<tail, wm, flushed, mark, cpReaders, cpWriter, holder>>
-----------------------------------------------------------------------------
(* stream_commit_tx and stream_blkdev_issue_flush.                         *)

CommitRead(t) ==
  /\ MayCall(t, "commit")
  /\ Goto(t, "idle", "ct_mark")
  /\ Reads(t, tail)
  /\ UNCHANGED <<ptrs, mark, locks, blocks, cont, live>>

\* TX_END goes to the slot at tail, which stays unpublished.
CommitMark(t) ==
  /\ Goto(t, "ct_mark", "idle")
  /\ mark' = mark \cup {old[t]}
  /\ Reads(t, 0)
  /\ UNCHANGED <<ptrs, locks, blocks, cont, live>>

FlushBegin(t) ==
  /\ MayCall(t, "flush")
  /\ Count(head, tail) # 0
  /\ Goto(t, "idle", "fl_lock")
  /\ UNCHANGED <<ptrs, mark, locks, old, blocks, cont, live>>

FlushRead(t) ==
  /\ cpWriter = NoThread
  /\ Goto(t, "fl_lock", "fl_end")
  /\ cpReaders' = cpReaders \cup {t}
  /\ Reads(t, tail)
  /\ UNCHANGED <<ptrs, mark, cpWriter, jLock, holder, blocks, cont, live>>

FlushEnd(t) ==
  /\ Goto(t, "fl_end", "idle")
  /\ flushed' = old[t]
  /\ cpReaders' = cpReaders \ {t}
  /\ Reads(t, 0)
  /\ UNCHANGED <<head, tail, wm, jptr, mark, cpWriter, jLock, holder, blocks,
                 cont, live>>
-----------------------------------------------------------------------------
Call(t) ==
  \/ GetStream(t) \/ PutStream(t)
  \/ SubmitBio(t)
  \/ \E n \in 1 .. MaxBlocks : SubmitBioIpu(t, n) \/ SubmitBioIpuTooLarge(t, n)
  \/ AllocJournalBlock(t) \/ CommitRead(t) \/ FlushBegin(t)

Submit(t) ==
  ReadWatermark(t) \/ HasSpace(t) \/ NoSpace(t) \/ Reserve(t)
    \/ ReserveLost(t) \/ Fill(t) \/ Publish(t)

Checkpoint(t) ==
  CpLock(t) \/ CpTruncate(t) \/ CpReplay(t) \/ CpCheck(t) \/ CpSwap(t)

Journal(t) == JournalAlloc(t) \/ JournalFull(t) \/ JournalWrap(t)

Finish(t) == CommitMark(t) \/ FlushRead(t) \/ FlushEnd(t)

Step(t) == Submit(t) \/ Checkpoint(t) \/ Journal(t) \/ Finish(t)

Next == \E t \in Threads : Call(t) \/ Step(t)

Spec == Init /\ [][Next]_vars

\* A thread inside a call keeps running.  The fairness is strong because
\* cp_rwsem and journal_lock queue their waiters.  No thread has to make a
\* call.
FairSpec == Spec /\ \A t \in Threads : SF_vars(Step(t))
-----------------------------------------------------------------------------
(* Properties.                                                             *)

\* Pointers stay inside the ring and the journal region, locks have one
\* writer, and a thread is at a known point of its call.
TypeOK ==
  /\ head \in Slot /\ tail \in Slot /\ wm \in Slot /\ flushed \in Slot
  /\ jptr \in 0 .. NrJournal
  /\ mark \in SUBSET Slot
  /\ cpReaders \in SUBSET Threads
  /\ cpWriter \in Threads \cup {NoThread}
  /\ jLock \in Threads \cup {NoThread}
  /\ holder \in Threads \cup {NoThread}
  /\ pc \in [Threads -> Label]
  /\ old \in [Threads -> Slot]
  /\ blocks \in [Threads -> 0 .. NrJournal]
  /\ cont \in [Threads -> {"idle", "read"}]
  /\ live \in SUBSET Slot

Holding(t) == pc[t] \in {"fill", "publish"}

\* The two compare-and-swap loops of stream_submit_bio_core hand every slot
\* between tail and tail_watermark to exactly one thread, and no other slot
\* is being written, whatever the space check read.
ReservationsExact ==
  /\ \A t, u \in Threads :
       Holding(t) /\ Holding(u) /\ old[t] = old[u] => t = u
  /\ {old[t] : t \in {u \in Threads : Holding(u)}} = Between(tail, wm)

\* "wait checkpoint": no slot is written that still holds a published entry
\* which neither a truncation nor a checkpoint has dropped.
NoOverrun == \A t \in Threads : pc[t] = "fill" => old[t] \notin live

\* The entries found between head and tail are exactly the published ones:
\* none is lost to a pointer that went round the ring.
QueueExact == live = Between(head, tail)

\* The flush pointer stays between head and tail, so that the replay loops,
\* which run from head until they meet flushed, visit published entries only.
FlushedInQueue == Between(head, flushed) \subseteq Between(head, tail)

\* When the journal wraps, head moves exactly as far as commit_write has
\* replayed: no entry is dropped that became flushed after the replay.
DropOnlyReplayed ==
  \A t \in Threads : pc[t] = "ja_head" => old[t] = flushed

\* A slot is published with what its owner wrote to it: no commit has turned
\* it into a transaction boundary in the meantime.
EntryIntact == \A t \in Threads : pc[t] = "publish" => old[t] \notin mark

\* The entries of the queue, oldest first.
Queue == [k \in 1 .. Count(head, tail) |-> RingAt(head, k - 1, NrOmeta)]

Log == INSTANCE OrderedLog WITH Entry    <- Slot,
                                Capacity <- NrOmeta - 1,
                                log      <- Queue,
                                flushed  <- Count(head, flushed)

\* The queue of a stream whose users hold the stream lock implements the
\* ordered log: the interleaved pointer updates of submission, flush, journal
\* wrap and checkpoint never reorder, lose or duplicate an entry, a flush
\* covers everything submitted before it, and nothing unflushed is dropped
\* without a checkpoint.
ImplementsOrderedLog == Log!LogSpec

\* A reserved slot is published in the end: the spin on tail always ends.
ReservedIsPublished ==
  \A t \in Threads : pc[t] = "fill" ~> pc[t] = "idle"

Submitting(t) == pc[t] \in {"read", "space", "cas", "cp_lock", "cp_trunc",
                            "cp_replay", "cp_check", "cp_swap"}

\* While some thread wants a slot, some thread gets one: a full queue is
\* always emptied by a truncation or a checkpoint and nobody deadlocks on
\* cp_rwsem and journal_lock.
SomeReservation ==
  (\E t \in Threads : Submitting(t)) ~> (\E t \in Threads : pc[t] = "fill")
=============================================================================

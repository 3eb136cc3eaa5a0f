------------------------------- MODULE TxLog --------------------------------
(***************************************************************************)
(* What the entries of a stream's queue say: transaction tags, journal     *)
(* blocks, and the replay of the queue that brings journalled blocks to    *)
(* their home location.  The stream has one owner at a time (see PSQ), so  *)
(* every call is one step here.                                            *)
(*                                                                         *)
(* Two kinds of callers are modelled.  client = "mqfs" is ext4_sync_file:  *)
(* the metadata blocks of a transaction go through                         *)
(* stream_submit_bh_force_IPU, then a descriptor block, the commit and the *)
(* flush.  client = "api" is a user of the exported interface as           *)
(* ccnvme-test is one: REQ_TX writes, a last write with REQ_TX_COMMIT, the *)
(* commit, and a flush whenever it likes.                                  *)
(*                                                                         *)
(* "stale" abstracts block contents: the blocks whose newest content has   *)
(* reached the journal only.                                               *)
(***************************************************************************)
EXTENDS Ring, FiniteSets

CONSTANTS
  Clients,      \* which of "mqfs" and "api" may be the caller
  Lba,          \* home locations
  NrOmeta,      \* stream->nr_ometa
  NrJournal,    \* stream->nr_journal_block
  JournalStart, \* JOURNAL_REGION_START + stream->off_in_journal
  MaxWrites,    \* per caller: most writes of one transaction
  NoBlock       \* no block

ASSUME TxLogAssumption ==
  /\ Clients \subseteq {"mqfs", "api"}
  /\ NrOmeta \in Nat /\ NrOmeta >= 2
  /\ NrJournal \in Nat \ {0} /\ JournalStart \in Nat
  /\ MaxWrites \in [Clients -> Nat \ {0}]
  /\ NoBlock \notin Nat \cup Lba

VARIABLES
  client,  \* the caller
  st,      \* struct stream, the IPU index and the stale home blocks
  stage,   \* where the caller is in its transaction
  writes,  \* writes of the open transaction
  desc,    \* journal block of the descriptor of the open transaction
  match,   \* slots whose txid, which nobody sets, equals stream->last_txid
  part,    \* history: which part of its transaction the entry of a slot is
  fresh,   \* history: no transaction has ended since the stream was reset
  early    \* history: the slots with entries of the first one after a reset

vars == <<client, st, stage, writes, desc, match, part, fresh, early>>

Slot == 0 .. NrOmeta - 1

Space(h, t)   == RingSpace(h, t, NrOmeta)
Count(h, t)   == RingCount(h, t, NrOmeta)
Succ(i)       == RingNext(i, NrOmeta)
Between(h, t) == RingSlots(h, t, NrOmeta)

EmptyEntry == [tag |-> "none", pmr |-> "none", lba |-> NoBlock, plba |-> 0]

Init ==
  /\ client \in Clients
  /\ st = [head |-> 0, tail |-> 0, flushed |-> 0, jwp |-> 0,
           committed |-> FALSE, q |-> [i \in Slot |-> EmptyEntry],
           index |-> {}, stale |-> {}]
  /\ stage = "open" /\ writes = 0 /\ desc = NoBlock
  /\ match \in SUBSET Slot
  /\ part = [i \in Slot |-> "none"]
  /\ fresh = TRUE /\ early = {}
-----------------------------------------------------------------------------
(* The scan for transactions that commit_write, graceful_shutdown and      *)
(* olayer_crash_recovery share.  It yields the pairs <<begin_idx, j>> of a *)
(* BEGIN and an END between head and flushed; "tag" is what it reads.      *)

Scan(s, tag) ==
  LET n == Count(s.head, s.flushed)
      upTo[k \in 0 .. n] ==
        IF k = 0 THEN [phase |-> 0, begin |-> 0, found |-> {}]
        ELSE LET c == upTo[k - 1]
                 j == RingAt(s.head, k - 1, NrOmeta)
             IN  CASE c.phase = 0 /\ tag[j] = "begin" ->
                        [c EXCEPT !.phase = 1, !.begin = j]
                   [] c.phase = 1 /\ tag[j] = "end" ->
                        [c EXCEPT !.phase = 0, !.found = @ \cup {<<c.begin, j>>}]
                   [] OTHER -> c
  IN  upTo[n].found

DramTag(s) == [i \in Slot |-> s.q[i].tag]
PmrTag(s)  == [i \in Slot |-> s.q[i].pmr]

\* The entries replayed for such pairs: the ones after the BEGIN and before
\* the END that have a journal block, 0 meaning none.
Replayed(s, pairs) ==
  {i \in UNION {Between(Succ(p[1]), p[2]) : p \in pairs} : s.q[i].plba # 0}

Blocks(s, slots) == {s.q[i].lba : i \in slots}

\* commit_write: an indexed block leaves the index, and is written home if its
\* index entry has the txid of the END.
CommitWrite(s) ==
  LET pairs == Scan(s, DramTag(s))
      same  == {p \in pairs : p[2] \in match}
  IN  [s EXCEPT !.index = @ \ Blocks(s, Replayed(s, pairs)),
                !.stale = @ \ (s.index \cap Blocks(s, Replayed(s, same)))]

\* Mutant: the entries stay in the queue.
DropFlushedKeepsHead(s) == [CommitWrite(s) EXCEPT !.jwp = 0]

\* What truncate_ordering_log and the wrap of the journal region do.
DropFlushed(s) == [CommitWrite(s) EXCEPT !.head = s.flushed, !.jwp = 0]

\* stream_do_checkpoint.
DoCheckpoint(s) ==
  LET t == IF s.head = s.flushed THEN s ELSE DropFlushed(s)
  IN  IF Space(t.head, t.tail) >= 1 THEN t
      ELSE [t EXCEPT !.head = t.tail, !.flushed = t.tail]

MakeSpace(s) == IF Space(s.head, s.tail) < 1 THEN DoCheckpoint(s) ELSE s

\* Mutant: the region is taken to be one block larger.
AllocBlockOffByOne(s) ==
  LET t == IF s.jwp > NrJournal THEN DropFlushed(s) ELSE s
  IN  [t EXCEPT !.jwp = @ + 1]

\* alloc_journal_block, and the same in journal_write_alloc, for one block.
AllocBlock(s) ==
  LET t == IF 1 + s.jwp > NrJournal THEN DropFlushed(s) ELSE s
  IN  [t EXCEPT !.jwp = @ + 1]

\* The block AllocBlock has just handed out.
NewBlock(s) == JournalStart + s.jwp - 1

\* Mutant: the BEGIN does not close the flag that asks for it.
SubmitCoreAllBegin(s, l, p, flag) ==
  LET t   == MakeSpace(s)
      tag == IF flag = "tx" /\ t.committed THEN "begin" ELSE flag
  IN  [t EXCEPT !.q[t.tail] = [tag |-> tag, pmr |-> tag, lba |-> l, plba |-> p],
                !.tail = Succ(@)]

\* stream_submit_bio_core.
SubmitCore(s, l, p, flag) ==
  LET t   == MakeSpace(s)
      tag == IF flag = "tx" /\ t.committed THEN "begin" ELSE flag
  IN  [t EXCEPT !.q[t.tail] = [tag |-> tag, pmr |-> tag, lba |-> l, plba |-> p],
                !.committed = @ /\ flag # "tx",
                !.tail = Succ(@)]

\* stream_submit_bio: the block itself goes to its home location.
SubmitDirect(s, l, flag) ==
  [SubmitCore(s, l, 0, flag) EXCEPT !.stale = @ \ {l}]

\* stream_submit_bio_ipu: the block goes to the journal.
SubmitIpu(s, l, flag) ==
  LET a == AllocBlock(s)
      b == [a EXCEPT !.index = @ \cup {l}, !.stale = @ \cup {l}]
  IN  SubmitCore(b, l, NewBlock(a), flag)

\* stream_tx_commit_core: the slot at tail gets the END, in DRAM only.
Commit(s) == [s EXCEPT !.q[s.tail].tag = "end", !.committed = TRUE]

\* stream_blkdev_issue_flush.
FlushTo(s) ==
  IF Count(s.head, s.tail) = 0 THEN s ELSE [s EXCEPT !.flushed = s.tail]

\* graceful_shutdown: the same scan, without the look at the txid.
Replay(s) ==
  LET lbas == Blocks(s, Replayed(s, Scan(s, DramTag(s))))
  IN  [s EXCEPT !.index = @ \ lbas, !.stale = @ \ (s.index \cap lbas)]

\* crash_recovery_commit_write, for the entries in "slots": the journalled
\* content goes home; it is the newest unless a later entry has the block too.
JournalHome(s, slots) ==
  LET later(i)  == Between(Succ(i), s.tail) \ slots
      newest(i) == s.q[i].lba \notin Blocks(s, later(i))
  IN  [s EXCEPT !.stale = @ \ Blocks(s, {i \in slots : newest(i)})]

\* olayer_crash_recovery: the tags are read from the PMR.
Recover(s) == JournalHome(s, Replayed(s, Scan(s, PmrTag(s))))
-----------------------------------------------------------------------------
(* The callers.  "stage" is "open" while a transaction is written, "end"   *)
(* after its last write, "done" after its commit, "down" after unmount and *)
(* "recovered" after a crash and recovery.                                 *)

\* The call leaves the queue in s, with part p of a transaction in its slot.
Submitted(s, p) ==
  /\ st' = s
  /\ part' = [part EXCEPT ![st.tail] = p]
  /\ early' = IF fresh THEN early \cup {st.tail} ELSE early \ {st.tail}

\* A block of the transaction.  MQFS journals it, another user may.
Write(l) ==
  /\ stage = "open" /\ writes < MaxWrites[client]
  /\ LET p == IF writes = 0 THEN "first" ELSE "mid" IN
       \/ Submitted(SubmitIpu(st, l, "tx"), p)
       \/ client = "api" /\ Submitted(SubmitDirect(st, l, "tx"), p)
  /\ writes' = writes + 1
  /\ UNCHANGED <<client, stage, desc, match, fresh>>

\* The write with REQ_TX_COMMIT that ends a transaction of ccnvme-test.
LastWrite(l) ==
  /\ client = "api" /\ stage = "open"
  /\ Submitted(SubmitDirect(st, l, "end"),
               IF writes = 0 THEN "only" ELSE "last")
  /\ stage' = "end"
  /\ UNCHANGED <<client, writes, desc, match, fresh>>

\* MQFS journals a descriptor block instead; no queue entry tells of it.
Descriptor ==
  /\ client = "mqfs" /\ stage = "open"
  /\ st' = AllocBlock(st)
  /\ desc' = NewBlock(AllocBlock(st))
  /\ stage' = "end"
  /\ UNCHANGED <<client, writes, match, part, fresh, early>>

CommitTx ==
  /\ stage = "end"
  /\ st' = Commit(st)
  /\ stage' = IF client = "mqfs" THEN "done" ELSE "open"
  /\ writes' = 0 /\ fresh' = FALSE
  /\ UNCHANGED <<client, desc, match, part, early>>

\* The flush at the end of fsync.
FlushTx ==
  /\ stage = "done"
  /\ st' = FlushTo(st)
  /\ stage' = "open" /\ desc' = NoBlock
  /\ UNCHANGED <<client, writes, match, part, fresh, early>>

\* Other users flush between any two calls.
Flush ==
  /\ client = "api" /\ stage \in {"open", "end"}
  /\ st' = FlushTo(st)
  /\ UNCHANGED <<client, stage, writes, desc, match, part, fresh, early>>

\* ext4_put_super starts with graceful_shutdown ...
Shutdown ==
  /\ client = "mqfs" /\ stage = "open" /\ writes = 0
  /\ st' = Replay(st)
  /\ stage' = "down"
  /\ UNCHANGED <<client, writes, desc, match, part, fresh, early>>

\* ... and ends with olayer_unregister_streams, which resets the stream for
\* the next mount, but not its journal pointer nor the index.
Remount ==
  /\ stage = "down"
  /\ st' = [st EXCEPT !.head = 0, !.tail = 0, !.flushed = 0,
                      !.committed = FALSE, !.q = [i \in Slot |-> EmptyEntry]]
  /\ stage' = "open"
  /\ match' \in {{}, Slot}
  /\ part' = [i \in Slot |-> "none"] /\ fresh' = TRUE /\ early' = {}
  /\ UNCHANGED <<client, writes, desc>>

\* The mount after a crash, with the crashmonkey option: the driver has not
\* been reloaded and still has its pointers.
CrashRecovery ==
  /\ client = "mqfs" /\ stage \in {"open", "end", "done"}
  /\ st' = Recover(st)
  /\ stage' = "recovered"
  /\ UNCHANGED <<client, writes, desc, match, part, fresh, early>>

Next ==
  \/ \E l \in Lba : Write(l) \/ LastWrite(l)
  \/ Descriptor \/ CommitTx \/ FlushTx \/ Flush
  \/ Shutdown \/ Remount \/ CrashRecovery

Spec == Init /\ [][Next]_vars
-----------------------------------------------------------------------------
(* Properties.                                                             *)

\* Pointers, tags and blocks have their types, and journal blocks lie in the
\* region of the stream.
TypeOK ==
  /\ st.head \in Slot /\ st.tail \in Slot /\ st.flushed \in Slot
  /\ st.jwp \in 0 .. NrJournal
  /\ st.committed \in BOOLEAN
  /\ st.q \in [Slot -> [tag : {"none", "begin", "tx", "end"},
                        pmr : {"none", "begin", "tx", "end"},
                        lba : Lba \cup {NoBlock},
                        plba : {0} \cup JournalStart .. JournalStart + NrJournal - 1]]
  /\ st.stale \subseteq Lba /\ st.index \subseteq Lba
  /\ stage \in {"open", "end", "done", "down", "recovered"}
  /\ client \in Clients /\ writes \in 0 .. MaxWrites[client]
  /\ desc \in {NoBlock} \cup JournalStart .. JournalStart + NrJournal - 1
  /\ match \subseteq Slot

BlocksDistinct(slots) ==
  \A i, j \in slots : st.q[i].plba = st.q[j].plba => i = j

\* While fsync writes a transaction and until it has flushed it, the journal
\* blocks of the transaction, its descriptor's included, are not handed out
\* again.  The code never compares a new block with those in use: it relies on
\* a truncation or a wrap, which may come in the middle of the transaction, to
\* leave enough blocks before the ones of the transaction.
OpenBlocksDistinct ==
  client = "mqfs" =>
    LET open == Between(st.flushed, st.tail) IN
    BlocksDistinct(open) /\ \A i \in open : st.q[i].plba # desc

\* The same for all entries of the queue: the journal copy a replay or a
\* recovery would read for an entry has not been overwritten.
JournalCopyIntact ==
  client = "mqfs" => BlocksDistinct(Between(st.head, st.tail))

\* Whole transactions between head and flushed, by first and last entry.
WholeTransactions ==
  LET inLog == Between(st.head, st.flushed) IN
  {<<i, j>> \in inLog \X inLog :
     /\ part[i] = "first" /\ part[j] = "last"
     /\ \A k \in Between(Succ(i), j) : k \in inLog /\ part[k] = "mid"}

\* The BEGIN/END pairs a replay acts on are exactly the whole transactions in
\* the flushed part of the queue: never part of one, never two taken for one,
\* whatever has been dropped from the front and wherever the END of
\* stream_tx_commit_core has been left behind.  The first transaction after a
\* reset of the stream is exempt.
BracketsAreTransactions ==
  client = "api" =>
    Scan(st, DramTag(st)) = {p \in WholeTransactions : p[1] \notin early}

\* "boundary of atomic operations": the same without the exemption.
EveryTransactionBracketed ==
  client = "api" => Scan(st, DramTag(st)) = WholeTransactions

\* "recovery from P-SQ": after a recovery, and after an unmount, the blocks of
\* the transactions in the flushed part of the queue are home.
FlushedBlocksHome ==
  stage \in {"down", "recovered"} =>
    st.stale \cap Blocks(st, Between(st.head, st.flushed)) = {}
=============================================================================

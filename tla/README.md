# A TLA+ model of ccNVMe, of the parts of MQFS that drive it, and of its NVMe driver

ccNVMe keeps, for every *stream*, a submission queue in the memory of the
device (P-SQ). Entries are tagged as parts of transactions, a commit flushes
them, and the tags are what replay, shutdown and recovery go by. MQFS writes
one transaction per fsync. Below both is the NVMe host driver with the queue
pairs the bios end up in. The modules are written from the C code in
`src/ccnvme`, `src/mqfs` and `src/nvme-host`; the default build is modelled
(`USE_CMB` on; `DISABLE_MQ_JOURNAL`, `DISABLE_TX_DOORBELL`,
`ENABLE_BG_SUBMITTER`, `USE_AEP`, `DISABLE_METAPAGING`, `FATOMIC_FILE` off;
`version_consistency` 0, so that data bios of MQFS bypass the queue; mount
option BARRIER on; no jbd2 journal).

## Inventory

| Part | State | Operations | What is hard about it |
|---|---|---|---|
| P-SQ (horae.c, checkpoint.c, flush.c) | head, tail, tail_watermark, flushed, j_write_ptr, cp_rwsem, journal_lock | submit, journal allocation, checkpoint, commit, flush | lock-free reservation, pointers read before and used after, full queue |
| Transactions (horae.c, checkpoint.c, recovery.c) | entries, tags, committed, IPU index | tagging, replay, truncation, shutdown, crash recovery | truncation inside a transaction, reuse of journal blocks, what recovery finds |
| Device memory (cmb.c) | copies of the queues, last_queue_flushed | copy, flush | wrap, several streams side by side |
| Streams (horae.c, filemap_compat.c, super.c) | FIFO of free ids, sbi->streams, stream_lock | mount, unmount, get and put | short registration, lock by position against unlock by id |
| fsync (fsync.c, filemap_compat.c, inode.c, page_sharing.c) | buffer flags, private, pending and copy-out lists, inode flags, inode lock | create, submit, copy, wait, flush, writeback | buffers shared by inodes, lists shared by fsyncs, error paths, skipped flush |
| Multi-mount protection (mmp.c) | the block, kmmpd's intervals | mount, kmmpd cycle, unmount | timing, crashes, failed writes |
| NVMe queue pair (pci.c) | both rings, phase, started requests | submit, interrupt, poll, suspend, create | slots given back before they are read, phase across resets |
| NVMe controller (pci.c, core.c) | controller state, shutdown_lock, freeze depth, quiesced and dying queues | reset work, timeouts, sysfs reset, removal | decisions on a state that is stale when acted on, waiting for stopped queues |
| Submitters (submitter.c) | bio ring, wakeup flag | delegate, drain, stop | lost wakeup (not in the default build) |

`PROJECT.json` lists all components, with those not modelled, and the main
hazards with their lines. Lesser ones, or ones the default build does not meet,
that no property is about: txids that are never set (checkpoint.c:56), a
replay of newer contents (checkpoint.c:77), `phase` kept between streams
(recovery.c:92), plba 0 (checkpoint.c:133) and plba -1 (horae.c:351), a verifying
read of no bytes (cmb.c:120), a mount without streams (filemap_compat.c:17) or
remounted with another number of them (super.c:1668), the wakeup and the ring of the
submitters (submitter.c:130, 163), ext4_atomic_file (fsync.c:153), a second
asynchronous event request after a reset (core.c:3452).

## Modules

* `Ring` - horae_count, horae_ring_space and ring ranges, used for all rings;
  `RingProofs` - lemmas.
* `PSQ` - one stream, any number of threads, one action per shared access.
  `Locked` chooses between MQFS (calls under the stream lock) and ccnvme-test,
  whose threads share a stream when there are more threads than streams.
  `live` (published, not dropped) is a history variable. `PSQProofs` - proofs.
* `OrderedLog` - what a stream promises its owner: a bounded log in the order of
  submission with a flushed prefix, which loses entries only at the front, the
  flushed ones after a replay or all of them after a checkpoint. `PSQ` has the
  refinement mapping: the log is the slots from head to tail, its flushed
  prefix those from head to flushed.
* `TxLog` - the contents of the queue of one stream with one user at a time, a
  call per step. `Clients` chooses between fsync of MQFS and users that end a
  transaction with REQ_TX_COMMIT. `match` is the outcome of comparing txids
  that the code never sets. `part`, `fresh`, `early` are history variables.
  Bios are one block long and block contents are reduced to `stale`.
* `Cmb` - which cells a submission copies and a commit flushes.
* `Streams` - ids, mounts, locks. `StreamsProofs` - proofs.
* `Fsync` - ext4_sync_file. Inodes and directory entries are *items* with
  version numbers `cur`, `written`, `durable`; buffers hold items, and each
  step on a flag or a list of a buffer is an action. A second inode in a block
  that is on a list already is written through a copy (copy_out_bh). The
  flusher, the completions and one failing write run beside the fsyncs. Each
  thread has its own stream, which is what Streams is about; of the P-SQ only
  what stream_blkdev_issue_flush asks is kept: empty, open or flushed. An
  unlock by a thread that never took the lock (after an error of the data
  writes) simply frees it. `must`, `tracked`, `alone`, `failed` are history.
* `Mmp` - ext4_multi_mount_protect and kmmpd of several nodes in discrete time.
  Reads and writes of the block are atomic and take up to `Latency` ticks;
  *mishaps* are crashes, failed writes, interrupted mounts and an oversleeping
  kmmpd. The random numbers of mounting nodes never collide with each other or
  with kmmpd's, which the code only makes likely.
* `NvmeQueue` - one I/O queue pair and the device behind it: submission without
  a check for space, completion in two steps (reap under cq_lock, handle after
  the doorbell) by the interrupt handler and by pollers, suspension, deletion,
  cancellation and creation by a reset. `crossed`, `passed`, `stale` are history.
* `NvmeCtrl` - the states of a controller and those who change them: reset work,
  timeout handlers of the I/O and the admin queue, a reset on request and
  nvme_remove, in steps that end where a lock, a wait or a read of shared state
  is. One namespace stands for all. `trouble` bounds what happens in a behaviour.
  `NvmeCtrlProofs` - proofs.
* `MC*` - instances for TLC.

How they fit together: `ImplementsOrderedLog` connects PSQ with what TxLog takes
for granted (a call at a time, entries in order). Streams is about the exclusive
use that `Locked = TRUE`, TxLog, Cmb and Fsync assume. NvmeCtrl treats the rings
as a set of requests in flight; NvmeQueue has the rings and a reset in the order
NvmeCtrl gives it. Apart from the refinement these are arguments in words; there
is no module that composes them.

## What the runs show

Holds on the instances given:

| Run | Instance | Properties |
|---|---|---|
| psq_locked | 2 threads, 4 slots, 3 journal blocks, bios to 4 blocks | NoOverrun, QueueExact, FlushedInQueue, DropOnlyReplayed, EntryIntact, ImplementsOrderedLog |
| psq_shared | 2 threads, 3 slots, 1 journal block, all calls but "commit" (which moves no pointer) | TypeOK, ReservationsExact, ReservedIsPublished, SomeReservation |
| txlog | 4 slots, 3 blocks; fsync with 2 writes, or up to 5 writes ended by REQ_TX_COMMIT | TypeOK, OpenBlocksDistinct, BracketsAreTransactions |
| streams | 4 streams, 2 mounts that want 2 or 3 each, 2 threads | StreamsConserved, AlignedExclusive, StreamGranted |
| cmb_one | 1 stream, 12 slots, 11 entries per transaction | CommittedFlushed |
| fsync | /d/f1 and /f2, all inodes in one block, 2 threads, 2 fsyncs, flusher; three scenarios (shared inode block, new directory, failing write) | TypeOK, FsyncWritten, FsyncFlushed, DirtyIsListed |
| nvme_queue | 3 slots (2 requests), interrupt handler and one poller, 1 reset | TypeOK, RequestInOnePlace, PendingIsPosted, StartedCompletes |
| nvme_ctrl | 1 request; four combinations of troubles (below) | TypeOK, FreezeBalanced, SetupNotReset, LiveIsUp, ResetEnds, RequestsEnd |
| mmp | 2 nodes, update interval 2, check interval 2 to 6, latency 1, 1 mishap | TypeOK, DoubleMountNoticed, CleanMeansUnused |

Does not hold; the findings in `PROJECT.json` quote the lines concerned:

* **txlog_home** (FlushedBlocksHome): a transaction of MQFS that is committed and
  flushed is not brought home by recovery or unmount. stream_commit_tx puts
  the END tag at the slot at tail, which is not published.
* **fsync_durable** (FsyncDurable): two threads fsync one file. The second finds the
  inode clean, because the first has written it but not flushed yet, and
  its own P-SQ empty; stream_blkdev_issue_flush then does nothing, and the second
  fsync returns 0 with the change in the volatile cache only.
* **nvme_remove** (RemoveEnds): a controller that has failed but is present is
  removed while a request is in flight. The timeout handler quiesces the queue,
  its reset is refused in DELETING, nvme_remove_namespaces kills queues only
  in DEAD, and blk_cleanup_queue waits for the requeued request for ever.

TLC also violates the properties below. They are defined in the modules; to
repeat one, change the config as stated and check the property.

| Property | Config | Change | Cause |
|---|---|---|---|
| NoOverrun | PSQ_shared.cfg | NrJournal = 2, Calls = {"bio", "flush"}, SPECIFICATION Spec | tail_watermark comes round to the value read before the space check (horae.c:129): the swap succeeds on a full queue |
| EntryIntact | PSQ_shared.cfg | NrJournal = 2, Calls = {"bio", "commit"}, SPECIFICATION Spec | a commit tags the slot at tail, which another thread has filled (horae.c:71) |
| OpenBlocksDistinct | TxLog_home.cfg | NrOmeta = 5, NrJournal = 10, MaxWrites <- Three | a checkpoint inside a transaction resets the journal pointer (checkpoint.c:394) |
| JournalCopyIntact | TxLog_home.cfg | NrOmeta = 5, NrJournal = 10 | entries that survive a truncation keep blocks which are handed out again (checkpoint.c:268, 323, 394) |
| EveryTransactionBracketed | TxLog.cfg | - | committed is 0 after a reset: the first transaction has no BEGIN (horae.c:535, 660) |
| StreamExclusive | Streams.cfg | Mounts = {m1}, Options <- OnlyThree | put_stream computes the lock from the id, get_free_stream from the position (filemap_compat.c:37) |
| CommittedFlushed | Cmb_one.cfg | NrOmeta = 4, MaxWrites = 4 | as many entries as slots count as none (horae.c:69) |
| CommittedFlushed, TailFlushed | Cmb_one.cfg | NrStreams = 2, NrOmeta = 4, MaxWrites = 3 | the wrap of a flush is computed from the size of the device (cmb.c:110); the tail is written at the start of the memory, flushed at that of the stream (horae.c:94) |
| ErrorReported | Fsync_durable.cfg | Scenarios <- OneFailing | later results replace an error (filemap_compat.c:381, fsync.c:288), against "check and advance again to catch errors" (filemap_compat.c:508) |
| CheckedStaysValid | NvmeQueue.cfg | MaxResets = 0, SPECIFICATION Spec | the doorbell gives the slot back before nvme_handle_cqe reads it (pci.c:954), against "We read the CQE phase first to check if the rest of the entry is valid" (pci.c:866) |
| MountOnce | Mmp.cfg | MaxMishaps = 0 | two nodes that find the block clean do not wait (mmp.c:307), against "Protect the filesystem from being mounted more than once." (mmp.c:270) |

### Passing runs that depend on their instance

These pass under a condition that the code does not enforce, and must not be
read without it.

* **AlignedExclusive** is exclusion where the number of streams of each mount
  divides the number there are, which keeps ids and positions congruent. A mount
  of three of four, mounted again, breaks StreamExclusive. With equal numbers, as
  src/README.md recommends, there is one mount and the FIFO comes back in the
  same order. StreamGranted too is stated for the aligned case.
* **OpenBlocksDistinct** holds in txlog, where an fsync has at most half as many
  writes as the queue has slots and fewer than the journal has blocks. It fails
  for 3 writes and 5 slots, and for 2 writes and 2 journal blocks. MQFS enforces
  neither limit. That the limit is exactly one half is a conjecture.
* **CommittedFlushed** holds for transactions shorter than the queue and one
  stream; ccNVMe is normally loaded with several.
* **BracketsAreTransactions** exempts the first transaction after a reset and
  concerns only users that send REQ_TX_COMMIT. MQFS does not (txlog_home).
* **FsyncWritten** and **FsyncFlushed** are about an fsync that has its inodes to itself
  (`alone`), without failed writes, and about the changes which flags of the inodes tell of
  (`tracked`). Directories are not locked: two fsyncs below one new directory
  take buffers and copies from the same lists, and one can return before the
  other has waited. FsyncFlushed requires that the flush was not skipped.
* **RequestInOnePlace**, **PendingIsPosted** and **StartedCompletes** exempt behaviours in
  which a handler is so slow that another one reaps a whole round, or a poller is
  busy while the queue is set up again (`crossed`): pci_free_irq waits for the
  interrupt handler only.
* **FreezeBalanced**, **LiveIsUp**, **ResetEnds**: not for the combination "any". If timeouts
  meet resets on request, or commands time out while the controller is set
  up, TLC violates the unrestricted forms: nvme_timeout decides by the state it
  reads, waits for shutdown_lock, and disables a controller that another has
  brought up meanwhile (pci.c:1194, 1216). "any" still exercises TypeOK,
  SetupNotReset and the first half of FreezeBalanced. **RequestsEnd** leaves out
  "removed" too, which is nvme_remove.
* **DoubleMountNoticed** holds for one mishap and a latency below the update
  interval. It fails with MaxMishaps = 2, and with Latency = 2.
  Two nodes that did not wait are exempt (MountOnce above).

### Bounds, deadlock, fairness

Rings of 3 to 5 slots fill, wrap, are truncated and checkpointed many times; 3
slots and 2 requests wrap the NVMe rings and invert the phase repeatedly. `faults`,
`resets`, `MaxResets`, `MaxMishaps`, `MaxAge` and the scenarios of Fsync are
bounds: four timeouts or failures, two resets, one mishap. Between them the
scenarios of Fsync make each list, copy and error path happen. The four troubles
of nvme_ctrl are requests (resets and removal of a working device), timeouts (of a
live controller), removed (timeouts and removal) and any (all, at any stage).

TxLog does not check deadlock, because a recovered system stops there; nor do
NvmeQueue and NvmeCtrl, whose bounded device ends idle or removed. Fsync does:
its threads may stop only when the scenario is over, so that
the absence of deadlock says that no fsync waits for a lock or a buffer for ever.

FairSpec of PSQ is strong fairness of the steps inside a call (its locks queue
their waiters); nobody has to make a call. The two spinning compare-and-swap
loops are covered by it, which assumes a scheduler that runs every thread.
FairSpec of Streams is strong fairness of the steps from get_free_stream to
put_stream: the mutexes queue their waiters and an fsync ends. In NvmeQueue the
device fetches (weak) and serves each command (strong: others may come first),
an interrupt is delivered, handlers go on, a reset that began is carried out;
nobody has to poll, submit or reset. In NvmeCtrl works and threads run, queues
are run, and a command is answered or times out; nobody has to send requests, and
the device need not fail.

## What is proved

For any number of slots >= 2 and any journal size, with finitely many threads
that are fewer than the slots (`PSQAssumption`, `ThreadsAssumption`):

* `TypeCorrect`: `Spec => []TypeOK`.
* `Reservations`: `Spec => []ReservationsExact`, with or without the lock. It is
  inductive together with TypeOK: as each thread holds at most one slot and
  threads are fewer than slots, the watermark cannot lap tail.
* `ExclusiveSafety`: under the lock, NoOverrun, QueueExact, FlushedInQueue,
  DropOnlyReplayed and EntryIntact. None is inductive alone: the values a call
  has read must be known to be still valid. `ExclusiveInv` adds that only the
  holder is inside a call (`Exclusive`) and what its local values mean at each
  point of the call (`CallState`).

* `LockedImplementsLog` (module `PSQRefinement`): under the lock, `Spec` implies
  ImplementsOrderedLog. Initial states map to the empty log; publication,
  flush, replay and checkpoint map to the actions of the log, all other steps
  leave it alone. Besides `ExclusiveInv` this needs that a checkpoint about to
  drop everything has found the queue full and nobody has changed that
  (`FullAtSwap`).

The last two assume the exclusion that StreamExclusive shows the code not
to give in every configuration. Where it does give it is proved, too, for any
number of streams and CPUs and any mounts, options and threads
(`StreamsAssumption`), in module `StreamsProofs`:

* `Conserved`: `Spec => []StreamsConserved`. The counts of the property are
  replaced by positions (`Placed`): no two positions of the FIFO or of the mounts
  have the same id, and every id has a position.
* `ExclusiveWhenAligned`: `Spec => []AlignedExclusive`. Mounts that ask for equally
  many streams, a divisor of their number, cut the FIFO into blocks in which id
  and position agree modulo that number (`Grid`); so the position put_stream
  computes from the id is the one whose lock the thread holds (`Locks`). Only the
  step of put_stream needs `Grid`.

For any set of requests and any troubles, in module `NvmeCtrlProofs`:

* `CtrlTypeCorrect`: `Spec => []TypeOK`, which includes that only the holder of
  shutdown_lock is in the body of nvme_dev_disable. `Control` says where each
  actor can be and where nvme_dev_disable returns to.
* `OneResetAtATime`: `Spec => []SetupNotReset`. `OneReset` is the strengthening: a
  reset that was let in is with the one who will queue it, in the work queue or
  with the reset work, never in two of these places, and the state of the
  controller says which of them are possible.

Only model-checked: everything about TxLog, Cmb, Fsync, Mmp and NvmeQueue, the
other properties of NvmeCtrl (FreezeBalanced, LiveIsUp), and liveness, which is out
of reach of the prover.

## Not modelled

* **ccNVMe**: contents of blocks and several streams in TxLog (so neither the shared
  `phase` of recovery nor plba 0 is covered), multi-block bios there, restart of
  the driver, behaviour of write-combining buffers and PCIe, module exit. The
  submitters run in the default build, but nothing is ever queued to them.
* **MQFS**: ext4_atomic_file (FATOMIC_FILE), the jbd2 path, data pages beyond one
  step of submission and one of waiting, remount options, and ext4 itself:
  extents, allocation, directories, inline data, resizing. That is by far the
  largest part of the sources and file system code that ccNVMe does not touch.
  kmmpd's read errors and what errors=continue means after it has given up.
* **nvme-host**: probing, suspend and resume, PCI error recovery, the abort command
  and the asynchronous event request, scanning, multipath, ioctls, sysfs, shadow
  doorbells, PRP and SGL lists, the other transports.
* Statistics, scripts and patches.

The map covers the concurrency and persistence code and leaves the rest alone;
measured against all sources, most of which is ext4 and other transports of
NVMe, it is a few percent.

## Plan

1. TxLog with several streams, versions of contents and JournalStart = 0; Streams
   composed with PSQ in place of `Locked`.
2. Proofs: OpenBlocksDistinct under a bound (and which), CommittedFlushed for
   one stream and short transactions, RequestInOnePlace for queues of any depth.
3. NvmeCtrl with suspend, resume and PCI error recovery, the admin queue of
   NvmeQueue with the asynchronous event request.

-------------------------------- MODULE Cmb ---------------------------------
(***************************************************************************)
(* The copy of the queues in the controller memory of the device.  The     *)
(* entries of all streams lie there one after another, each stream using   *)
(* NrOmeta cells of 64 bytes from off_in_cmb on.  A submission copies its  *)
(* entry to the device through write-combining memory; the transaction     *)
(* commit flushes what was copied since the last commit, then writes and   *)
(* flushes the tail pointer.  The module is about which cells are flushed. *)
(* Every stream has one user at a time (see PSQ and Streams).              *)
(***************************************************************************)
EXTENDS Ring, FiniteSets

CONSTANTS
  NrStreams,  \* streams of ccNVMe
  NrOmeta,    \* slots of each queue
  MaxWrites   \* most entries between two commits of a stream

ASSUME CmbAssumption ==
  /\ NrStreams \in Nat \ {0}
  /\ NrOmeta \in Nat /\ NrOmeta >= 2
  /\ MaxWrites \in Nat \ {0}

VARIABLES
  tail,        \* per stream: stream->tail
  lastFlushed, \* per stream: stream->last_queue_flushed
  written,     \* per stream: entries since the last commit
  unflushed,   \* cells copied to and not flushed since
  tailCell     \* does cell 0 hold a tail pointer that was not flushed?

vars == <<tail, lastFlushed, written, unflushed, tailCell>>

Stream == 0 .. NrStreams - 1
Slot   == 0 .. NrOmeta - 1

\* ci->dev_size, in cells: init_streams divides the whole memory.
DevSize == NrStreams * NrOmeta

OffInCmb(s) == s * NrOmeta

Cells(from, n) == from .. from + n - 1

Init ==
  /\ tail = [s \in Stream |-> 0]
  /\ lastFlushed = [s \in Stream |-> 0]
  /\ written = [s \in Stream |-> 0]
  /\ unflushed = {}
  /\ tailCell = FALSE

\* Mutant: the wrap is not looked at.
CmbFlushNoWrap(s, off, n) == Cells(OffInCmb(s) + off, n)

\* cmb_flush: the cells it flushes for data_off and data_len, in cells.
CmbFlush(s, off, n) ==
  LET left == DevSize - off IN
  IF left < n
  THEN Cells(OffInCmb(s) + off, left) \cup Cells(OffInCmb(s), n - left)
  ELSE Cells(OffInCmb(s) + off, n)

\* stream_submit_bio_core: copy_from_buff_to_dev and the new tail.
Submit(s) ==
  /\ written[s] < MaxWrites
  /\ unflushed' = unflushed \cup {OffInCmb(s) + tail[s]}
  /\ tail' = [tail EXCEPT ![s] = RingNext(@, NrOmeta)]
  /\ written' = [written EXCEPT ![s] = @ + 1]
  /\ UNCHANGED <<lastFlushed, tailCell>>

\* The entries since the last commit, as stream_tx_commit_core counts them.
NrQEntries(s) == RingCount(lastFlushed[s], tail[s], NrOmeta)

\* stream_tx_commit_core: the entries, then the tail pointer, which is written
\* to the start of the device memory and flushed at that of the stream.
CommitTx(s) ==
  /\ unflushed' = unflushed \ (CmbFlush(s, lastFlushed[s], NrQEntries(s))
                                 \cup CmbFlush(s, 0, 1))
  /\ tailCell' = (0 \notin CmbFlush(s, 0, 1))
  /\ lastFlushed' = [lastFlushed EXCEPT ![s] = tail[s]]
  /\ written' = [written EXCEPT ![s] = 0]
  /\ UNCHANGED tail

Next == \E s \in Stream : Submit(s) \/ CommitTx(s)

Spec == Init /\ [][Next]_vars
-----------------------------------------------------------------------------
(* Properties.                                                             *)

\* "Flush the queue entries here": after the commit of a transaction every
\* entry of the stream that was copied to the device has been flushed, the
\* ones before and the ones after the end of the ring.
CommittedFlushed ==
  \A s \in Stream :
    written[s] = 0 => unflushed \cap Cells(OffInCmb(s), NrOmeta) = {}

\* "Flush the tail pointer here": a commit leaves no tail pointer unflushed.
TailFlushed == ~ tailCell
=============================================================================

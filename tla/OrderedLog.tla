----------------------------- MODULE OrderedLog -----------------------------
(***************************************************************************)
(* What a stream promises the file system that owns it: a bounded log of   *)
(* entries in the order of their submission, of which a prefix is known to *)
(* be flushed.  Entries leave it at the front only, and only together: the *)
(* flushed prefix when it has been replayed to its home blocks, or all of  *)
(* them when a checkpoint has saved the log elsewhere.                     *)
(***************************************************************************)
EXTENDS Naturals, Sequences

CONSTANTS
  Entry,     \* names of the entries
  Capacity   \* most entries the log holds

VARIABLES
  log,       \* the entries, oldest first
  flushed    \* how many of the oldest are flushed

logVars == <<log, flushed>>

LogInit == log = <<>> /\ flushed = 0

\* A submission returns: its entry is the youngest, and is not in use.
Publish(e) ==
  /\ Len(log) < Capacity
  /\ \A i \in 1 .. Len(log) : log[i] # e
  /\ log' = Append(log, e)
  /\ UNCHANGED flushed

\* A flush covers every entry there is.
FlushAll ==
  /\ flushed' = Len(log)
  /\ UNCHANGED log

\* The flushed entries have been replayed.
DropFlushed ==
  /\ log' = SubSeq(log, flushed + 1, Len(log))
  /\ flushed' = 0

\* A checkpoint has saved the whole log; it is written when there is no room.
DropAll ==
  /\ Len(log) = Capacity
  /\ log' = <<>>
  /\ flushed' = 0

LogNext == (\E e \in Entry : Publish(e)) \/ FlushAll \/ DropFlushed \/ DropAll

LogSpec == LogInit /\ [][LogNext]_logVars
=============================================================================

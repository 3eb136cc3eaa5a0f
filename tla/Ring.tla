-------------------------------- MODULE Ring --------------------------------
(***************************************************************************)
(* Index arithmetic of the circular queues of ccNVMe: the persistent       *)
(* submission queue of a stream (struct stream) and the ring of a          *)
(* submitter thread (struct submitter_ring).  Indices are 0 .. size-1; the *)
(* slots in use are from "head" up to, and excluding, "tail", and one slot *)
(* always stays free.                                                      *)
(***************************************************************************)
EXTENDS Integers

\* horae_ring_space: slots that can still be taken behind tail.
RingSpace(head, tail, size) == (size + head - tail - 1) % size

\* horae_count: slots from head up to tail.
RingCount(head, tail, size) == (size + tail - head) % size

\* The index after i, as in tail_new = tail_old + 1; tail_new %= size.
RingNext(i, size) == (i + 1) % size

\* The index k slots after i.
RingAt(i, k, size) == (i + k) % size

\* The slots a loop "for (m = from; m != to; m = (m + 1) % size)" visits.
RingSlots(from, to, size) ==
  {RingAt(from, k, size) : k \in 0 .. RingCount(from, to, size) - 1}
=============================================================================

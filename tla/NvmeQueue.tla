----------------------------- MODULE NvmeQueue ------------------------------
(***************************************************************************)
(* One I/O queue pair of the NVMe driver of ccNVMe (nvme-host/pci.c): the  *)
(* submission and the completion ring in memory the host and the device    *)
(* share, interrupt handler and pollers that reap completions, and the     *)
(* life of the queue across controller resets.  The driver never asks      *)
(* whether a ring is full: that both rings hold all the requests there are *)
(* tags for is what the module is about.                                   *)
(*                                                                         *)
(* cq_lock is held within one action only.  A completion is reaped under   *)
(* the lock, which gives its slot back to the device, and handled after    *)
(* the lock has been released.                                             *)
(***************************************************************************)
EXTENDS Ring, FiniteSets

CONSTANTS
  Depth,     \* nvmeq->q_depth
  Pollers,   \* threads in blk_poll or in the timeout handler
  Irq,       \* the interrupt handler
  Reset,     \* the thread that disables and re-enables the controller
  MaxResets  \* bound: how often the controller is reset or shut down

ASSUME NvmeQueueAssumption ==
  /\ Depth \in Nat /\ Depth >= 2
  /\ MaxResets \in Nat
  /\ Irq \notin Pollers /\ Reset \notin Pollers /\ Irq # Reset

Handlers == Pollers \cup {Irq, Reset}
Slot     == 0 .. Depth - 1

\* Mutant: the tag set is as deep as the queue.
TagAll == 0 .. Depth - 1

\* tagset.queue_depth in nvme_dev_add: one less than the ring.
Tag == 0 .. Depth - 2

VARIABLES
  sq, sq_tail,        \* nvmeq->sq_cmds: the tag in each slot; sq_tail
  cqe,                \* nvmeq->cqes: command_id and phase bit of each slot
  cq_head, cq_phase,  \* nvmeq->cq_head, cq_phase
  started,            \* tags of requests between start and completion
  quiesced,           \* are the request queues quiesced?
  vector,             \* nvmeq->cq_vector >= 0
  irq,                \* is the interrupt handler registered?
  sq_head, cq_tail, dev_phase,  \* the device: where it reads and writes
  sq_door, cq_door,   \* the device: the last sq_tail and cq_head it was told
  indev,              \* the device: commands it has fetched
  on,                 \* the device: does it serve this queue?
  h,                  \* per handler: the completions reaped, not yet handled
  rs, resets,         \* where Reset is; how many resets there were
  crossed             \* history: a handler was too slow

host  == <<sq, sq_tail, cqe, cq_head, cq_phase>>
dev   == <<sq_head, cq_tail, dev_phase, sq_door, cq_door, indev, on>>
reset == <<quiesced, vector, irq, rs, resets, crossed>>
vars  == <<host, started, dev, h, reset>>

Zero == [id |-> 0, phase |-> 0]

\* History: another handler has reaped completions after this one (passed), the
\* requests of these completions have been cancelled (stale).
Nothing == [start |-> 0, end |-> 0, passed |-> FALSE, stale |-> FALSE]

Busy(x) == h[x].start # h[x].end

Mine(x) == RingSlots(h[x].start, h[x].end, Depth)

\* Mutant: an index does not wrap.
Next1NoWrap(i) == i + 1

\* if (++i == nvmeq->q_depth) i = 0;
Next1(i) == RingNext(i, Depth)

Init ==
  /\ sq = [i \in Slot |-> 0] /\ sq_tail = 0
  /\ cqe = [i \in Slot |-> Zero] /\ cq_head = 0 /\ cq_phase = 1
  /\ started = {} /\ quiesced = FALSE /\ vector = TRUE /\ irq = TRUE
  /\ sq_head = 0 /\ cq_tail = 0 /\ dev_phase = 1 /\ sq_door = 0
  /\ cq_door = 0
  /\ indev = {} /\ on = TRUE
  /\ h = [x \in Handlers |-> Nothing]
  /\ rs = "live" /\ resets = 0 /\ crossed = FALSE
-----------------------------------------------------------------------------
(* Submission.                                                             *)

\* nvme_queue_rq and nvme_submit_cmd.  While cq_vector is -1 a request fails.
QueueRq(t) ==
  /\ ~ quiesced /\ vector /\ t \notin started
  /\ started' = started \cup {t}
  /\ sq' = [sq EXCEPT ![sq_tail] = t]
  /\ sq_tail' = Next1(sq_tail) /\ sq_door' = Next1(sq_tail)
  /\ UNCHANGED <<cqe, cq_head, cq_phase, sq_head, cq_tail, dev_phase, cq_door,
                 indev, on, h, reset>>
-----------------------------------------------------------------------------
(* The device.                                                             *)

Fetch ==
  /\ on /\ sq_head # sq_door
  /\ indev' = indev \cup {sq[sq_head]}
  /\ sq_head' = Next1(sq_head)
  /\ UNCHANGED <<host, started, cq_tail, dev_phase, sq_door, cq_door, on, h,
                 reset>>

\* Commands complete in any order; a full completion queue stops the device.
Post(t) ==
  /\ on /\ t \in indev /\ Next1(cq_tail) # cq_door
  /\ indev' = indev \ {t}
  /\ cqe' = [cqe EXCEPT ![cq_tail] = [id |-> t, phase |-> dev_phase]]
  /\ cq_tail' = Next1(cq_tail)
  /\ dev_phase' = IF cq_tail' = 0 THEN 1 - dev_phase ELSE dev_phase
  /\ crossed' = (crossed \/ \E x \in Handlers :
                               h[x].passed /\ cq_tail \in Mine(x))
  /\ UNCHANGED <<sq, sq_tail, cq_head, cq_phase, started, sq_head, sq_door,
                 cq_door, on, h, quiesced, vector, irq, rs, resets>>
-----------------------------------------------------------------------------
(* Completion.                                                             *)

PendingAt(head, phase) == cqe[head].phase = phase

\* nvme_cqe_pending
CqePending == PendingAt(cq_head, cq_phase)

\* Mutant: cq_phase is not inverted when cq_head wraps.
PhaseAfterSame(k) == cq_phase

\* nvme_update_cq_head, k times
PhaseAfter(k) == IF cq_head + k < Depth THEN cq_phase ELSE 1 - cq_phase

\* The completions that the loop of nvme_process_cq finds.
Found ==
  {k \in 1 .. Depth :
     \A j \in 0 .. k - 1 :
       PendingAt(RingAt(cq_head, j, Depth), PhaseAfter(j))}

\* nvme_process_cq reaps k completions and rings the doorbell of cq_head.
ProcessCq(x, k) ==
  LET end == RingAt(cq_head, k, Depth) IN
  /\ h' = [y \in Handlers |->
             IF y = x THEN [start |-> cq_head, end |-> end, passed |-> FALSE,
                            stale |-> rs \in {"down", "created", "gone"}]
             ELSE [h[y] EXCEPT !.passed = Busy(y)]]
  /\ cq_head' = end
  /\ cq_phase' = PhaseAfter(k)
  /\ cq_door' = end

\* nvme_irq: everything there is.
IrqReap ==
  /\ irq /\ ~ Busy(Irq) /\ CqePending
  /\ \E k \in Found : k + 1 \notin Found /\ ProcessCq(Irq, k)
  /\ UNCHANGED <<sq, sq_tail, cqe, started, sq_head, cq_tail, dev_phase,
                 sq_door, indev, on, reset>>

\* __nvme_poll: up to the completion of the request that is waited for.
Poll(x) ==
  /\ ~ Busy(x) /\ CqePending
  /\ \E k \in Found : ProcessCq(x, k)
  /\ crossed' = (crossed \/ rs = "created")
  /\ UNCHANGED <<sq, sq_tail, cqe, started, sq_head, cq_tail, dev_phase,
                 sq_door, indev, on, quiesced, vector, irq, rs, resets>>

\* nvme_complete_cqes, one round: nvme_handle_cqe reads the slot once more.
\* blk_mq_complete_request does nothing for a request that is not started.
HandleCqe(x) ==
  /\ Busy(x)
  /\ started' = started \ {cqe[h[x].start].id}
  /\ h' = [h EXCEPT ![x] = IF Next1(@.start) = @.end THEN Nothing
                           ELSE [@ EXCEPT !.start = Next1(@)]]
  /\ UNCHANGED <<host, dev, reset>>
-----------------------------------------------------------------------------
(* nvme_dev_disable and the way back up in nvme_reset_work.                *)

\* nvme_stop_queues
StopQueues ==
  /\ rs = "live" /\ resets < MaxResets
  /\ quiesced' = TRUE /\ rs' = "stop" /\ resets' = resets + 1
  /\ UNCHANGED <<host, started, dev, h, vector, irq, crossed>>

\* The controller deletes the queues; nvme_del_cq_end reaps what it has posted.
\* A controller that is dead is left alone.
DeleteQueues ==
  /\ rs = "stop"
  /\ \/ on' = FALSE /\ rs' = "reap"
     \/ on' = on /\ rs' = "suspend"
  /\ UNCHANGED <<host, started, sq_head, cq_tail, dev_phase, sq_door, cq_door,
                 indev, h, quiesced, vector, irq, resets, crossed>>

DelCqEnd ==
  /\ rs = "reap" /\ rs' = "suspend"
  /\ IF CqePending
     THEN \E k \in Found : k + 1 \notin Found /\ ProcessCq(Reset, k)
     ELSE UNCHANGED <<h, cq_head, cq_phase, cq_door>>
  /\ UNCHANGED <<sq, sq_tail, cqe, started, sq_head, cq_tail, dev_phase,
                 sq_door, indev, on, quiesced, vector, irq, resets, crossed>>

\* Mutant: pci_free_irq does not wait for the handler.
SuspendQueueNoSync ==
  /\ rs = "suspend" /\ ~ Busy(Reset)
  /\ vector' = FALSE /\ irq' = FALSE /\ rs' = "pci"
  /\ UNCHANGED <<host, started, dev, h, quiesced, resets, crossed>>

\* nvme_suspend_queue; pci_free_irq waits for the interrupt handler.
SuspendQueue ==
  /\ rs = "suspend" /\ ~ Busy(Reset) /\ ~ Busy(Irq)
  /\ vector' = FALSE /\ irq' = FALSE /\ rs' = "pci"
  /\ UNCHANGED <<host, started, dev, h, quiesced, resets, crossed>>

\* nvme_pci_disable
PciDisable ==
  /\ rs = "pci" /\ rs' = "cancel"
  /\ on' = FALSE
  /\ UNCHANGED <<host, started, sq_head, cq_tail, dev_phase, sq_door, cq_door,
                 indev, h, quiesced, vector, irq, resets, crossed>>

\* Mutant: a shutdown leaves the requests as they are.
CancelRequestsReset ==
  /\ rs = "cancel"
  /\ h' = [x \in Handlers |-> [h[x] EXCEPT !.stale = Busy(x)]]
  /\ \/ rs' = "down" /\ started' = {} /\ UNCHANGED quiesced
     \/ rs' = "gone" /\ quiesced' = FALSE /\ UNCHANGED started
  /\ UNCHANGED <<host, dev, vector, irq, resets, crossed>>

\* nvme_cancel_request for every started request; nvme_start_queues after a
\* shutdown only.
CancelRequests ==
  /\ rs = "cancel"
  /\ started' = {}
  /\ h' = [x \in Handlers |-> [h[x] EXCEPT !.stale = Busy(x)]]
  /\ \/ rs' = "down" /\ UNCHANGED quiesced
     \/ rs' = "gone" /\ quiesced' = FALSE
  /\ UNCHANGED <<host, dev, vector, irq, resets, crossed>>

\* adapter_alloc_cq and adapter_alloc_sq
CreateQueue ==
  /\ rs = "down" /\ rs' = "created"
  /\ on' = TRUE /\ indev' = {}
  /\ sq_head' = 0 /\ cq_tail' = 0 /\ dev_phase' = 1
  /\ sq_door' = 0 /\ cq_door' = 0
  /\ UNCHANGED <<host, started, h, quiesced, vector, irq, resets, crossed>>

\* Mutant: the completion queue is not cleared.
InitQueueKeepsCqes ==
  /\ rs = "created" /\ rs' = "inited"
  /\ vector' = TRUE
  /\ sq_tail' = 0 /\ cq_head' = 0 /\ cq_phase' = 1
  /\ crossed' = (crossed \/ \E x \in Pollers : Busy(x))
  /\ UNCHANGED <<sq, cqe, started, dev, h, quiesced, irq, resets>>

\* cq_vector is set, then nvme_init_queue resets the host's side of the queue.
InitQueue ==
  /\ rs = "created" /\ rs' = "inited"
  /\ vector' = TRUE
  /\ sq_tail' = 0 /\ cq_head' = 0 /\ cq_phase' = 1
  /\ cqe' = [i \in Slot |-> Zero]
  /\ crossed' = (crossed \/ \E x \in Pollers : Busy(x))
  /\ UNCHANGED <<sq, started, dev, h, quiesced, irq, resets>>

QueueRequestIrq ==
  /\ rs = "inited" /\ rs' = "irq"
  /\ irq' = TRUE
  /\ UNCHANGED <<host, started, dev, h, quiesced, vector, resets, crossed>>

StartQueues ==
  /\ rs = "irq" /\ rs' = "live"
  /\ quiesced' = FALSE
  /\ UNCHANGED <<host, started, dev, h, vector, irq, resets, crossed>>
-----------------------------------------------------------------------------
Device == Fetch \/ \E t \in Tag : Post(t)

Reap ==
  \/ IrqReap
  \/ \E x \in Pollers : Poll(x)
  \/ \E x \in Handlers : HandleCqe(x)

Resetting ==
  \/ DeleteQueues \/ DelCqEnd \/ SuspendQueue \/ PciDisable
  \/ CancelRequests \/ CreateQueue \/ InitQueue \/ QueueRequestIrq
  \/ StartQueues

Next ==
  \/ \E t \in Tag : QueueRq(t)
  \/ Device \/ Reap \/ StopQueues \/ Resetting

Spec == Init /\ [][Next]_vars

\* The device serves every command, an interrupt is not lost for ever, handlers
\* deal with what they have reaped and a reset gets done.
Fairness ==
  /\ WF_vars(Fetch) /\ \A t \in Tag : SF_vars(Post(t))
  /\ WF_vars(IrqReap) /\ \A x \in Handlers : WF_vars(HandleCqe(x))
  /\ WF_vars(Resetting)

FairSpec == Spec /\ Fairness
-----------------------------------------------------------------------------
(* Properties.                                                             *)

\* Indices, tags and phase bits stay in their ranges: no index of nvmeq runs
\* past q_depth, and slots and completions only ever name tags there are.
TypeOK ==
  /\ sq \in [Slot -> Tag] /\ cqe \in [Slot -> [id : Tag, phase : {0, 1}]]
  /\ {sq_tail, cq_head, sq_head, cq_tail, sq_door, cq_door} \subseteq Slot
  /\ cq_phase \in {0, 1} /\ dev_phase \in {0, 1}
  /\ started \subseteq Tag /\ indev \subseteq Tag
  /\ h \in [Handlers -> [start : Slot, end : Slot,
                        passed : BOOLEAN, stale : BOOLEAN]]

Down == rs \in {"down", "created", "gone"}

InSq == RingSlots(sq_head, sq_door, Depth)

Fresh == {x \in Handlers : ~ h[x].stale}

\* Every started request is in exactly one place: a slot of the submission
\* queue, the device, or the slot of a completion nobody has handled yet, which
\* belongs to one handler or to none.
OnePlace ==
  LET posted == RingSlots(cq_head, cq_tail, Depth)
      reaped == UNION {{x} \X Mine(x) : x \in Fresh}
  IN  /\ started = {sq[i] : i \in InSq} \cup indev
                      \cup {cqe[i].id : i \in posted}
                      \cup {cqe[r[2]].id : r \in reaped}
      /\ Cardinality(started) = Cardinality(InSq) + Cardinality(indev)
                                  + Cardinality(posted) + Cardinality(reaped)

\* Neither ring is overrun, although nvme_submit_cmd does not look and
\* nvme_process_cq gives slots back before nvme_handle_cqe reads them; so each
\* request is completed once, by its own completion.  This holds across a reset
\* too, because pci_free_irq waits for the interrupt handler.  Excepted are
\* behaviours in which a handler is overtaken by a round of completions that
\* another one reaps, or a poller is busy while the queue is set up again.
RequestInOnePlace == ~ crossed /\ ~ Down => OnePlace

\* "We read the CQE phase first to check if the rest of the entry is valid": an
\* entry whose phase was right is still valid when nvme_handle_cqe reads the
\* rest, after the lock has been dropped and the doorbell rung.
CheckedStaysValid == resets = 0 => OnePlace

\* The phase bit tells the host exactly what the device has posted: across any
\* number of wraps and resets nvme_cqe_pending is true if and only if there is
\* a completion the host has not reaped.
PendingIsPosted ==
  ~ crossed /\ ~ Down => (CqePending <=> cq_head # cq_tail)

\* Every request nvme_queue_rq has started completes: by its completion or, if
\* a reset comes first, by nvme_cancel_request.
StartedCompletes ==
  \A t \in Tag : t \in started ~> (t \notin started \/ crossed)
=============================================================================

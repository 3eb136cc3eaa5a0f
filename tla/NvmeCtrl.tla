------------------------------ MODULE NvmeCtrl ------------------------------
(***************************************************************************)
(* The life of an NVMe controller in the driver of ccNVMe: the state       *)
(* machine of nvme_change_ctrl_state, the reset work, the timeout handler, *)
(* resets on request and the removal of the device, which all call         *)
(* nvme_dev_disable and run at the same time.  One namespace stands for    *)
(* all; its request queue can be quiesced, frozen and dying.  The rings    *)
(* are in the module NvmeQueue.                                            *)
(*                                                                         *)
(* nvme_dev_disable is serialised by shutdown_lock.  The reset work brings *)
(* the controller up again without that lock.                              *)
(***************************************************************************)
EXTENDS Naturals, FiniteSets

CONSTANTS
  Ios,      \* I/O requests
  Troubles, \* bounds: what may happen to the controller
  NoActor   \* "nobody holds the lock"

\* The reset work, the timeout handlers of the I/O queue and of the admin
\* queue, a user who resets the controller through sysfs, and nvme_remove.
Actor == {"work", "tio", "tadm", "user", "remove"}

\* Bounds on the timeouts and failures of the device, the resets on request and
\* whether the device is removed; in which stages of the life of the controller
\* commands time out.  The field kind names the combination.
Trouble == [faults : Nat, resets : Nat, remove : BOOLEAN,
            stages : SUBSET {"live", "setup", "removal"},
            kind : {"requests", "timeouts", "removed", "any"}]

ASSUME NvmeCtrlAssumption ==
  Troubles \subseteq Trouble /\ NoActor \notin Actor

CtrlState ==
  {"LIVE", "ADMIN_ONLY", "RESETTING", "CONNECTING", "DELETING", "DEAD"}

VARIABLES
  state,     \* ctrl->state
  queued,    \* is reset_work pending?
  enabled,   \* pdev->enable_cnt
  en,        \* ctrl_config & NVME_CC_ENABLE
  alive,     \* does the device work (no CFS, RDY)?
  vec,       \* the queues with cq_vector >= 0: "admin", "io"
  quiesced,  \* is the queue of the namespace quiesced?
  admq,      \* is the admin queue quiesced?
  dying,     \* is the queue of the namespace dying?
  ns,        \* is there a namespace?
  frozen,    \* the freeze depth of its queue
  lock,      \* holder of dev->shutdown_lock
  pc, back,  \* per actor: where it is, where nvme_dev_disable returns to
  dead,      \* per actor: the variable "dead" of nvme_dev_disable
  adm,       \* the admin command of the reset work
  io,        \* per I/O request: where it is
  rmwork,    \* is remove_work pending?
  trouble    \* the bounds, as far as they have not been used up

hw    == <<enabled, en, alive, vec>>
queue == <<quiesced, admq, dying, ns, frozen>>
vars  == <<state, queued, hw, queue, lock, pc, back, dead, adm, io, rmwork,
           trouble>>

Init ==
  /\ state = "LIVE" /\ queued = FALSE
  /\ enabled = 1 /\ en = TRUE /\ alive = TRUE /\ vec = {"admin", "io"}
  /\ quiesced = FALSE /\ admq = FALSE /\ dying = FALSE
  /\ ns = TRUE /\ frozen = 0
  /\ lock = NoActor
  /\ pc = [a \in Actor |-> "idle"] /\ back = [a \in Actor |-> "idle"]
  /\ dead = [a \in Actor |-> FALSE]
  /\ adm = "none" /\ io = [r \in Ios |-> "none"]
  /\ rmwork = FALSE /\ trouble \in Troubles

Goto(a, l) == pc' = [pc EXCEPT ![a] = l]
At(a, l)   == pc[a] = l

\* Call nvme_dev_disable, then go on at l.
Disable(a, l) ==
  /\ pc' = [pc EXCEPT ![a] = "lock"]
  /\ back' = [back EXCEPT ![a] = l]

\* Mutant of MayChange: a controller being set up may be reset.
MayChangeConnecting(new) ==
  \/ new \in {"ADMIN_ONLY", "RESETTING"} /\ state = "CONNECTING"
  \/ new = "LIVE"       /\ state \in {"RESETTING", "CONNECTING"}
  \/ new = "RESETTING"  /\ state \in {"LIVE", "ADMIN_ONLY"}
  \/ new = "CONNECTING" /\ state = "RESETTING"
  \/ new = "DELETING"   /\ state \in {"LIVE", "ADMIN_ONLY", "RESETTING",
                                      "CONNECTING"}
  \/ new = "DEAD"       /\ state = "DELETING"

\* nvme_change_ctrl_state: may new follow the current state?
MayChange(new) ==
  \/ new = "ADMIN_ONLY" /\ state = "CONNECTING"
  \/ new = "LIVE"       /\ state \in {"RESETTING", "CONNECTING"}
  \/ new = "RESETTING"  /\ state \in {"LIVE", "ADMIN_ONLY"}
  \/ new = "CONNECTING" /\ state = "RESETTING"
  \/ new = "DELETING"   /\ state \in {"LIVE", "ADMIN_ONLY", "RESETTING",
                                      "CONNECTING"}
  \/ new = "DEAD"       /\ state = "DELETING"

Fault ==
  trouble.faults > 0 /\ trouble' = [trouble EXCEPT !.faults = @ - 1]
-----------------------------------------------------------------------------
(* I/O requests and the device.                                            *)

InFlight == {r \in Ios : io[r] \in {"sent", "aborted"}}
Drained  == \A r \in Ios : io[r] = "none"

\* blk_queue_enter: a frozen or dying queue admits nobody.
Enter(r) ==
  /\ io[r] = "none" /\ ns /\ frozen = 0 /\ ~ dying
  /\ io' = [io EXCEPT ![r] = "entered"]
  /\ UNCHANGED <<state, queued, hw, queue, lock, pc, back, dead, adm, rmwork,
                 trouble>>

\* nvme_queue_rq; without an interrupt vector the request fails.
Dispatch(r) ==
  /\ io[r] = "entered" /\ ~ quiesced
  /\ io' = [io EXCEPT ![r] = IF "io" \in vec THEN "sent" ELSE "none"]
  /\ UNCHANGED <<state, queued, hw, queue, lock, pc, back, dead, adm, rmwork,
                 trouble>>

Serves(q) == alive /\ enabled > 0 /\ en /\ q \in vec

Complete(r) ==
  /\ r \in InFlight /\ Serves("io")
  /\ io' = [io EXCEPT ![r] = "none"]
  /\ UNCHANGED <<state, queued, hw, queue, lock, pc, back, dead, adm, rmwork,
                 trouble>>

\* The command the reset work waits for.  If nvme_queue_rq fails it, the status
\* nvme_submit_sync_cmd returns is what the last user of the tag has left.
AdmDispatch ==
  /\ adm = "queued" /\ ~ admq
  /\ IF "admin" \in vec THEN adm' = "sent" ELSE adm' \in {"ok", "error"}
  /\ UNCHANGED <<state, queued, hw, queue, lock, pc, back, dead, io, rmwork,
                 trouble>>

AdmComplete ==
  /\ adm = "sent" /\ Serves("admin")
  /\ adm' = "ok"
  /\ UNCHANGED <<state, queued, hw, queue, lock, pc, back, dead, io, rmwork,
                 trouble>>

\* The controller reports a fatal status.
Fail ==
  /\ alive /\ Fault /\ state = "LIVE"
  /\ alive' = FALSE
  /\ UNCHANGED <<state, queued, enabled, en, vec, queue, lock, pc, back, dead,
                 adm, io, rmwork>>
-----------------------------------------------------------------------------
(* nvme_dev_disable, for actor a.  nvme_remove calls it with shutdown.     *)

\* Mutants of DisableBegin: without shutdown_lock, and without the test
\* pci_is_enabled.
DisableBeginNoLock(a) ==
  /\ At(a, "lock")
  /\ lock' = a
  /\ dead' = [dead EXCEPT ![a] = enabled = 0 \/ ~ alive]
  /\ frozen' = IF enabled > 0 /\ state \in {"LIVE", "RESETTING"} /\ ns
               THEN frozen + 1 ELSE frozen
  /\ Goto(a, "stop")
  /\ UNCHANGED <<state, queued, hw, quiesced, admq, dying, ns, back, adm, io,
                 rmwork, trouble>>

DisableBeginAlways(a) ==
  /\ At(a, "lock") /\ lock = NoActor
  /\ lock' = a
  /\ dead' = [dead EXCEPT ![a] = enabled = 0 \/ ~ alive]
  /\ frozen' = IF state \in {"LIVE", "RESETTING"} /\ ns
               THEN frozen + 1 ELSE frozen
  /\ Goto(a, "stop")
  /\ UNCHANGED <<state, queued, hw, quiesced, admq, dying, ns, back, adm, io,
                 rmwork, trouble>>

DisableBegin(a) ==
  /\ At(a, "lock") /\ lock = NoActor
  /\ lock' = a
  /\ dead' = [dead EXCEPT ![a] = enabled = 0 \/ ~ alive]
  /\ frozen' = IF enabled > 0 /\ state \in {"LIVE", "RESETTING"} /\ ns
               THEN frozen + 1 ELSE frozen
  /\ Goto(a, "stop")
  /\ UNCHANGED <<state, queued, hw, quiesced, admq, dying, ns, back, adm, io,
                 rmwork, trouble>>

StopQueues(a) ==
  /\ At(a, "stop")
  /\ quiesced' = TRUE
  /\ Goto(a, "suspend")
  /\ UNCHANGED <<state, queued, hw, admq, dying, ns, frozen, lock, back, dead,
                 adm, io, rmwork, trouble>>

\* nvme_disable_io_queues and nvme_disable_admin_queue unless the device is
\* dead (a shutdown leaves NVME_CC_ENABLE set); nvme_suspend_queue.
SuspendQueues(a) ==
  /\ At(a, "suspend")
  /\ en' = (en /\ (dead[a] \/ a = "remove"))
  /\ vec' = {}
  /\ admq' = (admq \/ "admin" \in vec)
  /\ Goto(a, "cancel")
  /\ UNCHANGED <<state, queued, enabled, alive, quiesced, dying, ns, frozen,
                 lock, back, dead, adm, io, rmwork, trouble>>

\* nvme_pci_disable, then nvme_cancel_request for all that is in flight: it is
\* retried, unless the queue is dying or the request may not be.
CancelAll(a) ==
  /\ At(a, "cancel")
  /\ enabled' = IF enabled > 0 THEN enabled - 1 ELSE 0
  /\ \E retry \in SUBSET InFlight :
       /\ dying => retry = {}
       /\ io' = [r \in Ios |-> IF r \in retry THEN "entered"
                               ELSE IF r \in InFlight THEN "none"
                               ELSE io[r]]
  /\ adm' = IF adm = "sent" THEN "error" ELSE adm
  /\ Goto(a, "unlock")
  /\ UNCHANGED <<state, queued, en, alive, vec, queue, lock, back, dead,
                 rmwork, trouble>>

DisableEnd(a) ==
  /\ At(a, "unlock")
  /\ quiesced' = (quiesced /\ a # "remove")
  /\ lock' = NoActor
  /\ Goto(a, back[a])
  /\ UNCHANGED <<state, queued, hw, admq, dying, ns, frozen, back, dead, adm,
                 io, rmwork, trouble>>
-----------------------------------------------------------------------------
(* nvme_reset_ctrl and nvme_timeout.                                       *)

ResetCtrl(a) ==
  /\ At(a, "reset")
  /\ IF MayChange("RESETTING")
     THEN state' = "RESETTING" /\ Goto(a, "queue")
     ELSE UNCHANGED state /\ Goto(a, "idle")
  /\ UNCHANGED <<queued, hw, queue, lock, back, dead, adm, io, rmwork, trouble>>

QueueWork(a) ==
  /\ At(a, "queue")
  /\ queued' = TRUE
  /\ Goto(a, "idle")
  /\ UNCHANGED <<state, hw, queue, lock, back, dead, adm, io, rmwork, trouble>>

\* /sys/class/nvme/nvmeX/reset_controller
UserReset ==
  /\ At("user", "idle")
  /\ trouble.resets > 0 /\ trouble' = [trouble EXCEPT !.resets = @ - 1]
  /\ Goto("user", "reset")
  /\ UNCHANGED <<state, queued, hw, queue, lock, back, dead, adm, io, rmwork>>

Stage == CASE state \in {"LIVE", "ADMIN_ONLY"} -> "live"
           [] state \in {"RESETTING", "CONNECTING"} -> "setup"
           [] OTHER -> "removal"

\* A command times out: a bounded number of times while the device answers or
\* nvme_dev_disable is about to cancel the command, always otherwise.
TimesOut(q) ==
  IF Serves(q) \/ lock # NoActor
  THEN Stage \in trouble.stages /\ Fault
  ELSE UNCHANGED trouble

\* An I/O request times out: reset a failed controller; give up setting one up;
\* abort the request the first time, reset the controller the second time.
TimeoutIo(r) ==
  /\ At("tio", "idle") /\ r \in InFlight /\ TimesOut("io")
  /\ IF Stage = "setup" THEN Disable("tio", "idle") /\ UNCHANGED io
     ELSE IF ~ alive \/ io[r] = "aborted"
     THEN Disable("tio", "reset") /\ UNCHANGED io
     ELSE io' = [io EXCEPT ![r] = "aborted"] /\ UNCHANGED <<pc, back>>
  /\ UNCHANGED <<state, queued, hw, queue, lock, dead, adm, rmwork>>

\* An admin command times out.
TimeoutAdm ==
  /\ At("tadm", "idle") /\ adm = "sent" /\ TimesOut("admin")
  /\ Disable("tadm", IF Stage = "setup" THEN "idle" ELSE "reset")
  /\ UNCHANGED <<state, queued, hw, queue, lock, dead, adm, io, rmwork>>
-----------------------------------------------------------------------------
(* nvme_reset_work.                                                        *)

WorkStart ==
  /\ queued /\ At("work", "idle")
  /\ queued' = FALSE
  /\ IF state # "RESETTING" THEN Goto("work", "out") /\ UNCHANGED back
     ELSE IF en THEN Disable("work", "connect")
     ELSE Goto("work", "connect") /\ UNCHANGED back
  /\ UNCHANGED <<state, hw, queue, lock, dead, adm, io, rmwork, trouble>>

WorkConnect ==
  /\ At("work", "connect")
  /\ IF MayChange("CONNECTING")
     THEN state' = "CONNECTING" /\ Goto("work", "enable")
     ELSE UNCHANGED state /\ Goto("work", "out")
  /\ UNCHANGED <<queued, hw, queue, lock, back, dead, adm, io, rmwork, trouble>>

\* nvme_pci_enable and nvme_pci_configure_admin_queue, which fail if the device
\* does not answer.
WorkEnable ==
  /\ At("work", "enable")
  /\ \/ /\ enabled' = enabled + 1
        /\ Goto("work", "admin")
        /\ UNCHANGED trouble
     \/ /\ Fault /\ UNCHANGED enabled
        /\ Goto("work", "out")
  /\ UNCHANGED <<state, queued, en, alive, vec, queue, lock, back, dead, adm,
                 io, rmwork>>

WorkAdmin ==
  /\ At("work", "admin")
  /\ en' = TRUE
  /\ \/ /\ enabled > 0
        /\ alive' = TRUE /\ vec' = vec \cup {"admin"}
        /\ Goto("work", "tags")
        /\ UNCHANGED trouble
     \/ /\ IF enabled = 0 THEN UNCHANGED trouble ELSE Fault
        /\ Goto("work", "out")
        /\ UNCHANGED <<alive, vec>>
  /\ UNCHANGED <<state, queued, enabled, queue, lock, back, dead, adm, io,
                 rmwork>>

\* nvme_alloc_admin_tags; then the first of the commands.
WorkTags ==
  /\ At("work", "tags")
  /\ admq' = FALSE
  /\ adm' = "queued"
  /\ Goto("work", "identify")
  /\ UNCHANGED <<state, queued, hw, quiesced, dying, ns, frozen, lock, back,
                 dead, io, rmwork, trouble>>

\* nvme_init_identify; the next command is one of nvme_setup_io_queues.
WorkIdentify ==
  /\ At("work", "identify") /\ adm \in {"ok", "error"}
  /\ IF adm = "ok" THEN adm' = "queued" /\ Goto("work", "queues")
     ELSE adm' = "none" /\ Goto("work", "out")
  /\ UNCHANGED <<state, queued, hw, queue, lock, back, dead, io, rmwork,
                 trouble>>

\* nvme_setup_io_queues.  A command that fails leaves the controller without
\* I/O queues, one that nvme_timeout has marked cancelled is an error.
WorkQueues ==
  /\ At("work", "queues") /\ adm \in {"ok", "error"}
  /\ adm' = "none"
  /\ \/ adm = "ok" /\ vec' = vec \cup {"io"} /\ Goto("work", "check")
     \/ adm = "error" /\ UNCHANGED vec /\ Goto("work", "check")
     \/ adm = "error" /\ UNCHANGED vec /\ Goto("work", "out")
  /\ UNCHANGED <<state, queued, enabled, en, alive, queue, lock, back, dead,
                 io, rmwork, trouble>>

\* Mutant of KillQueues: the queues stay quiesced.
KillQueuesQuiesced == dying' = TRUE /\ UNCHANGED <<quiesced, admq>>

\* nvme_kill_queues
KillQueues == dying' = TRUE /\ quiesced' = FALSE /\ admq' = FALSE

\* Mutant of WorkCheck: no nvme_start_queues before nvme_wait_freeze.
WorkCheckNoStart ==
  /\ At("work", "check")
  /\ IF Cardinality(vec) < 2 THEN KillQueues /\ Goto("work", "nsremove")
     ELSE UNCHANGED <<quiesced, dying, admq>> /\ Goto("work", "freeze")
  /\ UNCHANGED <<state, queued, hw, ns, frozen, lock, back, dead, adm, io,
                 rmwork, trouble>>

\* online_queues < 2: the namespaces go; otherwise nvme_start_queues.
WorkCheck ==
  /\ At("work", "check")
  /\ IF Cardinality(vec) < 2 THEN KillQueues /\ Goto("work", "nsremove")
     ELSE /\ quiesced' = FALSE /\ UNCHANGED <<dying, admq>>
          /\ Goto("work", "freeze")
  /\ UNCHANGED <<state, queued, hw, ns, frozen, lock, back, dead, adm, io,
                 rmwork, trouble>>

WorkNsRemove ==
  /\ At("work", "nsremove") /\ Drained
  /\ ns' = FALSE /\ frozen' = 0
  /\ Goto("work", "adminonly")
  /\ UNCHANGED <<state, queued, hw, quiesced, admq, dying, lock, back, dead,
                 adm, io, rmwork, trouble>>

\* Mutant of WorkFreeze: no nvme_unfreeze.
WorkFreezeKeeps ==
  /\ At("work", "freeze") /\ (ns => Drained /\ frozen > 0)
  /\ Goto("work", "live")
  /\ UNCHANGED <<state, queued, hw, queue, lock, back, dead, adm, io, rmwork,
                 trouble>>

\* nvme_wait_freeze, nvme_dev_add, nvme_unfreeze
WorkFreeze ==
  /\ At("work", "freeze") /\ (ns => Drained /\ frozen > 0)
  /\ frozen' = IF ns THEN frozen - 1 ELSE 0
  /\ Goto("work", "live")
  /\ UNCHANGED <<state, queued, hw, quiesced, admq, dying, ns, lock, back,
                 dead, adm, io, rmwork, trouble>>

\* The new state; nvme_start_ctrl starts the queues once more.
WorkDone ==
  /\ pc["work"] \in {"live", "adminonly"}
  /\ LET new == IF At("work", "live") THEN "LIVE" ELSE "ADMIN_ONLY" IN
       IF MayChange(new)
       THEN state' = new /\ quiesced' = FALSE /\ Goto("work", "idle")
       ELSE UNCHANGED <<state, quiesced>> /\ Goto("work", "out")
  /\ UNCHANGED <<queued, hw, admq, dying, ns, frozen, lock, back, dead, adm,
                 io, rmwork, trouble>>

\* nvme_remove_dead_ctrl
WorkOut ==
  /\ At("work", "out")
  /\ Disable("work", "kill")
  /\ UNCHANGED <<state, queued, hw, queue, lock, dead, adm, io, rmwork,
                 trouble>>

WorkKill ==
  /\ At("work", "kill")
  /\ KillQueues
  /\ rmwork' = TRUE
  /\ Goto("work", "idle")
  /\ UNCHANGED <<state, queued, hw, ns, frozen, lock, back, dead, adm, io,
                 trouble>>
-----------------------------------------------------------------------------
(* nvme_remove, called by the user or by remove_work.                      *)

Remove ==
  /\ At("remove", "idle") /\ (trouble.remove \/ rmwork)
  /\ state' = IF MayChange("DELETING") THEN "DELETING" ELSE state
  /\ Goto("remove", "cancelwork")
  /\ rmwork' = FALSE
  /\ UNCHANGED <<queued, hw, queue, lock, back, dead, adm, io, trouble>>

\* cancel_work_sync; a device that is gone is declared dead.
RemoveCancelWork ==
  /\ At("remove", "cancelwork") /\ At("work", "idle")
  /\ queued' = FALSE
  /\ \/ /\ Goto("remove", "flushwork")
        /\ UNCHANGED <<state, alive, back, trouble>>
     \/ /\ Fault
        /\ state' = IF MayChange("DEAD") THEN "DEAD" ELSE state
        /\ alive' = FALSE
        /\ Disable("remove", "flushwork")
  /\ UNCHANGED <<enabled, en, vec, queue, lock, dead, adm, io, rmwork>>

\* flush_work; nvme_remove_namespaces kills the queues of a dead controller ...
RemoveFlushWork ==
  /\ At("remove", "flushwork") /\ ~ queued /\ At("work", "idle")
  /\ IF state = "DEAD" THEN KillQueues
     ELSE dying' = TRUE /\ UNCHANGED <<quiesced, admq>>
  /\ Goto("remove", "ns")
  /\ UNCHANGED <<state, queued, hw, ns, frozen, lock, back, dead, adm, io,
                 rmwork, trouble>>

\* ... and blk_cleanup_queue waits for the requests and the timeout handler.
RemoveNs ==
  /\ At("remove", "ns") /\ Drained /\ At("tio", "idle")
  /\ ns' = FALSE /\ frozen' = 0
  /\ Disable("remove", "admin")
  /\ UNCHANGED <<state, queued, hw, quiesced, admq, dying, lock, dead, adm, io,
                 rmwork, trouble>>

\* nvme_dev_remove_admin; nvme_uninit_ctrl waits for the files in sysfs.
RemoveEnd ==
  /\ At("remove", "admin") /\ At("tadm", "idle") /\ At("user", "idle")
  /\ admq' = FALSE
  /\ Goto("remove", "gone")
  /\ UNCHANGED <<state, queued, hw, quiesced, dying, ns, frozen, lock, back,
                 dead, adm, io, rmwork, trouble>>
-----------------------------------------------------------------------------
Requests ==
  \/ \E r \in Ios : Dispatch(r) \/ Complete(r)
  \/ AdmDispatch \/ AdmComplete

Disabling(a) ==
  \/ DisableBegin(a) \/ StopQueues(a) \/ SuspendQueues(a) \/ CancelAll(a)
  \/ DisableEnd(a)

Work ==
  \/ WorkStart \/ WorkConnect \/ WorkEnable \/ WorkAdmin \/ WorkTags
  \/ WorkIdentify \/ WorkQueues \/ WorkCheck \/ WorkNsRemove \/ WorkFreeze
  \/ WorkDone \/ WorkOut \/ WorkKill

Removal == RemoveCancelWork \/ RemoveFlushWork \/ RemoveNs \/ RemoveEnd

Thread(a) == Disabling(a) \/ ResetCtrl(a) \/ QueueWork(a)

Next ==
  \/ Requests
  \/ \E r \in Ios : Enter(r) \/ TimeoutIo(r)
  \/ TimeoutAdm \/ Fail \/ UserReset \/ Remove
  \/ \E a \in Actor : Thread(a)
  \/ Work \/ Removal

Spec == Init /\ [][Next]_vars

\* Threads and works run, the queues are run, and a command is answered or
\* times out.  Nobody has to send a request, and the device need not fail.
Fairness ==
  /\ \A r \in Ios :
       WF_vars(Dispatch(r)) /\ WF_vars(Complete(r) \/ TimeoutIo(r))
  /\ WF_vars(AdmDispatch) /\ WF_vars(AdmComplete \/ TimeoutAdm)
  /\ \A a \in Actor : WF_vars(Thread(a))
  /\ WF_vars(Work) /\ WF_vars(Removal) /\ WF_vars(rmwork /\ Remove)

FairSpec == Spec /\ Fairness
-----------------------------------------------------------------------------
(* Properties.                                                             *)

InDisable == {"stop", "suspend", "cancel", "unlock"}

\* The ranges of the variables; and exactly the holder of shutdown_lock is in
\* the body of nvme_dev_disable.
TypeOK ==
  /\ state \in CtrlState
  /\ {queued, en, alive, quiesced, admq, dying, ns, rmwork} \subseteq BOOLEAN
  /\ enabled \in Nat /\ frozen \in Nat
  /\ vec \subseteq {"admin", "io"}
  /\ dead \in [Actor -> BOOLEAN]
  /\ adm \in {"none", "queued", "sent", "ok", "error"}
  /\ io \in [Ios -> {"none", "entered", "sent", "aborted"}]
  /\ trouble \in Trouble
  /\ {a \in Actor : pc[a] \in InDisable} = {lock} \ {NoActor}

\* The freeze of nvme_dev_disable, however many of its callers run one after the
\* other before the reset work thaws the queue, is never nested: nvme_unfreeze
\* thaws once.  And unless a command times out while the controller is being set
\* up, or timeouts meet resets on request, the queue is still frozen when
\* nvme_reset_work calls nvme_wait_freeze, which otherwise would not return.
FreezeBalanced ==
  /\ frozen <= 1
  /\ trouble.kind # "any" /\ At("work", "freeze") /\ ns => frozen = 1

\* Between nvme_pci_enable and its end only nvme_remove changes the state under
\* the reset work: the resets of the timeout handlers and of the user are
\* refused until the controller is up, so no second reset is queued for a
\* controller that is being set up.
SetupNotReset ==
  pc["work"] \in {"enable", "admin", "tags", "identify", "queues", "check",
                  "freeze", "live", "adminonly", "nsremove"}
    => state \in {"CONNECTING", "DELETING", "DEAD"} /\ ~ queued

Quiet == ~ queued /\ \A a \in Actor : At(a, "idle")

\* A controller that is LIVE while nobody works on it can serve requests: the
\* device was enabled exactly once more than disabled, both queues have their
\* vectors, and the queue of the namespace is neither quiesced nor frozen.
LiveIsUp ==
  trouble.kind # "any" /\ state = "LIVE" /\ Quiet =>
    /\ enabled = 1 /\ en /\ vec = {"admin", "io"}
    /\ ~ quiesced /\ frozen = 0 /\ ~ dying

\* A reset that is queued ends: the reset work does not wait forever for a
\* command or for the queue to freeze.
ResetEnds ==
  trouble.kind # "any" =>
    (queued \/ ~ At("work", "idle")) ~> (~ queued /\ At("work", "idle"))

\* A request that has entered the queue ends, by the device or by
\* nvme_cancel_request, also if the controller cannot be brought up again: the
\* queue is not left quiesced with the request in it.
RequestsEnd ==
  trouble.kind \in {"requests", "timeouts"} =>
    \A r \in Ios : io[r] = "entered" ~> io[r] = "none"

\* The comment on nvme_remove: "This function must not have any dependencies on
\* the device state in order to proceed."  It returns, whatever the device does.
RemoveEnds == At("remove", "cancelwork") ~> At("remove", "gone")
=============================================================================

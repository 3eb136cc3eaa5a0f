--------------------------- MODULE NvmeCtrlProofs ---------------------------
(***************************************************************************)
(* Theorems about NvmeCtrl for every set of I/O requests and every         *)
(* combination of troubles.                                                *)
(***************************************************************************)
EXTENDS NvmeCtrl, TLAPS

\* nvme_dev_disable, its wait for shutdown_lock included.
InCall == InDisable \cup {"lock"}

\* From nvme_pci_enable to the end of the reset work.
InSetup == {"enable", "admin", "tags", "identify", "queues", "check", "freeze",
            "live", "adminonly", "nsremove"}

Where == {"idle", "connect", "out", "kill", "reset", "queue", "cancelwork",
          "flushwork", "ns", "gone"} \cup InSetup \cup InCall

\* Where each actor can be, and where nvme_dev_disable returns to.
Control ==
  /\ pc \in [Actor -> Where] /\ back \in [Actor -> Where]
  /\ pc["work"] \in {"idle", "connect", "out", "kill"} \cup InSetup \cup InCall
  /\ pc["work"] \in InCall => back["work"] \in {"connect", "kill"}
  /\ \A a \in {"tio", "tadm"} :
       /\ pc[a] \in {"idle", "reset", "queue"} \cup InCall
       /\ pc[a] \in InCall => back[a] \in {"idle", "reset"}
  /\ pc["user"] \in {"idle", "reset", "queue"}
  /\ pc["remove"] \in {"idle", "cancelwork", "flushwork", "ns", "admin", "gone"}
                        \cup InCall
  /\ pc["remove"] \in InCall => back["remove"] \in {"flushwork", "admin"}

\* The reset work has taken up a reset, and has not reached its setup yet.
Early ==
  \/ pc["work"] = "connect"
  \/ pc["work"] \in InCall /\ back["work"] = "connect"

Active == Early \/ pc["work"] \in InSetup

\* A reset that was let in is in one place only: with the one who will queue it,
\* in the work queue, or with the reset work; and the state says where.
OneReset ==
  /\ \A a, b \in Actor : pc[a] = "queue" /\ pc[b] = "queue" => a = b
  /\ \A a \in Actor : pc[a] = "queue" => ~ queued /\ ~ Active
  /\ queued => ~ Active
  /\ state \in {"LIVE", "ADMIN_ONLY", "CONNECTING"} =>
       ~ queued /\ \A a \in Actor : pc[a] # "queue"
  /\ state \in {"LIVE", "ADMIN_ONLY"} => ~ Active
  /\ Early => state \in {"RESETTING", "DELETING", "DEAD"}
  /\ pc["work"] \in InSetup => state \in {"CONNECTING", "DELETING", "DEAD"}
-----------------------------------------------------------------------------
(* Control flow.                                                           *)

\* Every actor stays in its own part of the code: nvme_dev_disable returns to
\* its caller.
LEMMA ControlAlways == Spec => []Control
<1>1. Init => Control
  BY DEF Init, Control, Where, Actor, InCall, InDisable
<1>2. Control /\ [Next]_vars => Control'
  <2> SUFFICES ASSUME Control, [Next]_vars PROVE Control'
    OBVIOUS
  <2> USE DEF Control, Where, Actor, InCall, InDisable, InSetup, At, Goto, Disable
  <2>1. CASE UNCHANGED <<pc, back>>
    BY <2>1
  <2>2. CASE UNCHANGED vars
    BY <2>1, <2>2 DEF vars
  <2>3. CASE Requests
    BY <2>1, <2>3 DEF Requests, Dispatch, Complete, AdmDispatch, AdmComplete
  <2>4. ASSUME NEW r \in Ios, Enter(r) PROVE Control'
    BY <2>1, <2>4 DEF Enter
  <2>5. ASSUME NEW r \in Ios, TimeoutIo(r) PROVE Control'
    BY <2>5 DEF TimeoutIo
  <2>6. CASE TimeoutAdm
    BY <2>6 DEF TimeoutAdm
  <2>7. CASE Fail \/ UserReset \/ Remove
    BY <2>7 DEF Fail, UserReset, Remove
  <2>8. ASSUME NEW a \in Actor, Thread(a) PROVE Control'
    <3>1. CASE DisableBegin(a)
      BY <3>1 DEF DisableBegin
    <3>2. CASE StopQueues(a)
      BY <3>2 DEF StopQueues
    <3>3. CASE SuspendQueues(a)
      BY <3>3 DEF SuspendQueues
    <3>4. CASE CancelAll(a)
      BY <3>4 DEF CancelAll
    <3>5. CASE DisableEnd(a)
      BY <3>5 DEF DisableEnd
    <3>6. CASE ResetCtrl(a)
      BY <3>6 DEF ResetCtrl
    <3>7. CASE QueueWork(a)
      BY <3>7 DEF QueueWork
    <3> HIDE DEF Control
    <3> QED BY <2>8, <3>1, <3>2, <3>3, <3>4, <3>5, <3>6, <3>7 DEF Thread, Disabling
  <2>9. CASE Work
    <3>1. CASE WorkStart \/ WorkConnect \/ WorkOut \/ WorkKill
      BY <3>1 DEF WorkStart, WorkConnect, WorkOut, WorkKill
    <3>2. CASE WorkEnable \/ WorkAdmin \/ WorkTags
      BY <3>2 DEF WorkEnable, WorkAdmin, WorkTags
    <3>3. CASE WorkIdentify \/ WorkQueues
      BY <3>3 DEF WorkIdentify, WorkQueues
    <3>4. CASE WorkCheck \/ WorkNsRemove \/ WorkFreeze \/ WorkDone
      BY <3>4 DEF WorkCheck, WorkNsRemove, WorkFreeze, WorkDone
    <3> HIDE DEF Control
    <3> QED BY <2>9, <3>1, <3>2, <3>3, <3>4 DEF Work
  <2>10. CASE Removal
    <3>1. CASE RemoveCancelWork
      BY <3>1 DEF RemoveCancelWork
    <3>2. CASE RemoveFlushWork
      BY <3>2 DEF RemoveFlushWork
    <3>3. CASE RemoveNs \/ RemoveEnd
      BY <3>3 DEF RemoveNs, RemoveEnd
    <3> HIDE DEF Control
    <3> QED BY <2>10, <3>1, <3>2, <3>3 DEF Removal
  <2> HIDE DEF Control
  <2> QED
    BY <2>2, <2>3, <2>4, <2>5, <2>6, <2>7, <2>8, <2>9, <2>10 DEF Next
<1> QED BY <1>1, <1>2, PTL DEF Spec

\* Type correctness for every set of requests; only the actor that holds
\* shutdown_lock is in the body of nvme_dev_disable.
THEOREM CtrlTypeCorrect == Spec => []TypeOK
<1>1. Init => TypeOK
  <2> SUFFICES ASSUME Init PROVE TypeOK
    OBVIOUS
  <2>1. /\ state \in CtrlState /\ enabled \in Nat /\ frozen \in Nat
        /\ vec \subseteq {"admin", "io"} /\ trouble \in Trouble
        /\ adm \in {"none", "queued", "sent", "ok", "error"}
        /\ io \in [Ios -> {"none", "entered", "sent", "aborted"}]
    BY NvmeCtrlAssumption DEF Init, CtrlState
  <2>2. /\ {queued, en, alive, quiesced, admq, dying, ns, rmwork} \subseteq BOOLEAN
        /\ dead \in [Actor -> BOOLEAN]
    BY Zenon DEF Init
  <2>3. {a \in Actor : pc[a] \in InDisable} = {lock} \ {NoActor}
    BY DEF Init, InDisable
  <2> QED BY <2>1, <2>2, <2>3 DEF TypeOK
<1>2. Control /\ TypeOK /\ [Next]_vars => TypeOK'
  <2> SUFFICES ASSUME Control, TypeOK, [Next]_vars PROVE TypeOK'
    OBVIOUS
  <2> DEFINE Inside == {a \in Actor : pc[a] \in InDisable}
             Flags == /\ queued \in BOOLEAN /\ en \in BOOLEAN
                      /\ alive \in BOOLEAN /\ quiesced \in BOOLEAN
                      /\ admq \in BOOLEAN /\ dying \in BOOLEAN
                      /\ ns \in BOOLEAN /\ rmwork \in BOOLEAN
             Values == /\ state \in CtrlState
                       /\ enabled \in Nat /\ frozen \in Nat
                       /\ vec \subseteq {"admin", "io"}
                       /\ dead \in [Actor -> BOOLEAN]
                       /\ adm \in {"none", "queued", "sent", "ok", "error"}
                       /\ io \in [Ios -> {"none", "entered", "sent", "aborted"}]
                       /\ trouble \in Trouble
             Ranges == Flags /\ Values
  <2>1. TypeOK <=> Ranges /\ Inside = {lock} \ {NoActor}
    BY DEF TypeOK
  <2>2. TypeOK' <=> Ranges' /\ Inside' = {lock'} \ {NoActor}
    BY DEF TypeOK
  <2>3. Ranges'
    <3> USE <2>1 DEF CtrlState
    <3>1. CASE UNCHANGED vars
      BY <3>1 DEF vars, hw, queue
    <3>2. CASE Requests
      BY <3>2 DEF Requests, Dispatch, Complete, AdmDispatch, AdmComplete, hw, queue
    <3>3. ASSUME NEW r \in Ios, Enter(r) PROVE Ranges'
      BY <3>3 DEF Enter, hw, queue
    <3>4. Fault => trouble' \in Trouble
      BY DEF Fault, Trouble
    <3>5. \A q : TimesOut(q) => trouble' \in Trouble
      BY <3>4 DEF TimesOut
    <3>6. ASSUME NEW r \in Ios, TimeoutIo(r) PROVE Ranges'
      BY <3>5, <3>6 DEF TimeoutIo, hw, queue
    <3>7. CASE TimeoutAdm
      BY <3>5, <3>7 DEF TimeoutAdm, hw, queue
    <3>8. CASE Fail
      <4>1. Flags'
        BY <3>8, Zenon DEF Fail, queue
      <4>2. Values'
        BY <3>4, <3>8 DEF Fail, queue
      <4> QED BY <4>1, <4>2
    <3>9. CASE UserReset
      <4>1. trouble' \in Trouble
        BY <3>9 DEF UserReset, Trouble
      <4> QED BY <3>9, <4>1 DEF UserReset, hw, queue
    <3>10. CASE Remove
      <4>1. Flags'
        BY <3>10, Zenon DEF Remove, hw, queue
      <4>2. Values'
        BY <3>10 DEF Remove, hw, queue
      <4> QED BY <4>1, <4>2
    <3>11. ASSUME NEW a \in Actor, Thread(a) PROVE Ranges'
      <4>1. CASE DisableBegin(a)
        BY <4>1 DEF DisableBegin, hw
      <4>2. CASE StopQueues(a)
        BY <4>2 DEF StopQueues, hw
      <4>3. CASE SuspendQueues(a)
        BY <4>3 DEF SuspendQueues
      <4>4. CASE CancelAll(a)
        BY <4>4 DEF CancelAll, queue
      <4>5. CASE DisableEnd(a)
        BY <4>5 DEF DisableEnd, hw
      <4>6. CASE ResetCtrl(a)
        BY <4>6 DEF ResetCtrl, hw, queue
      <4>7. CASE QueueWork(a)
        BY <4>7 DEF QueueWork, hw, queue
      <4> HIDE <2>1 DEF Ranges
      <4> QED
        BY <3>11, <4>1, <4>2, <4>3, <4>4, <4>5, <4>6, <4>7 DEF Thread, Disabling
    <3>12. CASE Work
      <4>1. CASE WorkStart
        <5>1. Flags'
          BY <4>1, Zenon DEF WorkStart, hw, queue
        <5>2. Values'
          BY <4>1 DEF WorkStart, hw, queue
        <5> QED BY <5>1, <5>2
      <4>2. CASE WorkConnect
        BY <4>2 DEF WorkConnect, hw, queue
      <4>3. CASE WorkEnable
        BY <3>4, <4>3 DEF WorkEnable, queue
      <4>4. CASE WorkAdmin
        <5>1. Flags'
          BY <4>4, Zenon DEF WorkAdmin, queue
        <5>2. Values'
          BY <3>4, <4>4 DEF WorkAdmin, queue
        <5> QED BY <5>1, <5>2
      <4>5. CASE WorkTags
        <5>1. Flags'
          BY <4>5, Zenon DEF WorkTags, hw
        <5>2. Values'
          BY <4>5 DEF WorkTags, hw
        <5> QED BY <5>1, <5>2
      <4>6. CASE WorkIdentify
        BY <4>6 DEF WorkIdentify, hw, queue
      <4>7. CASE WorkQueues
        BY <4>7 DEF WorkQueues, queue
      <4>8. CASE WorkCheck
        <5>1. Flags'
          BY <4>8, Zenon DEF WorkCheck, KillQueues, hw
        <5>2. Values'
          BY <4>8 DEF WorkCheck, KillQueues, hw
        <5> QED BY <5>1, <5>2
      <4>9. CASE WorkNsRemove
        <5>1. Flags'
          BY <4>9, Zenon DEF WorkNsRemove, hw
        <5>2. Values'
          BY <4>9 DEF WorkNsRemove, hw
        <5> QED BY <5>1, <5>2
      <4>10. CASE WorkFreeze
        BY <4>10 DEF WorkFreeze, hw
      <4>11. CASE WorkDone
        <5>1. Flags'
          BY <4>11, Zenon DEF WorkDone, hw
        <5>2. Values'
          BY <4>11 DEF WorkDone, hw
        <5> QED BY <5>1, <5>2
      <4>12. CASE WorkOut
        BY <4>12 DEF WorkOut, hw, queue
      <4>13. CASE WorkKill
        BY Zenon, <4>13 DEF WorkKill, KillQueues, hw
      <4> HIDE <2>1 DEF Ranges
      <4> QED
        BY <3>12, <4>1, <4>2, <4>3, <4>4, <4>5, <4>6, <4>7,
           <4>8, <4>9, <4>10, <4>11, <4>12, <4>13
        DEF Work
    <3>13. CASE Removal
      <4>1. CASE RemoveCancelWork
        <5>1. Flags'
          BY <4>1, Zenon DEF RemoveCancelWork, queue
        <5>2. Values'
          BY <3>4, <4>1 DEF RemoveCancelWork, queue
        <5> QED BY <5>1, <5>2
      <4>2. CASE RemoveFlushWork
        <5>1. Flags'
          BY <4>2, Zenon DEF RemoveFlushWork, KillQueues, hw
        <5>2. Values'
          BY <4>2 DEF RemoveFlushWork, KillQueues, hw
        <5> QED BY <5>1, <5>2
      <4>3. CASE RemoveNs
        <5>1. Flags'
          BY <4>3, Zenon DEF RemoveNs, hw
        <5>2. Values'
          BY <4>3 DEF RemoveNs, hw
        <5> QED BY <5>1, <5>2
      <4>4. CASE RemoveEnd
        <5>1. Flags'
          BY <4>4, Zenon DEF RemoveEnd, hw
        <5>2. Values'
          BY <4>4 DEF RemoveEnd, hw
        <5> QED BY <5>1, <5>2
      <4> QED BY <3>13, <4>1, <4>2, <4>3, <4>4 DEF Removal
    <3> HIDE <2>1 DEF Ranges
    <3> QED
      BY <3>1, <3>2, <3>3, <3>6, <3>7, <3>8, <3>9, <3>10, <3>11, <3>12, <3>13
      DEF Next
  <2>4. Inside' = {lock'} \ {NoActor}
    <3> pc \in [Actor -> Where]
      BY DEF Control
    <3> USE <2>1 DEF InDisable, At, Goto, Disable
    <3>1. CASE /\ UNCHANGED lock
               /\ \A a \in Actor : pc'[a] \in InDisable <=> pc[a] \in InDisable
      BY <3>1
    <3>2. ASSUME NEW a \in Actor, DisableBegin(a)
          PROVE  Inside' = {lock'} \ {NoActor}
      BY <3>2, NvmeCtrlAssumption DEF DisableBegin
    <3>3. ASSUME NEW a \in Actor, DisableEnd(a)
          PROVE  Inside' = {lock'} \ {NoActor}
      <4>1. Inside = {a} /\ lock' = NoActor
        BY <3>3 DEF DisableEnd
      <4>2. back[a] \notin InDisable
        BY <3>3 DEF DisableEnd, Control, InCall, Actor
      <4> QED BY <3>3, <4>1, <4>2 DEF DisableEnd
    <3>4. CASE UNCHANGED vars \/ Requests \/ \E r \in Ios : Enter(r)
      BY <3>1, <3>4 DEF vars, Requests, Dispatch, Complete, AdmDispatch,
         AdmComplete, Enter
    <3>5. ASSUME NEW r \in Ios, TimeoutIo(r) PROVE Inside' = {lock'} \ {NoActor}
      BY <3>1, <3>5 DEF TimeoutIo, Actor
    <3>6. CASE TimeoutAdm
      BY <3>1, <3>6 DEF TimeoutAdm, Actor
    <3>7. CASE Fail \/ UserReset \/ Remove
      BY <3>1, <3>7 DEF Fail, UserReset, Remove, Actor
    <3>8. ASSUME NEW a \in Actor, StopQueues(a) \/ SuspendQueues(a) \/ CancelAll(a)
          PROVE  Inside' = {lock'} \ {NoActor}
      BY <3>1, <3>8 DEF StopQueues, SuspendQueues, CancelAll, Actor
    <3>9. ASSUME NEW a \in Actor, ResetCtrl(a) \/ QueueWork(a)
          PROVE  Inside' = {lock'} \ {NoActor}
      BY <3>1, <3>9 DEF ResetCtrl, QueueWork, Actor
    <3>10. CASE Work
      <4>1. CASE WorkStart \/ WorkConnect \/ WorkOut \/ WorkKill
        BY <3>1, <4>1 DEF WorkStart, WorkConnect, WorkOut, WorkKill, Actor
      <4>2. CASE WorkEnable \/ WorkAdmin \/ WorkTags \/ WorkIdentify \/ WorkQueues
        BY <3>1, <4>2 DEF WorkEnable, WorkAdmin, WorkTags, WorkIdentify,
           WorkQueues, Actor
      <4>3. CASE WorkCheck \/ WorkNsRemove \/ WorkFreeze \/ WorkDone
        BY <3>1, <4>3 DEF WorkCheck, WorkNsRemove, WorkFreeze, WorkDone, Actor
      <4> QED BY <3>10, <4>1, <4>2, <4>3 DEF Work
    <3>11. CASE Removal
      BY <3>1, <3>11 DEF Removal, RemoveCancelWork, RemoveFlushWork, RemoveNs,
         RemoveEnd, Actor
    <3> HIDE <2>1
    <3> QED
      BY <3>2, <3>3, <3>4, <3>5, <3>6, <3>7, <3>8, <3>9, <3>10, <3>11
      DEF Next, Thread, Disabling
  <2> QED BY <2>2, <2>3, <2>4
<1> QED BY <1>1, <1>2, ControlAlways, PTL DEF Spec
-----------------------------------------------------------------------------
(* Resets.                                                                 *)

\* A step that neither takes up, begins nor ends a reset, and after which the
\* state is as before, or DELETING or DEAD.
KeepsReset ==
  /\ queued' => queued
  /\ Early' => Early
  /\ pc'["work"] \in InSetup => pc["work"] \in InSetup
  /\ \A a \in Actor : pc'[a] = "queue" => pc[a] = "queue"
  /\ state' \in {state, "DELETING", "DEAD"}

\* Such a step preserves OneReset.
LEMMA ResetFrame == OneReset /\ KeepsReset => OneReset'
BY DEF OneReset, KeepsReset, Active

\* Only nvme_remove changes the state while the reset work sets the controller
\* up, and no second reset is queued meanwhile, whatever requests, timeouts and
\* resets there are.
THEOREM OneResetAtATime == Spec => []SetupNotReset
<1>1. Init => OneReset
  BY DEF Init, OneReset, Early, Active, Actor, InCall, InDisable, InSetup
<1>2. Control /\ OneReset /\ [Next]_vars => OneReset'
  <2> SUFFICES ASSUME Control, OneReset, [Next]_vars PROVE OneReset'
    OBVIOUS
  <2> pc \in [Actor -> Where] /\ back \in [Actor -> Where]
    BY DEF Control
  <2> USE DEF At, Goto, Disable
  <2>1. CASE UNCHANGED vars \/ Requests \/ \E r \in Ios : Enter(r)
    <3>1. UNCHANGED <<state, queued, pc, back>>
      BY <2>1 DEF vars, Requests, Dispatch, Complete, AdmDispatch, AdmComplete,
         Enter
    <3>2. KeepsReset
      BY <3>1 DEF KeepsReset, Early
    <3> QED BY <3>2, ResetFrame
  <2>2. ASSUME NEW r \in Ios, TimeoutIo(r) PROVE OneReset'
    <3>1. KeepsReset
      BY <2>2 DEF KeepsReset, Early, TimeoutIo, Actor
    <3> QED BY <3>1, ResetFrame
  <2>3. CASE TimeoutAdm
    <3>1. KeepsReset
      BY <2>3 DEF KeepsReset, Early, TimeoutAdm, Actor
    <3> QED BY <3>1, ResetFrame
  <2>4. CASE Fail \/ UserReset \/ Remove
    <3>1. KeepsReset
      BY <2>4 DEF KeepsReset, Early, Fail, UserReset, Remove, Actor
    <3> QED BY <3>1, ResetFrame
  <2>5. ASSUME NEW a \in Actor, Disabling(a) PROVE OneReset'
    <3>1. KeepsReset
      <4>1. CASE DisableBegin(a) \/ StopQueues(a) \/ SuspendQueues(a) \/ CancelAll(a)
        BY <4>1 DEF KeepsReset, Early, InCall, InDisable, InSetup, DisableBegin,
           StopQueues, SuspendQueues, CancelAll, Actor
      <4>2. CASE DisableEnd(a)
        <5>1. /\ back[a] \in {"idle", "reset", "connect", "kill", "flushwork", "admin"}
              /\ a = "work" => back[a] \in {"connect", "kill"} /\ pc[a] \in InCall
          BY <4>2 DEF DisableEnd, Control, InCall, InDisable, Actor
        <5>2. /\ UNCHANGED <<state, queued, back>>
              /\ pc' = [pc EXCEPT ![a] = back[a]]
          BY <4>2 DEF DisableEnd
        <5> QED BY <5>1, <5>2 DEF KeepsReset, Early, InCall, InDisable, InSetup, Actor
      <4> QED BY <2>5, <4>1, <4>2 DEF Disabling
    <3> QED BY <3>1, ResetFrame
  <2>6. ASSUME NEW a \in Actor, ResetCtrl(a) PROVE OneReset'
    <3>0. a # "work"
      BY <2>6 DEF Control, ResetCtrl, InCall, InDisable, InSetup
    <3>1. CASE ~ MayChange("RESETTING")
      <4>1. KeepsReset
        BY <2>6, <3>0, <3>1 DEF KeepsReset, Early, ResetCtrl, Actor
      <4> QED BY <4>1, ResetFrame
    <3>2. CASE MayChange("RESETTING")
      <4>1. state \in {"LIVE", "ADMIN_ONLY"}
        BY <3>2 DEF MayChange
      <4>2. /\ state' = "RESETTING" /\ queued' = queued /\ back' = back
            /\ pc' = [pc EXCEPT ![a] = "queue"]
        BY <2>6, <3>2 DEF ResetCtrl
      <4> QED BY <3>0, <4>1, <4>2 DEF OneReset, Active, Early, Actor
    <3> QED BY <3>1, <3>2
  <2>7. ASSUME NEW a \in Actor, QueueWork(a) PROVE OneReset'
    <3>1. a # "work"
      BY <2>7 DEF Control, QueueWork, InCall, InDisable, InSetup
    <3> QED BY <2>7, <3>1 DEF QueueWork, OneReset, Active, Early, Actor
  <2>8. CASE WorkStart
    BY <2>8 DEF WorkStart, OneReset, Active, Early, Actor, InCall, InDisable, InSetup
  <2>9. CASE WorkConnect
    BY <2>9 DEF WorkConnect, MayChange, OneReset, Active, Early, Actor, InCall,
       InDisable, InSetup
  <2>10. CASE WorkDone
    <3>1. /\ pc["work"] \in InSetup /\ UNCHANGED <<queued, back>>
          /\ \/ UNCHANGED state /\ pc' = [pc EXCEPT !["work"] = "out"]
             \/ state' \in {"LIVE", "ADMIN_ONLY"} /\ pc' = [pc EXCEPT !["work"] = "idle"]
                /\ state \in {"RESETTING", "CONNECTING"}
      BY <2>10 DEF WorkDone, MayChange, InSetup
    <3> QED BY <3>1 DEF OneReset, Active, Early, Actor, InCall, InDisable, InSetup
  <2>11. CASE WorkEnable \/ WorkAdmin \/ WorkTags \/ WorkIdentify \/ WorkQueues
    <3>1. KeepsReset
      BY <2>11 DEF KeepsReset, Early, WorkEnable, WorkAdmin, WorkTags,
         WorkIdentify, WorkQueues, Actor, InCall, InDisable, InSetup
    <3> QED BY <3>1, ResetFrame
  <2>12. CASE WorkCheck \/ WorkNsRemove \/ WorkFreeze \/ WorkOut \/ WorkKill
    <3>1. KeepsReset
      BY <2>12 DEF KeepsReset, Early, WorkCheck, WorkNsRemove, WorkFreeze,
         WorkOut, WorkKill, Actor, InCall, InDisable, InSetup
    <3> QED BY <3>1, ResetFrame
  <2>13. CASE Removal
    <3>1. KeepsReset
      BY <2>13 DEF KeepsReset, Early, Removal, RemoveCancelWork, RemoveFlushWork,
         RemoveNs, RemoveEnd, Actor
    <3> QED BY <3>1, ResetFrame
  <2> QED
    BY <2>1, <2>2, <2>3, <2>4, <2>5, <2>6, <2>7, <2>8, <2>9, <2>10, <2>11,
       <2>12, <2>13
    DEF Next, Thread, Work
<1>3. OneReset => SetupNotReset
  BY DEF OneReset, Active, SetupNotReset, InSetup
<1> QED BY <1>1, <1>2, <1>3, ControlAlways, PTL DEF Spec
=============================================================================

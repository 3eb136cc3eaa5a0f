-------------------------------- MODULE Mmp ---------------------------------
(***************************************************************************)
(* Multi-mount protection of MQFS (mmp.c): nodes that share a device agree *)
(* through one block who may mount it.  A node that wants to mount reads   *)
(* the block, waits to see that nobody updates it, writes a number of its  *)
(* own, waits once more and looks whether the number is still there.  The  *)
(* node that has mounted keeps updating the block (kmmpd).                 *)
(*                                                                         *)
(* Time passes in ticks.  A node is late in a step by at most Latency      *)
(* ticks; only the sleep of kmmpd may be stretched (a mishap).  Mishaps    *)
(* are also crashes, failed writes and interrupted mounts.                 *)
(***************************************************************************)
EXTENDS Naturals, FiniteSets

CONSTANTS
  Nodes,
  Update,       \* s_mmp_update_interval
  MinCheck,     \* EXT4_MMP_MIN_CHECK_INTERVAL
  MaxCheck,     \* EXT4_MMP_MAX_CHECK_INTERVAL
  SeqMax,       \* EXT4_MMP_SEQ_MAX
  Latency,      \* bound: ticks until a step that is due has been taken
  MaxAge,       \* bound: ticks kmmpd can sleep
  MaxMishaps    \* bound: mishaps

ASSUME MmpAssumption ==
  /\ {Update, MinCheck, MaxCheck, SeqMax} \subseteq Nat \ {0}
  /\ {Latency, MaxAge, MaxMishaps} \subseteq Nat
  /\ MinCheck <= MaxCheck /\ IsFiniteSet(Nodes)

VARIABLES
  blk,      \* the block: mmp_seq, mmp_nodename, mmp_check_interval
  buf,      \* per node: its copy
  pc,       \* per node: where it is
  age,      \* per node: ticks in this step; for kmmpd since last_update_time
  wait,     \* per node: wait_time
  check,    \* per node: mmp_check_interval of kmmpd
  slow,     \* the nodes whose kmmpd oversleeps
  mishaps   \* how many there were

vars == <<blk, buf, pc, age, wait, check, slow, mishaps>>

\* Sequence numbers of kmmpd, random ones, EXT4_MMP_SEQ_CLEAN and _FSCK.
Random == SeqMax + 1 .. SeqMax + Cardinality(Nodes) + 2
CLEAN  == 0
FSCK   == SeqMax + Cardinality(Nodes) + 3
Seq    == 0 .. FSCK

Larger(a, b)  == IF a > b THEN a ELSE b
Smaller(a, b) == IF a < b THEN a ELSE b

\* Mutant of CheckAfter: EXT4_MMP_MAX_CHECK_INTERVAL is ignored.
CheckAfterUncapped(diff) == Larger(2 * diff, MinCheck)

\* mmp_check_interval after a cycle of so many ticks
CheckAfter(diff) == Larger(Smaller(2 * diff, MaxCheck), MinCheck)

\* wait_time for the interval found in the block
WaitTime(ci) ==
  LET c == Larger(Larger(Update, MinCheck), ci)
  IN  Smaller(2 * c + 1, c + 60)

\* mmp_new_seq: a number that nobody else has
NewSeq ==
  CHOOSE s \in Random : s # blk.seq /\ \A n \in Nodes : buf[n].seq # s

NextSeq(s) == IF s + 1 > SeqMax THEN 1 ELSE s + 1

\* mmp_check_interval kmmpd starts with
FirstCheck == Larger(2 * Update, MinCheck)

NoBlock(n) == [seq |-> CLEAN, node |-> n, ci |-> FirstCheck]

Init ==
  /\ \E s \in {CLEAN, FSCK, 1}, k \in Nodes :
       blk = [NoBlock(k) EXCEPT !.seq = s]
  /\ buf = [n \in Nodes |-> NoBlock(n)]
  /\ pc = [n \in Nodes |-> "down"]
  /\ age = [n \in Nodes |-> 0]
  /\ wait = [n \in Nodes |-> 0]
  /\ check = [n \in Nodes |-> FirstCheck]
  /\ slow = {} /\ mishaps = 0

Goto(n, l) == pc' = [pc EXCEPT ![n] = l] /\ age' = [age EXCEPT ![n] = 0]

\* The node is down, or its mount has failed: its memory is gone.
Leave(n) ==
  /\ Goto(n, "down")
  /\ buf' = [buf EXCEPT ![n] = NoBlock(n)]
  /\ wait' = [wait EXCEPT ![n] = 0]
  /\ check' = [check EXCEPT ![n] = FirstCheck]
  /\ slow' = slow \ {n}

\* ext4_multi_mount_protect has returned 0.
Mounted(n) == pc[n] \in {"update", "sleep"}

Mishap == mishaps < MaxMishaps /\ mishaps' = mishaps + 1

\* May node n take the step it is waiting for?
Due(n) ==
  CASE pc[n] \in {"wait", "check"} -> age[n] >= wait[n]
    [] pc[n] = "sleep"             -> age[n] >= Update
    [] OTHER                       -> TRUE

\* May it delay the step further?
Patient(n) ==
  CASE pc[n] \in {"down", "aborted"} -> TRUE
    [] pc[n] \in {"wait", "check"}   -> age[n] < wait[n] + Latency
    [] pc[n] = "sleep" ->
         age[n] < IF n \in slow THEN MaxAge ELSE Update + Latency
    [] OTHER -> age[n] < Latency

Tick ==
  /\ \A n \in Nodes : Patient(n)
  /\ age' = [n \in Nodes |-> IF pc[n] \in {"down", "aborted"} THEN 0
                              ELSE age[n] + 1]
  /\ UNCHANGED <<blk, buf, pc, wait, check, slow, mishaps>>
-----------------------------------------------------------------------------
(* ext4_multi_mount_protect                                                *)

\* Mounting for writing, or remounting.
Mount(n) ==
  /\ pc[n] = "down"
  /\ Goto(n, "read")
  /\ UNCHANGED <<blk, buf, wait, check, slow, mishaps>>

\* The first look at the block: a clean one needs no waiting.
Read(n) ==
  /\ pc[n] = "read"
  /\ IF blk.seq = FSCK THEN Leave(n)
     ELSE LET clean == blk.seq = CLEAN IN
            /\ Goto(n, IF clean THEN "write" ELSE "wait")
            /\ buf' = [buf EXCEPT ![n] = blk]
            /\ wait' = [wait EXCEPT ![n] = IF clean THEN 0
                                           ELSE WaitTime(blk.ci)]
            /\ UNCHANGED <<check, slow>>
  /\ UNCHANGED <<blk, mishaps>>

\* Has anybody updated the block meanwhile?
ReadAgain(n) ==
  /\ pc[n] = "wait" /\ Due(n)
  /\ IF blk.seq # buf[n].seq THEN Leave(n)
     ELSE /\ Goto(n, "write")
          /\ buf' = [buf EXCEPT ![n] = blk]
          /\ UNCHANGED <<wait, check, slow>>
  /\ UNCHANGED <<blk, mishaps>>

WriteNew(n) ==
  /\ pc[n] = "write"
  /\ blk' = [buf[n] EXCEPT !.seq = NewSeq]
  /\ buf' = [buf EXCEPT ![n] = blk']
  /\ Goto(n, "check")
  /\ UNCHANGED <<wait, check, slow, mishaps>>

\* Mutant of ReadBack: the number is not compared.
ReadBackTrusts(n) ==
  /\ pc[n] = "check" /\ Due(n)
  /\ Goto(n, "update")
  /\ buf' = [buf EXCEPT ![n] = [NoBlock(n) EXCEPT !.seq = 1]]
  /\ UNCHANGED <<blk, wait, check, slow, mishaps>>

\* Has anybody else written a number?  If not, kmmpd starts.
ReadBack(n) ==
  /\ pc[n] = "check" /\ Due(n)
  /\ IF blk.seq # buf[n].seq THEN Leave(n)
     ELSE /\ Goto(n, "update")
          /\ buf' = [buf EXCEPT ![n] = [NoBlock(n) EXCEPT !.seq = 1]]
          /\ UNCHANGED <<wait, check, slow>>
  /\ UNCHANGED <<blk, mishaps>>

\* The mount is interrupted or gets an I/O error.
MountFails(n) ==
  /\ pc[n] \in {"read", "wait", "write", "check"} /\ Mishap
  /\ Leave(n) /\ UNCHANGED blk
-----------------------------------------------------------------------------
(* kmmpd                                                                   *)

Updated(n) ==
  /\ pc' = [pc EXCEPT ![n] = "sleep"]
  /\ UNCHANGED <<buf, age, wait, check, slow>>

WriteBlock(n) ==
  /\ pc[n] = "update"
  /\ blk' = buf[n]
  /\ Updated(n) /\ UNCHANGED mishaps

\* A write error is only counted.
WriteFails(n) ==
  /\ pc[n] = "update" /\ Mishap
  /\ Updated(n) /\ UNCHANGED blk

Oversleep(n) ==
  /\ pc[n] = "sleep" /\ n \notin slow /\ Mishap
  /\ slow' = slow \cup {n}
  /\ UNCHANGED <<blk, buf, pc, age, wait, check>>

Late(n) == age[n] > check[n]
Lost(n) == blk.seq # buf[n].seq \/ blk.node # buf[n].node

\* After a long sleep the block must be as kmmpd has left it; the next check
\* interval depends on how long the cycle took.
Wake(n) ==
  /\ pc[n] = "sleep" /\ Due(n)
  /\ slow' = slow \ {n}
  /\ IF Late(n) /\ Lost(n)
     THEN Goto(n, "aborted") /\ UNCHANGED <<buf, check>>
     ELSE LET c == CheckAfter(age[n]) IN
            /\ Goto(n, "update")
            /\ check' = [check EXCEPT ![n] = c]
            /\ buf' = [buf EXCEPT ![n].seq = NextSeq(@), ![n].ci = c]
  /\ UNCHANGED <<blk, wait, mishaps>>

\* Mutant of Unmount: no check after a long sleep.
UnmountTrusts(n) ==
  /\ pc[n] = "sleep"
  /\ slow' = slow \ {n}
  /\ Goto(n, "clean")
  /\ buf' = [buf EXCEPT ![n].ci = CheckAfter(age[n])]
  /\ UNCHANGED <<blk, wait, check, mishaps>>

\* Unmounting, or remounting read-only: kthread_stop ends the sleep.
Unmount(n) ==
  /\ pc[n] = "sleep"
  /\ slow' = slow \ {n}
  /\ IF Late(n) /\ Lost(n)
     THEN Goto(n, "aborted") /\ UNCHANGED buf
     ELSE Goto(n, "clean") /\ buf' = [buf EXCEPT ![n].ci = CheckAfter(age[n])]
  /\ UNCHANGED <<blk, wait, check, mishaps>>

WriteClean(n) ==
  /\ pc[n] = "clean"
  /\ blk' = [buf[n] EXCEPT !.seq = CLEAN]
  /\ Leave(n) /\ UNCHANGED mishaps

\* Unmounting after an error; kmmpd has ended and the block stays as it is.
UnmountAborted(n) ==
  /\ pc[n] = "aborted"
  /\ Leave(n) /\ UNCHANGED <<blk, mishaps>>

\* (A crash during the mount is like MountFails.)
Crash(n) ==
  /\ Mounted(n) /\ Mishap
  /\ Leave(n) /\ UNCHANGED blk

\* e2fsck has finished.
FsckEnds ==
  /\ blk.seq = FSCK
  /\ blk' = [blk EXCEPT !.seq = CLEAN]
  /\ UNCHANGED <<buf, pc, age, wait, check, slow, mishaps>>
-----------------------------------------------------------------------------
Step(n) ==
  \/ Read(n) \/ ReadAgain(n) \/ WriteNew(n) \/ ReadBack(n)
  \/ WriteBlock(n) \/ Wake(n) \/ WriteClean(n)

Next ==
  \/ Tick \/ FsckEnds
  \/ \E n \in Nodes :
       \/ Mount(n) \/ Step(n) \/ MountFails(n)
       \/ WriteFails(n) \/ Oversleep(n) \/ Unmount(n) \/ UnmountAborted(n)
       \/ Crash(n)

Spec == Init /\ [][Next]_vars

-----------------------------------------------------------------------------
(* Properties.                                                             *)

Block == [seq : Seq, node : Nodes, ci : Nat]

Overslept(n) == pc[n] = "sleep" /\ Late(n) /\ Lost(n)

\* The block only holds what nodes write, and the check interval of kmmpd stays
\* between EXT4_MMP_MIN_CHECK_INTERVAL and EXT4_MMP_MAX_CHECK_INTERVAL or, at
\* the start, twice the update interval.
TypeOK ==
  /\ blk \in Block /\ buf \in [Nodes -> Block]
  /\ mishaps \in 0 .. MaxMishaps
  /\ \A n \in slow : pc[n] = "sleep"
  /\ check \in [Nodes -> MinCheck .. Larger(MaxCheck, FirstCheck)]

\* The comment on ext4_multi_mount_protect: "Protect the filesystem from being
\* mounted more than once."
MountOnce == \A n, k \in Nodes : Mounted(n) /\ Mounted(k) => n = k

\* What the waiting achieves in spite of one crash, failed write, interrupted
\* mount or delayed kmmpd: of two nodes that have mounted the file system, one
\* has overslept and will find out when it wakes up, because ext4_multi_mount_
\* protect waits longer than kmmpd goes without a check.  The exception are
\* nodes that both found the block clean and therefore did not wait at all.
DoubleMountNoticed ==
  \A n, k \in Nodes :
    n # k /\ Mounted(n) /\ Mounted(k) =>
      (wait[n] = 0 /\ wait[k] = 0) \/ Overslept(n) \/ Overslept(k)

\* A block that says "clean" lets the next node in without waiting.  It says so
\* only if no node that waited for its mount still uses the file system, up to
\* one that has overslept: kmmpd does not write it over the block of another.
CleanMeansUnused ==
  blk.seq = CLEAN => \A n \in Nodes : Mounted(n) => wait[n] = 0 \/ Overslept(n)
=============================================================================

------------------------------- MODULE Fsync --------------------------------
(***************************************************************************)
(* fsync of MQFS without a jbd2 journal (ext4_sync_file): metadata buffers *)
(* are submitted to the caller's stream first and waited for later, and    *)
(* between the two they sit on lists of the inode they were submitted for. *)
(* Several fsyncs, creations, the kernel's flusher and the completions of  *)
(* the device run at the same time.  A buffer shared by the inodes of two  *)
(* files is copied out instead of being submitted twice.                   *)
(*                                                                         *)
(* What a buffer holds are items: the inode of a file, and the entry of a  *)
(* file in its directory.  The value of an item is a version number.  Each *)
(* thread has a stream of its own, which get_free_stream gives it.         *)
(***************************************************************************)
EXTENDS Naturals, Sequences, FiniteSets

CONSTANTS
  Threads,   \* threads that create, write and fsync files
  Files,     \* the files they use
  Dirs,      \* directories, the root included
  Root,
  Parent,    \* the directory of each file and directory but the root
  ITable,    \* the inode table buffer of each inode
  DirBuf,    \* the directory block of each directory
  Copies,    \* copied out buffers that can exist at a time
  Scenarios, \* bounds: how the application starts, and what it does at most
  Flusher,   \* does the flusher run?
  None

Inode == Files \cup Dirs
Item  == ({"inode"} \X Inode) \cup ({"entry"} \X (Inode \ {Root}))
Buf   == {ITable[i] : i \in Inode} \cup {DirBuf[d] : d \in Dirs}

ASSUME FsyncAssumption ==
  /\ Root \in Dirs /\ Files \cap Dirs = {}
  /\ Parent \in [Inode \ {Root} -> Dirs]
  /\ {ITable[i] : i \in Inode} \cap {DirBuf[d] : d \in Dirs} = {}
  /\ \A d, e \in Dirs : DirBuf[d] = DirBuf[e] => d = e
  /\ None \notin Threads \cup Inode
  /\ Flusher \in BOOLEAN

\* The files that exist and have been synced, the directories that have not
\* been synced since mkdir; the inodes the application will change and the
\* files it will create, each once, how often it will call fsync, and whether
\* no write will fail, one may, or one has.
Scenario == [synced : SUBSET Files, newdirs : SUBSET (Dirs \ {Root}),
             touch : SUBSET Inode, create : SUBSET Files,
             syncs : Nat, error : {"no", "may", "has"}]

ASSUME ScenarioAssumption ==
  /\ Scenarios \subseteq Scenario
  /\ \A s \in Scenarios : s.create \cap s.synced = {}

\* The buffer an item is in.
BufOf(x) ==
  IF x[1] = "inode" THEN ITable[x[2]] ELSE DirBuf[Parent[x[2]]]

ItemsIn == [b \in Buf |-> {x \in Item : BufOf(x) = b}]

VARIABLES
  cur,       \* per item: its version in the page cache
  written,   \* per item: the newest version the device has
  durable,   \* per item: the newest version that survives a power failure
  bh,        \* per buffer: its flags, its list, the content being written
  copy,      \* per copied out buffer: its content and state
  copyout,   \* per inode: the copies on i_copyout_inode_list
  idirty,    \* inodes with I_DIRTY
  isync,     \* inodes with I_SYNC
  newentry,  \* inodes with EXT4_STATE_NEWENTRY
  ilock,     \* per inode: the holder of i_rwsem
  queue,     \* per thread: the P-SQ of its stream is empty, holds flushed
             \* entries only, or holds entries of an open transaction
  th,        \* per thread: where it is
  todo       \* the scenario: what the application has still to do

vars == <<cur, written, durable, bh, copy, copyout, idirty, isync, newentry,
          ilock, queue, th, todo>>
disk   == <<written, durable>>
copies == <<copy, copyout>>
inodes == <<idirty, isync, newentry, ilock>>

Nothing    == [x \in {} |-> 0]
NotWriting == Nothing
NoList     == <<"none", None>>

Idle == [pc |-> "idle", ino |-> None, at |-> None, buf |-> None, cp |-> None,
         list |-> <<>>, ret |-> 0, err |-> 0, sync |-> FALSE, failed |-> FALSE,
         must |-> Nothing, tracked |-> {}, touch |-> {}, alone |-> TRUE]


\* The directories of todo.newdirs come from ext4_mkdir, and nothing of that is
\* written: their inodes and those of their parents are in dirty buffers, and
\* the blocks of both directories are dirty and on their private lists.
Init ==
  /\ todo \in Scenarios
  /\ LET changed == todo.newdirs \cup {Parent[n] : n \in todo.newdirs} IN
       /\ cur = [x \in Item |->
                   IF \/ x[2] \in todo.synced \cup todo.newdirs
                      \/ x[1] = "inode" /\ x[2] \in changed THEN 1 ELSE 0]
       /\ bh = [b \in Buf |->
                  LET d == {i \in changed : DirBuf[i] = b} IN
                  [dirty |-> d # {} \/ b \in {ITable[i] : i \in changed},
                   io |-> NotWriting, uptodate |-> TRUE,
                   list |-> IF d = {} THEN NoList
                            ELSE <<"private", CHOOSE i \in d : TRUE>>]]
  /\ written = [x \in Item |-> IF x[2] \in todo.synced THEN 1 ELSE 0]
  /\ durable = written
  /\ copy = [c \in Copies |-> [st |-> "free", snap |-> Nothing]]
  /\ copyout = [i \in Inode |-> {}]
  /\ idirty = {} /\ isync = {} /\ newentry = todo.newdirs
  /\ ilock = [i \in Inode |-> None]
  /\ queue = [t \in Threads |-> "empty"]
  /\ th = [t \in Threads |-> Idle]

\* Thread t is at label l; its state becomes r.
At(t, l) == th[t].pc = l
To(t, r) == th' = [th EXCEPT ![t] = r]

\* The content of b now.
Snap(b) == [x \in ItemsIn[b] |-> cur[x]]

Locked(b) == bh[b].io # NotWriting

Newest(old, new) ==
  [x \in Item |-> IF x \in DOMAIN new /\ new[x] > old[x] THEN new[x]
                  ELSE old[x]]

\* The results a write can have: 1 for an error.
Result == {0} \cup (IF todo.error = "may" THEN {1} ELSE {})

AfterError(e) == [todo EXCEPT !.error = IF e = 1 THEN "has" ELSE @]
-----------------------------------------------------------------------------
(* The application: writing a file and creating one.                       *)

\* An inode goes to its buffer: __ext4_get_inode_loc takes a buffer whose
\* write has failed for uptodate again, ext4_do_update_inode marks it dirty.
Updated(b) == [b EXCEPT !.uptodate = TRUE, !.dirty = TRUE]

\* The creation of f has returned.
Exists(f) ==
  /\ cur[<<"entry", f>>] > 0
  /\ \A t \in Threads : At(t, "assoc") => th[t].ino # f

\* A change that marks the inode dirty (__mark_inode_dirty, ext4_dirty_inode):
\* a write to a file, new attributes or times of any inode.
Touch(f) ==
  /\ ilock[f] = None /\ (f \in Files => Exists(f))
  /\ f \in todo.touch /\ todo' = [todo EXCEPT !.touch = @ \ {f}]
  /\ cur' = [cur EXCEPT ![<<"inode", f>>] = @ + 1]
  /\ bh' = [bh EXCEPT ![ITable[f]] = Updated(@)]
  /\ idirty' = idirty \cup {f}
  /\ UNCHANGED <<disk, copies, isync, newentry, ilock, queue, th>>

\* ext4_create: the new inode and the inode of the directory go to their
\* buffers (ext4_mark_inode_dirty, which does not set I_DIRTY); the entry is
\* inserted and the directory block marked dirty ...
Create(t, f) ==
  /\ At(t, "idle")
  /\ f \in todo.create /\ todo' = [todo EXCEPT !.create = @ \ {f}]
  /\ LET d == Parent[f] IN
       /\ ilock[d] = None
       /\ ilock' = [ilock EXCEPT ![d] = t]
       /\ cur' = [cur EXCEPT ![<<"entry", f>>] = 1, ![<<"inode", f>>] = 1,
                             ![<<"inode", d>>] = @ + 1]
       /\ bh' = [b \in Buf |->
                   CASE b = DirBuf[d] -> [bh[b] EXCEPT !.dirty = TRUE]
                     [] b \in {ITable[d], ITable[f]} -> Updated(bh[b])
                     [] OTHER -> bh[b]]
  /\ To(t, [Idle EXCEPT !.pc = "assoc", !.ino = f])
  /\ UNCHANGED <<disk, copies, idirty, isync, newentry, queue>>

\* ... and, if it is on no list yet, put on the private list of the directory
\* (mark_buffer_dirty_inode); then EXT4_STATE_NEWENTRY is set.
CreateEnd(t) ==
  /\ At(t, "assoc")
  /\ LET f == th[t].ino  d == Parent[f]  b == DirBuf[d] IN
       /\ bh' = IF bh[b].list # NoList THEN bh
                ELSE [bh EXCEPT ![b].list = <<"private", d>>]
       /\ newentry' = newentry \cup {f}
       /\ ilock' = [ilock EXCEPT ![d] = None]
  /\ To(t, Idle)
  /\ UNCHANGED <<cur, disk, copies, idirty, isync, queue, todo>>
-----------------------------------------------------------------------------
(* What an fsync has to cover; history for the properties.                 *)

\* i and the directories above it, as far as the entries below them are in
\* "new": the least set that has i and, with a member of new, its parent.
Path(i, new) ==
  LET closed(S) == i \in S /\ \A j \in S \cap new : Parent[j] \in S
  IN  {j \in Inode : \A S \in SUBSET Inode : closed(S) => j \in S}

\* The inode of f and the entries on the path to it ...
Needed(f) ==
  {<<"inode", f>>}
    \cup {<<"entry", i>> : i \in Path(f, Inode \ {Root}) \ {Root}}

\* ... and of those the ones the flags of the inodes tell fsync about.
Tracked(f) ==
  {<<"inode", i>> : i \in Path(f, newentry) \cap idirty}
    \cup {<<"entry", i>> : i \in Path(f, newentry) \cap newentry}

\* The data of the file is submitted; after an error the inode is not locked.
Fsync(t, f) ==
  /\ At(t, "idle") /\ Exists(f)
  /\ todo.syncs > 0
  /\ LET touch == Path(f, newentry)
         other == {u \in Threads : th[u].touch \cap touch # {}}
         begin == [Idle EXCEPT !.ino = f, !.touch = touch,
                     !.alone = other = {}, !.tracked = Tracked(f),
                     !.must = [x \in Needed(f) \cup Tracked(f) |-> cur[x]]]
     IN  \E e \in Result :
           /\ todo' = [AfterError(e) EXCEPT !.syncs = @ - 1]
           /\ th' = [u \in Threads |->
                IF u = t
                THEN [begin EXCEPT !.pc = IF e = 0 THEN "lock" ELSE "desc",
                                   !.ret = e, !.failed = e = 1]
                ELSE IF u \in other THEN [th[u] EXCEPT !.alone = FALSE]
                ELSE th[u]]
  /\ UNCHANGED <<cur, disk, bh, copies, inodes, queue>>
-----------------------------------------------------------------------------
(* __generic_file_atomic_write_submit and mqfs_atomic_write_parent_submit. *)

InodeLock(t) ==
  /\ At(t, "lock") /\ ilock[th[t].ino] = None
  /\ ilock' = [ilock EXCEPT ![th[t].ino] = t]
  /\ To(t, [th[t] EXCEPT !.pc = "submit", !.at = th[t].ino])
  /\ UNCHANGED <<cur, disk, bh, copies, idirty, isync, newentry, queue, todo>>

\* mqfs_submit_buffers_list, one buffer: it goes to the fsmeta_pending_list if
\* it is being written or has to be written, and is submitted in the latter
\* case, else it leaves the lists.
SubmitBuffer(t, b) ==
  /\ At(t, "submit") /\ bh[b].list = <<"private", th[t].at>>
  /\ bh' = [bh EXCEPT ![b].list = IF bh[b].dirty \/ Locked(b)
                                  THEN <<"meta", th[t].at>> ELSE NoList]
  /\ To(t, IF bh[b].dirty THEN [th[t] EXCEPT !.pc = "write", !.buf = b]
           ELSE th[t])
  /\ UNCHANGED <<cur, disk, copies, inodes, queue, todo>>

Submitted(t) ==
  At(t, "submit") /\ \A b \in Buf : bh[b].list # <<"private", th[t].at>>

\* tx_write_dirty_buffer: lock the buffer, waiting for I/O; write it if dirty.
TxWriteDirtyBuffer(t, b) ==
  /\ ~ Locked(b)
  /\ IF bh[b].dirty
     THEN /\ bh' = [bh EXCEPT ![b].dirty = FALSE, ![b].io = Snap(b)]
          /\ queue' = [queue EXCEPT ![t] = "open"]
     ELSE UNCHANGED <<bh, queue>>

WriteBuffer(t) ==
  /\ At(t, "write")
  /\ TxWriteDirtyBuffer(t, th[t].buf)
  /\ To(t, [th[t] EXCEPT !.pc = "submit", !.buf = None])
  /\ UNCHANGED <<cur, disk, copies, inodes, todo>>

\* What follows the inode of th[t].at, err being the result: on to its parent
\* if its entry is new, or the end of the submission.
NextParent(t, err) ==
  LET r == th[t]  i == r.at  leaf == i = r.ino
      listed == IF leaf \/ err # 0 THEN r.list ELSE Append(r.list, i)
      up == err = 0 /\ i \in newentry
  IN  /\ To(t, [r EXCEPT !.ret = err, !.buf = None, !.list = listed,
                         !.sync = IF leaf THEN err = 0 ELSE @,
                         !.pc = IF up THEN "submit" ELSE "desc",
                         !.at = IF up THEN Parent[i] ELSE None])
      /\ newentry' = IF up /\ leaf THEN newentry \ {i} ELSE newentry

\* tx_write_inode_metadata: nothing to do if the inode is not marked dirty ...
InodeClean(t) ==
  /\ Submitted(t)
  /\ th[t].at \notin idirty /\ (th[t].at # th[t].ino => th[t].at \notin isync)
  /\ NextParent(t, 0)
  /\ UNCHANGED <<cur, disk, bh, copies, idirty, isync, ilock, queue, todo>>

\* ... otherwise I_SYNC is set and ext4_write_inode looks whether the buffer is
\* on a list already.
InodeDirty(t) ==
  /\ Submitted(t)
  /\ th[t].at \in idirty /\ th[t].at \notin isync
  /\ idirty' = idirty \ {th[t].at}
  /\ isync' = isync \cup {th[t].at}
  /\ LET b == ITable[th[t].at] IN
       /\ bh' = [bh EXCEPT ![b].uptodate = TRUE,
                           ![b].list = IF bh[b].list # NoList THEN @
                                       ELSE <<"inode", th[t].at>>]
       /\ To(t, [th[t] EXCEPT !.buf = b,
                   !.pc = IF bh[b].list # NoList THEN "copy" ELSE "iwrite"])
  /\ UNCHANGED <<cur, disk, copies, newentry, ilock, queue, todo>>

InodeWritten(t, b) ==
  /\ isync' = isync \ {th[t].at}
  /\ NextParent(t, IF bh[b].uptodate THEN 0 ELSE 1)

WriteInode(t) ==
  /\ At(t, "iwrite")
  /\ TxWriteDirtyBuffer(t, th[t].buf)
  /\ InodeWritten(t, th[t].buf)
  /\ UNCHANGED <<cur, disk, copies, idirty, ilock, todo>>

\* copy_out_bh waits for the I/O on the buffer; the copy is written instead.
CopyOut(t) ==
  /\ At(t, "copy") /\ ~ Locked(th[t].buf)
  /\ \E c \in Copies :
       /\ copy[c].st = "free"
       /\ copy' = [copy EXCEPT ![c] = [st |-> "io", snap |-> Snap(th[t].buf)]]
       /\ copyout' = [copyout EXCEPT ![th[t].at] = @ \cup {c}]
  /\ queue' = [queue EXCEPT ![t] = "open"]
  /\ InodeWritten(t, th[t].buf)
  /\ UNCHANGED <<cur, disk, bh, idirty, ilock, todo>>
-----------------------------------------------------------------------------
(* The rest of ext4_sync_file.                                             *)

\* The descriptor block and STREAM_COMMIT_TX.  The allocation of the block may
\* wrap the journal, which drops the flushed entries.
Descriptor(t) ==
  /\ At(t, "desc")
  /\ \/ UNCHANGED queue
     \/ queue[t] = "flushed" /\ queue' = [queue EXCEPT ![t] = "empty"]
  /\ To(t, [th[t] EXCEPT !.pc = "winode", !.at = th[t].ino, !.err = 0])
  /\ UNCHANGED <<cur, disk, bh, copies, inodes, todo>>

\* tx_write_wait_inode_buffer: the buffers of inodemeta_pending_list ...
PopInodeBuffer(t, b) ==
  /\ At(t, "winode") /\ bh[b].list = <<"inode", th[t].at>>
  /\ bh' = [bh EXCEPT ![b].list = NoList]
  /\ To(t, [th[t] EXCEPT !.pc = "wibuf", !.buf = b])
  /\ UNCHANGED <<cur, disk, copies, inodes, queue, todo>>

\* ... and the copies, whose list no lock protects.  (The code takes the oldest
\* first; here the order is left open.)
InodeBuffersDone(t) ==
  \/ At(t, "wcopy")
  \/ At(t, "winode") /\ \A b \in Buf : bh[b].list # <<"inode", th[t].at>>

PeekCopy(t) ==
  /\ InodeBuffersDone(t)
  /\ \E c \in copyout[th[t].at] :
       To(t, [th[t] EXCEPT !.pc = "wcdel", !.cp = c])
  /\ UNCHANGED <<cur, disk, bh, copies, inodes, queue, todo>>

DeleteCopy(t) ==
  /\ At(t, "wcdel")
  /\ copyout' = [copyout EXCEPT ![th[t].at] = @ \ {th[t].cp}]
  /\ To(t, [th[t] EXCEPT !.pc = "wcio"])
  /\ UNCHANGED <<cur, disk, bh, copy, inodes, queue, todo>>

\* The copy is released once its I/O is done.
ReleaseCopy(t) ==
  /\ At(t, "wcio") /\ copy[th[t].cp].st # "io"
  /\ LET bad == copy[th[t].cp].st = "failed" IN
       To(t, [th[t] EXCEPT !.pc = "wcopy", !.cp = None,
                           !.err = IF bad THEN 1 ELSE @,
                           !.failed = @ \/ bad])
  /\ copy' = [copy EXCEPT ![th[t].cp] = [st |-> "free", snap |-> Nothing]]
  /\ UNCHANGED <<cur, disk, bh, copyout, inodes, queue, todo>>

\* Mutant: a buffer that is dirty again leaves the lists.
PopMetaBufferDrops(t, b) ==
  /\ At(t, "wmap") /\ bh[b].list = <<"meta", th[t].at>>
  /\ bh' = [bh EXCEPT ![b].list = NoList]
  /\ To(t, [th[t] EXCEPT !.pc = "wmbuf", !.buf = b])
  /\ UNCHANGED <<cur, disk, copies, inodes, queue, todo>>

\* mqfs_wait_buffers_list: a buffer that is dirty again goes back to the list
\* it would be submitted from.
PopMetaBuffer(t, b) ==
  /\ At(t, "wmap") /\ bh[b].list = <<"meta", th[t].at>>
  /\ bh' = [bh EXCEPT ![b].list = IF bh[b].dirty THEN <<"private", th[t].at>>
                                  ELSE NoList]
  /\ To(t, [th[t] EXCEPT !.pc = "wmbuf", !.buf = b])
  /\ UNCHANGED <<cur, disk, copies, inodes, queue, todo>>

\* Mutant: no wait_on_buffer.
WaitBufferNot(t) ==
  /\ th[t].pc \in {"wibuf", "wmbuf"}
  /\ To(t, [th[t] EXCEPT !.pc = IF At(t, "wibuf") THEN "winode" ELSE "wmap",
                         !.buf = None])
  /\ UNCHANGED <<cur, disk, bh, copies, inodes, queue, todo>>

WaitBuffer(t) ==
  /\ th[t].pc \in {"wibuf", "wmbuf"} /\ ~ Locked(th[t].buf)
  /\ LET bad == ~ bh[th[t].buf].uptodate IN
       To(t, [th[t] EXCEPT !.pc = IF At(t, "wibuf") THEN "winode" ELSE "wmap",
                           !.buf = None, !.err = IF bad THEN 1 ELSE @,
                           !.failed = @ \/ bad])
  /\ UNCHANGED <<cur, disk, bh, copies, inodes, queue, todo>>

\* osync_buffers_list: the buffers on the private list that are being written.
Osync(t) ==
  LET mine == {b \in Buf : bh[b].list = <<"private", th[t].at>>} IN
  /\ \A b \in Buf : bh[b].list # <<"meta", th[t].at>>
  /\ \A b \in mine : ~ Locked(b)

\* The file: first its inode, then its mapping; the inode lock is dropped
\* before the data is waited for.  If the submission went well, the result of
\* mqfs_atomic_write_parent_wait replaces all of this.
FileInodeDone(t) ==
  /\ InodeBuffersDone(t) /\ copyout[th[t].at] = {} /\ th[t].at = th[t].ino
  /\ To(t, [th[t] EXCEPT !.pc = "wmap"])
  /\ UNCHANGED <<cur, disk, bh, copies, inodes, queue, todo>>

FileDone(t) ==
  /\ At(t, "wmap") /\ th[t].at = th[t].ino /\ Osync(t)
  /\ ilock' = [ilock EXCEPT ![th[t].ino] = None]
  /\ \E e \in Result :
       /\ todo' = AfterError(e)
       /\ To(t, [th[t] EXCEPT !.pc = "wdirs", !.at = None,
                              !.failed = @ \/ e = 1,
                              !.ret = IF th[t].sync THEN 0
                                      ELSE IF th[t].err = 0 THEN e
                                      ELSE th[t].err])
  /\ UNCHANGED <<cur, disk, bh, copies, idirty, isync, newentry, queue>>

\* Per directory its mapping, then its inode, whose result replaces the others.
WaitDir(t) ==
  /\ At(t, "wdirs") /\ th[t].list # <<>>
  /\ To(t, [th[t] EXCEPT !.pc = "wmap", !.at = Head(th[t].list),
                         !.list = Tail(@)])
  /\ newentry' = newentry \ {Head(th[t].list)}
  /\ UNCHANGED <<cur, disk, bh, copies, idirty, isync, ilock, queue, todo>>

DirMappingDone(t) ==
  /\ At(t, "wmap") /\ th[t].at # th[t].ino /\ Osync(t)
  /\ To(t, [th[t] EXCEPT !.pc = "winode", !.err = 0])
  /\ UNCHANGED <<cur, disk, bh, copies, inodes, queue, todo>>

DirInodeDone(t) ==
  /\ InodeBuffersDone(t) /\ copyout[th[t].at] = {} /\ th[t].at # th[t].ino
  /\ To(t, [th[t] EXCEPT !.pc = "wdirs", !.at = None, !.ret = th[t].err])
  /\ UNCHANGED <<cur, disk, bh, copies, inodes, queue, todo>>

\* Mutant: everything in the page cache is taken for durable.
FlushCache(t) ==
  /\ At(t, "wdirs") /\ th[t].list = <<>>
  /\ durable' = cur /\ queue' = [queue EXCEPT ![t] = "flushed"]
  /\ To(t, [th[t] EXCEPT !.pc = "return"])
  /\ UNCHANGED <<cur, written, bh, copies, inodes, todo>>

\* Mutant: the flushed pointer moves without a flush of the device.
FlushPointerOnly(t) ==
  /\ At(t, "wdirs") /\ th[t].list = <<>>
  /\ queue' = [queue EXCEPT ![t] = IF @ = "open" THEN "flushed" ELSE @]
  /\ To(t, [th[t] EXCEPT !.pc = "return"])
  /\ UNCHANGED <<cur, disk, bh, copies, inodes, todo>>

\* stream_blkdev_issue_flush does nothing if the P-SQ is empty.
Flush(t) ==
  /\ At(t, "wdirs") /\ th[t].list = <<>>
  /\ IF queue[t] = "empty" THEN UNCHANGED <<durable, queue>>
     ELSE durable' = written /\ queue' = [queue EXCEPT ![t] = "flushed"]
  /\ To(t, [th[t] EXCEPT !.pc = "return"])
  /\ UNCHANGED <<cur, written, bh, copies, inodes, todo>>

Return(t) ==
  /\ At(t, "return")
  /\ To(t, Idle)
  /\ UNCHANGED <<cur, disk, bh, copies, inodes, queue, todo>>
-----------------------------------------------------------------------------
(* The device and the flusher.                                             *)

Done(b) ==
  /\ Locked(b)
  /\ written' = Newest(written, bh[b].io)
  /\ bh' = [bh EXCEPT ![b].io = NotWriting, ![b].uptodate = TRUE]
  /\ UNCHANGED <<cur, durable, copies, inodes, queue, th, todo>>

Fails(b) ==
  /\ Locked(b)
  /\ 1 \in Result /\ todo' = AfterError(1)
  /\ bh' = [bh EXCEPT ![b].io = NotWriting, ![b].uptodate = FALSE]
  /\ UNCHANGED <<cur, disk, copies, inodes, queue, th>>

CopyDone(c) ==
  /\ copy[c].st = "io"
  /\ copy' = [copy EXCEPT ![c].st = "done"]
  /\ written' = Newest(written, copy[c].snap)
  /\ UNCHANGED <<cur, durable, bh, copyout, inodes, queue, th, todo>>

CopyFails(c) ==
  /\ copy[c].st = "io"
  /\ 1 \in Result /\ todo' = AfterError(1)
  /\ copy' = [copy EXCEPT ![c].st = "failed"]
  /\ UNCHANGED <<cur, disk, bh, copyout, inodes, queue, th>>

\* The flusher writes dirty buffers of the block device, to their place ...
FlusherBuffer(b) ==
  /\ Flusher /\ bh[b].dirty /\ ~ Locked(b)
  /\ bh' = [bh EXCEPT ![b].dirty = FALSE, ![b].io = Snap(b)]
  /\ UNCHANGED <<cur, disk, copies, inodes, queue, th, todo>>

\* ... and cleans inodes: for it ext4_write_inode writes nothing.
FlusherInode(i) ==
  /\ Flusher /\ i \in idirty \ isync
  /\ idirty' = idirty \ {i}
  /\ th' = [t \in Threads |-> [th[t] EXCEPT !.tracked = @ \ {<<"inode", i>>}]]
  /\ UNCHANGED <<cur, disk, bh, copies, isync, newentry, ilock, queue, todo>>
-----------------------------------------------------------------------------
Submit(t) ==
  \/ InodeLock(t) \/ WriteBuffer(t)
  \/ \E b \in Buf : SubmitBuffer(t, b)
  \/ InodeClean(t) \/ InodeDirty(t) \/ WriteInode(t) \/ CopyOut(t)
  \/ Descriptor(t)

Wait(t) ==
  \/ \E b \in Buf : PopInodeBuffer(t, b) \/ PopMetaBuffer(t, b)
  \/ WaitBuffer(t)
  \/ PeekCopy(t) \/ DeleteCopy(t) \/ ReleaseCopy(t)
  \/ FileInodeDone(t) \/ FileDone(t)
  \/ WaitDir(t) \/ DirMappingDone(t) \/ DirInodeDone(t)
  \/ Flush(t) \/ Return(t)

Step(t) == CreateEnd(t) \/ Submit(t) \/ Wait(t)

Device ==
  \/ \E b \in Buf : Done(b) \/ Fails(b) \/ FlusherBuffer(b)
  \/ \E c \in Copies : CopyDone(c) \/ CopyFails(c)
  \/ \E i \in Inode : FlusherInode(i)

\* Nobody has anything to do: the only state in which nothing happens.
Quiet == (\A t \in Threads : At(t, "idle")) /\ UNCHANGED vars

Next ==
  \/ \E i \in Inode : Touch(i)
  \/ \E t \in Threads, f \in Files : Create(t, f) \/ Fsync(t, f)
  \/ \E t \in Threads : Step(t)
  \/ Device
  \/ Quiet

Spec == Init /\ [][Next]_vars

-----------------------------------------------------------------------------
(* Properties.                                                             *)

\* The device never has more than the page cache, lists and flags are those of
\* the inodes.
TypeOK ==
  /\ \A x \in Item : durable[x] <= written[x] /\ written[x] <= cur[x]
  /\ \A b \in Buf : bh[b].list[1] \in {"none", "private", "meta", "inode"}
  /\ idirty \cup isync \cup newentry \subseteq Inode

Returning(t) == At(t, "return") /\ th[t].ret = 0

\* "snapshot the inode to disk": when fsync returns 0, the changes that the
\* flags of its inodes told of when it was called have been written, whichever
\* thread has submitted them, as the shared inode table block or as a copy of
\* it, and whatever the flusher wrote meanwhile.  No write has failed, and the
\* fsync had its inodes to itself: directories are not locked, and two fsyncs
\* below one directory take the buffers they wait for from the same lists.
FsyncWritten ==
  \A t \in Threads :
    Returning(t) /\ th[t].alone /\ todo.error # "has" =>
      \A x \in th[t].tracked : written[x] >= th[t].must[x]

\* The same with durable for written, where the flush was not skipped because
\* the P-SQ of the stream was empty.
FsyncFlushed ==
  \A t \in Threads :
    /\ Returning(t) /\ th[t].alone /\ todo.error # "has"
    /\ queue[t] = "flushed"
    =>
      \A x \in th[t].tracked : durable[x] >= th[t].must[x]

\* "Avoid race with mark_buffer_dirty_inode() which does a lockless check and
\* we rely on seeing the dirty bit": a dirty directory block is on a list some
\* fsync will look at, or its creator is about to put it there.
DirtyIsListed ==
  \A d \in Dirs : bh[DirBuf[d]].dirty =>
    \/ bh[DirBuf[d]].list # NoList
    \/ \E t \in Threads : At(t, "assoc") /\ Parent[th[t].ino] = d

\* "kick off a commit and wait on it": when fsync returns 0, the inode of the
\* file and the entries on the path to it are durable as they were when it was
\* called.
FsyncDurable ==
  \A t \in Threads : Returning(t) =>
    \A x \in Needed(th[t].ino) : durable[x] >= th[t].must[x]

\* "check and advance again to catch errors after syncing out buffers": an
\* fsync some of whose I/O has failed does not return 0.
ErrorReported ==
  \A t \in Threads : At(t, "return") /\ th[t].failed => th[t].ret # 0
=============================================================================

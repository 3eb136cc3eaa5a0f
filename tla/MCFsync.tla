------------------------------ MODULE MCFsync -------------------------------
(* Small instances of Fsync for TLC: /d/f1 and /f2. *)
EXTENDS Fsync, TLC

CONSTANTS t1, t2, f1, f2, subdir, rootdir

Nested == (f1 :> subdir) @@ (f2 :> rootdir) @@ (subdir :> rootdir)

\* All inodes are in one block of the inode table.
OneITable == [i \in Files \cup Dirs |-> "itable"]

DirBlocks == [i \in Dirs |-> IF i = rootdir THEN "rootblock" ELSE "dirblock"]

Scene(synced, newdirs, touch, create, error) ==
  [synced |-> synced, newdirs |-> newdirs, touch |-> touch, create |-> create,
   syncs |-> 2, error |-> error]

\* f1 is new, f2 and the directory of f1 are changed: their inodes, in one
\* buffer, are written at the same time ...
SharedInodes == Scene({f2}, {}, {f2, subdir}, {f1}, "no")

\* ... or the directory of f1 is new too, and f2 is created while it is synced
\* ...
NewDirectory == Scene({}, {subdir}, {}, {f1, f2}, "no")

\* ... or both files are changed, and a write fails ...
Failing == Scene({f1, f2}, {}, {f1, f2}, {}, "may")

All == {SharedInodes, NewDirectory, Failing}

OneFailing == {Failing}

\* ... or one changed file is synced twice.
OneFile == {Scene({f2}, {}, {f2}, {}, "no")}

Symmetry == Permutations(Threads)
=============================================================================

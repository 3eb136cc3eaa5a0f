----------------------------- MODULE MCNvmeCtrl -----------------------------
(* Instances of NvmeCtrl for TLC.                                          *)
EXTENDS NvmeCtrl

\* A device that works is reset and removed.
Requests2 == [faults |-> 0, resets |-> 2, remove |-> TRUE,
              stages |-> {}, kind |-> "requests"]

\* Commands of a live controller time out, the device fails.
Timeouts == [faults |-> 4, resets |-> 0, remove |-> FALSE,
             stages |-> {"live"}, kind |-> "timeouts"]

\* The same, and the device is removed.
Removed == [faults |-> 3, resets |-> 0, remove |-> TRUE,
            stages |-> {"live"}, kind |-> "removed"]

\* Everything at once.
Any == [faults |-> 3, resets |-> 1, remove |-> TRUE,
        stages |-> {"live", "setup", "removal"}, kind |-> "any"]

All == {Requests2, Timeouts, Removed, Any}

OnlyRemoved == {[Removed EXCEPT !.faults = 1]}
=============================================================================

------------------------------ MODULE MCStreams -----------------------------
(* Small instances of Streams for TLC. *)
EXTENDS Streams, TLC

CONSTANTS m1, m2, t1, t2

\* The mounts ask for the same number of streams ...
WantTwo == [m \in Mounts |-> 2]

\* ... or for more than are left for a second mount, and a number that does
\* not divide the number of streams.
WantThree == [m \in Mounts |-> 3]

WantTwoOrThree == {WantTwo, WantThree}
OnlyThree      == {WantThree}
=============================================================================

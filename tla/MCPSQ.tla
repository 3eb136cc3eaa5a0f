------------------------------- MODULE MCPSQ --------------------------------
(* Instances of PSQ for TLC.                                               *)
EXTENDS PSQ, TLC

Symmetry == Permutations(Threads)
=============================================================================

------------------------------- MODULE MCMmp --------------------------------
(* Instances of Mmp for TLC.                                               *)
EXTENDS Mmp, TLC

Symmetry == Permutations(Nodes)
=============================================================================

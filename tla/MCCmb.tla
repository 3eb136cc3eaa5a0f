------------------------------- MODULE MCCmb --------------------------------
(* Small instances of Cmb: every commit after at most MaxWrites entries. *)
EXTENDS Cmb
=============================================================================

------------------------------ MODULE MCTxLog -------------------------------
(* Instances of TxLog for TLC: how many writes a transaction may have.     *)
EXTENDS TxLog

\* Half the queue for MQFS, more than the queue for users of REQ_TX_COMMIT.
TwoOrFive == [mqfs |-> 2, api |-> 5]
Two       == [mqfs |-> 2]
Three     == [mqfs |-> 3]
=============================================================================

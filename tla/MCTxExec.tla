------------------------------ MODULE MCTxExec ------------------------------
(* Four transactions of one account: a unit one that can pay for its call,   *)
(* a bulk of two calls whose limit covers one, a bulk with an empty root and *)
(* two nodes, and a bulk with the data of a unit transaction.                *)
EXTENDS TxExec, TLC

CONSTANTS t1, t2, t3, t4

MCkind == t1 :> "unit" @@ t2 :> "bulk" @@ t3 :> "bulk_empty" @@ t4 :> "bulk_other"
MCparts == t1 :> 1 @@ t2 :> 2 @@ t3 :> 3 @@ t4 :> 1
MClimit == t1 :> 1 @@ t2 :> 1 @@ t3 :> 2 @@ t4 :> 1
Moving == {-1, 0, 1}
=============================================================================

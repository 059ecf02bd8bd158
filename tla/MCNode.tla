------------------------------- MODULE MCNode -------------------------------
(***************************************************************************)
(* Small instances of Node: a validator on its own, a node that follows a  *)
(* validator, and a validator that also receives the blocks of another.    *)
(***************************************************************************)
EXTENDS Node, TLC

CONSTANTS t1, t2, t3, k1

Alone == <<>>
NoBootstrap == <<>>
GenesisTx == <<t1>>

(* What the other nodes have: a genesis block, then those of validator k1. *)
Remote3 ==
    << [height |-> 0, validator |-> NoKey, txs |-> <<t1>>],
       [height |-> 1, validator |-> k1, txs |-> <<t2>>],
       [height |-> 2, validator |-> k1, txs |-> <<t3>>] >>
Remote2 == SubSeq(Remote3, 1, 2)

(* The slots of the tasks are interchangeable. *)
TaskSymmetry ==
    Permutations(Handlers) \cup Permutations(Builders) \cup Permutations(Executors)
=============================================================================

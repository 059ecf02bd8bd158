------------------------------- MODULE Ledger -------------------------------
(***************************************************************************)
(* What a node promises of its blockchain: a list of blocks to which one   *)
(* block at a time is added.  Heights count up from zero, each block names *)
(* the hash of the block before it, and a block once there stays as it is, *)
(* whatever tasks run and whenever the process is killed.                  *)
(***************************************************************************)
EXTENDS Integers, Sequences

CONSTANTS
    Genesis,        \* the blocks there are at the start
    Validator,      \* who may be named as the validator of a block
    TxList,         \* the transaction lists that a block may have
    HashOf(_),      \* the hash of a block
    NoHash          \* the prev_hash of the first block

VARIABLE ledger

Tip == IF ledger = <<>> THEN NoHash ELSE HashOf(ledger[Len(ledger)])

Init == ledger = Genesis

Add ==
    /\ Len(ledger') = Len(ledger) + 1
    /\ LET b == ledger'[Len(ledger')]
       IN  /\ ledger' = Append(ledger, b)
           /\ b.height = Len(ledger)
           /\ b.prev = Tip
           /\ b.validator \in Validator
           /\ b.txs \in TxList

Spec == Init /\ [][Add]_ledger
=============================================================================

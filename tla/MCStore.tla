------------------------------ MODULE MCStore ------------------------------
(***************************************************************************)
(* Instances of Store: contracts s (of the genesis block), c and d; a      *)
(* cache of one module; two tasks.                                         *)
(***************************************************************************)
EXTENDS Store

T(unit, kind, nodes, acts, fail) ==
    [unit |-> unit, kind |-> kind, large |-> FALSE, signed |-> TRUE, blank |-> FALSE,
     net |-> "x", nodes |-> nodes, acts |-> acts, fail |-> fail]
Call(c, stores, writes) == [call |-> c, stores |-> stores, writes |-> writes]
Node(net, root) == [kind |-> "BulkNodeV1", net |-> net, root |-> root, signed |-> TRUE]

(* Stores c and d; writes; calls c; calls d; a bulk that stores c, calls it *)
(* and fails; one that cannot pay.                                          *)
register == T(TRUE, "V1", <<>>, <<Call("s", {"c", "d"}, FALSE)>>, "no")
write == T(TRUE, "V1", <<>>, <<Call("s", {}, TRUE)>>, "no")
again == T(TRUE, "V1", <<>>, <<Call("s", {}, TRUE), Call("s", {}, TRUE)>>, "no")
call_c == T(TRUE, "V1", <<>>, <<Call("c", {}, FALSE)>>, "no")
call_d == T(TRUE, "V1", <<>>, <<Call("d", {}, FALSE)>>, "no")
bulk == T(FALSE, "BulkV1", <<Node("x", TRUE), Node("x", TRUE)>>,
          <<Call("s", {"c"}, TRUE), Call("c", {}, FALSE)>>, "call")
unpaid == T(TRUE, "V1", <<>>, <<Call("s", {}, TRUE)>>, "fuel")

(* One that put_txs takes and put_transaction_internal does not; a bulk     *)
(* with a node that is not signed.                                          *)
boot == [write EXCEPT !.signed = FALSE, !.large = TRUE]
loose == [bulk EXCEPT !.nodes = <<Node("x", TRUE), [Node("x", TRUE) EXCEPT !.signed = FALSE]>>]

(* What intake has to tell apart. *)
Refused ==
    {[write EXCEPT !.large = TRUE], [write EXCEPT !.signed = FALSE],
     [write EXCEPT !.blank = TRUE], [write EXCEPT !.net = "y"],
     [write EXCEPT !.kind = "BulkRootV1"],
     [bulk EXCEPT !.nodes = <<>>],
     [bulk EXCEPT !.nodes = <<Node("x", FALSE)>>],
     [bulk EXCEPT !.nodes = <<Node("x", TRUE), Node("y", TRUE)>>],
     [bulk EXCEPT !.nodes = <<[Node("x", TRUE) EXCEPT !.kind = "V1"]>>]}

MCTx == {register, write, again, call_c, call_d, bulk, unpaid, boot, loose} \cup Refused
MCContract == {"s", "c", "d"}

GetBlock(height) == [type |-> "get_block", height |-> height, txs |-> TRUE]
Ask(type) == [type |-> type]
AskTx(type, t) == [type |-> type, tx |-> t]
AskRo(c) == [type |-> "ro_exec", code |-> c]

(* What happens in a run: the pool, the requests of the two tasks, merges   *)
(* that fail, configurations; and the same with blocks of other nodes.      *)
P(txs_, one, two, f, c) ==
    [pool |-> txs_, blocks |-> <<>>,
     requests |-> [k \in Task |-> IF k = 1 THEN one ELSE two],
     faults |-> f, configs |-> c]
With(p, blocks_) == [p EXCEPT !.blocks = blocks_]

MCPlans ==
    {With(P({again}, <<AskTx("put", write)>>, <<AskTx("get_tx", write)>>, 1, 0),
          << <<write>>, <<again>> >>),
     With(P({again}, <<AskTx("put", write)>>, <<AskTx("get_tx", again)>>, 1, 1),
          << <<write, again>> >>),
     P({boot}, <<AskTx("put", loose), AskTx("get_receipt", loose)>>, <<AskTx("get_tx", boot)>>, 0, 0),
     P({write, again}, <<GetBlock(0)>>, <<Ask("get_account")>>, 0, 0),
     P({write, again}, <<Ask("get_account")>>, <<AskRo("s")>>, 1, 0),
     P({register, call_c}, <<AskRo("c")>>, <<AskRo("d")>>, 1, 1),
     P({write}, <<Ask("get_network"), GetBlock(2)>>, <<Ask("get_stats")>>, 0, 2),
     P({write}, <<AskTx("put", write), AskTx("get_receipt", write)>>,
       <<AskTx("get_tx", write)>>, 1, 0),
     P({}, <<AskTx("put", write), GetBlock(0)>>, <<AskTx("put", write)>>, 0, 0),
     P({register, call_c, call_d, bulk}, <<>>, <<>>, 1, 0),
     P({bulk, call_c, unpaid}, <<AskTx("get_receipt", bulk)>>, <<>>, 1, 0)}
    \cup {P({write}, <<AskTx("put", t)>>, <<[type |-> "get_block", height |-> 1, txs |-> FALSE]>>, 0, 0) :
            t \in Refused}
=============================================================================

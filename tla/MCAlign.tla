------------------------------ MODULE MCAlign ------------------------------
(***************************************************************************)
(* Instances of Align for TLC: three peers, whose chains have the heights  *)
(* a, b and c.  The node starts at height `from`.                          *)
(***************************************************************************)
EXTENDS Align

P(a, b, c, fork, from, heard, spread, debug, l, e) ==
    [height |-> [p \in Peer |-> CASE p = "a" -> a [] p = "b" -> b [] OTHER -> c],
     branch |-> [p \in Peer |-> IF p = "c" /\ fork THEN "fork" ELSE "main"],
     last |-> from, gossip |-> heard, spread |-> spread, debug |-> debug,
     losses |-> l, early |-> e, reliable |-> l = 0 /\ e = 0]

(* When all answers arrive in time: all agree; one is behind; the node has  *)
(* no block; one is on a fork; there are more last blocks than the window.  *)
Timely ==
    {P(3, 3, 3, FALSE, 0, {"a"}, {}, FALSE, 0, 0), P(1, 3, 3, FALSE, 0, {"b"}, {}, FALSE, 0, 0),
     P(3, 3, 3, FALSE, -1, {"a"}, {}, FALSE, 0, 0), P(3, 3, 3, TRUE, 0, {"c"}, {}, FALSE, 0, 0),
     P(2, 3, 1, FALSE, 0, {"b"}, {}, FALSE, 0, 0)}

(* An answer is lost; one or two timeouts fire early; and so does one while *)
(* the next block, or transactions, are on their way that nobody asked for. *)
Late ==
    {P(3, 3, -1, FALSE, 0, {"a"}, {}, FALSE, 1, 0),
     P(3, 1, -1, FALSE, 0, {"a", "b"}, {}, FALSE, 1, 0),
     P(2, 3, -1, FALSE, 0, {"b"}, {}, FALSE, 0, 1), P(3, -1, -1, FALSE, 0, {"a"}, {}, FALSE, 0, 2),
     P(1, 3, -1, FALSE, 0, {"a", "b"}, {}, FALSE, 0, 1),
     P(3, -1, -1, FALSE, 0, {"a"}, {1}, TRUE, 0, 1),
     P(3, -1, -1, FALSE, 0, {"a"}, {0, 1, 2}, FALSE, 0, 1)}
MCPlans == Timely \cup Late
=============================================================================

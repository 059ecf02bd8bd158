---------------------------- MODULE QueueSetSpec ----------------------------
(***************************************************************************)
(* A QueueSet under any sequence of calls.                                 *)
(***************************************************************************)
EXTENDS QueueSet

CONSTANT Elem
VARIABLE queue

Init == queue = emptyQueue

CallPush(v) == queue' = push(queue, v)
CallPop == queue' = pop(queue)
CallRemove(v) == queue' = remove(queue, v)

Next == CallPop \/ \E v \in Elem : CallPush(v) \/ CallRemove(v)

Spec == Init /\ [][Next]_queue

-----------------------------------------------------------------------------
(* The values are in the queue with both their halves or not at all, and    *)
(* once: push trusts `set` for not adding a value twice, pop and remove     *)
(* trust `fifo` to hold what `set` holds.                                   *)
QueueConsistent == queue \in QueueOf(Elem) /\ Consistent(queue)

Pos(q, v) == CHOOSE i \in DOMAIN q.fifo : q.fifo[i] = v

(* First in, first out: no call changes the order of values that were there *)
(* before it and are there after it, and a new value comes after them.      *)
OrderKept ==
    [][\A v, w \in queue'.set :
          /\ v \in queue.set
          /\ w \in queue.set => Pos(queue, v) < Pos(queue, w)
          /\ v # w
          => Pos(queue', v) < Pos(queue', w)]_queue

(* What `for _ in 0..n { pop }` leaves, by taking one value after another. *)
Pops(q, n) ==
    LET after[k \in 0 .. n] == IF k = 0 THEN q ELSE pop(after[k - 1]) IN after[n]

(* What `for hash in hashes { remove }` leaves. *)
Removes(q, s) ==
    LET after[k \in 0 .. Len(s)] == IF k = 0 THEN q ELSE remove(after[k - 1], s[k])
    IN  after[Len(s)]

(* The builder's loop of pops is what firstN and popN say of it, and the    *)
(* loop of removes with which a block from outside takes its transactions   *)
(* out of the queue is what `without` says, in whatever order the block     *)
(* lists them.                                                              *)
BatchesAreCalls ==
    /\ \A n \in 0 .. Len(queue.fifo) + 1 :
         /\ popN(queue, n) = Pops(queue, n)
         /\ queue.fifo = firstN(queue, n) \o Pops(queue, n).fifo
    /\ \A v, w \in Elem : without(queue, {v, w}) = {Removes(queue, <<v, w>>)}
=============================================================================

------------------------------ MODULE QueueSet ------------------------------
(***************************************************************************)
(* The FIFO queue without duplicates of src/base/queue_set.rs.  The struct *)
(* keeps the same elements twice: in `fifo`, which gives the order, and in *)
(* `set`, which answers `contains` in constant time.  Every operation      *)
(* updates both, and the operations are only correct while both agree.     *)
(*                                                                         *)
(* The operators below take and return the struct as a record.             *)
(***************************************************************************)
EXTENDS Integers, Sequences, FiniteSets, Functions

(* QueueSet::new *)
emptyQueue == [fifo |-> <<>>, set |-> {}]

(* len counts the fifo, contains asks the set. *)
len(q) == Len(q.fifo)
contains(q, v) == v \in q.set

(* push: a value already in the set leaves the queue as it is. *)
push_front(q, v) ==                 \* mutant: the wrong end of the fifo
    IF v \in q.set THEN q ELSE [fifo |-> <<v>> \o q.fifo, set |-> q.set \cup {v}]
push_again(q, v) ==                 \* mutant: a value in the set is pushed again
    [fifo |-> Append(q.fifo, v), set |-> q.set \cup {v}]
push(q, v) ==
    IF v \in q.set
    THEN q
    ELSE [fifo |-> Append(q.fifo, v), set |-> q.set \cup {v}]

(* pop: the queue after it; the value returned is Head(q.fifo), or None. *)
pop(q) ==
    IF q.fifo = <<>>
    THEN q
    ELSE [fifo |-> Tail(q.fifo), set |-> q.set \ {Head(q.fifo)}]

(* remove: the first occurrence leaves the fifo when the set held the value. *)
without_first(s, v) ==
    LET k == CHOOSE i \in DOMAIN s : s[i] = v /\ \A j \in 1 .. i - 1 : s[j] # v
    IN  IF v \in Range(s) THEN [i \in 1 .. Len(s) - 1 |-> IF i < k THEN s[i] ELSE s[i + 1]]
        ELSE s
remove(q, v) ==
    IF v \in q.set
    THEN [fifo |-> without_first(q.fifo, v), set |-> q.set \ {v}]
    ELSE q

(* The first n values, or all when there are fewer, and the queue after *)
(* popping them one by one.                                             *)
firstN_inclusive(q, n) ==           \* mutant: one value too many
    SubSeq(q.fifo, 1, IF n < Len(q.fifo) THEN n + 1 ELSE Len(q.fifo))
firstN(q, n) == SubSeq(q.fifo, 1, IF n < Len(q.fifo) THEN n ELSE Len(q.fifo))
popN(q, n) ==
    [fifo |-> SubSeq(q.fifo, Len(firstN(q, n)) + 1, Len(q.fifo)),
     set  |-> q.set \ Range(firstN(q, n))]

(* The queue after removing the values of T one by one: those that are left *)
(* keep their order, so there is one such queue and this set holds it.      *)
Increasing(I) ==
    {f \in [1 .. Cardinality(I) -> I] :
        \A i, j \in 1 .. Cardinality(I) : i < j => f[i] < f[j]}
without(q, T) ==
    LET I == {i \in DOMAIN q.fifo : q.fifo[i] \notin T}
    IN  {[fifo |-> [i \in 1 .. Cardinality(I) |-> q.fifo[f[i]]],
          set  |-> q.set \ T] : f \in Increasing(I)}

(* A value of the struct over the elements of S. *)
QueueOf(S) == [fifo : Seq(S), set : SUBSET S]

(* Both halves of the struct hold the same elements, each of them once. *)
Consistent(q) == q.set = Range(q.fifo) /\ IsInjective(q.fifo)
=============================================================================

--------------------------- MODULE QueueSetProofs ---------------------------
(***************************************************************************)
(* The two halves of a QueueSet agree after every call, for every set of   *)
(* elements, no call changes the order of what stays, and the loops of     *)
(* calls in the builder and in the executor leave what popN and `without`  *)
(* say.  The lemmas say, one by one, what an operation does to both.       *)
(***************************************************************************)
EXTENDS QueueSetSpec, FiniteSetTheorems, WellFoundedInduction, TLAPS

(* Induction on the natural numbers, for a set. *)
LEMMA SetInduction ==
    ASSUME NEW S, 0 \in S, \A n \in Nat : n \in S => n + 1 \in S
    PROVE  Nat \subseteq S
  <1> SUFFICES ASSUME Nat \ S # {} PROVE FALSE
    OBVIOUS
  <1> DEFINE R == OpToRel(<, Nat)
  <1>1. IsWellFoundedOn(R, Nat)
    BY NatLessThanWellFounded, Zenon
  <1>2. \A i, j \in Nat : i < j => <<i, j>> \in R
    BY DEF OpToRel
  <1> HIDE DEF R
  <1>3. PICK x \in Nat \ S : \A y \in Nat \ S : ~ (<<y, x>> \in R)
    BY <1>1, WFMin, Zenon
  <1>4. x # 0
    BY <1>3
  <1>5. x - 1 \in Nat /\ x - 1 < x /\ x - 1 + 1 = x
    BY <1>3, <1>4
  <1>6. x - 1 \in S
    BY <1>2, <1>3, <1>5, Zenon
  <1> QED BY <1>3, <1>5, <1>6

(* A sequence r that is s without its k-th element, where no element of s   *)
(* occurs twice, holds what s holds but that element, and each of it once.  *)
LEMMA DropOne ==
    ASSUME NEW S, NEW s \in Seq(S), IsInjective(s),
           NEW k \in 1 .. Len(s),
           NEW r \in Seq(S), Len(r) = Len(s) - 1,
           \A i \in 1 .. Len(r) : r[i] = IF i < k THEN s[i] ELSE s[i + 1]
    PROVE  /\ Range(r) = Range(s) \ {s[k]}
           /\ IsInjective(r)
  <1>1. /\ Len(s) \in Nat /\ Len(r) \in Nat
        /\ DOMAIN s = 1 .. Len(s) /\ DOMAIN r = 1 .. Len(r)
    OBVIOUS
  <1>2. \A i, j \in 1 .. Len(s) : s[i] = s[j] => i = j
    BY <1>1, Zenon DEF IsInjective
  <1>3. ASSUME NEW v \in Range(r)
        PROVE  v \in Range(s) \ {s[k]}
    <2>1. PICK i \in 1 .. Len(r) : v = r[i]
      BY <1>1, <1>3, Zenon DEF Range
    <2>2. CASE i < k
      <3>1. i \in 1 .. Len(s) /\ v = s[i] /\ i # k
        BY <2>1, <2>2, <1>1
      <3>2. QED
        BY <3>1, <1>1, <1>2, Zenon DEF Range
    <2>3. CASE ~(i < k)
      <3>1. i + 1 \in 1 .. Len(s) /\ v = s[i + 1] /\ i + 1 # k
        BY <2>1, <2>3, <1>1
      <3>2. QED
        BY <3>1, <1>1, <1>2, Zenon DEF Range
    <2>4. QED
      BY <2>2, <2>3
  <1>4. ASSUME NEW v \in Range(s) \ {s[k]}
        PROVE  v \in Range(r)
    <2>1. PICK j \in 1 .. Len(s) : v = s[j]
      BY <1>1, <1>4, Zenon DEF Range
    <2>2. CASE j < k
      <3>1. j \in 1 .. Len(r) /\ v = r[j]
        BY <2>1, <2>2, <1>1
      <3>2. QED
        BY <3>1, <1>1, Zenon DEF Range
    <2>3. CASE ~(j < k)
      <3>1. j - 1 \in 1 .. Len(r) /\ v = r[j - 1]
        BY <2>1, <2>3, <1>1, <1>4
      <3>2. QED
        BY <3>1, <1>1, Zenon DEF Range
    <2>4. QED
      BY <2>2, <2>3
  <1>5. ASSUME NEW i \in 1 .. Len(r), NEW j \in 1 .. Len(r), r[i] = r[j]
        PROVE  i = j
    <2> DEFINE f(n) == IF n < k THEN n ELSE n + 1
    <2>1. f(i) \in 1 .. Len(s) /\ f(j) \in 1 .. Len(s)
      BY <1>1
    <2>2. r[i] = s[f(i)] /\ r[j] = s[f(j)]
      BY Zenon
    <2>3. f(i) = f(j)
      BY <2>1, <2>2, <1>2, <1>5, Zenon
    <2>4. QED
      BY <2>3
  <1>6. QED
    BY <1>1, <1>3, <1>4, <1>5 DEF IsInjective

(* The fifo of p is that of q without one of its values. *)
Drops(q, p) ==
    \E k \in 1 .. Len(q.fifo) :
        /\ Len(p.fifo) = Len(q.fifo) - 1
        /\ \A i \in 1 .. Len(p.fifo) :
               p.fifo[i] = IF i < k THEN q.fifo[i] ELSE q.fifo[i + 1]

(* push adds the value to both halves. *)
LEMMA PushConsistent ==
    ASSUME NEW S, NEW q \in QueueOf(S), NEW v \in S, Consistent(q)
    PROVE  /\ push(q, v) \in QueueOf(S)
           /\ Consistent(push(q, v))
           /\ push(q, v).set = q.set \cup {v}
  <1> DEFINE s == q.fifo
             r == Append(s, v)
  <1>1. s \in Seq(S) /\ q.set \subseteq S
    BY Zenon DEF QueueOf
  <1>2. CASE v \in q.set
    <2>1. push(q, v) = q
      BY <1>2, Zenon DEF push
    <2>2. QED
      BY <1>2, <2>1
  <1>3. CASE v \notin q.set
    <2>1. push(q, v) = [fifo |-> r, set |-> q.set \cup {v}]
      BY <1>3, Zenon DEF push
    <2>2. /\ q.set = Range(s) /\ \A i, j \in DOMAIN s : s[i] = s[j] => i = j
      BY Zenon DEF Consistent, IsInjective
    <2> HIDE DEF s
    <2>3. /\ r \in Seq(S) /\ Len(s) \in Nat /\ DOMAIN s = 1 .. Len(s)
          /\ DOMAIN r = 1 .. Len(s) + 1 /\ r[Len(s) + 1] = v
          /\ \A i \in 1 .. Len(s) : r[i] = s[i]
      BY <1>1
    <2> HIDE DEF r
    <2>4. /\ Len(s) + 1 \in DOMAIN r /\ \A i \in DOMAIN s : i \in DOMAIN r
          /\ \A i \in DOMAIN r : i \in DOMAIN s \/ i = Len(s) + 1
      BY <2>3
    <2>5. Range(r) = Range(s) \cup {v}
      BY <2>3, <2>4, Zenon DEF Range
    <2>6. \A i \in DOMAIN s : s[i] # v
      BY <1>3, <2>2, Zenon DEF Range
    <2>7. IsInjective(r)
      BY <2>2, <2>3, <2>4, <2>6, Zenon DEF IsInjective
    <2>8. QED
      <3>1. push(q, v).fifo = r /\ push(q, v).set = q.set \cup {v}
        BY <2>1
      <3>2. push(q, v) \in QueueOf(S)
        <4>1. q.set \cup {v} \in SUBSET S
          BY <1>1, Zenon
        <4>2. QED
          BY <2>1, <2>3, <4>1 DEF QueueOf
      <3>3. Consistent(push(q, v))
        BY <2>2, <2>5, <2>7, <3>1, Zenon DEF Consistent
      <3>4. QED
        BY <3>1, <3>2, <3>3, Zenon
  <1>4. QED
    BY <1>2, <1>3, Zenon

(* pop takes the oldest value, when there is one, from both halves. *)
LEMMA PopConsistent ==
    ASSUME NEW S, NEW q \in QueueOf(S), Consistent(q)
    PROVE  /\ pop(q) \in QueueOf(S)
           /\ Consistent(pop(q))
           /\ pop(q) = q \/ Drops(q, pop(q))
  <1>1. CASE q.fifo = <<>>
    BY <1>1 DEF pop
  <1>2. CASE q.fifo # <<>>
    <2> DEFINE s == q.fifo
               r == Tail(s)
    <2>1. /\ s \in Seq(S) /\ r \in Seq(S) /\ 1 \in 1 .. Len(s)
          /\ Len(r) = Len(s) - 1 /\ Head(s) = s[1]
          /\ \A i \in 1 .. Len(r) : r[i] = IF i < 1 THEN s[i] ELSE s[i + 1]
      BY <1>2 DEF QueueOf
    <2>2. IsInjective(s) /\ q.set = Range(s)
      BY DEF Consistent
    <2> HIDE DEF s, r
    <2>3. Range(r) = Range(s) \ {s[1]} /\ IsInjective(r)
      BY <2>1, <2>2, DropOne, Zenon
    <2>4. pop(q) = [fifo |-> r, set |-> q.set \ {s[1]}]
      BY <1>2, <2>1 DEF pop, s, r
    <2>5. pop(q).fifo = r
      BY <2>4
    <2>6. Drops(q, pop(q))
      BY <2>1, <2>5 DEF Drops, s
    <2>7. QED
      BY <2>1, <2>2, <2>3, <2>4, <2>6 DEF Consistent, QueueOf
  <1>3. QED
    BY <1>1, <1>2

(* What remove leaves when the value is at k. *)
LEMMA RemoveAt ==
    ASSUME NEW S, NEW q \in QueueOf(S), Consistent(q),
           NEW k \in 1 .. Len(q.fifo)
    PROVE  remove(q, q.fifo[k]) =
               [fifo |-> [i \in 1 .. Len(q.fifo) - 1 |->
                            IF i < k THEN q.fifo[i] ELSE q.fifo[i + 1]],
                set  |-> q.set \ {q.fifo[k]}]
  <1> DEFINE s == q.fifo
             v == s[k]
  <1>1. /\ s \in Seq(S) /\ Len(s) \in Nat /\ DOMAIN s = 1 .. Len(s)
        /\ q.set = Range(s) /\ IsInjective(s)
    BY DEF Consistent, QueueOf
  <1>2. v \in Range(s)
    BY <1>1 DEF Range
  <1>3. \A i \in DOMAIN s : s[i] = v => i = k
    BY <1>1 DEF IsInjective
  <1>4. (CHOOSE i \in DOMAIN s : s[i] = v /\ \A j \in 1 .. i - 1 : s[j] # v) = k
    BY <1>1, <1>3
  <1>5. without_first(s, v) = [i \in 1 .. Len(s) - 1 |-> IF i < k THEN s[i] ELSE s[i + 1]]
    BY <1>2, <1>4, Zenon DEF without_first
  <1>6. QED
    BY <1>1, <1>2, <1>5 DEF remove

(* remove takes a value that is there from both halves. *)
LEMMA RemoveConsistent ==
    ASSUME NEW S, NEW q \in QueueOf(S), NEW v \in S, Consistent(q)
    PROVE  /\ remove(q, v) \in QueueOf(S)
           /\ Consistent(remove(q, v))
           /\ remove(q, v).set = q.set \ {v}
           /\ remove(q, v) = q \/ Drops(q, remove(q, v))
  <1>1. CASE v \notin q.set
    BY <1>1 DEF remove
  <1>2. CASE v \in q.set
    <2> DEFINE s == q.fifo
    <2>1. /\ s \in Seq(S) /\ Len(s) \in Nat /\ DOMAIN s = 1 .. Len(s)
          /\ q.set = Range(s) /\ IsInjective(s) /\ q.set \subseteq S
      BY DEF Consistent, QueueOf
    <2>2. PICK k \in 1 .. Len(s) : s[k] = v
      BY <1>2, <2>1 DEF Range
    <2> DEFINE r == [i \in 1 .. Len(s) - 1 |-> IF i < k THEN s[i] ELSE s[i + 1]]
    <2>3. /\ r \in Seq(S) /\ Len(r) = Len(s) - 1
          /\ \A i \in 1 .. Len(r) : r[i] = IF i < k THEN s[i] ELSE s[i + 1]
      BY <2>1, <2>2
    <2>4. remove(q, v) = [fifo |-> r, set |-> q.set \ {v}]
      BY <2>2, RemoveAt, Zenon
    <2> HIDE DEF s, r
    <2>5. Range(r) = Range(s) \ {s[k]} /\ IsInjective(r)
      BY <2>1, <2>2, <2>3, DropOne, Zenon
    <2>6. remove(q, v).fifo = r
      BY <2>4
    <2>7. Drops(q, remove(q, v))
      BY <2>2, <2>3, <2>6 DEF Drops, s
    <2>8. QED
      BY <2>1, <2>2, <2>3, <2>4, <2>5, <2>7 DEF Consistent, QueueOf
  <1>3. QED
    BY <1>1, <1>2

(* Whatever is called, and in whatever order, the two halves agree. *)
THEOREM QueueAlwaysConsistent == Spec => []QueueConsistent
  <1>1. Init => QueueConsistent
    BY DEF Init, emptyQueue, QueueConsistent, Consistent, QueueOf, Range,
           IsInjective
  <1>2. QueueConsistent /\ [Next]_queue => QueueConsistent'
    <2> SUFFICES ASSUME QueueConsistent, [Next]_queue
                 PROVE  QueueConsistent'
      OBVIOUS
    <2>1. ASSUME NEW v \in Elem, CallPush(v)
          PROVE  QueueConsistent'
      BY <2>1, PushConsistent DEF CallPush, QueueConsistent
    <2>2. CASE CallPop
      BY <2>2, PopConsistent DEF CallPop, QueueConsistent
    <2>3. ASSUME NEW v \in Elem, CallRemove(v)
          PROVE  QueueConsistent'
      BY <2>3, RemoveConsistent DEF CallRemove, QueueConsistent
    <2>4. CASE UNCHANGED queue
      BY <2>4 DEF QueueConsistent
    <2>5. QED
      BY <2>1, <2>2, <2>3, <2>4 DEF Next
  <1>3. QED
    BY <1>1, <1>2, PTL DEF Spec

-----------------------------------------------------------------------------
(* The value at i is at position i and at no other. *)
LEMMA PosIs ==
    ASSUME NEW S, NEW q \in QueueOf(S), Consistent(q), NEW i \in 1 .. Len(q.fifo)
    PROVE  Pos(q, q.fifo[i]) = i
  <1>1. DOMAIN q.fifo = 1 .. Len(q.fifo)
    BY DEF QueueOf
  <1>2. \A j \in DOMAIN q.fifo : q.fifo[j] = q.fifo[i] => j = i
    BY <1>1 DEF Consistent, IsInjective
  <1>3. QED
    BY <1>1, <1>2 DEF Pos

(* A value of the queue has a place. *)
LEMMA PosOf ==
    ASSUME NEW S, NEW q \in QueueOf(S), Consistent(q), NEW v \in q.set
    PROVE  \E i \in 1 .. Len(q.fifo) : v = q.fifo[i] /\ Pos(q, v) = i
  <1>1. PICK i \in 1 .. Len(q.fifo) : v = q.fifo[i]
    BY DEF Consistent, QueueOf, Range
  <1>2. QED
    BY <1>1, PosIs

(* A value that was before another one is before it, or the other is new. *)
Ordered(q, p) ==
    \A v, w \in p.set :
        /\ v \in q.set
        /\ w \in q.set => Pos(q, v) < Pos(q, w)
        /\ v # w
        => Pos(p, v) < Pos(p, w)

(* The values around one that is dropped keep their order. *)
LEMMA DropOrdered ==
    ASSUME NEW S, NEW q \in QueueOf(S), NEW p \in QueueOf(S),
           Consistent(q), Consistent(p), Drops(q, p)
    PROVE  Ordered(q, p)
  <1> SUFFICES ASSUME NEW v \in p.set, NEW w \in p.set, v \in q.set,
                      w \in q.set => Pos(q, v) < Pos(q, w), v # w
               PROVE  Pos(p, v) < Pos(p, w)
    BY DEF Ordered
  <1>1. PICK k \in 1 .. Len(q.fifo) :
            /\ Len(p.fifo) = Len(q.fifo) - 1
            /\ \A i \in 1 .. Len(p.fifo) :
                   p.fifo[i] = IF i < k THEN q.fifo[i] ELSE q.fifo[i + 1]
    BY Zenon DEF Drops
  <1>2. PICK i \in 1 .. Len(p.fifo) : v = p.fifo[i] /\ Pos(p, v) = i
    BY PosOf
  <1>3. PICK j \in 1 .. Len(p.fifo) : w = p.fifo[j] /\ Pos(p, w) = j
    BY PosOf, Zenon
  <1> DEFINE f(n) == IF n < k THEN n ELSE n + 1
  <1>4. Len(q.fifo) \in Nat /\ DOMAIN q.fifo = 1 .. Len(q.fifo)
    BY DEF QueueOf
  <1>5. f(i) \in 1 .. Len(q.fifo) /\ f(j) \in 1 .. Len(q.fifo)
    BY <1>1, <1>4
  <1>6. v = q.fifo[f(i)] /\ w = q.fifo[f(j)]
    BY <1>1, <1>2, <1>3, Zenon
  <1>7. Pos(q, v) = f(i) /\ Pos(q, w) = f(j)
    BY <1>5, <1>6, PosIs
  <1>8. w \in q.set
    BY <1>4, <1>5, <1>6, Zenon DEF Consistent, Range
  <1>9. f(i) < f(j)
    BY <1>7, <1>8
  <1>10. i < j
    BY <1>9, <1>4, <1>1
  <1>11. QED
    BY <1>2, <1>3, <1>10

(* A value that is pushed comes after the others. *)
LEMMA PushOrdered ==
    ASSUME NEW S, NEW q \in QueueOf(S), NEW x \in S, Consistent(q), x \notin q.set
    PROVE  Ordered(q, push(q, x))
  <1> DEFINE p == push(q, x)
  <1>1. p \in QueueOf(S) /\ Consistent(p) /\ p.set = q.set \cup {x}
    BY PushConsistent
  <1>2. p.fifo = Append(q.fifo, x) /\ q.fifo \in Seq(S)
    BY DEF push, QueueOf
  <1> HIDE DEF p
  <1>3. /\ Len(q.fifo) \in Nat /\ Len(p.fifo) = Len(q.fifo) + 1
        /\ \A i \in 1 .. Len(q.fifo) : p.fifo[i] = q.fifo[i]
        /\ p.fifo[Len(q.fifo) + 1] = x
    BY <1>2
  <1>4. ASSUME NEW v \in q.set
        PROVE  Pos(p, v) = Pos(q, v) /\ Pos(q, v) \in 1 .. Len(q.fifo)
    <2>1. PICK i \in 1 .. Len(q.fifo) : v = q.fifo[i] /\ Pos(q, v) = i
      BY PosOf
    <2>2. i \in 1 .. Len(p.fifo) /\ v = p.fifo[i]
      BY <1>3, <2>1
    <2>3. Pos(p, v) = i
      BY <1>1, <2>2, PosIs
    <2>4. QED
      BY <2>1, <2>3
  <1>5. Pos(p, x) = Len(q.fifo) + 1
    <2>1. Len(q.fifo) + 1 \in 1 .. Len(p.fifo)
      BY <1>3
    <2>2. Pos(p, p.fifo[Len(q.fifo) + 1]) = Len(q.fifo) + 1
      BY <1>1, <2>1, PosIs
    <2>3. QED
      BY <1>3, <2>2
  <1>6. ASSUME NEW v \in q.set
        PROVE  Pos(p, v) < Pos(p, x)
    BY <1>3, <1>4, <1>5
  <1>7. Ordered(q, p)
    BY <1>1, <1>4, <1>6 DEF Ordered
  <1>8. QED
    BY <1>7 DEF p

(* First in, first out: the transactions that wait are taken in the order in *)
(* which they came, however many leave from the middle of the queue.         *)
THEOREM OrderAlwaysKept == Spec => OrderKept
  <1>1. QueueConsistent /\ [Next]_queue => [Ordered(queue, queue')]_queue
    <2> SUFFICES ASSUME QueueConsistent, Next, queue' # queue
                 PROVE  Ordered(queue, queue')
      OBVIOUS
    <2> USE DEF QueueConsistent
    <2>1. ASSUME NEW v \in Elem, CallPush(v)
          PROVE  Ordered(queue, queue')
      <3>1. v \notin queue.set
        BY <2>1 DEF CallPush, push
      <3>2. QED
        BY <2>1, <3>1, PushOrdered DEF CallPush
    <2>2. CASE CallPop
      <3>1. queue' \in QueueOf(Elem) /\ Consistent(queue') /\ Drops(queue, queue')
        BY <2>2, PopConsistent DEF CallPop
      <3>2. QED
        BY <3>1, DropOrdered
    <2>3. ASSUME NEW v \in Elem, CallRemove(v)
          PROVE  Ordered(queue, queue')
      <3>1. queue' \in QueueOf(Elem) /\ Consistent(queue') /\ Drops(queue, queue')
        BY <2>3, RemoveConsistent DEF CallRemove
      <3>2. QED
        BY <3>1, DropOrdered
    <2>4. QED
      BY <2>1, <2>2, <2>3 DEF Next
  <1>2. Spec => [][Ordered(queue, queue')]_queue
    BY <1>1, QueueAlwaysConsistent, PTL DEF Spec
  <1>3. QED
    BY <1>2 DEF OrderKept, Ordered

-----------------------------------------------------------------------------
(* Sequences with the same elements are the same. *)
LEMMA SeqEq ==
    ASSUME NEW S, NEW s \in Seq(S), NEW t \in Seq(S), Len(s) = Len(t),
           \A i \in 1 .. Len(s) : s[i] = t[i]
    PROVE  s = t
  OBVIOUS

(* popN takes the first value from what a shorter popN leaves. *)
LEMMA PopNStep ==
    ASSUME NEW S, NEW q \in QueueOf(S), NEW k \in Nat
    PROVE  popN(q, k + 1) = pop(popN(q, k))
  <1> DEFINE s == q.fifo
  <1>1. s \in Seq(S) /\ Len(s) \in Nat /\ q \in [fifo : Seq(S), set : SUBSET S]
    BY DEF QueueOf
  <1>2. CASE k >= Len(s)
    <2>1. firstN(q, k) = SubSeq(s, 1, Len(s)) /\ firstN(q, k + 1) = SubSeq(s, 1, Len(s))
      BY <1>1, <1>2 DEF firstN
    <2>2. Len(SubSeq(s, 1, Len(s))) = Len(s)
      BY <1>1
    <2>3. popN(q, k + 1) = popN(q, k)
      BY <2>1, Zenon DEF popN
    <2>4. popN(q, k).fifo = SubSeq(s, Len(s) + 1, Len(s))
      BY <2>1, <2>2, Zenon DEF popN
    <2>5. popN(q, k).fifo = <<>>
      BY <1>1, <2>4
    <2>6. QED
      BY <2>3, <2>5 DEF pop
  <1>3. CASE k < Len(s)
    <2> DEFINE a == SubSeq(s, 1, k)
               b == SubSeq(s, 1, k + 1)
               r == SubSeq(s, k + 1, Len(s))
               t == SubSeq(s, k + 1 + 1, Len(s))
    <2>1. firstN(q, k) = a /\ firstN(q, k + 1) = b
      BY <1>1, <1>3 DEF firstN
    <2>2. Len(a) = k /\ Len(b) = k + 1
      BY <1>1, <1>3
    <2>3. popN(q, k) = [fifo |-> r, set |-> q.set \ Range(a)]
      BY <2>1, <2>2, Zenon DEF popN
    <2>4. popN(q, k + 1) = [fifo |-> t, set |-> q.set \ Range(b)]
      BY <2>1, <2>2, Zenon DEF popN
    <2>5. r # <<>> /\ Head(r) = s[k + 1] /\ Tail(r) = t
      <3>1. r \in Seq(S) /\ Len(r) = Len(s) - k /\ r[1] = s[k + 1]
        BY <1>1, <1>3
      <3>2. r # <<>> /\ Head(r) = s[k + 1]
        <4> HIDE DEF r, s
        <4>1. r # <<>> /\ Head(r) = r[1]
          BY <3>1, <1>3, <1>1
        <4>2. QED
          BY <3>1, <4>1
      <3>3. /\ Tail(r) \in Seq(S) /\ Len(Tail(r)) = Len(s) - k - 1
            /\ \A i \in 1 .. Len(s) - k - 1 : Tail(r)[i] = r[i + 1]
        BY <3>1, <3>2, <1>1, <1>3, SMTT(30)
      <3>4. /\ t \in Seq(S) /\ Len(t) = Len(s) - k - 1
            /\ \A i \in 1 .. Len(s) - k - 1 : t[i] = s[k + 1 + i]
        BY <1>1, <1>3, SMTT(30)
      <3>5. \A i \in 1 .. Len(s) - k - 1 : r[i + 1] = s[k + 1 + i]
        BY <1>1, <1>3
      <3> HIDE DEF r, t, s
      <3>6. Tail(r) = t
        <4>1. Len(Tail(r)) = Len(t) /\ \A i \in 1 .. Len(Tail(r)) : Tail(r)[i] = t[i]
          BY <3>3, <3>4, <3>5
        <4>2. QED
          BY <3>3, <3>4, <4>1, SeqEq, Zenon
      <3>7. QED
        BY <3>2, <3>6
    <2>6. Range(b) = Range(a) \cup {s[k + 1]}
      <3>1. /\ DOMAIN a = 1 .. k /\ DOMAIN b = 1 .. k + 1
            /\ \A i \in 1 .. k : a[i] = s[i] /\ b[i] = s[i]
            /\ b[k + 1] = s[k + 1]
        BY <1>1, <1>3, SMTT(30)
      <3> HIDE DEF a, b, s
      <3>2. \A i \in 1 .. k + 1 : i \in 1 .. k \/ i = k + 1
        OBVIOUS
      <3>3. 1 .. k \subseteq 1 .. k + 1 /\ k + 1 \in 1 .. k + 1
        OBVIOUS
      <3>4. QED
        BY <3>1, <3>2, <3>3 DEF Range
    <2> HIDE DEF a, b, r, s, t
    <2>7. pop(popN(q, k)) = [fifo |-> Tail(r), set |-> (q.set \ Range(a)) \ {Head(r)}]
      BY <2>3, <2>5 DEF pop
    <2>8. QED
      BY <2>4, <2>5, <2>6, <2>7, Zenon
  <1>4. QED
    BY <1>1, <1>2, <1>3

(* The loop of pops is popN. *)
LEMMA PopsIsPopN ==
    ASSUME NEW S, NEW q \in QueueOf(S), NEW n \in Nat
    PROVE  Pops(q, n) = popN(q, n)
  <1> DEFINE F(g) == [k \in 0 .. n |-> IF k = 0 THEN q ELSE pop(g[k - 1])]
             after == CHOOSE g : g = F(g)
             f == [k \in 0 .. n |-> popN(q, k)]
  <1>1. popN(q, 0) = q
    <2>1. q.fifo \in Seq(S) /\ q = [fifo |-> q.fifo, set |-> q.set]
      BY DEF QueueOf
    <2>2. firstN(q, 0) = <<>>
      BY <2>1 DEF firstN
    <2>3. Range(firstN(q, 0)) = {} /\ Len(firstN(q, 0)) = 0
      BY <2>2 DEF Range
    <2>4. SubSeq(q.fifo, 1, Len(q.fifo)) = q.fifo
      BY <2>1
    <2>5. QED
      BY <2>1, <2>3, <2>4 DEF popN
  <1>2. \A k \in 1 .. n : popN(q, k) = pop(popN(q, k - 1))
    <2> TAKE k \in 1 .. n
    <2>1. k - 1 \in Nat /\ k - 1 + 1 = k
      OBVIOUS
    <2>2. QED
      BY <2>1, PopNStep
  <1>3. f = F(f)
    <2>1. \A k \in 0 .. n : k = 0 \/ (k \in 1 .. n /\ k - 1 \in 0 .. n)
      OBVIOUS
    <2>2. \A k \in 0 .. n : popN(q, k) = IF k = 0 THEN q ELSE pop(f[k - 1])
      BY <1>1, <1>2, <2>1
    <2>3. QED
      BY <2>2
  <1>4. after = F(after)
    BY <1>3, Zenon
  <1>5. Pops(q, n) = after[n]
    BY DEF Pops
  <1> HIDE DEF after
  <1> DEFINE T == {k \in Nat : k <= n => after[k] = popN(q, k)}
  <1>6. 0 \in T
    <2>1. 0 \in 0 .. n
      OBVIOUS
    <2>2. after[0] = q
      BY <1>4, <2>1
    <2>3. QED
      BY <1>1, <2>2
  <1>7. ASSUME NEW k \in Nat, k \in T
        PROVE  k + 1 \in T
    <2> SUFFICES ASSUME k + 1 <= n PROVE after[k + 1] = popN(q, k + 1)
      OBVIOUS
    <2>1. k + 1 \in 0 .. n /\ k + 1 # 0 /\ k + 1 - 1 = k /\ k <= n
      OBVIOUS
    <2>2. after[k + 1] = pop(after[k])
      BY <1>4, <2>1
    <2>3. after[k] = popN(q, k)
      BY <1>7, <2>1
    <2>4. QED
      BY <2>2, <2>3, PopNStep
  <1> HIDE DEF T
  <1>8. Nat \subseteq T
    BY <1>6, <1>7, SetInduction
  <1>9. QED
    BY <1>5, <1>8 DEF T

(* A queue is what popN takes, and then what it leaves. *)
LEMMA PopNSplits ==
    ASSUME NEW S, NEW q \in QueueOf(S), NEW n \in Nat
    PROVE  q.fifo = firstN(q, n) \o popN(q, n).fifo
  <1> DEFINE s == q.fifo
             m == IF n < Len(s) THEN n ELSE Len(s)
             a == SubSeq(s, 1, m)
             r == SubSeq(s, m + 1, Len(s))
  <1>1. s \in Seq(S) /\ Len(s) \in Nat
    BY DEF QueueOf
  <1>2. m \in 0 .. Len(s)
    BY <1>1
  <1> HIDE DEF m
  <1>3. a \in Seq(S) /\ Len(a) = m /\ \A i \in 1 .. m : a[i] = s[i]
    BY <1>1, <1>2
  <1>4. /\ r \in Seq(S) /\ Len(r) = Len(s) - m
        /\ \A i \in 1 .. Len(s) - m : r[i] = s[m + i]
    BY <1>1, <1>2
  <1>5. firstN(q, n) = a /\ popN(q, n).fifo = r
    BY <1>3, Zenon DEF firstN, popN, m
  <1> HIDE DEF a, r, s
  <1>6. a \o r \in Seq(S) /\ Len(a \o r) = Len(s)
    <2>1. a \in Seq(S) /\ r \in Seq(S)
      BY <1>3, <1>4
    <2>2. a \o r \in Seq(S) /\ Len(a \o r) = Len(a) + Len(r)
      BY <2>1
    <2>3. Len(a) + Len(r) = Len(s)
      BY <1>1, <1>2, <1>3, <1>4
    <2>4. QED
      BY <2>2, <2>3
  <1>7. ASSUME NEW i \in 1 .. Len(s)
        PROVE  s[i] = (a \o r)[i]
    <2>1. CASE i <= m
      BY <2>1, <1>1, <1>2, <1>3, <1>4
    <2>2. CASE i > m
      <3>1. i - m \in 1 .. Len(s) - m /\ m + (i - m) = i
        BY <2>2, <1>1, <1>2
      <3>2. (a \o r)[i] = r[i - m]
        BY <2>2, <3>1, <1>1, <1>2, <1>3, <1>4, SMTT(30)
      <3>3. QED
        BY <3>1, <3>2, <1>4
    <2>3. i <= m \/ i > m
      BY <1>1, <1>2
    <2>4. QED
      BY <2>1, <2>2, <2>3, Zenon
  <1>8. s = a \o r
    BY <1>1, <1>6, <1>7, SeqEq, Zenon
  <1>9. QED
    BY <1>5, <1>8 DEF s

-----------------------------------------------------------------------------
(* The places of q that hold no value of T. *)
Left(q, T) == {i \in DOMAIN q.fifo : q.fifo[i] \notin T}

LEMMA LeftFinite ==
    ASSUME NEW S, NEW q \in QueueOf(S), NEW T
    PROVE  /\ Left(q, T) \subseteq 1 .. Len(q.fifo) /\ IsFiniteSet(Left(q, T))
           /\ Cardinality(Left(q, T)) \in Nat
  <1>1. Len(q.fifo) \in Nat /\ DOMAIN q.fifo = 1 .. Len(q.fifo)
    BY DEF QueueOf
  <1>2. IsFiniteSet(1 .. Len(q.fifo))
    BY <1>1, FS_Interval
  <1>3. Left(q, T) \subseteq 1 .. Len(q.fifo)
    BY <1>1 DEF Left
  <1>4. QED
    BY <1>2, <1>3, FS_Subset, FS_CardinalityType

(* There is at most one increasing enumeration of a set. *)
LEMMA IncreasingUnique ==
    ASSUME NEW I, I \subseteq Nat, IsFiniteSet(I),
           NEW f \in Increasing(I), NEW g \in Increasing(I)
    PROVE  f = g
  <1> DEFINE n == Cardinality(I)
  <1>1. /\ n \in Nat /\ IsFiniteSet(1 .. n) /\ Cardinality(1 .. n) = n
    BY FS_CardinalityType, FS_Interval
  <1>2. /\ f \in [1 .. n -> I] /\ g \in [1 .. n -> I]
        /\ \A i, j \in 1 .. n : i < j => f[i] < f[j] /\ g[i] < g[j]
    BY DEF Increasing
  <1> HIDE DEF n
  <1>3. \A i, j \in 1 .. n : i # j => f[i] # f[j] /\ g[i] # g[j]
    <2>1. \A i, j \in 1 .. n : i # j => i < j \/ j < i
      BY <1>1
    <2>2. \A i \in 1 .. n : f[i] \in Nat /\ g[i] \in Nat
      BY <1>2, Zenon
    <2>3. QED
      BY <1>2, <2>1, <2>2
  <1>4. f \in Injection(1 .. n, I) /\ g \in Injection(1 .. n, I)
    BY <1>2, <1>3 DEF Injection, IsInjective
  <1>5. f \in Surjection(1 .. n, I) /\ g \in Surjection(1 .. n, I)
    BY <1>1, <1>4, FS_Injection DEF n
  <1>6. \A x \in I : (\E j \in 1 .. n : f[j] = x) /\ (\E j \in 1 .. n : g[j] = x)
    BY <1>5 DEF Surjection
  <1> DEFINE T == {k \in Nat : \A i \in 1 .. n : i <= k => f[i] = g[i]}
  <1>7. 0 \in T
    BY <1>1
  <1>8. ASSUME NEW k \in Nat, k \in T
        PROVE  k + 1 \in T
    <2> SUFFICES ASSUME k + 1 \in 1 .. n
                 PROVE  f[k + 1] = g[k + 1]
      BY <1>8, <1>1
    <2>1. \A j \in 1 .. n : j < k + 1 => f[j] = g[j]
      BY <1>8, <1>1
    <2>2. \A j \in 1 .. n : j < k + 1 \/ j = k + 1 \/ k + 1 < j
      BY <1>1
    <2>3. f[k + 1] \in I /\ g[k + 1] \in I
      BY <1>2
    <2>4. PICK j \in 1 .. n : g[j] = f[k + 1]
      BY <1>6, <2>3, Zenon
    <2>5. PICK l \in 1 .. n : f[l] = g[k + 1]
      BY <1>6, <2>3, Zenon
    <2>6. ~(j < k + 1)
      BY <2>1, <2>4, <1>3, <1>1
    <2>7. ~(l < k + 1)
      BY <2>1, <2>5, <1>3, <1>1
    <2>8. j = k + 1 \/ g[k + 1] < f[k + 1]
      BY <2>2, <2>4, <2>6, <1>2
    <2>9. l = k + 1 \/ f[k + 1] < g[k + 1]
      BY <2>2, <2>5, <2>7, <1>2
    <2>10. f[k + 1] \in Nat /\ g[k + 1] \in Nat
      BY <2>3, Zenon
    <2>11. QED
      BY <2>4, <2>5, <2>8, <2>9, <2>10
  <1> HIDE DEF T
  <1>9. Nat \subseteq T
    BY <1>7, <1>8, SetInduction
  <1>10. n \in T
    BY <1>1, <1>9
  <1>11. \A i \in 1 .. n : f[i] = g[i]
    BY <1>10, <1>1 DEF T
  <1>12. f = [i \in 1 .. n |-> f[i]] /\ g = [i \in 1 .. n |-> g[i]]
    BY <1>2
  <1>13. QED
    BY <1>11, <1>12, Zenon

(* So that `without` holds one queue at most. *)
LEMMA WithoutUnique ==
    ASSUME NEW S, NEW q \in QueueOf(S), NEW T, NEW p \in without(q, T)
    PROVE  without(q, T) = {p}
  <1> DEFINE I == Left(q, T)
             Q(f) == [fifo |-> [i \in 1 .. Cardinality(I) |-> q.fifo[f[i]]],
                      set  |-> q.set \ T]
  <1>1. without(q, T) = {Q(f) : f \in Increasing(I)}
    BY DEF without, Left
  <1>2. I \subseteq Nat /\ IsFiniteSet(I)
    BY LeftFinite
  <1> HIDE DEF I
  <1>3. \A f, g \in Increasing(I) : f = g
    BY <1>2, IncreasingUnique, Zenon
  <1> HIDE DEF Q
  <1>4. QED
    BY <1>1, <1>3

(* Without no value, a queue is what it was. *)
LEMMA WithoutNone ==
    ASSUME NEW S, NEW q \in QueueOf(S)
    PROVE  q \in without(q, {})
  <1> DEFINE n == Len(q.fifo)
             f == [i \in 1 .. n |-> i]
  <1>1. /\ q.fifo \in Seq(S) /\ n \in Nat /\ DOMAIN q.fifo = 1 .. n
        /\ q = [fifo |-> q.fifo, set |-> q.set]
    <2>1. q.fifo \in Seq(S) /\ q = [fifo |-> q.fifo, set |-> q.set]
      BY Zenon DEF QueueOf
    <2>2. QED
      BY <2>1
  <1>2. {i \in DOMAIN q.fifo : q.fifo[i] \notin {}} = 1 .. n
    BY <1>1
  <1>3. Cardinality(1 .. n) = n
    <2>1. 1 \in Int /\ n \in Int
      BY <1>1
    <2> HIDE DEF n
    <2>2. Cardinality(1 .. n) = IF 1 > n THEN 0 ELSE n - 1 + 1
      BY <2>1, FS_Interval, Zenon
    <2>3. QED
      BY <1>1, <2>2
  <1>4. f \in Increasing(1 .. n)
    BY <1>1, <1>3 DEF Increasing
  <1>5. [i \in 1 .. n |-> q.fifo[f[i]]] = q.fifo
    BY <1>1
  <1> HIDE DEF n, f
  <1>6. without(q, {}) = {[fifo |-> [i \in 1 .. n |-> q.fifo[g[i]]], set |-> q.set \ {}] :
                             g \in Increasing(1 .. n)}
    BY <1>2, <1>3, Zenon DEF without
  <1>7. [fifo |-> [i \in 1 .. n |-> q.fifo[f[i]]], set |-> q.set \ {}] \in without(q, {})
    BY <1>4, <1>6, Zenon
  <1>8. q.set \ {} = q.set
    OBVIOUS
  <1>9. QED
    BY <1>1, <1>5, <1>7, <1>8, Zenon

(* Leaving out the k-th value of an increasing enumeration enumerates the rest. *)
LEMMA IncreasingDrop ==
    ASSUME NEW I, I \subseteq Nat, IsFiniteSet(I), NEW f \in Increasing(I),
           NEW k \in 1 .. Cardinality(I)
    PROVE  /\ Cardinality(I \ {f[k]}) = Cardinality(I) - 1
           /\ [i \in 1 .. Cardinality(I) - 1 |-> f[IF i < k THEN i ELSE i + 1]]
                \in Increasing(I \ {f[k]})
  <1> DEFINE n == Cardinality(I)
             h(i) == IF i < k THEN i ELSE i + 1
             g == [i \in 1 .. n - 1 |-> f[h(i)]]
  <1>1. n \in Nat
    BY FS_CardinalityType
  <1>2. f \in [1 .. n -> I] /\ \A i, j \in 1 .. n : i < j => f[i] < f[j]
    BY DEF Increasing
  <1> HIDE DEF n
  <1>3. k \in 1 .. n
    BY DEF n
  <1>4. Cardinality(I \ {f[k]}) = n - 1
    BY <1>2, <1>3, FS_RemoveElement DEF n
  <1>5. \A i \in 1 .. n - 1 : h(i) \in 1 .. n /\ (h(i) < k \/ k < h(i))
    BY <1>1, <1>3
  <1>6. \A i, j \in 1 .. n - 1 : i < j => h(i) < h(j)
    BY <1>1, <1>3
  <1> HIDE DEF h
  <1>7. \A i \in 1 .. n - 1 : f[h(i)] \in I \ {f[k]}
    <2>1. \A i \in 1 .. n : f[i] \in Nat /\ f[i] \in I
      BY <1>2, Zenon
    <2>2. QED
      BY <1>2, <1>3, <1>5, <2>1
  <1>8. g \in [1 .. n - 1 -> I \ {f[k]}]
    BY <1>7
  <1>9. \A i, j \in 1 .. n - 1 : i < j => g[i] < g[j]
    BY <1>2, <1>5, <1>6
  <1>10. g \in Increasing(I \ {f[k]})
    BY <1>4, <1>8, <1>9, Zenon DEF Increasing
  <1>11. QED
    BY <1>4, <1>10 DEF n, h

(* The next value is removed from what was left without the others. *)
LEMMA WithoutStep ==
    ASSUME NEW S, NEW q \in QueueOf(S), Consistent(q), NEW T,
           NEW p \in QueueOf(S), Consistent(p), p \in without(q, T), NEW v
    PROVE  remove(p, v) \in without(q, T \cup {v})
  <1> DEFINE I == Left(q, T)
             J == Left(q, T \cup {v})
             n == Cardinality(I)
  <1>1. I \subseteq Nat /\ IsFiniteSet(I) /\ n \in Nat /\ I \subseteq 1 .. Len(q.fifo)
    BY LeftFinite
  <1>2. PICK f \in Increasing(I) :
            p = [fifo |-> [i \in 1 .. n |-> q.fifo[f[i]]], set |-> q.set \ T]
    BY DEF without, Left
  <1>3. /\ DOMAIN q.fifo = 1 .. Len(q.fifo) /\ q.set = Range(q.fifo)
        /\ \A i, j \in DOMAIN q.fifo : q.fifo[i] = q.fifo[j] => i = j
    BY DEF Consistent, IsInjective, QueueOf
  <1>4. without(q, T \cup {v}) =
            {[fifo |-> [i \in 1 .. Cardinality(J) |-> q.fifo[g[i]]],
              set  |-> q.set \ (T \cup {v})] : g \in Increasing(J)}
    BY DEF without, Left
  <1>5. J = {i \in I : q.fifo[i] # v}
    BY DEF Left
  <1>6. f \in [1 .. n -> I]
    BY <1>2 DEF Increasing
  <1>7. p.fifo = [i \in 1 .. n |-> q.fifo[f[i]]] /\ p.set = q.set \ T
    BY <1>2
  <1>8. CASE v \notin p.set
    <2>1. remove(p, v) = p
      BY <1>8 DEF remove
    <2>2. \A i \in I : q.fifo[i] \in q.set \ T
      BY <1>3 DEF Left, Range
    <2>3. J = I
      <3>1. \A i \in I : q.fifo[i] # v
        BY <1>7, <1>8, <2>2
      <3> HIDE DEF I, J
      <3>2. QED
        BY <1>5, <3>1
    <2>4. q.set \ (T \cup {v}) = q.set \ T
      BY <1>7, <1>8
    <2> HIDE DEF I, J, n
    <2>5. QED
      BY <1>2, <1>4, <2>1, <2>3, <2>4, Zenon DEF n
  <1>9. CASE v \in p.set
    <2>1. /\ DOMAIN p.fifo = 1 .. Len(p.fifo) /\ p.set = Range(p.fifo)
          /\ Len(p.fifo) \in Nat
      BY DEF Consistent, QueueOf
    <2>2. Len(p.fifo) = n
      <3> HIDE DEF n
      <3>1. DOMAIN p.fifo = 1 .. n
        BY <1>7
      <3>2. QED
        BY <3>1, <2>1, <1>1
    <2>3. PICK k \in 1 .. n : p.fifo[k] = v
      BY <1>9, <2>1, <2>2 DEF Range
    <2> DEFINE g == [i \in 1 .. n - 1 |-> f[IF i < k THEN i ELSE i + 1]]
    <2>4. Cardinality(I \ {f[k]}) = n - 1 /\ g \in Increasing(I \ {f[k]})
      <3> HIDE DEF I
      <3>1. k \in 1 .. Cardinality(I)
        OBVIOUS
      <3>2. QED
        BY <1>1, <3>1, IncreasingDrop, Zenon
    <2> HIDE DEF I, J, n
    <2>5. f[k] \in I /\ q.fifo[f[k]] = v
      BY <1>6, <1>7, <2>3
    <2>6. J = I \ {f[k]}
      BY <1>1, <1>3, <1>5, <2>5, Zenon
    <2>7. remove(p, v) =
              [fifo |-> [i \in 1 .. n - 1 |-> IF i < k THEN p.fifo[i] ELSE p.fifo[i + 1]],
               set  |-> p.set \ {v}]
      BY <2>2, <2>3, RemoveAt, Zenon
    <2>8. \A i \in 1 .. n - 1 : q.fifo[g[i]] = IF i < k THEN p.fifo[i] ELSE p.fifo[i + 1]
      BY <1>1, <1>7
    <2>9. p.set \ {v} = q.set \ (T \cup {v})
      BY <1>7
    <2> HIDE DEF g
    <2>10. [i \in 1 .. n - 1 |-> IF i < k THEN p.fifo[i] ELSE p.fifo[i + 1]]
               = [i \in 1 .. n - 1 |-> q.fifo[g[i]]]
      BY <2>8
    <2>11. remove(p, v) = [fifo |-> [i \in 1 .. n - 1 |-> q.fifo[g[i]]],
                           set  |-> q.set \ (T \cup {v})]
      BY <2>7, <2>9, <2>10, Zenon
    <2>12. Cardinality(J) = n - 1 /\ g \in Increasing(J)
      BY <2>4, <2>6
    <2>13. QED
      BY <1>4, <2>11, <2>12, Zenon
  <1>10. QED
    BY <1>8, <1>9

(* A block lists its transactions in whatever order, and however often: the *)
(* loop that removes them leaves what `without` says.                       *)
THEOREM RemovesIsWithout ==
    ASSUME NEW S, NEW q \in QueueOf(S), Consistent(q), NEW s \in Seq(S)
    PROVE  without(q, Range(s)) = {Removes(q, s)}
  <1> DEFINE n == Len(s)
             F(g, m) == [k \in 0 .. m |-> IF k = 0 THEN q ELSE remove(g[k - 1], s[k])]
             after == CHOOSE g : g = F(g, n)
  <1>1. n \in Nat /\ DOMAIN s = 1 .. n /\ \A i \in 1 .. n : s[i] \in S
    OBVIOUS
  <1>2. Removes(q, s) = after[n]
    BY DEF Removes
  <1> HIDE DEF n
  <1>3. \E g : g = F(g, n)
    <2> DEFINE U == {m \in Nat : \E g : g = F(g, m)}
    <2>1. 0 \in U
      <3> DEFINE g == [k \in 0 .. 0 |-> q]
      <3>1. \A k \in 0 .. 0 : k = 0
        OBVIOUS
      <3>2. g = F(g, 0)
        BY <3>1
      <3>3. QED
        BY <3>2, Zenon
    <2>2. ASSUME NEW m \in Nat, m \in U
          PROVE  m + 1 \in U
      <3>1. PICK g : g = F(g, m)
        BY <2>2
      <3> DEFINE h == [k \in 0 .. m + 1 |-> IF k = m + 1 THEN remove(g[m], s[m + 1]) ELSE g[k]]
      <3>2. ASSUME NEW k \in 0 .. m + 1
            PROVE  h[k] = IF k = 0 THEN q ELSE remove(h[k - 1], s[k])
        <4>1. CASE k = 0
          <5>1. 0 \in 0 .. m /\ 0 # m + 1
            OBVIOUS
          <5>2. g[0] = q
            BY <3>1, <5>1
          <5>3. QED
            BY <4>1, <5>1, <5>2
        <4>2. CASE k = m + 1
          <5>1. k - 1 = m /\ m \in 0 .. m + 1 /\ m # m + 1 /\ k # 0
            BY <4>2
          <5>2. QED
            BY <4>2, <5>1
        <4>3. CASE k # 0 /\ k # m + 1
          <5>1. /\ k \in 0 .. m /\ k - 1 \in 0 .. m + 1 /\ k - 1 # m + 1
            BY <4>3
          <5>2. g[k] = remove(g[k - 1], s[k])
            BY <3>1, <5>1, <4>3
          <5>3. QED
            BY <4>3, <5>1, <5>2
        <4>4. QED
          BY <4>1, <4>2, <4>3
      <3>3. h = [k \in 0 .. m + 1 |-> h[k]]
        OBVIOUS
      <3> HIDE DEF h
      <3>4. h = F(h, m + 1)
        BY <3>2, <3>3, Zenon
      <3>5. m + 1 \in Nat
        OBVIOUS
      <3> HIDE DEF F
      <3>6. QED
        BY <3>4, <3>5, Zenon
    <2> HIDE DEF U
    <2>3. Nat \subseteq U
      BY <2>1, <2>2, SetInduction
    <2>4. n \in U
      BY <1>1, <2>3
    <2>5. QED
      BY <2>4 DEF U
  <1>4. after = F(after, n)
    BY <1>3, Zenon
  <1> HIDE DEF after
  <1>5. after[0] = q /\ \A k \in 1 .. n : after[k] = remove(after[k - 1], s[k])
    <2>1. 0 \in 0 .. n /\ \A k \in 1 .. n : k \in 0 .. n /\ k # 0
      BY <1>1
    <2>2. QED
      BY <1>4, <2>1, Zenon
  <1> DEFINE V(k) == {s[i] : i \in 1 .. k}
             W == {k \in Nat : k <= n => /\ after[k] \in QueueOf(S)
                                         /\ Consistent(after[k])
                                         /\ after[k] \in without(q, V(k))}
  <1>6. 0 \in W
    <2>1. V(0) = {}
      OBVIOUS
    <2>2. QED
      BY <1>5, <2>1, WithoutNone, Zenon
  <1>7. ASSUME NEW k \in Nat, k \in W
        PROVE  k + 1 \in W
    <2> SUFFICES ASSUME k + 1 <= n
                 PROVE  /\ after[k + 1] \in QueueOf(S)
                        /\ Consistent(after[k + 1])
                        /\ after[k + 1] \in without(q, V(k + 1))
      OBVIOUS
    <2>1. k + 1 \in 1 .. n /\ k + 1 - 1 = k /\ k <= n
      BY <1>1
    <2>2. after[k + 1] = remove(after[k], s[k + 1]) /\ s[k + 1] \in S
      BY <1>1, <1>5, <2>1
    <2>3. V(k + 1) = V(k) \cup {s[k + 1]}
      <3>1. \A i \in 1 .. k + 1 : i \in 1 .. k \/ i = k + 1
        OBVIOUS
      <3>2. 1 .. k \subseteq 1 .. k + 1 /\ k + 1 \in 1 .. k + 1
        OBVIOUS
      <3>3. QED
        BY <3>1, <3>2
    <2>4. /\ after[k] \in QueueOf(S) /\ Consistent(after[k])
          /\ after[k] \in without(q, V(k))
      BY <1>7, <2>1
    <2> HIDE DEF V
    <2>5. remove(after[k], s[k + 1]) \in without(q, V(k) \cup {s[k + 1]})
      BY <2>4, WithoutStep
    <2>6. after[k + 1] \in QueueOf(S) /\ Consistent(after[k + 1])
      <3> DEFINE a == after[k]
      <3>1. a \in QueueOf(S) /\ Consistent(a)
        BY <2>4
      <3> HIDE DEF a
      <3>2. remove(a, s[k + 1]) \in QueueOf(S) /\ Consistent(remove(a, s[k + 1]))
        BY <2>2, <3>1, RemoveConsistent
      <3>3. QED
        BY <2>2, <3>2, Zenon DEF a
    <2>7. QED
      BY <2>2, <2>3, <2>5, <2>6, Zenon
  <1> HIDE DEF W
  <1>8. Nat \subseteq W
    BY <1>6, <1>7, SetInduction
  <1>9. after[n] \in without(q, V(n))
    BY <1>1, <1>8 DEF W
  <1>10. V(n) = Range(s)
    BY <1>1 DEF Range
  <1>11. after[n] \in without(q, Range(s))
    BY <1>9, <1>10, Zenon
  <1>12. QED
    BY <1>2, <1>11, WithoutUnique

(* The batches of the builder and of the executor are the calls they are    *)
(* made of, whenever they are made.                                         *)
THEOREM BatchesAreAlwaysCalls == Spec => []BatchesAreCalls
  <1>1. QueueConsistent => BatchesAreCalls
    <2> SUFFICES ASSUME QueueConsistent
                 PROVE  BatchesAreCalls
      OBVIOUS
    <2>1. queue \in QueueOf(Elem) /\ Consistent(queue)
      BY DEF QueueConsistent
    <2>2. \A n \in 0 .. Len(queue.fifo) + 1 : n \in Nat
      OBVIOUS
    <2>3. ASSUME NEW n \in 0 .. Len(queue.fifo) + 1
          PROVE  /\ popN(queue, n) = Pops(queue, n)
                 /\ queue.fifo = firstN(queue, n) \o Pops(queue, n).fifo
      <3>1. n \in Nat
        BY <2>2
      <3>2. Pops(queue, n) = popN(queue, n)
        BY <2>1, <3>1, PopsIsPopN, Zenon
      <3>3. queue.fifo = firstN(queue, n) \o popN(queue, n).fifo
        BY <2>1, <3>1, PopNSplits, Zenon
      <3>4. QED
        BY <3>2, <3>3, Zenon
    <2>4. ASSUME NEW v \in Elem, NEW w \in Elem
          PROVE  without(queue, {v, w}) = {Removes(queue, <<v, w>>)}
      <3>1. <<v, w>> \in Seq(Elem) /\ Range(<<v, w>>) = {v, w}
        BY DEF Range
      <3>2. QED
        BY <2>1, <3>1, RemovesIsWithout, Zenon
    <2>5. QED
      BY <2>3, <2>4, Zenon DEF BatchesAreCalls
  <1>2. QED
    BY <1>1, QueueAlwaysConsistent, PTL

=============================================================================

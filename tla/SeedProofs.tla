----------------------------- MODULE SeedProofs -----------------------------
(***************************************************************************)
(* The source of pseudo random numbers, for any number of dispatcher tasks *)
(* and of blocks, draws and failed executions.                             *)
(*                                                                         *)
(* That no tasks wait in a circle rests on which mutexes a task holds: it  *)
(* is those that come before the one it is at, in the order of the         *)
(* statement it executes.  That the executor draws from the tip rests on   *)
(* its being the only task that changes the fields, and on how far it has  *)
(* come in copying them.                                                   *)
(***************************************************************************)
EXTENDS Seed, FiniteSetTheorems, TLAPS

(* What a field holds, and what the seed of a task is made of. *)
Datum == (0 .. MaxTip) \cup Seq(Seq(0 .. MaxTip))
TaskType ==
    [pc : {"idle", "size", "copy", "draw", "answer", "update"}, step : 1 .. 6,
     seed : Seq(Datum)]

Typed ==
    /\ TypeOK
    /\ field \in [Hashes \cup {"previous_seed"} -> Datum]
    /\ task \in [Task -> TaskType]

(* Who does what, and how far a statement goes. *)
Phases ==
    \A p \in Task :
        /\ task[p].pc \in {"size", "copy", "update"} => task[p].step \in 1 .. 5
        /\ task[p].pc \in {"draw", "update"} => p = "executor"
        /\ task[p].pc = "answer" => p # "executor"

(* A task holds the mutexes that it has come past in a statement. *)
Holds(p, m) ==
    \/ task[p].pc = "size" /\ \E i \in 1 .. task[p].step - 1 : SizeOrder[i] = m
    \/ task[p].pc = "update" /\ \E i \in 1 .. task[p].step - 1 : UpdateOrder[i] = m
LocksHeld == \A p \in Task, m \in Mutex : owner[m] = p <=> Holds(p, m)

LockInv == Typed /\ Phases /\ LocksHeld

(* The hashes are those of the tip, except while the executor is about to *)
(* bring them up to date.                                                 *)
FieldsAtTip == task["executor"].pc # "update" => \A h \in Hashes : field[h] = tip

(* What the executor has copied is of the tip. *)
SeedAtTip ==
    LET t == task["executor"] IN
    /\ t.pc = "copy" /\ t.step > 1 => /\ Len(t.seed) = t.step - 2
                                      /\ \A i \in 1 .. t.step - 2 : t.seed[i] = tip
    /\ t.pc = "draw" => /\ Len(t.seed) = 4
                        /\ \A i \in 1 .. 3 : t.seed[i] = tip
                        /\ t.seed[4] = field["previous_seed"]

(* Every number drawn has made the previous seed longer by one. *)
DrawsCounted ==
    /\ faults = 0 => Len(field["previous_seed"]) = draws
    /\ task["executor"].pc \in {"size", "copy", "draw"} => draws < MaxDraws

DataInv == FieldsAtTip /\ SeedAtTip /\ DrawsCounted

SeedInv == LockInv /\ DataInv

-----------------------------------------------------------------------------
(* There are three hashes. *)
LEMMA ThreeHashes == Cardinality(Hashes) = 3
  <1>1. IsFiniteSet({"prev_hash"}) /\ Cardinality({"prev_hash"}) = 1
    BY FS_Singleton, Zenon
  <1>2. /\ IsFiniteSet({"prev_hash"} \cup {"txs_hash"})
        /\ Cardinality({"prev_hash"} \cup {"txs_hash"}) = 2
    BY <1>1, FS_AddElement
  <1>3. Cardinality(({"prev_hash"} \cup {"txs_hash"}) \cup {"rxs_hash"}) = 3
    BY <1>2, FS_AddElement
  <1>4. Hashes = ({"prev_hash"} \cup {"txs_hash"}) \cup {"rxs_hash"}
    BY DEF Hashes
  <1>5. QED
    BY <1>3, <1>4

(* The orders have no mutex twice, and the first two of get_seed are nonce, *)
(* which the executor does not lock to update, and prev_hash, which is the  *)
(* first that it locks.                                                     *)
LEMMA Orders ==
    /\ Len(SizeOrder) = 4 /\ Len(UpdateOrder) = 4 /\ Len(CopyOrder) = 5
    /\ \A i \in 1 .. 4 : SizeOrder[i] \in Mutex /\ UpdateOrder[i] \in Mutex
    /\ \A i, j \in 1 .. 4 : /\ SizeOrder[i] = SizeOrder[j] => i = j
                            /\ UpdateOrder[i] = UpdateOrder[j] => i = j
    /\ SizeOrder[1] = "nonce" /\ SizeOrder[2] = "prev_hash"
    /\ UpdateOrder[1] = "prev_hash" /\ \A i \in 1 .. 4 : UpdateOrder[i] # "nonce"
  BY DEF SizeOrder, UpdateOrder, CopyOrder, Mutex

(* The order in which get_seed copies. *)
LEMMA CopyOrders ==
    ASSUME NEW n \in 1 .. 5
    PROVE  /\ CopyOrder[n] \in Mutex
           /\ CopyOrder[n] = "nonce" <=> n = 1
           /\ CopyOrder[n] = "previous_seed" <=> n = 5
           /\ n \in {2, 3, 4} => CopyOrder[n] \in Hashes
  BY DEF CopyOrder, Mutex, Hashes

(* No task is called nobody. *)
LEMMA Names == "executor" \in Task /\ "nobody" \notin Task
  BY SeedAssumption DEF Task

(* Initially nothing is locked and nobody is at work. *)
LEMMA SeedInit == Init => SeedInv
  <1> SUFFICES ASSUME Init
               PROVE  SeedInv
    OBVIOUS
  <1> USE SeedAssumption
  <1>1. /\ field = [m \in Hashes \cup {"previous_seed"} |-> IF m \in Hashes THEN 0 ELSE <<>>]
        /\ owner = [m \in Mutex |-> "nobody"] /\ tip = 0 /\ draws = 0 /\ faults = 0
        /\ \A p \in Task : task[p] = Idle
        /\ task = [p \in Task |-> Idle]
    BY DEF Init
  <1>2. <<>> \in Seq(Seq(0 .. MaxTip)) /\ <<>> \in Seq(Datum) /\ 0 \in 0 .. MaxTip
    OBVIOUS
  <1>3. /\ \A h \in Hashes : field[h] = 0
        /\ field["previous_seed"] = <<>>
        /\ field \in [Hashes \cup {"previous_seed"} -> Datum]
    BY <1>1, <1>2 DEF Hashes, Datum
  <1>4. Idle \in TaskType /\ Idle.pc = "idle" /\ Idle.step = 1
    BY <1>2 DEF Idle, TaskType
  <1>5. /\ \A h \in Hashes : field[h] \in 0 .. MaxTip
        /\ field["previous_seed"] \in Seq(Seq(0 .. MaxTip))
        /\ tip \in 0 .. MaxTip /\ draws \in 0 .. MaxDraws /\ faults \in 0 .. MaxFaults
    <2>1. /\ \A h \in Hashes : field[h] \in 0 .. MaxTip
          /\ field["previous_seed"] \in Seq(Seq(0 .. MaxTip))
      BY <1>2, <1>3
    <2>2. tip \in 0 .. MaxTip /\ draws \in 0 .. MaxDraws /\ faults \in 0 .. MaxFaults
      BY <1>1
    <2>3. QED
      BY <2>1, <2>2
  <1>6. /\ owner \in [Mutex -> Task \cup {"nobody"}]
        /\ \A p \in Task :
             /\ task[p].pc \in {"idle", "size", "copy", "draw", "answer", "update"}
             /\ task[p].step \in 1 .. Len(CopyOrder) + 1
    BY <1>1, <1>4, Orders
  <1>7. Typed
    BY <1>1, <1>3, <1>4, <1>5, <1>6 DEF Typed, TypeOK
  <1>8. Phases /\ LocksHeld
    BY <1>1, <1>4, Names DEF Phases, LocksHeld, Holds
  <1>9. DataInv
    BY <1>1, <1>3, <1>4, Names DEF DataInv, FieldsAtTip, SeedAtTip, DrawsCounted
  <1>10. QED
    BY <1>7, <1>8, <1>9 DEF SeedInv, LockInv

-----------------------------------------------------------------------------
(* What does not concern the fields or the executor keeps the data. *)
LEMMA DataKept ==
    ASSUME DataInv, UNCHANGED <<field, tip, draws, faults>>,
           task'["executor"] = task["executor"]
    PROVE  DataInv'
  BY DEF DataInv, FieldsAtTip, SeedAtTip, DrawsCounted

(* When one task moves, its phase and its mutexes are all there is to show. *)
LEMMA LocksMoved ==
    ASSUME LockInv, NEW p \in Task, NEW r \in TaskType,
           task' = [task EXCEPT ![p] = r],
           r.pc \in {"size", "copy", "update"} => r.step \in 1 .. 5,
           r.pc \in {"draw", "update"} => p = "executor",
           r.pc = "answer" => p # "executor",
           owner' \in [Mutex -> Task \cup {"nobody"}],
           \A m \in Mutex, q \in Task \ {p} : owner'[m] = q <=> owner[m] = q,
           \A m \in Mutex : owner'[m] = p <=> Holds(p, m)',
           field' \in [Hashes \cup {"previous_seed"} -> Datum],
           \A h \in Hashes : field'[h] \in 0 .. MaxTip,
           field'["previous_seed"] \in Seq(Seq(0 .. MaxTip)),
           tip' \in 0 .. MaxTip, draws' \in 0 .. MaxDraws, faults' \in 0 .. MaxFaults
    PROVE  LockInv'
  <1>1. /\ task' \in [Task -> TaskType] /\ task'[p] = r
        /\ \A q \in Task \ {p} : task'[q] = task[q]
    BY DEF LockInv, Typed
  <1>2. \A q \in Task : /\ task'[q].pc \in {"idle", "size", "copy", "draw", "answer", "update"}
                        /\ task'[q].step \in 1 .. 6
    BY <1>1 DEF TaskType
  <1>3. Len(CopyOrder) + 1 = 6
    BY Orders
  <1>4. Typed'
    BY <1>1, <1>2, <1>3, Zenon DEF Typed, TypeOK
  <1>5. Phases'
    BY <1>1 DEF LockInv, Phases
  <1>6. LocksHeld'
    <2>1. ASSUME NEW q \in Task \ {p}, NEW m \in Mutex
          PROVE  owner'[m] = q <=> Holds(q, m)'
      BY <2>1, <1>1 DEF LockInv, LocksHeld, Holds
    <2>2. ASSUME NEW q \in Task, NEW m \in Mutex
          PROVE  owner'[m] = q <=> Holds(q, m)'
      <3>1. CASE q = p
        BY <3>1, Zenon
      <3>2. CASE q # p
        BY <2>1, <3>2, Zenon
      <3>3. QED
        BY <3>1, <3>2, Zenon
    <2>3. QED
      BY <2>2, Zenon DEF LocksHeld
  <1>7. QED
    BY <1>4, <1>5, <1>6 DEF LockInv

(* The types of the other variables, for the steps that leave them alone. *)
LEMMA OthersTyped ==
    ASSUME Typed
    PROVE  /\ owner \in [Mutex -> Task \cup {"nobody"}]
           /\ field \in [Hashes \cup {"previous_seed"} -> Datum]
           /\ \A h \in Hashes : field[h] \in 0 .. MaxTip
           /\ field["previous_seed"] \in Seq(Seq(0 .. MaxTip))
           /\ tip \in 0 .. MaxTip /\ draws \in 0 .. MaxDraws /\ faults \in 0 .. MaxFaults
           /\ tip \in Nat /\ draws \in Nat /\ faults \in Nat
           /\ \A p \in Task : task[p] \in TaskType /\ task[p].step \in Nat
  BY SeedAssumption DEF Typed, TypeOK, TaskType

(* A task that holds nothing before and after is in no locking statement. *)
LEMMA HoldsNothing ==
    ASSUME LockInv, NEW p \in Task, NEW r \in TaskType,
           task' = [task EXCEPT ![p] = r],
           \/ task[p].pc \notin {"size", "update"}
           \/ task[p].step = 1,
           r.pc \notin {"size", "update"} \/ r.step = 1,
           UNCHANGED owner
    PROVE  /\ \A m \in Mutex, q \in Task \ {p} : owner'[m] = q <=> owner[m] = q
           /\ \A m \in Mutex : owner'[m] = p <=> Holds(p, m)'
  <1>1. task'[p] = r
    BY DEF LockInv, Typed
  <1>2. \A m \in Mutex : ~Holds(p, m) /\ ~Holds(p, m)'
    BY <1>1 DEF Holds
  <1>3. QED
    BY <1>2 DEF LockInv, LocksHeld

(* A task with one part replaced. *)
LEMMA Replaced ==
    ASSUME NEW t \in TaskType, NEW v
    PROVE  /\ [t EXCEPT !.step = v] = [pc |-> t.pc, step |-> v, seed |-> t.seed]
           /\ [t EXCEPT !.pc = v] = [pc |-> v, step |-> t.step, seed |-> t.seed]
  BY DEF TaskType

(* The parts of a task. *)
LEMMA TaskMade ==
    ASSUME NEW pc \in {"idle", "size", "copy", "draw", "answer", "update"},
           NEW n \in 1 .. 6, NEW s \in Seq(Datum)
    PROVE  [pc |-> pc, step |-> n, seed |-> s] \in TaskType
  BY DEF TaskType

(* What a task in a locking statement waits for. *)
LEMMA WantedByStep ==
    ASSUME NEW p \in Task
    PROVE  /\ task[p].pc = "size" => Wanted(p) =
                  IF task[p].step <= 4 THEN {SizeOrder[task[p].step]} ELSE {}
           /\ task[p].pc = "update" => Wanted(p) =
                  IF task[p].step <= 4 THEN {UpdateOrder[task[p].step]} ELSE {}
  <1>1. Len(SizeOrder) = 4 /\ Len(UpdateOrder) = 4
    BY Orders
  <1>2. CASE task[p].pc = "size"
    BY <1>1, <1>2 DEF Wanted
  <1>3. CASE task[p].pc = "update"
    BY <1>1, <1>3 DEF Wanted
  <1>4. QED
    BY <1>2, <1>3

(* One more mutex: it was free, and it is the next in the order. *)
LEMMA SeedLock ==
    ASSUME SeedInv, NEW p \in Task, Lock(p)
    PROVE  SeedInv'
  <1> DEFINE n == task[p].step
             r == [pc |-> task[p].pc, step |-> n + 1, seed |-> task[p].seed]
  <1>1. LockInv /\ DataInv /\ Typed
    BY DEF SeedInv, LockInv
  <1>2. PICK m \in Wanted(p) : Free(m) /\ owner' = [owner EXCEPT ![m] = p]
    BY Zenon DEF Lock
  <1>3. task[p] \in TaskType /\ task[p].pc \in {"size", "update"} /\ n \in 1 .. 5
    BY <1>1, OthersTyped DEF Lock, LockInv, Phases
  <1>4. n \in 1 .. 4 /\ m = IF task[p].pc = "size" THEN SizeOrder[n] ELSE UpdateOrder[n]
    BY <1>2, <1>3, WantedByStep
  <1>5. m \in Mutex /\ owner[m] = "nobody"
    BY <1>2, <1>4, Orders DEF Free
  <1>6. r \in TaskType
    <2>1. n + 1 \in 1 .. 6 /\ task[p].seed \in Seq(Datum)
      BY <1>3, <1>4 DEF TaskType
    <2>2. QED
      BY <1>3, <2>1, TaskMade
  <1>7. task' = [task EXCEPT ![p] = r]
    <2>1. [task[p] EXCEPT !.step = n + 1] = r
      BY <1>3, Replaced, Zenon
    <2>2. QED
      BY <2>1, Zenon DEF Lock
  <1>8. r.pc = task[p].pc /\ r.step = n + 1 /\ r.seed = task[p].seed
    OBVIOUS
  <1> HIDE DEF r
  <1>9. task'[p] = r /\ \A q \in Task \ {p} : task'[q] = task[q]
    BY <1>1, <1>6, <1>7 DEF Typed
  <1>10. UNCHANGED <<field, tip, draws, faults>>
    BY DEF Lock
  <1>11. /\ owner \in [Mutex -> Task \cup {"nobody"}]
         /\ owner' \in [Mutex -> Task \cup {"nobody"}]
         /\ \A x \in Mutex : owner'[x] = IF x = m THEN p ELSE owner[x]
    BY <1>1, <1>2, <1>5, OthersTyped
  <1>12. \A x \in Mutex : Holds(p, x)' <=> Holds(p, x) \/ x = m
    <2> DEFINE order == IF task[p].pc = "size" THEN SizeOrder ELSE UpdateOrder
    <2> TAKE x \in Mutex
    <2>1. \A i : i \in 1 .. (n + 1) - 1 <=> i \in 1 .. n - 1 \/ i = n
      BY <1>4
    <2>2. QED
      <3>1. /\ Holds(p, x) <=> \E i \in 1 .. n - 1 : order[i] = x
            /\ Holds(p, x)' <=> \E i \in 1 .. (n + 1) - 1 : order[i] = x
        BY <1>3, <1>8, <1>9, Zenon DEF Holds
      <3>2. m = order[n]
        BY <1>4, Zenon
      <3> HIDE DEF order
      <3>3. QED
        BY <2>1, <3>1, <3>2, Zenon
  <1>13. \A x \in Mutex : owner'[x] = p <=> Holds(p, x)'
    BY <1>1, <1>11, <1>12 DEF LockInv, LocksHeld
  <1>14. \A x \in Mutex, q \in Task \ {p} : owner'[x] = q <=> owner[x] = q
    BY <1>5, <1>11, Names
  <1>15. /\ r.pc \in {"size", "copy", "update"} => r.step \in 1 .. 5
         /\ r.pc \in {"draw", "update"} => p = "executor"
         /\ r.pc = "answer" => p # "executor"
    BY <1>1, <1>3, <1>4, <1>8 DEF LockInv, Phases
  <1>16. LockInv'
    <2>1. /\ field' \in [Hashes \cup {"previous_seed"} -> Datum]
          /\ \A h \in Hashes : field'[h] \in 0 .. MaxTip
          /\ field'["previous_seed"] \in Seq(Seq(0 .. MaxTip))
          /\ tip' \in 0 .. MaxTip /\ draws' \in 0 .. MaxDraws /\ faults' \in 0 .. MaxFaults
      BY <1>1, <1>10, OthersTyped
    <2>2. QED
      BY <1>1, <1>6, <1>7, <1>11, <1>13, <1>14, <1>15, <2>1, LocksMoved, Zenon
  <1>17. DataInv'
    <2>1. CASE p # "executor"
      BY <1>1, <1>9, <1>10, <2>1, Names, DataKept
    <2>2. CASE p = "executor"
      BY <1>1, <1>3, <1>8, <1>9, <1>10, <2>2
         DEF DataInv, FieldsAtTip, SeedAtTip, DrawsCounted
    <2>3. QED
      BY <2>1, <2>2
  <1>18. QED
    BY <1>16, <1>17 DEF SeedInv

(* The statement ends, and with it the guards. *)
LEMMA SeedMeasured ==
    ASSUME SeedInv, NEW p \in Task, Measured(p)
    PROVE  SeedInv'
  <1> DEFINE r == [pc |-> "copy", step |-> 1, seed |-> task[p].seed]
  <1>1. LockInv /\ DataInv /\ Typed
    BY DEF SeedInv, LockInv
  <1>2. task[p] \in TaskType /\ task[p].pc = "size"
    BY <1>1, OthersTyped DEF Measured
  <1>3. r \in TaskType
    BY <1>2 DEF TaskType
  <1>4. task' = [task EXCEPT ![p] = r] /\ UNCHANGED <<field, tip, draws, faults>>
    BY DEF Measured
  <1>5. r.pc = "copy" /\ r.step = 1
    OBVIOUS
  <1> HIDE DEF r
  <1>6. task'[p] = r /\ \A q \in Task \ {p} : task'[q] = task[q]
    BY <1>1, <1>3, <1>4 DEF Typed
  <1>7. /\ owner \in [Mutex -> Task \cup {"nobody"}]
        /\ owner' = [m \in Mutex |-> IF owner[m] = p THEN "nobody" ELSE owner[m]]
    BY <1>1, OthersTyped DEF Measured, Unlocked
  <1>8. /\ owner' \in [Mutex -> Task \cup {"nobody"}]
        /\ \A m \in Mutex : owner'[m] # p
        /\ \A m \in Mutex, q \in Task \ {p} : owner'[m] = q <=> owner[m] = q
    BY <1>7, Names
  <1>9. \A m \in Mutex : ~Holds(p, m)'
    BY <1>5, <1>6 DEF Holds
  <1>10. LockInv'
    <2>1. /\ field' \in [Hashes \cup {"previous_seed"} -> Datum]
          /\ \A h \in Hashes : field'[h] \in 0 .. MaxTip
          /\ field'["previous_seed"] \in Seq(Seq(0 .. MaxTip))
          /\ tip' \in 0 .. MaxTip /\ draws' \in 0 .. MaxDraws /\ faults' \in 0 .. MaxFaults
      BY <1>1, <1>4, OthersTyped
    <2>2. /\ r.pc \in {"size", "copy", "update"} => r.step \in 1 .. 5
          /\ r.pc \in {"draw", "update"} => p = "executor"
          /\ r.pc = "answer" => p # "executor"
          /\ \A m \in Mutex : owner'[m] = p <=> Holds(p, m)'
      BY <1>5, <1>8, <1>9
    <2>3. QED
      BY <1>1, <1>3, <1>4, <1>8, <2>1, <2>2, LocksMoved, Zenon
  <1>11. DataInv'
    <2>1. CASE p # "executor"
      BY <1>1, <1>4, <1>6, <2>1, Names, DataKept
    <2>2. CASE p = "executor"
      BY <1>1, <1>2, <1>4, <1>5, <1>6, <2>2
         DEF DataInv, FieldsAtTip, SeedAtTip, DrawsCounted
    <2>3. QED
      BY <2>1, <2>2
  <1>12. QED
    BY <1>10, <1>11 DEF SeedInv

(* A seed with one more part. *)
LEMMA Appended ==
    ASSUME NEW s \in Seq(Datum), NEW v \in Datum
    PROVE  /\ Append(s, v) \in Seq(Datum) /\ Len(Append(s, v)) = Len(s) + 1
           /\ Len(s) \in Nat /\ Append(s, v)[Len(s) + 1] = v
           /\ \A i \in 1 .. Len(s) : Append(s, v)[i] = s[i]
  OBVIOUS

(* One more field is copied.  Nobody but the executor changes the fields, so *)
(* what the executor copies is of the tip.                                   *)
LEMMA SeedCopy ==
    ASSUME SeedInv, NEW p \in Task, Copy(p)
    PROVE  SeedInv'
  <1> DEFINE n == task[p].step
             m == CopyOrder[n]
             r == [pc   |-> IF m # "previous_seed" THEN "copy"
                            ELSE IF p = "executor" THEN "draw" ELSE "answer",
                   step |-> n + 1,
                   seed |-> IF m = "nonce" THEN <<>> ELSE Append(task[p].seed, field[m])]
  <1>1. LockInv /\ DataInv /\ Typed
    BY DEF SeedInv, LockInv
  <1>2. task[p] \in TaskType /\ task[p].pc = "copy" /\ n \in 1 .. 5
    <2>1. task[p].pc = "copy"
      BY Zenon DEF Copy
    <2>2. QED
      BY <1>1, <2>1, OthersTyped, Zenon DEF LockInv, Phases
  <1>3. /\ m = "nonce" <=> n = 1
        /\ m = "previous_seed" <=> n = 5
        /\ n \in {2, 3, 4} => m \in Hashes
    BY <1>2, CopyOrders
  <1>4. task' = [task EXCEPT ![p] = r] /\ UNCHANGED <<field, owner, tip, draws, faults>>
    BY DEF Copy
  <1>5. task[p].seed \in Seq(Datum) /\ n \in Nat
    BY <1>2 DEF TaskType
  <1>6. /\ r.pc = IF n # 5 THEN "copy" ELSE IF p = "executor" THEN "draw" ELSE "answer"
        /\ r.step = n + 1
        /\ r.seed = IF n = 1 THEN <<>> ELSE Append(task[p].seed, field[m])
    BY <1>3
  <1>a. r = [pc |-> r.pc, step |-> r.step, seed |-> r.seed]
    OBVIOUS
  <1> HIDE DEF r
  <1>b. n # 1 => field[m] \in Datum
    BY <1>1, <1>2, <1>3, OthersTyped
  <1> HIDE DEF m
  <1>7. r \in TaskType
    <2>1. r.seed \in Seq(Datum)
      <3>1. CASE n = 1
        BY <1>6, <3>1
      <3>2. CASE n # 1
        BY <1>b, <1>5, <1>6, <3>2, Appended
      <3>3. QED
        BY <3>1, <3>2
    <2>2. r.pc \in {"copy", "draw", "answer"} /\ r.step \in 1 .. 6
      BY <1>2, <1>6
    <2>3. QED
      BY <1>a, <2>1, <2>2, TaskMade
  <1>8. task'[p] = r /\ \A q \in Task \ {p} : task'[q] = task[q]
    BY <1>1, <1>4, <1>7 DEF Typed
  <1>9. /\ r.pc \in {"size", "copy", "update"} => r.step \in 1 .. 5
        /\ r.pc \in {"draw", "update"} => p = "executor"
        /\ r.pc = "answer" => p # "executor"
        /\ r.pc \notin {"size", "update"}
    BY <1>2, <1>6
  <1>10. LockInv'
    <2>1. /\ owner' \in [Mutex -> Task \cup {"nobody"}]
          /\ field' \in [Hashes \cup {"previous_seed"} -> Datum]
          /\ \A h \in Hashes : field'[h] \in 0 .. MaxTip
          /\ field'["previous_seed"] \in Seq(Seq(0 .. MaxTip))
          /\ tip' \in 0 .. MaxTip /\ draws' \in 0 .. MaxDraws /\ faults' \in 0 .. MaxFaults
      BY <1>1, <1>4, OthersTyped
    <2>2. /\ \A x \in Mutex, q \in Task \ {p} : owner'[x] = q <=> owner[x] = q
          /\ \A x \in Mutex : owner'[x] = p <=> Holds(p, x)'
      BY <1>1, <1>2, <1>4, <1>7, <1>9, HoldsNothing, Zenon
    <2>3. QED
      BY <1>1, <1>4, <1>7, <1>9, <2>1, <2>2, LocksMoved, Zenon
  <1>11. DataInv'
    <2>1. CASE p # "executor"
      BY <1>1, <1>4, <1>8, <2>1, Names, DataKept
    <2>2. CASE p = "executor"
      <3>1. /\ \A h \in Hashes : field[h] = tip
            /\ n > 1 => Len(task[p].seed) = n - 2 /\ \A i \in 1 .. n - 2 : task[p].seed[i] = tip
        BY <1>1, <1>2, <2>2 DEF DataInv, FieldsAtTip, SeedAtTip
      <3>2. ASSUME n # 1
            PROVE  /\ Len(r.seed) = n - 1 /\ r.seed[n - 1] = field[m]
                   /\ \A i \in 1 .. n - 2 : r.seed[i] = tip
        <4>1. /\ Len(task[p].seed) = n - 2
              /\ \A i \in 1 .. n - 2 : task[p].seed[i] = tip
              /\ (n - 2) + 1 = n - 1
          BY <1>2, <3>1, <3>2
        <4>2. r.seed = Append(task[p].seed, field[m])
          BY <1>6, <3>2
        <4>3. QED
          <5>1. /\ Len(r.seed) = Len(task[p].seed) + 1
                /\ r.seed[Len(task[p].seed) + 1] = field[m]
                /\ \A i \in 1 .. Len(task[p].seed) : r.seed[i] = task[p].seed[i]
            <6> DEFINE s == task[p].seed
            <6>1. s \in Seq(Datum) /\ field[m] \in Datum /\ r.seed = Append(s, field[m])
              BY <1>5, <1>b, <3>2, <4>2, Zenon
            <6> HIDE DEF s
            <6>2. /\ Len(r.seed) = Len(s) + 1 /\ r.seed[Len(s) + 1] = field[m]
                  /\ \A i \in 1 .. Len(s) : r.seed[i] = s[i]
              BY <6>1
            <6>3. QED
              BY <6>2, Zenon DEF s
          <5>2. QED
            BY <4>1, <5>1, Zenon
      <3>3. ASSUME n # 5
            PROVE  /\ Len(r.seed) = r.step - 2
                   /\ \A i \in 1 .. r.step - 2 : r.seed[i] = tip
        <4>1. CASE n = 1
          BY <1>6, <4>1
        <4>2. CASE n # 1
          <5>1. field[m] = tip /\ r.step - 2 = n - 1 /\ n - 1 \in Nat
            <6>1. n \in {2, 3, 4}
              BY <1>2, <3>3, <4>2
            <6>2. field[m] = tip
              BY <1>3, <3>1, <6>1, Zenon
            <6>3. r.step - 2 = n - 1 /\ n - 1 \in Nat
              BY <1>6, <6>1
            <6>4. QED
              BY <6>2, <6>3, Zenon
          <5>2. \A i \in 1 .. n - 1 : i \in 1 .. n - 2 \/ i = n - 1
            BY <1>2
          <5>3. QED
            BY <3>2, <4>2, <5>1, <5>2
        <4>3. QED
          BY <4>1, <4>2
      <3>4. n = 5 => /\ Len(r.seed) = 4 /\ \A i \in 1 .. 3 : r.seed[i] = tip
                     /\ r.seed[4] = field["previous_seed"]
        <4>1. n = 5 => m = "previous_seed" /\ n - 1 = 4 /\ n - 2 = 3
          BY <1>3
        <4>2. QED
          BY <3>2, <4>1
      <3>5. FieldsAtTip' /\ DrawsCounted'
        BY <1>1, <1>2, <1>4, <1>6, <1>8, <2>2, <3>1
           DEF DataInv, FieldsAtTip, DrawsCounted
      <3>6. SeedAtTip'
        <4>1. r.pc = IF n # 5 THEN "copy" ELSE "draw"
          BY <1>6, <2>2
        <4>2. QED
          BY <1>4, <1>8, <2>2, <3>3, <3>4, <4>1 DEF SeedAtTip
      <3>7. QED
        BY <3>5, <3>6 DEF DataInv
    <2>3. QED
      BY <2>1, <2>2
  <1>12. QED
    BY <1>10, <1>11 DEF SeedInv

(* A task begins to compute the seed, or ends: it holds nothing. *)
LEMMA SeedBegin ==
    ASSUME SeedInv, NEW p \in Task, NEW r \in TaskType,
           task' = [task EXCEPT ![p] = r],
           task[p].pc \notin {"size", "update"}, r.step = 1,
           r.pc \in {"idle", "size", "update"}, r.pc = "update" => p = "executor",
           UNCHANGED <<field, owner, draws, faults>>, tip' \in 0 .. MaxTip
    PROVE  LockInv' /\ task'[p] = r /\ \A q \in Task \ {p} : task'[q] = task[q]
  <1>1. LockInv /\ Typed
    BY DEF SeedInv, LockInv
  <1>2. task'[p] = r /\ \A q \in Task \ {p} : task'[q] = task[q]
    BY <1>1 DEF Typed
  <1>3. /\ owner' \in [Mutex -> Task \cup {"nobody"}]
        /\ field' \in [Hashes \cup {"previous_seed"} -> Datum]
        /\ \A h \in Hashes : field'[h] \in 0 .. MaxTip
        /\ field'["previous_seed"] \in Seq(Seq(0 .. MaxTip))
        /\ draws' \in 0 .. MaxDraws /\ faults' \in 0 .. MaxFaults
    BY <1>1, OthersTyped
  <1>4. /\ r.pc \in {"size", "copy", "update"} => r.step \in 1 .. 5
        /\ r.pc \in {"draw", "update"} => p = "executor"
        /\ r.pc = "answer" => p # "executor"
    OBVIOUS
  <1>5. /\ \A x \in Mutex, q \in Task \ {p} : owner'[x] = q <=> owner[x] = q
        /\ \A x \in Mutex : owner'[x] = p <=> Holds(p, x)'
    BY <1>1, HoldsNothing, Zenon
  <1>6. QED
    BY <1>1, <1>2, <1>3, <1>4, <1>5, LocksMoved, Zenon

(* Idle is a task, and what it becomes when it starts is one. *)
LEMMA IdleTask ==
    /\ Idle \in TaskType /\ Idle.pc = "idle" /\ Idle.step = 1
    /\ \A pc \in {"size", "update"} :
          LET r == [pc |-> pc, step |-> 1, seed |-> <<>>]
          IN  [Idle EXCEPT !.pc = pc] = r /\ r \in TaskType /\ r.pc = pc /\ r.step = 1
  <1>1. <<>> \in Seq(Datum)
    OBVIOUS
  <1>2. Idle \in TaskType /\ Idle.pc = "idle" /\ Idle.step = 1 /\ Idle.seed = <<>>
    BY <1>1 DEF Idle, TaskType
  <1>3. ASSUME NEW pc \in {"size", "update"}
        PROVE  /\ [Idle EXCEPT !.pc = pc] = [pc |-> pc, step |-> 1, seed |-> <<>>]
               /\ [pc |-> pc, step |-> 1, seed |-> <<>>] \in TaskType
    <2>1. [Idle EXCEPT !.pc = pc] = [pc |-> pc, step |-> 1, seed |-> <<>>]
      BY <1>2, Replaced, ZenonT(60)
    <2>2. [pc |-> pc, step |-> 1, seed |-> <<>>] \in TaskType
      BY <1>1 DEF TaskType
    <2>3. QED
      BY <2>1, <2>2
  <1>4. QED
    BY <1>2, <1>3

(* A handler is asked for the seed, or has answered. *)
LEMMA SeedHandler ==
    ASSUME SeedInv, NEW p \in Handlers, GetSeed(p) \/ Answer(p)
    PROVE  SeedInv'
  <1>1. p \in Task /\ p # "executor" /\ UNCHANGED <<field, owner, tip, draws, faults>>
    BY SeedAssumption DEF Task, GetSeed, Answer
  <1>2. Typed /\ tip' \in 0 .. MaxTip
    BY <1>1, OthersTyped DEF SeedInv, LockInv
  <1>3. PICK r \in TaskType : /\ task' = [task EXCEPT ![p] = r]
                              /\ r.step = 1 /\ r.pc \in {"idle", "size"}
                              /\ task[p].pc \notin {"size", "update"}
    <2>1. CASE GetSeed(p)
      <3>1. task[p] = Idle /\ task' = [task EXCEPT ![p] = [Idle EXCEPT !.pc = "size"]]
        BY <2>1 DEF GetSeed
      <3>2. QED
        BY <3>1, IdleTask, Zenon
    <2>2. CASE Answer(p)
      BY <2>2, IdleTask, Zenon DEF Answer
    <2>3. QED
      BY <2>1, <2>2
  <1>4. LockInv' /\ \A q \in Task \ {p} : task'[q] = task[q]
    BY <1>1, <1>2, <1>3, SeedBegin, Zenon
  <1>5. QED
    BY <1>1, <1>4, Names, DataKept DEF SeedInv

(* The executor begins to draw a number, or to update the fields. *)
LEMMA SeedExecutor ==
    ASSUME SeedInv, Drand \/ BlockOk
    PROVE  SeedInv'
  <1>1. Typed /\ tip \in 0 .. MaxTip /\ MaxTip \in Nat /\ draws \in Nat /\ MaxDraws \in Nat
    BY OthersTyped, SeedAssumption DEF SeedInv, LockInv
  <1>2. /\ UNCHANGED <<field, owner, draws, faults>> /\ tip' \in 0 .. MaxTip
        /\ task["executor"] = Idle
    BY <1>1 DEF Drand, BlockOk
  <1>3. PICK pc \in {"size", "update"} :
            /\ task' = [task EXCEPT !["executor"] = [Idle EXCEPT !.pc = pc]]
            /\ pc = "size" => UNCHANGED tip /\ draws < MaxDraws
    BY <1>2 DEF Drand, BlockOk
  <1> DEFINE r == [pc |-> pc, step |-> 1, seed |-> <<>>]
  <1>4. /\ r \in TaskType /\ r.pc = pc /\ r.step = 1
        /\ task' = [task EXCEPT !["executor"] = r]
    BY <1>3, IdleTask, Zenon
  <1> HIDE DEF r
  <1>5. LockInv' /\ task'["executor"] = r
    BY <1>1, <1>2, <1>4, Names, IdleTask, SeedBegin, ZenonT(60)
  <1>6. DataInv'
    BY <1>2, <1>3, <1>4, <1>5, IdleTask
       DEF SeedInv, DataInv, FieldsAtTip, SeedAtTip, DrawsCounted
  <1>7. QED
    BY <1>5, <1>6 DEF SeedInv

(* The execution of a block fails: the numbers it has drawn stay in the seed. *)
LEMMA SeedErr ==
    ASSUME SeedInv, BlockErr
    PROVE  SeedInv'
  <1>1. /\ UNCHANGED <<field, owner, task, tip>> /\ draws' = 0 /\ faults' = faults + 1
        /\ task["executor"] = Idle /\ faults < MaxFaults
    BY DEF BlockErr
  <1>2. faults \in Nat /\ MaxFaults \in Nat /\ MaxDraws \in Nat
    BY OthersTyped, SeedAssumption DEF SeedInv, LockInv
  <1>3. draws' \in 0 .. MaxDraws /\ faults' \in 0 .. MaxFaults /\ faults' # 0
    BY <1>1, <1>2
  <1>4. Typed'
    BY <1>1, <1>3 DEF SeedInv, LockInv, Typed, TypeOK
  <1>5. Phases' /\ LocksHeld'
    BY <1>1 DEF SeedInv, LockInv, Phases, LocksHeld, Holds
  <1>6. DataInv'
    BY <1>1, <1>3, IdleTask
       DEF SeedInv, DataInv, FieldsAtTip, SeedAtTip, DrawsCounted
  <1>7. QED
    BY <1>4, <1>5, <1>6 DEF SeedInv, LockInv

(* A number is drawn: its seed, which is of the tip, joins the previous ones. *)
LEMMA SeedUpdated ==
    ASSUME SeedInv, UpdateSeed
    PROVE  SeedInv'
  <1> DEFINE s == task["executor"].seed
             d == SubSeq(s, 1, 3)
             f == Append(field["previous_seed"], d)
  <1>1. LockInv /\ DataInv /\ Typed
    BY DEF SeedInv, LockInv
  <1>2. /\ task["executor"].pc = "draw" /\ UNCHANGED <<owner, tip, faults>>
        /\ draws' = draws + 1 /\ task' = [task EXCEPT !["executor"] = Idle]
        /\ field' = [field EXCEPT !["previous_seed"] = f]
    BY ThreeHashes DEF UpdateSeed
  <1>3. task["executor"] \in TaskType /\ s \in Seq(Datum)
    BY <1>1, Names, OthersTyped DEF TaskType
  <1>4. Len(s) = 4 /\ (\A i \in 1 .. 3 : s[i] = tip) /\ tip \in 0 .. MaxTip
    BY <1>1, <1>2, OthersTyped DEF DataInv, SeedAtTip
  <1> HIDE DEF s
  <1>5. d \in Seq(0 .. MaxTip)
    <2>1. d = [i \in 1 .. 3 |-> s[i]]
      BY <1>3, <1>4
    <2>2. d = [i \in 1 .. 3 |-> tip]
      BY <1>4, <2>1
    <2>3. QED
      BY <1>4, <2>2
  <1> HIDE DEF d
  <1>6. /\ field["previous_seed"] \in Seq(Seq(0 .. MaxTip))
        /\ field \in [Hashes \cup {"previous_seed"} -> Datum]
        /\ draws \in Nat /\ MaxDraws \in Nat /\ draws < MaxDraws
    BY <1>1, <1>2, OthersTyped, SeedAssumption DEF DataInv, DrawsCounted
  <1>7. f \in Seq(Seq(0 .. MaxTip)) /\ Len(f) = Len(field["previous_seed"]) + 1
    BY <1>5, <1>6
  <1> HIDE DEF f
  <1>8. f \in Datum
    BY <1>7 DEF Datum
  <1>9. /\ field' \in [Hashes \cup {"previous_seed"} -> Datum]
        /\ field'["previous_seed"] = f
        /\ \A h \in Hashes : field'[h] = field[h]
    BY <1>2, <1>6, <1>8 DEF Hashes
  <1>10. task'["executor"] = Idle /\ draws' \in 0 .. MaxDraws
    BY <1>1, <1>2, <1>6, Names DEF Typed
  <1>11. LockInv'
    <2>1. /\ owner' \in [Mutex -> Task \cup {"nobody"}]
          /\ \A h \in Hashes : field'[h] \in 0 .. MaxTip
          /\ field'["previous_seed"] \in Seq(Seq(0 .. MaxTip))
          /\ tip' \in 0 .. MaxTip /\ faults' \in 0 .. MaxFaults
      BY <1>1, <1>2, <1>7, <1>9, OthersTyped
    <2>2. /\ \A x \in Mutex, q \in Task \ {"executor"} : owner'[x] = q <=> owner[x] = q
          /\ \A x \in Mutex : owner'[x] = "executor" <=> Holds("executor", x)'
      BY <1>1, <1>2, Names, IdleTask, HoldsNothing, Zenon
    <2>3. /\ Idle.pc \in {"size", "copy", "update"} => Idle.step \in 1 .. 5
          /\ Idle.pc \in {"draw", "update"} => "executor" = "executor"
          /\ Idle.pc = "answer" => "executor" # "executor"
      BY IdleTask
    <2>4. QED
      BY <1>1, <1>2, <1>9, <1>10, <2>1, <2>2, <2>3, Names, IdleTask, LocksMoved, Zenon
  <1>12. DataInv'
    <2>1. faults = 0 => Len(f) = draws + 1
      BY <1>1, <1>7 DEF DataInv, DrawsCounted
    <2>2. QED
      BY <1>1, <1>2, <1>9, <1>10, <2>1, IdleTask, Zenon
         DEF DataInv, FieldsAtTip, SeedAtTip, DrawsCounted
  <1>13. QED
    BY <1>11, <1>12 DEF SeedInv

(* All four mutexes are held: the fields become those of the new tip. *)
LEMMA SeedUpdate ==
    ASSUME SeedInv, Update
    PROVE  SeedInv'
  <1>1. LockInv /\ DataInv /\ Typed
    BY DEF SeedInv, LockInv
  <1>2. /\ task["executor"].pc = "update" /\ UNCHANGED tip
        /\ draws' = 0 /\ faults' = 0 /\ task' = [task EXCEPT !["executor"] = Idle]
    BY DEF Update
  <1>3. field \in [Hashes \cup {"previous_seed"} -> Datum] /\ tip \in 0 .. MaxTip
    BY <1>1, OthersTyped
  <1>4. <<>> \in Seq(Seq(0 .. MaxTip)) /\ <<>> \in Datum /\ tip \in Datum
    BY <1>3 DEF Datum
  <1>5. field' = [m \in Hashes \cup {"previous_seed"} |-> IF m \in Hashes THEN tip ELSE <<>>]
    BY <1>3 DEF Update, Updated
  <1>6. /\ field' \in [Hashes \cup {"previous_seed"} -> Datum]
        /\ field'["previous_seed"] = <<>>
        /\ \A h \in Hashes : field'[h] = tip
    BY <1>4, <1>5 DEF Hashes
  <1>7. /\ owner \in [Mutex -> Task \cup {"nobody"}]
        /\ owner' = [m \in Mutex |-> IF owner[m] = "executor" THEN "nobody" ELSE owner[m]]
    BY <1>1, OthersTyped DEF Update, Unlocked
  <1>8. /\ owner' \in [Mutex -> Task \cup {"nobody"}]
        /\ \A m \in Mutex : owner'[m] # "executor"
        /\ \A m \in Mutex, q \in Task \ {"executor"} : owner'[m] = q <=> owner[m] = q
    BY <1>7, Names
  <1>9. task'["executor"] = Idle
    BY <1>1, <1>2, Names DEF Typed
  <1>10. LockInv'
    <2>1. \A m \in Mutex : owner'[m] = "executor" <=> Holds("executor", m)'
      BY <1>8, <1>9, IdleTask DEF Holds
    <2>2. /\ \A h \in Hashes : field'[h] \in 0 .. MaxTip
          /\ field'["previous_seed"] \in Seq(Seq(0 .. MaxTip))
          /\ tip' \in 0 .. MaxTip /\ draws' \in 0 .. MaxDraws /\ faults' \in 0 .. MaxFaults
      BY <1>2, <1>3, <1>4, <1>6, SeedAssumption
    <2>3. /\ Idle.pc \in {"size", "copy", "update"} => Idle.step \in 1 .. 5
          /\ Idle.pc \in {"draw", "update"} => "executor" = "executor"
          /\ Idle.pc = "answer" => "executor" # "executor"
      BY IdleTask
    <2>4. QED
      BY <1>1, <1>2, <1>6, <1>8, <2>1, <2>2, <2>3, Names, IdleTask, LocksMoved, Zenon
  <1>11. DataInv'
    BY <1>2, <1>6, <1>9, IdleTask DEF DataInv, FieldsAtTip, SeedAtTip, DrawsCounted
  <1>12. QED
    BY <1>10, <1>11 DEF SeedInv

(* Every step of the tasks keeps the invariant. *)
LEMMA SeedStep == SeedInv /\ [Next]_vars => SeedInv'
  <1> SUFFICES ASSUME SeedInv, [Next]_vars
               PROVE  SeedInv'
    OBVIOUS
  <1>1. CASE UNCHANGED vars
    <2>1. /\ field' = field /\ owner' = owner /\ task' = task /\ tip' = tip
          /\ draws' = draws /\ faults' = faults
      BY <1>1, Zenon DEF vars
    <2>2. Typed' = Typed
      BY <2>1, Zenon DEF Typed, TypeOK
    <2>3. Phases' = Phases /\ (LocksHeld => LocksHeld')
      <3>1. Phases' = Phases
        BY <2>1, Zenon DEF Phases
      <3>2. ASSUME NEW p \in Task, NEW m \in Mutex
            PROVE  Holds(p, m)' <=> Holds(p, m)
        BY <2>1, Zenon DEF Holds
      <3>3. ASSUME LocksHeld, NEW p \in Task, NEW m \in Mutex
            PROVE  owner'[m] = p <=> Holds(p, m)'
        BY <2>1, <3>2, <3>3, Zenon DEF LocksHeld
      <3>4. QED
        BY <3>1, <3>3, Zenon DEF LocksHeld
    <2>4. FieldsAtTip' = FieldsAtTip /\ SeedAtTip' = SeedAtTip
      BY <2>1, Zenon DEF FieldsAtTip, SeedAtTip
    <2>5. DrawsCounted' = DrawsCounted
      BY <2>1, Zenon DEF DrawsCounted
    <2>6. QED
      BY <2>2, <2>3, <2>4, <2>5, Zenon DEF SeedInv, LockInv, DataInv
  <1>2. QED
    BY <1>1, SeedLock, SeedMeasured, SeedCopy, SeedHandler, SeedExecutor, SeedErr,
       SeedUpdated, SeedUpdate DEF Next

-----------------------------------------------------------------------------
(* A task that holds a mutex measures and holds nonce, or is the executor in *)
(* its update and holds prev_hash, and no task waits for what it holds.      *)
LEMMA HoldersOf ==
    ASSUME LockInv, NEW p \in Task, NEW m \in Mutex, owner[m] = p
    PROVE  \/ task[p].pc = "size" /\ owner["nonce"] = p
           \/ task[p].pc = "update" /\ p = "executor" /\ owner["prev_hash"] = p
  <1>1. Holds(p, m) /\ task[p].step \in Nat
    BY OthersTyped DEF LockInv, LocksHeld
  <1>2. "nonce" \in Mutex /\ "prev_hash" \in Mutex
    BY DEF Mutex
  <1>3. CASE task[p].pc = "size"
    <2>1. 1 \in 1 .. task[p].step - 1
      BY <1>1, <1>3 DEF Holds
    <2>2. Holds(p, "nonce")
      BY <1>3, <2>1, Orders DEF Holds
    <2>3. QED
      BY <1>2, <1>3, <2>2 DEF LockInv, LocksHeld
  <1>4. CASE task[p].pc = "update"
    <2>1. 1 \in 1 .. task[p].step - 1
      BY <1>1, <1>4 DEF Holds
    <2>2. Holds(p, "prev_hash")
      BY <1>4, <2>1, Orders DEF Holds
    <2>3. QED
      BY <1>2, <1>4, <2>2 DEF LockInv, LocksHeld, Phases
  <1>5. QED
    BY <1>1, <1>3, <1>4 DEF Holds

(* No task waits for a mutex that it holds. *)
LEMMA NoSelfWait ==
    ASSUME LockInv, NEW p \in Task, task[p].pc \in {"size", "update"}, NEW m \in Wanted(p)
    PROVE  m \in Mutex /\ owner[m] # p
  <1>1. task[p].step \in 1 .. 5
    BY DEF LockInv, Phases
  <1>2. /\ task[p].step \in 1 .. 4
        /\ m = IF task[p].pc = "size" THEN SizeOrder[task[p].step]
                                      ELSE UpdateOrder[task[p].step]
    BY <1>1, WantedByStep
  <1>3. m \in Mutex
    BY <1>2, Orders
  <1>4. \A i \in 1 .. task[p].step - 1 : i \in 1 .. 4 /\ i # task[p].step
    BY <1>2
  <1>5. ~Holds(p, m)
    BY <1>2, <1>4, Orders DEF Holds
  <1>6. QED
    BY <1>3, <1>5 DEF LockInv, LocksHeld

(* The executor in its update waits for no task that measures and does not  *)
(* hold prev_hash.                                                          *)
LEMMA UpdateNotBlocked ==
    ASSUME LockInv, task["executor"].pc = "update", owner["prev_hash"] = "executor",
           NEW q \in Task, task[q].pc = "size", NEW m \in Wanted("executor")
    PROVE  owner[m] # q
  <1> DEFINE n == task["executor"].step
  <1>1. "executor" \in Task /\ n \in 1 .. 5 /\ task[q].step \in 1 .. 5 /\ q # "executor"
    BY Names DEF LockInv, Phases
  <1>2. n \in 1 .. 4 /\ m = UpdateOrder[n] /\ m # "nonce" /\ m \in Mutex
    BY <1>1, WantedByStep, Orders
  <1>3. "prev_hash" \in Mutex
    BY DEF Mutex
  <1>4. ~Holds(q, "prev_hash")
    BY <1>1, <1>3 DEF LockInv, LocksHeld
  <1>5. 2 \notin 1 .. task[q].step - 1
    BY <1>4, Orders DEF Holds
  <1>6. \A i \in 1 .. task[q].step - 1 : i = 1
    BY <1>1, <1>5
  <1>7. ~Holds(q, m)
    BY <1>2, <1>6, Orders DEF Holds
  <1>8. QED
    BY <1>2, <1>7 DEF LockInv, LocksHeld

(* Among any tasks one waits for none of them: the executor when it holds    *)
(* something in its update, or else the one that measures and holds nonce,   *)
(* or else any of them.                                                      *)
LEMMA Uncircular == LockInv => NoCircularWait
  <1> SUFFICES ASSUME LockInv, NEW S \in SUBSET Task, S # {}
               PROVE  \E p \in S : \A m \in Wanted(p) : owner[m] \notin S
    BY Zenon DEF NoCircularWait
  <1>1. CASE /\ "executor" \in S /\ task["executor"].pc = "update"
             /\ owner["prev_hash"] = "executor"
    <2>1. ASSUME NEW m \in Wanted("executor"), owner[m] \in S
          PROVE  FALSE
      <3>1. m \in Mutex /\ owner[m] # "executor"
        BY <1>1, NoSelfWait
      <3>2. task[owner[m]].pc = "size"
        BY <2>1, <3>1, HoldersOf
      <3>3. QED
        BY <1>1, <2>1, <3>2, UpdateNotBlocked
    <2>2. QED
      BY <1>1, <2>1
  <1>2. CASE /\ ~("executor" \in S /\ task["executor"].pc = "update"
                    /\ owner["prev_hash"] = "executor")
             /\ \E q \in S : task[q].pc = "size" /\ owner["nonce"] = q
    <2>1. PICK q \in S : task[q].pc = "size" /\ owner["nonce"] = q
      BY <1>2
    <2>2. ASSUME NEW m \in Wanted(q), owner[m] \in S
          PROVE  FALSE
      <3>1. m \in Mutex /\ owner[m] # q
        BY <2>1, NoSelfWait
      <3>2. QED
        BY <1>2, <2>1, <2>2, <3>1, HoldersOf
    <2>3. QED
      BY <2>2
  <1>3. CASE /\ ~("executor" \in S /\ task["executor"].pc = "update"
                    /\ owner["prev_hash"] = "executor")
             /\ ~\E q \in S : task[q].pc = "size" /\ owner["nonce"] = q
    <2>1. \A m \in Mutex : owner[m] \notin S
      BY <1>3, HoldersOf
    <2>2. PICK p \in S : TRUE
      OBVIOUS
    <2>3. Wanted(p) \subseteq Mutex
      <3>1. CASE task[p].pc \in {"size", "update"}
        BY <3>1, NoSelfWait
      <3>2. CASE task[p].pc = "copy"
        <4>1. CopyOrder[task[p].step] \in Mutex
          BY <3>2, CopyOrders DEF LockInv, Phases
        <4>2. QED
          BY <3>2, <4>1 DEF Wanted
      <3>3. CASE task[p].pc \notin {"size", "update", "copy"}
        BY <3>3 DEF Wanted, Mutex
      <3>4. QED
        BY <3>1, <3>2, <3>3
    <2>4. QED
      BY <2>1, <2>3
  <1>4. QED
    BY <1>1, <1>2, <1>3

-----------------------------------------------------------------------------
(* SeedInv is an inductive invariant of the source of numbers. *)
THEOREM SeedInvariant == Spec => []SeedInv
  BY SeedInit, SeedStep, PTL DEF Spec

(* The fields of the source stay numbers of blocks and seeds. *)
THEOREM SeedWellTyped == Spec => []TypeOK
  <1>1. SeedInv => TypeOK
    BY DEF SeedInv, LockInv, Typed
  <1>2. QED
    BY <1>1, SeedInvariant, PTL

(* The mutexes of the fields never bring the node to a halt, however many   *)
(* tasks ask for the seed while the executor draws from it and updates it.  *)
THEOREM NeverCircularWait == Spec => []NoCircularWait
  <1>1. SeedInv => NoCircularWait
    BY Uncircular DEF SeedInv
  <1>2. QED
    BY <1>1, SeedInvariant, PTL

(* Every number is drawn from the hashes of the block before. *)
THEOREM AlwaysDrawnFromTip == Spec => []DrawnFromTip
  <1>1. SeedInv => DrawnFromTip
    <2> SUFFICES ASSUME SeedInv, task["executor"].pc = "draw"
                 PROVE  SubSeq(task["executor"].seed, 1, 3) = [i \in 1 .. 3 |-> tip]
      BY ThreeHashes DEF DrawnFromTip
    <2> DEFINE s == task["executor"].seed
    <2>1. s \in Seq(Datum)
      BY Names, OthersTyped DEF SeedInv, LockInv, TaskType
    <2>2. Len(s) = 4 /\ \A i \in 1 .. 3 : s[i] = tip
      BY DEF SeedInv, DataInv, SeedAtTip
    <2> HIDE DEF s
    <2>3. SubSeq(s, 1, 3) = [i \in 1 .. 3 |-> s[i]]
      BY <2>1, <2>2
    <2>4. SubSeq(s, 1, 3) = [i \in 1 .. 3 |-> tip]
      BY <2>2, <2>3
    <2>5. QED
      BY <2>4 DEF s
  <1>2. QED
    BY <1>1, SeedInvariant, PTL

(* In the first execution of a block the n-th number depends on the tip and *)
(* on n alone.                                                              *)
THEOREM FirstDrawsAlwaysRepeatable == Spec => []FirstDrawsRepeatable
  <1>1. SeedInv => FirstDrawsRepeatable
    BY ThreeHashes DEF SeedInv, DataInv, SeedAtTip, DrawsCounted, FirstDrawsRepeatable,
                       DrawsRepeatable
  <1>2. QED
    BY <1>1, SeedInvariant, PTL
=============================================================================

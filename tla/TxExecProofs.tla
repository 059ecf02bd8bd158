---------------------------- MODULE TxExecProofs ----------------------------
(***************************************************************************)
(* The execution of blocks, for every set of transactions, of any number   *)
(* of calls each, every fuel limit, price of a call and amount of funds,   *)
(* whatever fails.                                                         *)
(*                                                                         *)
(* What holds of the database holds of the fork that is merged into it and *)
(* of the checkpoint it goes back to, so Good is stated of a state; in the *)
(* middle of a transaction the fork is the checkpoint and the calls so far.*)
(***************************************************************************)
EXTENDS TxExec, TLAPS

(* The receipt of an execution, with what its caller was charged. *)
Entry(t, ok, b, c) == [tx |-> t, success |-> ok, burned_fuel |-> b, charged |-> c]

(* A state between transactions: Atomic and FuelAccounted hold of it. *)
FuelOk(r) ==
    /\ r.charged <= fuel_limit[r.tx]
    /\ r.burned_fuel >= r.charged
    /\ r.success => r.burned_fuel = r.charged
Good(s) ==
    /\ s.writes = UNION {Effect(n, s.log[n].tx) : n \in Successes(s)}
    /\ \A n \in DOMAIN s.log : FuelOk(s.log[n])

(* The calls of the current transaction that have left their writes. *)
SoFar == {run} \X (IF kind[tx] = "bulk_empty" THEN (1 .. part - 1) \ {1} ELSE 1 .. part - 1)

States ==
    /\ Good(db)
    /\ pc \in {"begin", "merge"} => Good(fork)
    /\ pc \in {"call", "burn"} => Good(checkpoint) /\ fork.log = checkpoint.log

InCall ==
    pc = "call" =>
        /\ part = 1 => fork = checkpoint /\ ~failed
        /\ ~failed => fork.writes = checkpoint.writes \cup SoFar

InBurn ==
    pc = "burn" => IF failed THEN fork = checkpoint
                             ELSE fork.writes = checkpoint.writes \cup Effect(run, tx)

(* The rows at hand are those of executions of this block, which the indexer *)
(* has not seen: it has seen only those the database has.                    *)
Later(n) == {r \in Nat \X Tx : r[1] > n}
RowsFresh ==
    /\ IndexedOnce
    /\ pc \in {"begin", "call", "burn", "merge"} =>
           /\ Ran(db) \subseteq Ran(fork) /\ Len(db.log) <= Len(fork.log)
           /\ rows \subseteq Ran(fork) \cap Later(Len(db.log))
    /\ pc = "index" => rows \subseteq Ran(db) /\ \A i \in DOMAIN indexed : rows \cap indexed[i] = {}

TxInv == TypeOK /\ States /\ InCall /\ InBurn /\ RowsFresh

-----------------------------------------------------------------------------
(* The parts of a state, and a state of such parts. *)
LEMMA StateParts ==
    ASSUME NEW s \in State
    PROVE  /\ s.writes \in SUBSET (Nat \X Nat) /\ s.funds \in Nat
           /\ s.log \in Seq(Receipt)
  BY DEF State

(* Any such parts make a state. *)
LEMMA StateMade ==
    ASSUME NEW w \in SUBSET (Nat \X Nat), NEW n \in Nat, NEW l \in Seq(Receipt)
    PROVE  [writes |-> w, funds |-> n, log |-> l] \in State
  BY DEF State

(* The fields of an entry of the log. *)
LEMMA EntryMade ==
    ASSUME NEW t \in Tx, NEW ok \in BOOLEAN, NEW b \in Nat, NEW c \in Nat
    PROVE  /\ Entry(t, ok, b, c) \in Receipt
           /\ Entry(t, ok, b, c).tx = t /\ Entry(t, ok, b, c).success = ok
           /\ Entry(t, ok, b, c).burned_fuel = b /\ Entry(t, ok, b, c).charged = c
  BY DEF Entry, Receipt

(* A log with one entry more. *)
LEMMA Logged ==
    ASSUME NEW l \in Seq(Receipt), NEW r \in Receipt
    PROVE  /\ Append(l, r) \in Seq(Receipt) /\ Len(l) \in Nat
           /\ Len(Append(l, r)) = Len(l) + 1
           /\ DOMAIN Append(l, r) = DOMAIN l \cup {Len(l) + 1}
           /\ Len(l) + 1 \notin DOMAIN l
           /\ \A n \in DOMAIN l : Append(l, r)[n] = l[n]
           /\ Append(l, r)[Len(l) + 1] = r
  OBVIOUS

(* The executions that a state has are in the domain of its log. *)
LEMMA RanParts ==
    ASSUME NEW s \in State
    PROVE  /\ Len(s.log) \in Nat
           /\ \A r \in Ran(s) : r \in Nat \X Tx /\ r[1] <= Len(s.log)
  <1>1. s.log \in Seq(Receipt)
    BY StateParts
  <1>2. Len(s.log) \in Nat /\ DOMAIN s.log = 1 .. Len(s.log)
    BY <1>1
  <1>3. ASSUME NEW n \in DOMAIN s.log
        PROVE  n \in Nat /\ n <= Len(s.log) /\ s.log[n].tx \in Tx
    <2>1. s.log[n] \in Receipt
      BY <1>1, <1>2
    <2>2. QED
      BY <1>2, <2>1 DEF Receipt
  <1>4. QED
    BY <1>2, <1>3 DEF Ran

(* The current transaction is one, and has a call at least. *)
LEMMA Current ==
    ASSUME TypeOK, pc \in {"begin", "call", "burn"}
    PROVE  /\ index \in DOMAIN block /\ index \in 1 .. Len(block)
           /\ tx \in Tx /\ parts[tx] \in Nat \ {0} /\ fuel_limit[tx] \in Nat
           /\ kind[tx] = "unit" => parts[tx] = 1
           /\ run \in Nat
  <1>1. block \in Seq(Tx) /\ index \in DOMAIN block
    BY DEF TypeOK
  <1>2. tx \in Tx /\ index \in 1 .. Len(block)
    BY <1>1 DEF tx
  <1>3. Len(fork.log) \in Nat
    BY RanParts DEF TypeOK
  <1>4. run \in Nat
    BY <1>3 DEF run
  <1>5. QED
    BY <1>1, <1>2, <1>4, TxExecAssumption

(* A transaction that gets its receipt, in a good state, leaves a good one *)
(* when the writes of all its calls are there or none, as the receipt      *)
(* says, and the caller was charged no more than the receipt and the limit *)
(* say.                                                                    *)
LEMMA GoodReceipt ==
    \A s, u \in State, t \in Tx, ok \in BOOLEAN, b, c \in Nat :
        /\ Good(s)
        /\ u.writes = IF ok THEN s.writes \cup Effect(Len(s.log) + 1, t) ELSE s.writes
        /\ u.log = Append(s.log, Entry(t, ok, b, c))
        /\ c <= fuel_limit[t] /\ c <= b /\ (ok => b = c)
        => /\ Good(u) /\ Ran(u) = Ran(s) \cup {<<Len(s.log) + 1, t>>}
           /\ Len(u.log) = Len(s.log) + 1 /\ Len(s.log) \in Nat
  <1> TAKE s, u \in State, t \in Tx, ok \in BOOLEAN, b, c \in Nat
  <1> HAVE /\ Good(s)
           /\ u.writes = IF ok THEN s.writes \cup Effect(Len(s.log) + 1, t) ELSE s.writes
           /\ u.log = Append(s.log, Entry(t, ok, b, c))
           /\ c <= fuel_limit[t] /\ c <= b /\ (ok => b = c)
  <1> DEFINE r == Entry(t, ok, b, c)
             k == Len(s.log) + 1
  <1>1. r \in Receipt /\ r.tx = t /\ r.success = ok /\ r.burned_fuel = b /\ r.charged = c
    BY EntryMade
  <1>2. /\ Len(u.log) = k /\ Len(s.log) \in Nat
        /\ DOMAIN u.log = DOMAIN s.log \cup {k} /\ k \notin DOMAIN s.log
        /\ \A n \in DOMAIN s.log : u.log[n] = s.log[n]
        /\ u.log[k] = r
    <2>1. s.log \in Seq(Receipt) /\ r \in Receipt /\ u.log = Append(s.log, r)
      BY <1>1, StateParts, Zenon
    <2> HIDE DEF r
    <2>2. /\ Len(Append(s.log, r)) = Len(s.log) + 1 /\ Len(s.log) \in Nat
          /\ DOMAIN Append(s.log, r) = DOMAIN s.log \cup {Len(s.log) + 1}
          /\ Len(s.log) + 1 \notin DOMAIN s.log
          /\ \A n \in DOMAIN s.log : Append(s.log, r)[n] = s.log[n]
          /\ Append(s.log, r)[Len(s.log) + 1] = r
      BY <2>1, Logged, Zenon
    <2>3. QED
      BY <2>1, <2>2, Zenon
  <1> HIDE DEF r, k
  <1>3. Successes(u) = IF ok THEN Successes(s) \cup {k} ELSE Successes(s)
    BY <1>1, <1>2 DEF Successes
  <1>4. \A n \in Successes(s) : u.log[n].tx = s.log[n].tx
    BY <1>2, Zenon DEF Successes
  <1>5. u.writes = UNION {Effect(n, u.log[n].tx) : n \in Successes(u)}
    <2>1. s.writes = UNION {Effect(n, u.log[n].tx) : n \in Successes(s)}
      <3>1. {Effect(n, s.log[n].tx) : n \in Successes(s)} =
                {Effect(n, u.log[n].tx) : n \in Successes(s)}
        BY <1>4, Zenon
      <3>2. QED
        BY <3>1, Zenon DEF Good
    <2>2. CASE ok
      <3>1. u.log[k].tx = t
        BY <1>1, <1>2, Zenon
      <3>2. UNION {Effect(n, u.log[n].tx) : n \in Successes(u)} =
                (UNION {Effect(n, u.log[n].tx) : n \in Successes(s)}) \cup Effect(k, t)
        BY <1>3, <2>2, <3>1
      <3>3. QED
        BY <2>1, <2>2, <3>2 DEF k
    <2>3. CASE ~ok
      BY <1>3, <2>1, <2>3
    <2>4. QED
      BY <2>2, <2>3
  <1>6. \A n \in DOMAIN u.log : FuelOk(u.log[n])
    <2>1. FuelOk(r)
      BY <1>1 DEF FuelOk
    <2>2. QED
      BY <1>2, <2>1, Zenon DEF Good
  <1>7. Ran(u) = Ran(s) \cup {<<k, t>>}
    BY <1>1, <1>2 DEF Ran
  <1>8. Good(u)
    BY <1>5, <1>6, Zenon DEF Good
  <1>9. QED
    BY <1>2, <1>7, <1>8, Zenon DEF k

-----------------------------------------------------------------------------
(* Nothing was executed yet. *)
LEMMA TxInit == Init => TxInv
  <1> SUFFICES ASSUME Init
               PROVE  TxInv
    OBVIOUS
  <1>1. /\ db = Empty /\ fork = Empty /\ checkpoint = Empty /\ block = <<>> /\ index = 1
        /\ pc = "idle" /\ part = 1 /\ failed = FALSE /\ fuel = 0 /\ assets = FALSE
        /\ rows = {} /\ indexed = <<>>
    BY DEF Init
  <1>2. Empty \in State
    <2>1. {} \in SUBSET (Nat \X Nat) /\ Funds \in Nat /\ <<>> \in Seq(Receipt)
      BY TxExecAssumption
    <2>2. QED
      BY <2>1, StateMade, Zenon DEF Empty
  <1>3. TypeOK
    <2>1. block \in Seq(Tx) /\ indexed \in Seq(SUBSET (Nat \X Tx)) /\ rows \subseteq Nat \X Tx
      BY <1>1
    <2>2. /\ index \in Nat \ {0} /\ part \in Nat /\ fuel \in Nat
      BY <1>1
    <2>3. failed \in BOOLEAN /\ assets \in BOOLEAN
      BY <1>1, Zenon
    <2>4. db \in State /\ fork \in State /\ checkpoint \in State
      BY <1>1, <1>2
    <2>5. QED
      BY <1>1, <2>1, <2>2, <2>3, <2>4 DEF TypeOK
  <1>4. Empty.writes = {} /\ Empty.log = <<>>
    BY DEF Empty
  <1>5. DOMAIN Empty.log = {} /\ DOMAIN indexed = {}
    BY <1>1, <1>4
  <1>6. Good(Empty)
    BY <1>4, <1>5 DEF Good, Successes
  <1>7. QED
    BY <1>1, <1>3, <1>5, <1>6 DEF TxInv, States, InCall, InBurn, RowsFresh, IndexedOnce

(* What the database has, and has sent, stays what it was. *)
LEMMA SentKept ==
    ASSUME IndexedOnce, db' = db, indexed' = indexed
    PROVE  IndexedOnce' /\ Ran(db)' = Ran(db)
  <1>1. Ran(db)' = Ran(db)
    <2>1. Ran(db') = Ran(db)
      BY Zenon
    <2>2. QED
      BY <2>1
  <1>2. QED
    BY <1>1, Zenon DEF IndexedOnce

(* A block is any sequence of transactions, executed before or not. *)
LEMMA TxBeginBlock == ASSUME TxInv, BeginBlock PROVE TxInv'
  <1>1. PICK n \in 0 .. MaxRuns - Len(db.log) : block' \in [1 .. n -> Tx]
    BY Zenon DEF BeginBlock
  <1>2. Len(db.log) \in Nat
    BY RanParts DEF TxInv, TypeOK
  <1>3. n \in Nat
    BY <1>1, <1>2, TxExecAssumption
  <1>4. block' \in Seq(Tx) /\ DOMAIN block' = 1 .. n /\ Len(block') = n
    BY <1>1, <1>3
  <1>5. /\ fork' = db /\ checkpoint' = db /\ index' = 1 /\ rows' = {}
        /\ pc' = IF block' = <<>> THEN "merge" ELSE "begin"
        /\ UNCHANGED <<db, part, failed, fuel, assets, indexed>>
    BY DEF BeginBlock, Rows_cleared
  <1>6. pc' = "begin" => 1 \in DOMAIN block'
    BY <1>3, <1>4, <1>5
  <1>7. TypeOK'
    BY <1>4, <1>5, <1>6 DEF TxInv, TypeOK
  <1>8. States' /\ InCall' /\ InBurn'
    BY <1>5 DEF TxInv, States, InCall, InBurn
  <1>9. IndexedOnce'
    BY <1>5, SentKept, Zenon DEF TxInv, RowsFresh
  <1>10. RowsFresh'
    BY <1>2, <1>5, <1>9 DEF RowsFresh
  <1>11. QED
    BY <1>7, <1>8, <1>9, <1>10 DEF TxInv

(* A step within a transaction changes no rows and no log. *)
LEMMA RowsKept ==
    ASSUME RowsFresh, pc \in {"begin", "call", "burn", "merge"},
           pc' \in {"begin", "call", "burn", "merge"},
           UNCHANGED <<db, rows, indexed>>, fork'.log = fork.log
    PROVE  RowsFresh'
  <1>1. db' = db /\ rows' = rows /\ indexed' = indexed
    BY Zenon
  <1>2. /\ IndexedOnce /\ Ran(db) \subseteq Ran(fork) /\ Len(db.log) <= Len(fork.log)
        /\ rows \subseteq Ran(fork) \cap Later(Len(db.log))
    BY Zenon DEF RowsFresh
  <1>3. IndexedOnce' /\ Ran(db)' = Ran(db)
    BY <1>1, <1>2, SentKept, Zenon
  <1>4. Ran(fork)' = Ran(fork)
    BY Zenon DEF Ran
  <1>5. Len(db.log)' = Len(db.log) /\ Len(fork.log)' = Len(fork.log)
    BY <1>1, Zenon
  <1>6. Later(Len(db.log))' = Later(Len(db.log))
    BY <1>1, Zenon DEF Later
  <1>7. pc' # "index"
    OBVIOUS
  <1>8. (Ran(fork) \cap Later(Len(db.log)))' = Ran(fork) \cap Later(Len(db.log))
    BY <1>4, <1>6, Zenon
  <1>9. /\ Ran(db)' \subseteq Ran(fork)' /\ Len(db.log)' <= Len(fork.log)'
        /\ rows' \subseteq (Ran(fork) \cap Later(Len(db.log)))'
    BY <1>1, <1>2, <1>3, <1>4, <1>5, <1>8, Zenon
  <1>10. QED
    BY <1>3, <1>7, <1>9, Zenon DEF RowsFresh

(* The checkpoint of a transaction is a good state. *)
LEMMA TxBegin == ASSUME TxInv, BeginTx PROVE TxInv'
  <1>1. /\ pc = "begin" /\ checkpoint' = fork /\ pc' = "call" /\ part' = 1
        /\ failed' = FALSE /\ fuel' = 0 /\ assets' = FALSE
        /\ UNCHANGED <<db, fork, block, index, rows, indexed>>
    BY DEF BeginTx, Flushed
  <1>2. tx \in Tx /\ 1 \in Part(tx) /\ tx' = tx
    BY <1>1, Current DEF TxInv, Part, tx
  <1>3. TypeOK'
    BY <1>1, <1>2, Zenon DEF TxInv, TypeOK, Part
  <1>4. SoFar' = {}
    BY <1>1 DEF SoFar
  <1>5. States' /\ InBurn'
    BY <1>1 DEF TxInv, States, InBurn
  <1>6. InCall'
    BY <1>1, <1>4 DEF InCall
  <1>7. RowsFresh'
    BY <1>1, RowsKept DEF TxInv
  <1>8. QED
    BY <1>3, <1>5, <1>6, <1>7, Zenon DEF TxInv

(* The writes of the calls so far with those of one call more. *)
LEMMA SoFarNext ==
    ASSUME part \in Nat \ {0}, ~(kind[tx] = "bulk_empty" /\ part = 1)
    PROVE  SoFar \cup {<<run, part>>} =
               {run} \X (IF kind[tx] = "bulk_empty" THEN (1 .. part) \ {1} ELSE 1 .. part)
  <1>1. 1 .. part = (1 .. part - 1) \cup {part}
    OBVIOUS
  <1>2. CASE kind[tx] = "bulk_empty"
    <2>1. (1 .. part) \ {1} = ((1 .. part - 1) \ {1}) \cup {part}
      BY <1>1, <1>2
    <2>2. QED
      BY <1>2, <2>1 DEF SoFar
  <1>3. CASE kind[tx] # "bulk_empty"
    BY <1>1, <1>3 DEF SoFar
  <1>4. QED
    BY <1>2, <1>3

(* What a call does: one more of the parts has left its writes, or all of   *)
(* them are taken back.                                                     *)
LEMMA TxCall == ASSUME TxInv, Call PROVE TxInv'
  <1>1. PICK ok \in BOOLEAN, used \in BOOLEAN, m \in Moves :
            /\ fork.funds + m >= 0
            /\ failed' = (failed \/ ~ok)
            /\ fuel' = fuel + calculate_burned_fuel(used)
            /\ fork' = RolledBack(Called(fork, m), (failed \/ ~ok) /\ Over(ok))
            /\ assets' \in {assets, assets \/ ok \/ kind[tx] = "unit"}
            /\ part' = part + 1
            /\ pc' = IF Over(ok) THEN "burn" ELSE "call"
    BY DEF Call
  <1>2. /\ pc = "call" /\ ~(kind[tx] = "bulk_empty" /\ part = 1) /\ kind[tx] # "bulk_other"
        /\ UNCHANGED <<db, checkpoint, block, index, rows, indexed>>
    BY DEF Call
  <1>3. TypeOK /\ fork \in State /\ checkpoint \in State
    BY DEF TxInv, TypeOK
  <1>4. /\ index \in DOMAIN block /\ tx \in Tx /\ parts[tx] \in Nat \ {0} /\ tx' = tx
        /\ part \in 1 .. parts[tx] /\ part \in Nat \ {0} /\ run \in Nat
    <2>1. /\ index \in DOMAIN block /\ tx \in Tx /\ parts[tx] \in Nat \ {0}
          /\ tx' = tx /\ run \in Nat /\ part \in 1 .. parts[tx]
      BY <1>2, <1>3, Current DEF TypeOK, Part, tx
    <2>2. QED
      BY <2>1
  <1> DEFINE f == [writes |-> fork.writes \cup {<<run, part>>}, funds |-> fork.funds + m,
                   log |-> fork.log]
  <1>5. Called(fork, m) = f /\ f \in State
    <2>1. fork.funds + m \in Nat
      <3>1. fork.funds \in Nat
        BY <1>3, StateParts, Zenon
      <3>2. m \in Int /\ fork.funds + m >= 0
        BY <1>1, TxExecAssumption, Zenon
      <3>3. QED
        BY <3>1, <3>2
    <2>2. fork.writes \cup {<<run, part>>} \in SUBSET (Nat \X Nat)
      BY <1>3, <1>4, StateParts
    <2>3. f \in State
      BY <1>3, <2>1, <2>2, StateParts, StateMade, Zenon
    <2>4. QED
      BY <2>3 DEF Called
  <1>6. f.writes = fork.writes \cup {<<run, part>>} /\ f.log = fork.log
    OBVIOUS
  <1> HIDE DEF f
  <1>7. fork' = IF (failed \/ ~ok) /\ Over(ok) THEN checkpoint ELSE f
    BY <1>1, <1>5 DEF RolledBack
  <1>8. fork' \in State
    BY <1>3, <1>5, <1>7
  <1>9. /\ Good(checkpoint) /\ fork'.log = checkpoint.log
        /\ fork'.log = fork.log /\ run' = run
    BY <1>2, <1>6, <1>7 DEF TxInv, States, run
  <1>10. TypeOK'
    <2>1. fuel' \in Nat /\ part' \in Nat
      BY <1>1, <1>3, TxExecAssumption DEF TypeOK, calculate_burned_fuel
    <2>2. failed' \in BOOLEAN /\ assets' \in BOOLEAN
      BY <1>1, <1>3, Zenon DEF TypeOK
    <2>3. pc' \in {"call", "burn"} /\ (pc' = "call" => part' \in 1 .. parts[tx])
      BY <1>1, <1>4 DEF Over
    <2>4. QED
      BY <1>2, <1>3, <1>4, <1>8, <2>1, <2>2, <2>3 DEF TypeOK, Part
  <1>11. ~(failed \/ ~ok) => fork'.writes = checkpoint.writes \cup (SoFar \cup {<<run, part>>})
    BY <1>2, <1>6, <1>7 DEF TxInv, InCall
  <1>12. InCall'
    <2>1. CASE Over(ok)
      BY <1>1, <2>1 DEF InCall
    <2>2. CASE ~Over(ok)
      <3>1. part' # 1 /\ part' - 1 = part
        BY <1>1, <1>4
      <3>2. SoFar' = {run} \X (IF kind[tx] = "bulk_empty" THEN (1 .. part) \ {1} ELSE 1 .. part)
        BY <1>4, <1>9, <3>1 DEF SoFar
      <3>3. QED
        BY <1>1, <1>2, <1>4, <1>11, <3>1, <3>2, SoFarNext, Zenon DEF InCall
    <2>3. QED
      BY <2>1, <2>2
  <1>13. InBurn'
    <2>1. CASE Over(ok) /\ (failed \/ ~ok)
      BY <1>1, <1>2, <1>7, <2>1, Zenon DEF InBurn
    <2>2. CASE Over(ok) /\ ~(failed \/ ~ok)
      <3>1. part = parts[tx]
        BY <2>2 DEF Over
      <3>2. CallsOf(tx) = IF kind[tx] = "bulk_empty" THEN (1 .. part) \ {1} ELSE 1 .. part
        BY <1>2, <3>1 DEF CallsOf, Part
      <3>3. Effect(run, tx) = SoFar \cup {<<run, part>>}
        BY <1>2, <1>4, <3>2, SoFarNext, Zenon DEF Effect
      <3>4. fork'.writes = checkpoint.writes \cup Effect(run, tx)
        BY <1>11, <2>2, <3>3, Zenon
      <3>5. Effect(run, tx)' = Effect(run, tx)
        BY <1>4, <1>9, Zenon DEF Effect, CallsOf, Part
      <3>6. QED
        BY <1>1, <1>2, <2>2, <3>4, <3>5, Zenon DEF InBurn
    <2>3. CASE ~Over(ok)
      BY <1>1, <2>3 DEF InBurn
    <2>4. QED
      BY <2>1, <2>2, <2>3
  <1>14. pc' \in {"call", "burn"}
    BY <1>1
  <1>15. States'
    BY <1>2, <1>9, <1>14 DEF TxInv, States
  <1>16. RowsFresh'
    BY <1>2, <1>9, <1>14, RowsKept DEF TxInv
  <1>17. QED
    BY <1>10, <1>12, <1>13, <1>15, <1>16 DEF TxInv

(* The other ways to the end of a part. *)
LEMMA TxEmptyRoot == ASSUME TxInv, EmptyRoot PROVE TxInv'
  <1>1. /\ pc = "call" /\ kind[tx] = "bulk_empty" /\ part = 1 /\ part' = 2
        /\ pc' = IF parts[tx] = 1 THEN "burn" ELSE "call"
        /\ UNCHANGED <<db, fork, checkpoint, block, index, failed, fuel, assets, rows, indexed>>
    BY DEF EmptyRoot
  <1>2. /\ index \in DOMAIN block /\ tx \in Tx /\ parts[tx] \in Nat \ {0} /\ tx' = tx
        /\ run' = run
    BY <1>1, Current DEF TxInv, tx, run
  <1>3. TypeOK'
    <2>1. pc' = "call" => part' \in 1 .. parts[tx]
      BY <1>1, <1>2
    <2>2. part' \in Nat /\ pc' \in {"call", "burn"}
      BY <1>1
    <2>3. QED
      BY <1>1, <1>2, <2>1, <2>2 DEF TxInv, TypeOK, Part
  <1>4. fork = checkpoint /\ ~failed
    BY <1>1 DEF TxInv, InCall
  <1>5. SoFar' = {} /\ (parts[tx] = 1 => Effect(run, tx)' = {})
    <2>1. (1 .. 2 - 1) \ {1} = {} /\ (parts[tx] = 1 => (1 .. parts[tx]) \ {1} = {})
      OBVIOUS
    <2>2. QED
      BY <1>1, <1>2, <2>1 DEF SoFar, Effect, CallsOf, Part
  <1>6. InCall' /\ InBurn'
    BY <1>1, <1>2, <1>4, <1>5 DEF InCall, InBurn
  <1>7. States'
    BY <1>1 DEF TxInv, States
  <1>8. RowsFresh'
    BY <1>1, RowsKept DEF TxInv
  <1>9. QED
    BY <1>3, <1>6, <1>7, <1>8, Zenon DEF TxInv

(* A bulk without the data of one has no effect, and that is all its effect. *)
LEMMA TxNoBulk == ASSUME TxInv, NoBulk PROVE TxInv'
  <1>1. /\ pc = "call" /\ kind[tx] = "bulk_other" /\ fork' = checkpoint /\ pc' = "burn"
        /\ UNCHANGED <<db, checkpoint, block, index, part, failed, fuel, assets, rows, indexed>>
    BY DEF NoBulk, RolledBack
  <1>2. /\ index \in DOMAIN block /\ fork'.log = fork.log /\ Good(checkpoint)
        /\ checkpoint \in State /\ tx' = tx
    BY <1>1, Current DEF TxInv, TypeOK, States, tx
  <1>3. TypeOK'
    BY <1>1, <1>2 DEF TxInv, TypeOK
  <1>4. Effect(run, tx)' = {}
    <2>1. CallsOf(tx)' = {}
      BY <1>1, <1>2 DEF CallsOf
    <2>2. QED
      BY <2>1 DEF Effect
  <1>5. InCall' /\ InBurn'
    BY <1>1, <1>4 DEF InCall, InBurn
  <1>6. States'
    BY <1>1, <1>2 DEF TxInv, States
  <1>7. RowsFresh'
    BY <1>1, <1>2, RowsKept DEF TxInv
  <1>8. QED
    BY <1>3, <1>5, <1>6, <1>7 DEF TxInv

(* The contract of the first call is refused: nothing was written yet. *)
LEMMA TxRefuseFirst == ASSUME TxInv, RefuseFirst PROVE TxInv'
  <1>1. /\ pc = "call" /\ part = 1 /\ failed' = TRUE /\ fuel' = FUEL_LIMIT /\ pc' = "burn"
        /\ UNCHANGED <<db, fork, checkpoint, block, index, part, assets, rows, indexed>>
    BY DEF RefuseFirst
  <1>2. fork = checkpoint
    BY <1>1 DEF TxInv, InCall
  <1>3. fuel' \in Nat /\ failed' \in BOOLEAN
    BY <1>1, TxExecAssumption
  <1>4. TypeOK'
    BY <1>1, <1>3 DEF TxInv, TypeOK
  <1>5. InCall' /\ InBurn'
    BY <1>1, <1>2 DEF InCall, InBurn
  <1>6. States'
    BY <1>1 DEF TxInv, States
  <1>7. RowsFresh'
    BY <1>1, RowsKept DEF TxInv
  <1>8. QED
    BY <1>4, <1>5, <1>6, <1>7, Zenon DEF TxInv

(* The contract of a node is refused: what follows of the bulk runs, and all *)
(* of it is taken back.                                                      *)
LEMMA TxRefuseNode == ASSUME TxInv, RefuseNode PROVE TxInv'
  <1>1. /\ pc = "call" /\ part > 1 /\ failed' = TRUE /\ part' = part + 1
        /\ pc' = IF part = parts[tx] THEN "burn" ELSE "call"
        /\ fork' = IF part = parts[tx] THEN checkpoint ELSE fork
        /\ UNCHANGED <<db, checkpoint, block, index, fuel, assets, rows, indexed>>
    BY DEF RefuseNode, Over, RolledBack
  <1>2. index \in DOMAIN block /\ tx \in Tx /\ parts[tx] \in Nat \ {0} /\ tx' = tx
    BY <1>1, Current DEF TxInv, tx
  <1>3. part \in 1 .. parts[tx]
    BY <1>1 DEF TxInv, TypeOK, Part
  <1>4. TypeOK'
    <2>1. /\ pc' = "call" => part' \in 1 .. parts[tx]
          /\ pc' \in {"call", "burn"} /\ part' \in Nat
      BY <1>1, <1>2, <1>3
    <2>2. fork' \in State /\ failed' \in BOOLEAN
      BY <1>1 DEF TxInv, TypeOK
    <2>3. QED
      BY <1>1, <1>2, <2>1, <2>2 DEF TxInv, TypeOK, Part
  <1>5. fork'.log = fork.log
    BY <1>1 DEF TxInv, States
  <1>6. part' # 1
    BY <1>1, <1>3
  <1>7. InCall' /\ InBurn'
    BY <1>1, <1>6 DEF InCall, InBurn
  <1>8. States'
    BY <1>1, <1>5 DEF TxInv, States
  <1>9. RowsFresh'
    BY <1>1, <1>5, RowsKept DEF TxInv
  <1>10. QED
    BY <1>4, <1>7, <1>8, <1>9 DEF TxInv

-----------------------------------------------------------------------------
(* A charge is never more than the funds, nor than what is asked for, and a *)
(* state with one more charge and receipt is one.                           *)
LEMMA ExecutedState ==
    ASSUME NEW f \in State, tx \in Tx, NEW units \in Nat, NEW ok \in BOOLEAN, NEW b \in Nat
    PROVE  /\ Burned(f, units) \in Nat /\ Burned(f, units) <= units
           /\ units <= f.funds => Burned(f, units) = units
           /\ Executed(f, units, ok, b) \in State
           /\ Executed(f, units, ok, b).writes = f.writes
           /\ Executed(f, units, ok, b).log = Append(f.log, Entry(tx, ok, b, Burned(f, units)))
  <1> DEFINE c == Burned(f, units)
             n == f.funds - c
             l == Append(f.log, Entry(tx, ok, b, c))
  <1>1. /\ f.funds \in Nat /\ f.log \in Seq(Receipt)
        /\ f.writes \in SUBSET (Nat \X Nat)
    BY StateParts, Zenon
  <1>2. c \in Nat /\ c <= units /\ c <= f.funds /\ (units <= f.funds => c = units)
    BY <1>1 DEF Burned
  <1>3. Executed(f, units, ok, b) = [writes |-> f.writes, funds |-> n, log |-> l]
    BY DEF Executed, Entry
  <1> HIDE DEF c
  <1>4. n \in Nat
    BY <1>1, <1>2
  <1>5. l \in Seq(Receipt)
    <2>1. Entry(tx, ok, b, c) \in Receipt
      BY <1>2, EntryMade, Zenon
    <2>2. QED
      BY <1>1, <2>1, Logged, Zenon
  <1> HIDE DEF n, l
  <1>6. [writes |-> f.writes, funds |-> n, log |-> l] \in State
    BY <1>1, <1>4, <1>5, StateMade, Zenon
  <1>7. Executed(f, units, ok, b).writes = f.writes /\ Executed(f, units, ok, b).log = l
    BY <1>3
  <1>8. QED
    BY <1>2, <1>3, <1>6, <1>7, Zenon DEF c, l

(* The index after one that is not the last is an index. *)
LEMMA NextIndex ==
    ASSUME NEW n \in Nat, NEW i \in 1 .. n
    PROVE  i + 1 \in Nat \ {0} /\ (i # n => i + 1 \in 1 .. n)
  OBVIOUS

(* The transaction ends with its receipt, in a good state. *)
LEMMA TxOver ==
    ASSUME TxInv, pc = "burn", NextTx, fork' \in State,
           NEW ok \in BOOLEAN, NEW b \in Nat, NEW c \in Nat,
           fork'.writes = IF ok THEN checkpoint.writes \cup Effect(run, tx)
                                ELSE checkpoint.writes,
           fork'.log = Append(checkpoint.log, Entry(tx, ok, b, c)),
           c <= fuel_limit[tx], c <= b, ok => b = c,
           rows' \in {rows, rows \cup {<<run, tx>>}}
    PROVE  TxInv'
  <1>1. /\ index' = index + 1 /\ pc' = IF index = Len(block) THEN "merge" ELSE "begin"
        /\ UNCHANGED <<db, checkpoint, block, part, failed, fuel, assets, indexed>>
    BY DEF NextTx
  <1>2. /\ index \in DOMAIN block /\ index \in 1 .. Len(block) /\ tx \in Tx /\ run \in Nat
        /\ checkpoint \in State /\ db \in State /\ block \in Seq(Tx)
    BY Current DEF TxInv, TypeOK
  <1>3. Good(checkpoint) /\ fork.log = checkpoint.log
    <2>1. pc \in {"call", "burn"}
      OBVIOUS
    <2>2. QED
      BY <2>1, Zenon DEF TxInv, States
  <1>4. run = Len(checkpoint.log) + 1 /\ run = Len(fork.log) + 1
    BY <1>3, Zenon DEF run
  <1>5. /\ Good(fork') /\ Ran(fork') = Ran(checkpoint) \cup {<<run, tx>>}
        /\ Len(fork'.log) = run /\ Len(checkpoint.log) \in Nat
    <2>1. fork' \in State /\ checkpoint \in State /\ tx \in Tx /\ Good(checkpoint)
      BY <1>2, <1>3, Zenon
    <2>2. /\ fork'.writes = IF ok THEN checkpoint.writes \cup Effect(Len(checkpoint.log) + 1, tx)
                                  ELSE checkpoint.writes
          /\ fork'.log = Append(checkpoint.log, Entry(tx, ok, b, c))
          /\ c <= fuel_limit[tx] /\ c <= b /\ (ok => b = c)
      BY <1>4, Zenon
    <2>3. /\ Good(fork') /\ Ran(fork') = Ran(checkpoint) \cup {<<Len(checkpoint.log) + 1, tx>>}
          /\ Len(fork'.log) = Len(checkpoint.log) + 1 /\ Len(checkpoint.log) \in Nat
      BY <2>1, <2>2, GoodReceipt
    <2>4. QED
      BY <1>4, <2>3, Zenon
  <1>6. Ran(checkpoint) = Ran(fork)
    BY <1>3, Zenon DEF Ran
  <1>7. TypeOK'
    <2>1. index' \in Nat \ {0} /\ (pc' = "begin" => index' \in DOMAIN block)
      <3>1. /\ index \in 1 .. Len(block) /\ block \in Seq(Tx) /\ index' = index + 1
            /\ pc' = "begin" => index # Len(block)
        BY <1>1, <1>2, Zenon
      <3>2. Len(block) \in Nat /\ DOMAIN block = 1 .. Len(block)
        BY <3>1
      <3>3. QED
        BY <3>1, <3>2, NextIndex, Zenon
    <2>2. pc' \in {"begin", "merge"} /\ rows' \subseteq Nat \X Tx
      BY <1>1, <1>2 DEF TxInv, TypeOK
    <2>3. QED
      BY <1>1, <2>1, <2>2 DEF TxInv, TypeOK
  <1>8. States' /\ InCall' /\ InBurn'
    BY <1>1, <1>5 DEF TxInv, States, InCall, InBurn
  <1>9. RowsFresh'
    <2>1. /\ Ran(db) \subseteq Ran(fork) /\ rows \subseteq Ran(fork) \cap Later(Len(db.log))
          /\ Len(db.log) <= Len(fork.log) /\ IndexedOnce
      BY DEF TxInv, RowsFresh
    <2>2. Len(db.log) \in Nat
      BY <1>2, RanParts, Zenon
    <2>3. Len(db.log) <= Len(fork'.log) /\ run > Len(db.log)
      BY <1>3, <1>4, <1>5, <2>1, <2>2
    <2>4. <<run, tx>> \in Later(Len(db.log))
      BY <1>2, <2>3 DEF Later
    <2>5. Ran(db) \subseteq Ran(fork') /\ rows' \subseteq Ran(fork') \cap Later(Len(db.log))
      BY <1>5, <1>6, <2>1, <2>4, Zenon
    <2>6. db' = db /\ indexed' = indexed /\ pc' \in {"begin", "merge"}
      BY <1>1
    <2>7. IndexedOnce' /\ Ran(db)' = Ran(db)
      BY <2>1, <2>6, SentKept, Zenon
    <2>8. Later(Len(db.log))' = Later(Len(db.log))
      BY <2>6, Zenon DEF Later
    <2>9. QED
      BY <2>3, <2>5, <2>6, <2>7, <2>8 DEF RowsFresh
  <1>10. QED
    BY <1>7, <1>8, <1>9 DEF TxInv

(* What the checkpoint says of the transaction whose fuel is burned. *)
LEMMA AtBurn ==
    ASSUME TxInv, pc = "burn"
    PROVE  /\ tx \in Tx /\ fuel_limit[tx] \in Nat /\ fuel \in Nat
           /\ fork \in State /\ checkpoint \in State
           /\ fork.log = checkpoint.log /\ failed \in BOOLEAN
           /\ fork.writes = IF ~failed THEN checkpoint.writes \cup Effect(run, tx)
                                       ELSE checkpoint.writes
  <1>1. /\ tx \in Tx /\ fuel_limit[tx] \in Nat /\ fuel \in Nat /\ fork \in State
        /\ checkpoint \in State /\ failed \in BOOLEAN
    BY Current DEF TxInv, TypeOK
  <1>2. fork.log = checkpoint.log
    BY DEF TxInv, States
  <1>3. fork.writes = IF ~failed THEN checkpoint.writes \cup Effect(run, tx)
                                 ELSE checkpoint.writes
    BY DEF TxInv, InBurn
  <1>4. QED
    BY <1>1, <1>2, <1>3, Zenon

(* The fuel is burned at the first attempt. *)
LEMMA TxBurnOk == ASSUME TxInv, BurnOk PROVE TxInv'
  <1> DEFINE units == IF BurnMethod THEN FuelToBurn ELSE 0
  <1>1. /\ pc = "burn" /\ NextTx /\ fork' = Executed(fork, units, ~failed, units)
        /\ ~BurnMethod \/ (fuel <= fuel_limit[tx] /\ fuel <= fork.funds)
        /\ rows' \in {rows, rows \cup {<<run, tx>>}}
    BY DEF BurnOk
  <1>2. /\ tx \in Tx /\ fuel_limit[tx] \in Nat /\ fuel \in Nat
        /\ fork \in State /\ checkpoint \in State
        /\ fork.log = checkpoint.log /\ failed \in BOOLEAN
        /\ fork.writes = IF ~failed THEN checkpoint.writes \cup Effect(run, tx)
                                    ELSE checkpoint.writes
    BY <1>1, AtBurn, Zenon
  <1>3. fork.funds \in Nat
    BY <1>2, StateParts, Zenon
  <1>4. units \in Nat /\ units <= fuel_limit[tx] /\ units <= fork.funds /\ units <= units
    BY <1>1, <1>2, <1>3, TxExecAssumption DEF FuelToBurn
  <1> HIDE DEF units
  <1>5. PICK ok \in BOOLEAN : ok = ~failed
    BY <1>2, Zenon
  <1>6. fork' = Executed(fork, units, ok, units)
    BY <1>1, <1>5, Zenon
  <1>7. /\ fork' \in State /\ fork'.writes = fork.writes
        /\ fork'.log = Append(checkpoint.log, Entry(tx, ok, units, units))
    <2>1. /\ Burned(fork, units) = units /\ Executed(fork, units, ok, units) \in State
          /\ Executed(fork, units, ok, units).writes = fork.writes
          /\ Executed(fork, units, ok, units).log =
                 Append(fork.log, Entry(tx, ok, units, Burned(fork, units)))
      <3>1. fork \in State /\ tx \in Tx /\ units \in Nat /\ units <= fork.funds
        BY <1>2, <1>4, Zenon
      <3>2. Burned(fork, units) = units
        BY <3>1, ExecutedState, Zenon
      <3>3. Executed(fork, units, ok, units) \in State
        BY <3>1, ExecutedState, Zenon
      <3>4. Executed(fork, units, ok, units).writes = fork.writes
        BY <3>1, ExecutedState
      <3>5. Executed(fork, units, ok, units).log =
                 Append(fork.log, Entry(tx, ok, units, Burned(fork, units)))
        BY <3>1, ExecutedState
      <3>6. QED
        BY <3>2, <3>3, <3>4, <3>5, Zenon
    <2>2. QED
      BY <1>2, <1>6, <2>1, Zenon
  <1>8. fork'.writes = IF ok THEN checkpoint.writes \cup Effect(run, tx)
                             ELSE checkpoint.writes
    BY <1>2, <1>5, <1>7, Zenon
  <1>9. QED
    BY <1>1, <1>4, <1>7, <1>8, TxOver, Zenon

(* The fork goes back to the checkpoint, where what the first attempt took *)
(* is burned again, or nothing when that fails too.                        *)
LEMMA TxBurnFail == ASSUME TxInv, BurnFail PROVE TxInv'
  <1>1. pc = "burn" /\ NextTx /\ rows' \in {rows, rows \cup {<<run, tx>>}}
    BY DEF BurnFail
  <1>2. /\ tx \in Tx /\ fuel_limit[tx] \in Nat /\ fuel \in Nat
        /\ fork \in State /\ checkpoint \in State
    BY <1>1, AtBurn, Zenon
  <1>3. FuelToBurn \in Nat /\ FuelToBurn <= fuel_limit[tx]
    BY <1>2 DEF FuelToBurn
  <1>4. PICK no \in BOOLEAN : no = FALSE
    BY Zenon
  <1>5. PICK burned \in Nat : burned <= fuel_limit[tx] /\ BurnAgain(burned)
    <2>1. Burned(fork, FuelToBurn) \in Nat /\ Burned(fork, FuelToBurn) <= FuelToBurn
      BY <1>2, <1>3, <1>4, ExecutedState, Zenon
    <2>2. Burned(fork, FuelToBurn) <= fuel_limit[tx] /\ 0 \in Nat /\ 0 <= fuel_limit[tx]
      BY <1>2, <1>3, <2>1
    <2>3. QED
      BY <2>1, <2>2, Zenon DEF BurnFail
  <1>6. PICK units \in Nat : /\ units <= fuel_limit[tx]
                             /\ fork' = Executed(checkpoint, units, no, units)
    <2>1. 0 \in Nat /\ 0 <= fuel_limit[tx]
      BY <1>2
    <2>2. QED
      BY <1>4, <1>5, <2>1, Zenon DEF BurnAgain
  <1>7. PICK c \in Nat : /\ c <= units /\ fork' \in State
                         /\ fork'.writes = checkpoint.writes
                         /\ fork'.log = Append(checkpoint.log, Entry(tx, no, units, c))
    <2> DEFINE d == Burned(checkpoint, units)
    <2>1. /\ d \in Nat /\ d <= units /\ Executed(checkpoint, units, no, units) \in State
          /\ Executed(checkpoint, units, no, units).writes = checkpoint.writes
          /\ Executed(checkpoint, units, no, units).log =
                 Append(checkpoint.log, Entry(tx, no, units, d))
      <3>1. checkpoint \in State /\ tx \in Tx
        BY <1>2, Zenon
      <3>2. d \in Nat /\ d <= units
        BY <3>1, ExecutedState, Zenon
      <3>3. Executed(checkpoint, units, no, units) \in State
        BY <3>1, ExecutedState, Zenon
      <3>4. Executed(checkpoint, units, no, units).writes = checkpoint.writes
        BY <3>1, ExecutedState
      <3>5. Executed(checkpoint, units, no, units).log =
                 Append(checkpoint.log, Entry(tx, no, units, d))
        BY <3>1, ExecutedState
      <3>6. QED
        BY <3>2, <3>3, <3>4, <3>5, Zenon
    <2> HIDE DEF d
    <2>2. QED
      BY <1>6, <2>1, Zenon
  <1>8. c <= fuel_limit[tx] /\ (no => units = c)
    BY <1>2, <1>4, <1>6, <1>7
  <1>9. fork'.writes = IF no THEN checkpoint.writes \cup Effect(run, tx)
                             ELSE checkpoint.writes
    BY <1>4, <1>7, Zenon
  <1>10. QED
    BY <1>1, <1>7, <1>8, <1>9, TxOver, Zenon

-----------------------------------------------------------------------------
(* The block is merged: its rows are new to the indexer. *)
LEMMA TxMerge == ASSUME TxInv, Merge PROVE TxInv'
  <1>1. /\ pc = "merge" /\ db' = fork /\ pc' = "index"
        /\ UNCHANGED <<fork, checkpoint, block, index, part, failed, fuel, assets, rows, indexed>>
    BY DEF Merge
  <1>2. TypeOK'
    BY <1>1 DEF TxInv, TypeOK
  <1>3. States' /\ InCall' /\ InBurn'
    BY <1>1 DEF TxInv, States, InCall, InBurn
  <1>4. RowsFresh'
    <2>1. /\ Ran(db) \subseteq Ran(fork) /\ rows \subseteq Ran(fork) \cap Later(Len(db.log))
          /\ IndexedOnce /\ db \in State
      BY <1>1 DEF TxInv, RowsFresh, TypeOK
    <2>2. Ran(db)' = Ran(fork)
      BY <1>1, Zenon DEF Ran
    <2>3. rows' \subseteq Ran(db)'
      BY <1>1, <2>1, <2>2, Zenon
    <2>4. Ran(db) \cap Later(Len(db.log)) = {}
      <3>1. Len(db.log) \in Nat /\ \A r \in Ran(db) : r \in Nat \X Tx /\ r[1] <= Len(db.log)
        BY <2>1, RanParts, Zenon
      <3>2. ASSUME NEW r \in Ran(db)
            PROVE  r \notin Later(Len(db.log))
        <4>1. r[1] \in Nat /\ r[1] <= Len(db.log)
          BY <3>1, <3>2
        <4>2. ~(r[1] > Len(db.log))
          BY <3>1, <4>1
        <4>3. QED
          BY <4>2, Zenon DEF Later
      <3>3. QED
        BY <3>2, Zenon
    <2>5. \A i \in DOMAIN indexed : rows \cap indexed[i] = {}
      BY <2>1, <2>4, Zenon DEF IndexedOnce
    <2>6. IndexedOnce'
      BY <1>1, <2>1, <2>2, Zenon DEF IndexedOnce
    <2>7. QED
      BY <1>1, <2>3, <2>5, <2>6 DEF RowsFresh
  <1>5. QED
    BY <1>2, <1>3, <1>4 DEF TxInv

(* The rows are sent, or lost. *)
LEMMA TxIndex == ASSUME TxInv, Index PROVE TxInv'
  <1>1. /\ pc = "index" /\ pc' = "idle"
        /\ indexed' \in {indexed, IF rows = {} THEN indexed ELSE Append(indexed, rows)}
        /\ UNCHANGED <<db, fork, checkpoint, block, index, part, failed, fuel, assets, rows>>
    BY DEF Index
  <1>2. /\ indexed \in Seq(SUBSET (Nat \X Tx)) /\ rows \in SUBSET (Nat \X Tx)
        /\ rows \subseteq Ran(db) /\ IndexedOnce
        /\ \A i \in DOMAIN indexed : rows \cap indexed[i] = {}
    BY <1>1 DEF TxInv, TypeOK, RowsFresh
  <1>3. Ran(db)' = Ran(db)
    BY <1>1, Zenon DEF Ran
  <1>4. indexed' \in Seq(SUBSET (Nat \X Tx)) /\ IndexedOnce'
    <2>1. CASE indexed' = indexed
      BY <1>2, <1>3, <2>1, Zenon DEF IndexedOnce
    <2>2. CASE indexed' = Append(indexed, rows)
      <3>1. /\ indexed' \in Seq(SUBSET (Nat \X Tx))
            /\ DOMAIN indexed' = DOMAIN indexed \cup {Len(indexed) + 1}
            /\ \A i \in DOMAIN indexed : indexed'[i] = indexed[i]
            /\ indexed'[Len(indexed) + 1] = rows
        <4> DEFINE S == SUBSET (Nat \X Tx)
        <4>1. indexed \in Seq(S) /\ rows \in S
          BY <1>2, Zenon
        <4> HIDE DEF S
        <4>2. /\ indexed' \in Seq(S)
              /\ DOMAIN indexed' = DOMAIN indexed \cup {Len(indexed) + 1}
              /\ \A i \in DOMAIN indexed : indexed'[i] = indexed[i]
              /\ indexed'[Len(indexed) + 1] = rows
          BY <2>2, <4>1
        <4>3. QED
          BY <4>2, Zenon DEF S
      <3>2. \A i \in DOMAIN indexed' : indexed'[i] \subseteq Ran(db)
        BY <1>2, <3>1, Zenon DEF IndexedOnce
      <3>3. ASSUME NEW i \in DOMAIN indexed', NEW j \in DOMAIN indexed', i # j
            PROVE  indexed'[i] \cap indexed'[j] = {}
        <4>1. CASE i \in DOMAIN indexed /\ j \in DOMAIN indexed
          BY <1>2, <3>1, <3>3, <4>1, Zenon DEF IndexedOnce
        <4>2. CASE i \in DOMAIN indexed /\ j = Len(indexed) + 1
          BY <1>2, <3>1, <4>2
        <4>3. CASE j \in DOMAIN indexed /\ i = Len(indexed) + 1
          BY <1>2, <3>1, <4>3
        <4>4. QED
          BY <3>1, <3>3, <4>1, <4>2, <4>3, Zenon
      <3>4. QED
        BY <1>3, <3>1, <3>2, <3>3, Zenon DEF IndexedOnce
    <2>3. QED
      BY <1>1, <2>1, <2>2, Zenon
  <1>5. TypeOK'
    BY <1>1, <1>4 DEF TxInv, TypeOK
  <1>6. States' /\ InCall' /\ InBurn' /\ RowsFresh'
    BY <1>1, <1>4 DEF TxInv, States, InCall, InBurn, RowsFresh
  <1>7. QED
    BY <1>5, <1>6 DEF TxInv

(* The block is dropped, or all of the process but the database. *)
LEMMA TxDropped == ASSUME TxInv, BlockErr \/ Crash PROVE TxInv'
  <1>1. pc' = "idle" /\ UNCHANGED <<db, index, part, failed, fuel, assets, indexed>>
    BY DEF BlockErr, Crash
  <1>2. TypeOK'
    <2>1. CASE BlockErr
      BY <2>1 DEF BlockErr, TxInv, TypeOK
    <2>2. CASE Crash
      <3>1. /\ fork' \in State /\ checkpoint' \in State
            /\ block' \in Seq(Tx) /\ rows' \subseteq Nat \X Tx
        BY <2>2 DEF Crash, TxInv, TypeOK
      <3>2. QED
        BY <1>1, <3>1 DEF TxInv, TypeOK
    <2>3. QED
      BY <2>1, <2>2
  <1>3. States' /\ InCall' /\ InBurn'
    BY <1>1 DEF TxInv, States, InCall, InBurn
  <1>4. RowsFresh'
    <2>1. IndexedOnce'
      BY <1>1, SentKept DEF TxInv, RowsFresh
    <2>2. QED
      BY <1>1, <2>1 DEF RowsFresh
  <1>5. QED
    BY <1>2, <1>3, <1>4 DEF TxInv

(* Every step of the execution keeps the invariant. *)
LEMMA TxStep == TxInv /\ [Next]_vars => TxInv'
  <1> SUFFICES ASSUME TxInv, [Next]_vars
               PROVE  TxInv'
    OBVIOUS
  <1>1. CASE UNCHANGED vars
    <2>1. TypeOK' /\ States'
      BY <1>1 DEF vars, TxInv, TypeOK, tx, States
    <2>2. InCall' /\ InBurn'
      BY <1>1 DEF vars, TxInv, tx, run, InCall, SoFar, InBurn
    <2>3. RowsFresh'
      <3>1. IndexedOnce' /\ Ran(db)' = Ran(db)
        BY <1>1, SentKept DEF vars, TxInv, RowsFresh
      <3>2. UNCHANGED <<db, fork, pc, rows, indexed>>
        BY <1>1 DEF vars
      <3>3. CASE pc \in {"begin", "call", "burn", "merge"}
        BY <3>2, <3>3, RowsKept DEF TxInv
      <3>4. CASE pc \notin {"begin", "call", "burn", "merge"}
        BY <3>1, <3>2, <3>4 DEF TxInv, RowsFresh
      <3>5. QED
        BY <3>3, <3>4
    <2>4. QED
      BY <2>1, <2>2, <2>3, Zenon DEF TxInv
  <1>2. QED
    BY <1>1, TxBeginBlock, TxBegin, TxCall, TxEmptyRoot, TxNoBulk, TxRefuseFirst,
       TxRefuseNode, TxBurnOk, TxBurnFail, TxMerge, TxIndex, TxDropped DEF Next

-----------------------------------------------------------------------------
(* TxInv is an inductive invariant of the execution of blocks. *)
THEOREM TxInvariant == Spec => []TxInv
  BY TxInit, TxStep, PTL DEF Spec

(* No funds, charges or counts go below zero, and the loop stays in its block. *)
THEOREM TxWellTyped == Spec => []TypeOK
  <1>1. TxInv => TypeOK
    BY DEF TxInv
  <1>2. QED
    BY <1>1, TxInvariant, PTL

(* An execution has all of its effects, and then its receipt says success, *)
(* or none, though the transaction be executed twice.                      *)
THEOREM AlwaysAtomic == Spec => []Atomic
  <1>1. TxInv => Atomic
    BY DEF TxInv, States, Good, Atomic
  <1>2. QED
    BY <1>1, TxInvariant, PTL

(* Nobody is charged more than the limit, nor more than the receipt says. *)
THEOREM FuelAlwaysAccounted == Spec => []FuelAccounted
  <1>1. TxInv => FuelAccounted
    BY DEF TxInv, States, Good, FuelOk, FuelAccounted
  <1>2. QED
    BY <1>1, TxInvariant, PTL

(* However often a block is tried, the indexer sees an execution of it once, *)
(* and only when the database has it.                                        *)
THEOREM AlwaysIndexedOnce == Spec => []IndexedOnce
  <1>1. TxInv => IndexedOnce
    BY DEF TxInv, RowsFresh
  <1>2. QED
    BY <1>1, TxInvariant, PTL
=============================================================================

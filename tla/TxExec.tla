------------------------------- MODULE TxExec -------------------------------
(***************************************************************************)
(* The execution of a block: its transactions run one after the other on a *)
(* fork of the database, each from a checkpoint to which the fork goes     *)
(* back when the transaction fails.  The service contract then takes the   *)
(* fuel from the caller, and the fork is merged when the block is good.    *)
(***************************************************************************)
EXTENDS Integers, Sequences

CONSTANTS
    Tx,             \* the transactions
    kind,           \* "unit", "bulk", "bulk_empty" (a bulk with an empty root) or
                    \* "bulk_other" (a bulk whose data is not that of one)
    parts,          \* how many contract calls: 1, or the root and the nodes
    fuel_limit,     \* of the transaction, or of the root of the bulk
    FUEL_LIMIT,     \* the price of a call that consumed any fuel
    BurnMethod,     \* FALSE when burn_fuel_method is empty
    Funds,          \* of the account that calls the transactions
    Moves,          \* what a call may add to these funds
    MaxRuns         \* bound: executions in the database

ASSUME TxExecAssumption ==
    /\ kind \in [Tx -> {"unit", "bulk", "bulk_empty", "bulk_other"}]
    /\ parts \in [Tx -> Nat \ {0}] /\ fuel_limit \in [Tx -> Nat]
    /\ \A t \in Tx : kind[t] = "unit" => parts[t] = 1
    /\ FUEL_LIMIT \in Nat \ {0} /\ Funds \in Nat
    /\ BurnMethod \in BOOLEAN /\ Moves \subseteq Int /\ 0 \in Moves
    /\ MaxRuns \in Nat

VARIABLES
    db,             \* the merged state
    fork,           \* the fork of the block under execution
    checkpoint,     \* the fork when it was last flushed
    block,          \* the transactions of the block
    index,          \* of the transaction under execution
    pc,             \* where its execution is
    part,           \* the next call of the transaction
    failed,         \* execution_fail
    fuel,           \* fuel_to_burn
    assets,         \* its store_asset_db is not empty
    rows,           \* executions with rows for the indexer
    indexed         \* what was sent to the indexer, without what has no rows

vars == <<db, fork, checkpoint, block, index, pc, part, failed, fuel, assets,
          rows, indexed>>

tx == block[index]
Part(t) == 1 .. parts[t]

(* A state of the accounts: the calls whose writes it has, the caller's funds, *)
(* and for each transaction of the blocks so far, in their order, its receipt  *)
(* (store_receipts_hashes) with what the caller was charged.  A transaction    *)
(* can be in several blocks, so an execution is told by its place in the log.  *)
Empty == [writes |-> {}, funds |-> Funds, log |-> <<>>]
run == Len(fork.log) + 1

Init ==
    /\ db = Empty /\ fork = Empty /\ checkpoint = Empty
    /\ block = <<>> /\ index = 1 /\ pc = "idle"
    /\ part = 1 /\ failed = FALSE /\ fuel = 0 /\ assets = FALSE
    /\ rows = {} /\ indexed = <<>>

-----------------------------------------------------------------------------
(* exec_block, up to its first transaction.  Nothing asks whether a           *)
(* transaction was executed before, or comes twice.                           *)
Rows_kept == rows                   \* mutant: the rows of an earlier attempt remain
Rows_cleared == {}

BeginBlock ==
    /\ pc = "idle"
    /\ \E n \in 0 .. MaxRuns - Len(db.log) : block' \in [1 .. n -> Tx]
    /\ fork' = db /\ checkpoint' = db
    /\ pc' = IF block' = <<>> THEN "merge" ELSE "begin"
    /\ index' = 1 /\ rows' = Rows_cleared
    /\ UNCHANGED <<db, part, failed, fuel, assets, indexed>>

(* exec_transaction: the checkpoint that a rollback goes back to. *)
Flushed == fork

BeginTx ==
    /\ pc = "begin"
    /\ checkpoint' = Flushed
    /\ pc' = "call" /\ part' = 1 /\ failed' = FALSE /\ fuel' = 0
    /\ assets' = FALSE
    /\ UNCHANGED <<db, fork, block, index, rows, indexed>>

(* A contract call adds its writes to the fork and moves funds, whether it  *)
(* returns Ok or has failed after some of them.                             *)
Called(f, m) ==
    [writes |-> f.writes \cup {<<run, part>>}, funds |-> f.funds + m, log |-> f.log]

RolledBack_not(f, bad) == f         \* mutant: a failed call leaves its writes
RolledBack(f, bad) == IF bad THEN checkpoint ELSE f

calculate_burned_fuel(used) == IF used THEN FUEL_LIMIT ELSE 0

(* An Err ends a bulk, and the last of its calls ends it too. *)
Over(ok) == ~ok \/ part = parts[tx]

(* The call of a part. *)
Call ==
    /\ pc = "call" /\ kind[tx] # "bulk_other" /\ ~(kind[tx] = "bulk_empty" /\ part = 1)
    /\ \E ok, used \in BOOLEAN, m \in Moves :
           LET bad == failed \/ ~ok
           IN  /\ fork.funds + m >= 0
               /\ failed' = bad
               /\ fuel' = fuel + calculate_burned_fuel(used)
               /\ fork' = RolledBack(Called(fork, m), bad /\ Over(ok))
               /\ assets' \in {assets, assets \/ ok \/ kind[tx] = "unit"}
               /\ part' = part + 1
               /\ pc' = IF Over(ok) THEN "burn" ELSE "call"
    /\ UNCHANGED <<db, checkpoint, block, index, rows, indexed>>

(* The empty root of a bulk costs nothing and always succeeds. *)
EmptyRoot ==
    /\ pc = "call" /\ kind[tx] = "bulk_empty" /\ part = 1
    /\ part' = 2
    /\ pc' = IF parts[tx] = 1 THEN "burn" ELSE "call"
    /\ UNCHANGED <<db, fork, checkpoint, block, index, failed, fuel, assets, rows, indexed>>

(* "This should never happen because previous controls": a bulk that holds *)
(* other data is rolled back, and has not failed.                          *)
NoBulk ==
    /\ pc = "call" /\ kind[tx] = "bulk_other"
    /\ fork' = RolledBack(fork, TRUE) /\ pc' = "burn"
    /\ UNCHANGED <<db, checkpoint, block, index, part, failed, fuel, assets, rows, indexed>>

(* app_hash_check refuses the contract of a unit transaction or of a root: *)
(* the transaction is over, at the price of a call, with no rollback.      *)
RefuseFirst ==
    /\ pc = "call" /\ part = 1 /\ kind[tx] \in {"unit", "bulk"}
    /\ failed' = TRUE /\ fuel' = FUEL_LIMIT /\ pc' = "burn"
    /\ UNCHANGED <<db, fork, checkpoint, block, index, part, assets, rows, indexed>>

(* It refuses the contract of a node: the nodes that follow are called. *)
RefuseNode ==
    /\ pc = "call" /\ part > 1 /\ kind[tx] # "bulk_other"
    /\ failed' = TRUE
    /\ part' = part + 1
    /\ IF Over(TRUE)
       THEN pc' = "burn" /\ fork' = RolledBack(fork, TRUE)
       ELSE UNCHANGED <<pc, fork>>
    /\ UNCHANGED <<db, checkpoint, block, index, fuel, assets, rows, indexed>>

-----------------------------------------------------------------------------
(***************************************************************************)
(* call_burn_fuel.  The burn method of the service contract is not part of *)
(* the repository: it is taken to charge the account the units it is asked *)
(* for, or all that the account has, to answer with the units charged and  *)
(* whether they are all of them, or to fail with no effect.                *)
(***************************************************************************)
Burned(f, units) == IF units <= f.funds THEN units ELSE f.funds

(* try_burn_fuel: never more than the fuel limit, and a transaction that    *)
(* consumed more than its limit fails.                                      *)
FuelToBurn == IF fuel > fuel_limit[tx] THEN fuel_limit[tx] ELSE fuel

(* The caller is charged, the receipt is stored, and the next transaction  *)
(* begins.                                                                 *)
Executed(f, units, success, burned) ==
    [writes |-> f.writes, funds |-> f.funds - Burned(f, units),
     log |-> Append(f.log, [tx |-> tx, success |-> success, burned_fuel |-> burned,
                            charged |-> Burned(f, units)])]

NextTx ==
    /\ index' = index + 1
    /\ pc' = IF index = Len(block) THEN "merge" ELSE "begin"
    /\ UNCHANGED <<db, checkpoint, block, part, failed, fuel, assets, indexed>>

BurnOk ==
    /\ pc = "burn"
    /\ ~BurnMethod \/ (fuel <= fuel_limit[tx] /\ fuel <= fork.funds)
    /\ LET units == IF BurnMethod THEN FuelToBurn ELSE 0
       IN  fork' = Executed(fork, units, ~failed, units)
    /\ rows' = IF assets THEN rows \cup {<<run, tx>>} ELSE rows
    /\ NextTx

(* The fork goes back to the checkpoint, and the units of the first attempt *)
(* are burned again, of the funds that the caller has there.                *)
BurnAgain_unreported(burned) ==     \* mutant: the receipt does not show the second
    fork' = Executed(checkpoint, burned, FALSE, 0)
BurnAgain(burned) ==
    \/ fork' = Executed(checkpoint, burned, FALSE, burned)
    \/ fork' = Executed(checkpoint, 0, FALSE, 0)

BurnFail ==
    /\ pc = "burn" /\ BurnMethod
    /\ \/ /\ fuel > fuel_limit[tx] \/ fuel > fork.funds
          /\ BurnAgain(Burned(fork, FuelToBurn))
       \/ BurnAgain(0)
    /\ rows' = rows
    /\ NextTx

-----------------------------------------------------------------------------
(* exec_block, after its last transaction: the fork is merged, or dropped  *)
(* because the block is not the expected one or the merge fails.           *)
Merge ==
    /\ pc = "merge"
    /\ db' = fork /\ pc' = "index"
    /\ UNCHANGED <<fork, checkpoint, block, index, part, failed, fuel, assets, rows, indexed>>

(* The rows are sent to the indexer by a thread that may fail. *)
Index ==
    /\ pc = "index" /\ pc' = "idle"
    /\ indexed' \in {indexed, IF rows = {} THEN indexed ELSE Append(indexed, rows)}
    /\ UNCHANGED <<db, fork, checkpoint, block, index, part, failed, fuel, assets, rows>>

(* exec_block returns an error before the merge. *)
BlockErr ==
    /\ pc = "merge" /\ pc' = "idle"
    /\ UNCHANGED <<db, fork, checkpoint, block, index, part, failed, fuel, assets, rows, indexed>>

(* The process stops and starts again: only the database is left. *)
Crash ==
    /\ pc # "idle" /\ pc' = "idle"
    /\ fork' = db /\ checkpoint' = db /\ block' = <<>> /\ rows' = {}
    /\ UNCHANGED <<db, index, part, failed, fuel, assets, indexed>>

Next ==
    \/ BeginBlock \/ BeginTx \/ Call \/ EmptyRoot \/ NoBulk \/ RefuseFirst
    \/ RefuseNode \/ BurnOk \/ BurnFail \/ Merge \/ Index \/ BlockErr \/ Crash

Spec == Init /\ [][Next]_vars

-----------------------------------------------------------------------------
Receipt == [tx : Tx, success : BOOLEAN, burned_fuel : Nat, charged : Nat]
State == [writes : SUBSET (Nat \X Nat), funds : Nat, log : Seq(Receipt)]

(* The states hold natural amounts, and the variables of the loop are in range. *)
TypeOK ==
    /\ db \in State /\ fork \in State /\ checkpoint \in State
    /\ block \in Seq(Tx) /\ index \in Nat \ {0}
    /\ pc \in {"idle", "begin", "call", "burn", "merge", "index"}
    /\ pc \in {"begin", "call", "burn"} => index \in DOMAIN block
    /\ pc = "call" => part \in Part(tx)
    /\ part \in Nat /\ failed \in BOOLEAN /\ fuel \in Nat /\ assets \in BOOLEAN
    /\ rows \subseteq Nat \X Tx /\ indexed \in Seq(SUBSET (Nat \X Tx))

CallsOf(t) ==
    CASE kind[t] = "bulk_empty" -> Part(t) \ {1}
      [] kind[t] = "bulk_other" -> {}
      [] OTHER -> Part(t)
Effect(n, t) == {n} \X CallsOf(t)
Successes(s) == {n \in DOMAIN s.log : s.log[n].success}

(* "if one of the transactions fails, the whole group fails": in the        *)
(* database an execution whose receipt says success has the writes of all   *)
(* its calls, and any other none, whatever failed in it, before it or after *)
(* it in the block, however often the block was tried, and though the       *)
(* transaction be in another block too.                                     *)
Atomic == db.writes = UNION {Effect(n, db.log[n].tx) : n \in Successes(db)}

(* "Max allowed blockchain asset units for fee": no execution is charged    *)
(* more than its limit, though the fuel may be burned twice.  "Actual       *)
(* burned fuel used to perform the submitted actions": the receipt of one   *)
(* that succeeds reports what its caller was charged, and that of any other *)
(* no less: the burn after a rollback is of the funds the caller had        *)
(* before, and the receipt reports what the first burn took.                *)
FuelAccounted ==
    \A n \in DOMAIN db.log : LET r == db.log[n] IN
        /\ r.charged <= fuel_limit[r.tx]
        /\ r.burned_fuel >= r.charged
        /\ r.success => r.burned_fuel = r.charged

(* The rows of an execution reach the indexer at most once, and only when   *)
(* its block was merged, whatever tries of that block, of the same or of    *)
(* other transactions, were dropped before, by an error or by a crash.      *)
Ran(s) == {<<n, s.log[n].tx>> : n \in DOMAIN s.log}
IndexedOnce ==
    \A i, j \in DOMAIN indexed :
        /\ indexed[i] \subseteq Ran(db)
        /\ i # j => indexed[i] \cap indexed[j] = {}

(* No rows are sent of executions that were rolled back.  This does not hold: *)
(* the rows of a call that has failed, and those of the parts of a bulk       *)
(* before the one that fails, are appended once the fuel is burned.           *)
IndexedSucceeded ==
    \A i \in DOMAIN indexed : \A r \in indexed[i] : db.log[r[1]].success
=============================================================================

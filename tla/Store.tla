------------------------------- MODULE Store -------------------------------
(***************************************************************************)
(* The database behind its RwLock, and those who use it: the executor,     *)
(* with its fork, its checkpoints and the cache of compiled contracts; the *)
(* dispatcher tasks that read it, one lock section after the other; the    *)
(* read-only executor; and the intake of transactions.                     *)
(*                                                                         *)
(* RocksDb reads from a snapshot, that is taken anew after each merge.  A  *)
(* fork starts from the backend, and merging it writes what it has changed.*)
(* One action is what a task does in one section of the lock.              *)
(***************************************************************************)
EXTENDS Naturals, Sequences, FiniteSets, Functions

CONSTANTS
    Tx,             \* transactions, as the records described below
    Network,        \* the network of the node
    Contract,       \* contracts, identified with their hash
    Genesis,        \* those whose code the genesis block has stored
    CacheMax,       \* cache_max
    Task,           \* slots for the dispatcher tasks
    Plans           \* what happens in one run:
                    \*   pool: the transactions that are in the pool at first
                    \*   blocks: the blocks of other nodes, in their order
                    \*   requests: for each task, what it is asked
                    \*   faults: how often a merge fails
                    \*   configs: how often a configuration is stored

(***************************************************************************)
(* A transaction is `unit` or not, with data of one of the five kinds.     *)
(* `blank` tells that its account, nonce, network or method is empty.      *)
(* `nodes` are the nodes of a bulk, <<>> when it has none: the kind and    *)
(* the network of each, whether it depends on the root, and whether its    *)
(* own signature is good.  `acts` are the calls it makes when it is        *)
(* executed, those of the nodes of a bulk or those that a contract makes   *)
(* in turn: the contract, the code it stores and whether it writes to the  *)
(* account.  `fail` tells whether the last call ends with an error, or the *)
(* fuel cannot be paid.                                                    *)
(***************************************************************************)
Kind == {"V1", "BulkNodeV1", "BulkRootV1", "BulkV1", "BulkEmpyRoot"}
Part == [kind : Kind, net : STRING, root : BOOLEAN, signed : BOOLEAN]
Act == [call : Contract, stores : SUBSET Contract, writes : BOOLEAN]

(* A block takes its transactions from a queue without duplicates. *)
Block == {b \in Seq(Tx) : IsInjective(b)}

(* What a task may be asked.  Heights are described with load_block. *)
Requests ==
    [type : {"get_block"}, height : Nat, txs : BOOLEAN]
    \cup [type : {"get_account", "get_stats", "get_network"}]
    \cup [type : {"get_tx", "get_receipt", "put"}, tx : Tx]
    \cup [type : {"ro_exec"}, code : Contract]

ASSUME StoreAssumption ==
    /\ \A t \in Tx :
         /\ t.kind \in Kind /\ t.fail \in {"no", "call", "fuel"}
         /\ {t.unit, t.large, t.signed, t.blank} \subseteq BOOLEAN
         /\ t.nodes \in Seq(Part) /\ t.acts \in Seq(Act) \ {<<>>}
    /\ CacheMax \in Nat \ {0} /\ Genesis \subseteq Contract
    /\ Plans \subseteq [pool : SUBSET Tx, blocks : Seq(Block),
                       requests : [Task -> Seq(Requests)], faults : Nat, configs : Nat]

(* What put_txs asks of the transactions that it puts in the pool. *)
ASSUME PoolAssumption == \A p \in Plans : \A t \in p.pool : t.net = Network

VARIABLES
    backend, snap,  \* what is stored, and what the reads see
    locked,         \* whether the read-only executor holds the lock
    txs,            \* the transactions of the pool,
    awaited,        \* those of which it has the hash only,
    unconfirmed,    \* those that are in no block yet,
    confirmed,      \* and the block to be executed, <<>> when there is none
    exec,           \* the executor
    cache,          \* the modules that are compiled
    task,           \* the dispatcher tasks
    plan            \* what has not happened yet

VARIABLES           \* history
    log,            \* the contents of the database after each merge
    seen,           \* the contracts whose code was in a fork
    called,         \* the contracts that were called with success
    emitted,        \* how often the events of a transaction were published
    failures        \* how often the execution of a block was lost

pool == <<txs, awaited, unconfirmed, confirmed>>
db == <<backend, snap>>
history == <<log, seen, called, emitted, failures>>
vars == <<db, locked, pool, exec, cache, task, plan, history>>

(* A database: the blocks as lists of transactions, those of them that      *)
(* have a receipt of success, the block that wrote the account and its data *)
(* last, the contracts, and the configuration.  It starts with the genesis  *)
(* block, whose own transactions are left out, and one configuration.       *)
Initial == [blocks |-> << <<>> >>, ok |-> {}, data |-> 0, code |-> Genesis, config |-> 1]
NoExec == [pc |-> "idle"]
NoTask == [pc |-> "idle", from |-> 1, had |-> FALSE, got |-> <<>>]

Init ==
    /\ backend = Initial /\ snap = Initial /\ locked = FALSE
    /\ plan \in Plans /\ txs = plan.pool /\ awaited = {}
    /\ unconfirmed = txs /\ confirmed = <<>>
    /\ exec = NoExec /\ cache = {}
    /\ task = [k \in Task |-> NoTask]
    /\ log = <<Initial>> /\ seen = Genesis /\ called = {}
    /\ emitted = [t \in Tx |-> 0] /\ failures = 0

-----------------------------------------------------------------------------
(* Intake: what put_transaction_internal accepts. *)
check_bulk(t) ==
    /\ t.nodes # <<>>
    /\ \A i \in DOMAIN t.nodes :
         /\ t.nodes[i].kind = "BulkNodeV1" /\ t.nodes[i].root
         /\ t.nodes[i].net = t.net

check_integrity(t) ==
    \/ t.kind = "V1" /\ ~t.blank
    \/ t.kind = "BulkV1" /\ check_bulk(t)

(* The signature of the whole; those of the nodes are not looked at. *)
verify(t) == t.signed

accepted(t) ==
    ~t.large /\ verify(t) /\ check_integrity(t) /\ t.net = Network

Committed(d) == UNION {Range(d.blocks[i]) : i \in DOMAIN d.blocks}

-----------------------------------------------------------------------------
(* The database. *)

fork_merge(d) == backend' = d /\ snap' = d

(* Merging the fork f of b into d: what f has changed is written, and the   *)
(* rest is left as others have written it.                                  *)
Written(d, b, f) == IF f = b THEN d ELSE f
Merged(d, b, f) ==
    [blocks |-> Written(d.blocks, b.blocks, f.blocks), ok |-> Written(d.ok, b.ok, f.ok),
     data |-> Written(d.data, b.data, f.data), code |-> Written(d.code, b.code, f.code),
     config |-> Written(d.config, b.config, f.config)]

(* store_config_into_db, with the lock from the fork to its merge. *)
StoreConfig ==
    /\ ~locked /\ plan.configs > 0
    /\ plan' = [plan EXCEPT !.configs = @ - 1]
    /\ LET d == [backend EXCEPT !.config = @ + 1]
       IN  fork_merge(d) /\ log' = Append(log, d)
    /\ UNCHANGED <<locked, pool, exec, cache, task, seen, called, emitted, failures>>

-----------------------------------------------------------------------------
(* The contracts that are compiled.  The result of load_module is the cache *)
(* and whether the contract was found.  Which module is dropped is left     *)
(* open: it is the one used least recently, by the second.                  *)
\* mutant: a module is put in the cache before its code is looked up
load_module_early(c, code) ==
    {[cache |-> kept \cup {c}, ok |-> c \in code] :
       kept \in IF Cardinality(cache) > CacheMax THEN {cache \ {x} : x \in cache}
                ELSE {cache}}
load_module(c, code) ==
    {[cache |-> IF c \in code THEN kept \cup {c} ELSE kept, ok |-> c \in code] :
       kept \in IF Cardinality(cache) > CacheMax THEN {cache \ {x} : x \in cache}
                ELSE {cache}}

get_module(c, code) ==
    IF c \in cache THEN {[cache |-> cache, ok |-> TRUE]} ELSE load_module(c, code)

-----------------------------------------------------------------------------
(* The builder takes a block from the unconfirmed transactions. *)
Build(block) ==
    /\ confirmed = <<>> /\ IsInjective(block)
    /\ confirmed' = block
    /\ unconfirmed' = unconfirmed \ Range(block)
    /\ UNCHANGED <<db, locked, txs, awaited, exec, cache, task, plan, history>>

(* A block of another node.  Of the transactions that are not in the pool   *)
(* there is the hash from now on.                                           *)
TakeBlock ==
    /\ confirmed = <<>> /\ plan.blocks # <<>>
    /\ LET block == Head(plan.blocks)
       IN  /\ confirmed' = block
           /\ unconfirmed' = unconfirmed \ Range(block)
           /\ awaited' = awaited \cup (Range(block) \ txs)
    /\ plan' = [plan EXCEPT !.blocks = Tail(@)]
    /\ UNCHANGED <<db, locked, txs, exec, cache, task, history>>

(* The executor, when the transactions of the block are there.  `base` is   *)
(* what its fork was made from, `check` the last checkpoint, `i` and `a`    *)
(* the call that is next, `ok` that the calls of the transaction have       *)
(* succeeded so far.                                                        *)
ExecBegin ==
    /\ exec.pc = "idle" /\ confirmed # <<>> /\ Range(confirmed) \subseteq txs /\ ~locked
    /\ exec' = [pc |-> "run", base |-> backend, fork |-> backend, check |-> backend,
                i |-> 1, a |-> 1, ok |-> TRUE]
    /\ UNCHANGED <<db, locked, pool, cache, task, plan, history>>

Running == exec.pc = "run" /\ exec.i <= Len(confirmed)
This == confirmed[exec.i]

ExecCall ==
    /\ Running /\ exec.ok /\ exec.a <= Len(This.acts)
    /\ LET act == This.acts[exec.a]
           f == exec.fork
           g == [f EXCEPT !.code = @ \cup act.stores,
                          !.data = IF act.writes THEN Len(f.blocks) + 1 ELSE @]
       IN  \E r \in get_module(act.call, f.code) :
             /\ cache' = r.cache
             /\ exec' = IF r.ok THEN [exec EXCEPT !.fork = g, !.a = @ + 1]
                        ELSE [exec EXCEPT !.ok = FALSE]
             /\ seen' = IF r.ok THEN seen \cup g.code ELSE seen
             /\ called' = IF r.ok THEN called \cup {act.call} ELSE called
    /\ UNCHANGED <<db, locked, pool, task, plan, log, emitted, failures>>

(* Whether a transaction has events that are published, when n calls were   *)
(* made: those of a call that ends with an error are kept in a unit and     *)
(* dropped in a bulk, and none are published when the fuel is not paid.     *)
\* mutant: before the fuel is paid
emits_unpaid(t, n, ok) == n > 0
emits(t, n, ok) ==
    /\ t.fail # "fuel"
    /\ n > IF ok /\ t.fail = "call" /\ ~t.unit THEN 1 ELSE 0

(* The end of a transaction.  A failure takes the fork back to the          *)
(* checkpoint and leaves the cache as it is.                                *)
ExecTx ==
    /\ Running /\ (~exec.ok \/ exec.a > Len(This.acts))
    /\ LET success == exec.ok /\ This.fail = "no"
           f == IF success THEN [exec.fork EXCEPT !.ok = @ \cup {This}] ELSE exec.check
       IN  exec' = [exec EXCEPT !.fork = f, !.check = f, !.i = @ + 1, !.a = 1, !.ok = TRUE]
    /\ emitted' = IF emits(This, exec.a - 1, exec.ok)
                  THEN [emitted EXCEPT ![This] = @ + 1] ELSE emitted
    /\ UNCHANGED <<db, locked, pool, cache, task, plan, log, seen, called, failures>>

\* mutant: the block leaves the pool all the same
ExecFailed_clean == [pc |-> "clean"]
(* When the merge fails the block stays in the pool. *)
ExecFailed == NoExec

(* The end of exec_block: the block is stored and the fork merged.  When    *)
(* that fails the fork is lost, and the block is executed again later.      *)
ExecMerge ==
    /\ exec.pc = "run" /\ exec.i > Len(confirmed) /\ ~locked
    /\ \/ LET d == Merged(backend, exec.base,
                         [exec.fork EXCEPT !.blocks = Append(@, confirmed)])
          IN  /\ fork_merge(d) /\ log' = Append(log, d)
              /\ exec' = [pc |-> "clean"]
              /\ UNCHANGED <<plan, failures>>
       \/ /\ plan.faults > 0
          /\ plan' = [plan EXCEPT !.faults = @ - 1]
          /\ failures' = failures + 1
          /\ exec' = ExecFailed
          /\ UNCHANGED <<db, log>>
    /\ UNCHANGED <<locked, pool, cache, task, seen, called, emitted>>

(* The block and its transactions leave the pool. *)
ExecClean ==
    /\ exec.pc = "clean"
    /\ txs' = txs \ Range(confirmed)
    /\ confirmed' = <<>>
    /\ exec' = NoExec
    /\ UNCHANGED <<db, locked, awaited, unconfirmed, cache, task, plan, history>>

-----------------------------------------------------------------------------
(* The dispatcher tasks. *)
Request(k) == Head(plan.requests[k])
Steps(k, pc, got) ==
    task' = [task EXCEPT ![k].pc = pc, ![k].got = Append(@, got)]
others == <<db, exec, cache, plan, history>>

(* History: whether the node has the transaction that it is asked for. *)
Has(r) == r.type = "get_tx" /\ r.tx \in txs \cup Committed(snap)

Begin(k) ==
    /\ task[k].pc = "idle" /\ plan.requests[k] # <<>>
    /\ task' = [task EXCEPT ![k] = [pc |-> Request(k).type, from |-> Len(log),
                                    had |-> Has(Request(k)), got |-> <<>>]]
    /\ UNCHANGED <<locked, pool, others>>

(* The answer is sent, and the task is free for another request. *)
End(k) ==
    /\ task[k].pc = "done"
    /\ task' = [task EXCEPT ![k] = NoTask]
    /\ plan' = [plan EXCEPT !.requests[k] = Tail(@)]
    /\ UNCHANGED <<db, locked, pool, exec, cache, history>>

(* The position of the block that load_block finds, 0 when there is none:   *)
(* `height` is a position, or 0 for u64::MAX.                               *)
load_block(d, height) ==
    IF height = 0 THEN Len(d.blocks)
    ELSE IF height \in DOMAIN d.blocks THEN height ELSE 0

\* mutant: the list is loaded for the height that was asked for
load_transactions_hashes_asked(d, position, height) == d.blocks[load_block(d, height)]
load_transactions_hashes(d, position, height) == d.blocks[position]

get_block_handler(k) ==
    /\ task[k].pc \in {"get_block", "hashes"} /\ ~locked
    /\ IF task[k].pc = "get_block"
       THEN LET b == load_block(snap, Request(k).height)
            IN  Steps(k, IF b # 0 /\ Request(k).txs THEN "hashes" ELSE "done", b)
       ELSE Steps(k, "done",
                  load_transactions_hashes(snap, task[k].got[1], Request(k).height))
    /\ UNCHANGED <<locked, pool, others>>

(* The account, and then each of two data; 0 is no account. *)
\* mutant: the data are loaded before the account
get_account_handler_last(k) ==
    /\ task[k].pc = "get_account" /\ ~locked
    /\ task' = [task EXCEPT ![k].pc = IF Len(task[k].got) = 2 \/ snap.data = 0
                                      THEN "done" ELSE "get_account",
                            ![k].got = <<snap.data>> \o @]
    /\ UNCHANGED <<locked, pool, others>>
get_account_handler(k) ==
    /\ task[k].pc = "get_account" /\ ~locked
    /\ Steps(k, IF Len(task[k].got) = 2 \/ snap.data = 0 THEN "done" ELSE "get_account",
             snap.data)
    /\ UNCHANGED <<locked, pool, others>>

(* The database, and then the pool. *)
get_transaction_handler(k) ==
    /\ \/ /\ task[k].pc = "get_tx" /\ ~locked
          /\ LET found == Request(k).tx \in Committed(snap)
             IN  Steps(k, IF found THEN "done" ELSE "pool", found)
       \/ task[k].pc = "pool" /\ Steps(k, "done", Request(k).tx \in txs)
    /\ UNCHANGED <<locked, pool, others>>

Receipt(d, t) == <<t \in Committed(d), t \in d.ok>>
get_receipt_handler(k) ==
    /\ task[k].pc = "get_receipt" /\ ~locked
    /\ Steps(k, "done", Receipt(snap, Request(k).tx))
    /\ UNCHANGED <<locked, pool, others>>

get_network_id_handler(k) ==
    /\ task[k].pc = "get_network" /\ ~locked
    /\ Steps(k, "done", snap.config)
    /\ UNCHANGED <<locked, pool, others>>

(* The hash of the unconfirmed transactions, their number, the last block. *)
get_stats_handler(k) ==
    /\ task[k].pc = "get_stats"
    /\ CASE Len(task[k].got) = 0 -> Steps(k, "get_stats", unconfirmed)
         [] Len(task[k].got) = 1 -> Steps(k, "get_stats", Cardinality(unconfirmed))
         [] OTHER -> ~locked /\ Steps(k, "done", load_block(snap, 0))
    /\ UNCHANGED <<locked, pool, others>>

put_transaction_internal(k) ==
    /\ LET t == Request(k).tx IN
       \/ /\ task[k].pc = "put"
          /\ IF ~accepted(t) THEN Steps(k, "done", FALSE)
             ELSE /\ ~locked
                  /\ IF t \in Committed(snap) THEN Steps(k, "done", FALSE)
                     ELSE Steps(k, "insert", TRUE)
          /\ UNCHANGED pool
       \/ /\ task[k].pc = "insert"
          /\ Steps(k, "done", t \notin txs)
          /\ txs' = txs \cup {t} /\ awaited' = awaited \ {t}
          /\ unconfirmed' = IF t \in txs \cup awaited THEN unconfirmed
                            ELSE unconfirmed \cup {t}
          /\ UNCHANGED confirmed
    /\ UNCHANGED <<locked, others>>

(* exec_read_only_transaction_handler: the lock is held for writing from    *)
(* the fork to the end.                                                     *)
RoBegin(k) ==
    /\ task[k].pc = "ro_exec" /\ ~locked
    /\ locked' = TRUE
    /\ Steps(k, "ro_run", backend)
    /\ UNCHANGED <<pool, others>>

(* The executor is a new one, whose cache is empty; its fork is rolled back *)
(* and dropped.                                                             *)
\* mutant: the lock is asked for once more during the execution
ro_exec_locks(k) == ~locked /\ UNCHANGED db
ro_exec(k) == UNCHANGED db

RoEnd(k) ==
    /\ task[k].pc = "ro_run"
    /\ ro_exec(k)
    /\ locked' = FALSE
    /\ Steps(k, "done", Request(k).code \in task[k].got[1].code)
    /\ UNCHANGED <<pool, exec, cache, plan, history>>

-----------------------------------------------------------------------------
Serve(k) ==
    \/ Begin(k) \/ End(k) \/ get_block_handler(k) \/ get_account_handler(k)
    \/ get_transaction_handler(k) \/ get_receipt_handler(k) \/ get_network_id_handler(k)
    \/ get_stats_handler(k) \/ put_transaction_internal(k) \/ RoBegin(k) \/ RoEnd(k)

Executor == ExecBegin \/ ExecCall \/ ExecTx \/ ExecMerge \/ ExecClean

Next ==
    \/ StoreConfig \/ Executor \/ TakeBlock
    \/ \E t, u \in unconfirmed : Build(<<t>>) \/ Build(<<t, u>>)
    \/ \E k \in Task : Serve(k)
Spec == Init /\ [][Next]_vars

(* Each task runs on its thread: it waits for the lock only, and the one    *)
(* who holds it over several steps is a task too.                           *)
FairSpec == Spec /\ \A k \in Task : WF_vars(Serve(k))

-----------------------------------------------------------------------------
(* The state has its type, and the lock is held by one read-only executor   *)
(* at most.                                                                 *)
TypeOK ==
    /\ backend.code \cup cache \subseteq Contract
    /\ exec.pc \in {"idle", "run", "clean"}
    /\ unconfirmed \subseteq txs /\ txs \cup awaited \cup Committed(backend) \subseteq Tx
    /\ awaited \subseteq Range(confirmed) \ txs
    /\ Cardinality({k \in Task : task[k].pc = "ro_run"}) = IF locked THEN 1 ELSE 0
    /\ \A k \in Task : task[k].from \in DOMAIN log

(* What is stored, and what the reads see, is what the executor and the     *)
(* configuration have merged: the changes of a fork that is not merged, as  *)
(* that of the read-only executor, are nowhere.                             *)
OnlyMerged == backend = log[Len(log)] /\ snap = log[Len(log)]

IsPrefix(s, t) == Len(s) <= Len(t) /\ \A i \in DOMAIN s : s[i] = t[i]

(* A request that reads the database, in one section of the lock or in      *)
(* several, gets an answer that the database would have given at one moment *)
(* since the request began: the list of transactions is that of the block,  *)
(* and the read-only call sees one state.  get_account, get_tx and          *)
(* get_stats promise less.                                                  *)
ReadsAreAtomic ==
    \A k \in Task : task[k].pc = "done" =>
        LET got == task[k].got  r == Request(k) IN
        \E i \in task[k].from .. Len(log) :
            LET d == log[i] IN
            CASE r.type = "get_block" ->
                    /\ got[1] = load_block(d, r.height)
                    /\ Len(got) = 2 => got[2] = d.blocks[got[1]]
              [] r.type = "get_receipt" -> got = <<Receipt(d, r.tx)>>
              [] r.type = "get_network" -> got = <<d.config>>
              [] r.type = "ro_exec" -> got = <<d, r.code \in d.code>>
              [] OTHER -> TRUE

(* An account and its data are read in several sections, and may come from  *)
(* different blocks; but from none before the request began, and a value is *)
(* never older than one that was read before it.                            *)
AccountReadsForward ==
    \A k \in Task :
        task[k].pc = "done" /\ Request(k).type = "get_account" =>
            LET got == task[k].got IN
            /\ got[1] >= log[task[k].from].data
            /\ \A i, j \in DOMAIN got : i <= j => got[i] <= got[j]

(* get_transaction_handler looks in the database and then in the pool, and  *)
(* misses a transaction that goes from one to the other in between.  When   *)
(* it misses one that the node had, that is because its block was merged:   *)
(* whoever asks again gets it.                                              *)
MissedIsMerged ==
    \A k \in Task :
        task[k].pc = "done" /\ task[k].had /\ TRUE \notin Range(task[k].got) =>
            Request(k).tx \in Committed(snap)

(* Does not hold: TransactionDataBulkV1::verify has the nodes of a bulk     *)
(* signed each by its caller ("Subsequent transactions are a vector of      *)
(* signed transactions"), but intake calls Transaction::verify.             *)
NodesSigned ==
    \A t \in txs \cup Committed(backend) :
        \A i \in DOMAIN t.nodes : t.nodes[i].signed

(* A contract is called only when its code has been in a fork, though that  *)
(* fork may have been dropped since: a module in the cache is not looked up *)
(* again.                                                                   *)
CalledWasStored == called \subseteq seen

(* The cache has at most one module more than its limit, which is tested    *)
(* before a module is added: "if len > self.cache_max".                     *)
CacheBound == Cardinality(cache) <= CacheMax + 1

(* Does not hold: "If the cache max size has been reached, it removes the   *)
(* least recently used", with cache_max the "Maximum cache size".           *)
CacheWithinMax == Cardinality(cache) <= CacheMax

(* The events of a transaction are published before its block is merged:    *)
(* at least once when it gets there with success, at most once for each     *)
(* execution of its block, and never when the fuel was not paid.            *)
EventsPublished ==
    \A t \in Tx :
        /\ emitted[t] <= failures
                         + Cardinality({i \in DOMAIN backend.blocks : t \in Range(backend.blocks[i])})
                         + (IF exec.pc = "run" THEN 1 ELSE 0)
        /\ t \in backend.ok => emitted[t] > 0
        /\ t.fail = "fuel" => emitted[t] = 0

(* Every request is answered, also when a read-only call holds the lock. *)
RequestsEnd == \A k \in Task : task[k].pc # "idle" ~> task[k].pc = "done"
=============================================================================

-------------------------------- MODULE Node --------------------------------
(***************************************************************************)
(* The blockchain service of one node: the transactions pool shared by all *)
(* its tasks, the chain of blocks in the database, and the tasks that move *)
(* transactions from the one to the other:                                 *)
(*                                                                         *)
(*   worker     polls the requests channel and a timer, spawns the others  *)
(*   handlers   one dispatcher task for every message received             *)
(*   builders   take the unconfirmed transactions into blocks to execute   *)
(*   executors  execute those blocks and merge them into the database      *)
(*   aligner    brings in the blocks that the node has missed              *)
(*                                                                         *)
(* The tasks run on several threads and share the state behind             *)
(* Arc<RwLock<Pool>> and Arc<RwLock<Db>>.  One action is what a task does  *)
(* between taking one of these locks and releasing it.                     *)
(***************************************************************************)
EXTENDS Integers, Sequences, FiniteSets, FiniteSetsExt, QueueSet

CONSTANTS
    Tx,             \* transactions, identified with their primary hash
    Key,            \* public keys of the other nodes
    Self,           \* public key of this node
    NoKey,          \* Option::None for a public key
    Validators,     \* the keys is_validator_closure accepts
    IsValidator,    \* is_validator_closure on the own account, read at start
    Threshold,      \* BlockConfig.threshold
    Bootstrap,      \* transactions handed to put_txs before the start
    RemoteChain,    \* the blocks the other nodes have, from height 0
    Synced,         \* how many of them this node starts with
    Lists           \* how the transaction list of a received block may be:
                    \* "none", "right", or "wrong" (not that of the block)

CONSTANTS
    Handlers,       \* slots for the concurrent dispatcher tasks
    Builders,       \* slots for the builder tasks
    Executors       \* slots for the executor tasks

CONSTANTS           \* bounds on what the environment does
    MaxSends,       \* times that one message is received
    MaxCrashes,     \* times that the process is killed and restarted
    MaxFaults,      \* times that fork_merge, or a validator check, fails
    MaxHeight       \* the last height the builder reaches

-----------------------------------------------------------------------------
(***************************************************************************)
(* Blocks.  The primary hash of a block commits to the block and, through  *)
(* prev_hash, to all those before it.  It is collision free, so the model  *)
(* represents it by that history: the sequence of the block bodies.  No    *)
(* block hashes to the empty sequence, which is Hash::default() where it   *)
(* is a prev_hash and None where it is the expected hash of a BlockInfo.   *)
(***************************************************************************)
Body == [height : Nat, validator : Key \cup {Self, NoKey}, txs : Seq(Tx)]
Hash == Seq(Body)
NoHash == <<>>

Block == [height : Nat, validator : Key \cup {Self, NoKey}, txs : Seq(Tx),
          prev : Hash]
PrimaryHash(b) ==
    Append(b.prev, [height |-> b.height, validator |-> b.validator,
                    txs |-> b.txs])

(* The entries of pool.confirmed.  `known` tells txs_hashes Some from None. *)
(* A validator is never there without its signature.                        *)
BlockInfo == [hash : Hash, validator : Key \cup {Self, NoKey},
              known : BOOLEAN, txs : Seq(Tx)]
NoInfo == [hash |-> NoHash, validator |-> NoKey, known |-> FALSE, txs |-> <<>>]

(* The block that the other nodes have at a height, as a message carries it. *)
RemoteHash(h) == SubSeq(RemoteChain, 1, h + 1)
RemoteInfo(h, list) ==
    [hash  |-> RemoteHash(h), validator |-> RemoteChain[h + 1].validator,
     known |-> list # "none",
     txs   |-> IF list = "right" THEN RemoteChain[h + 1].txs ELSE <<>>]
InitialChain ==
    [i \in 1 .. Synced |-> [height    |-> RemoteChain[i].height,
                            validator |-> RemoteChain[i].validator,
                            txs       |-> RemoteChain[i].txs,
                            prev      |-> SubSeq(RemoteChain, 1, i - 1)]]

ASSUME NodeAssumption ==
    /\ Self \notin Key /\ NoKey \notin Key /\ Self # NoKey
    /\ Validators \subseteq Key \cup {Self}
    /\ IsValidator \in BOOLEAN
    /\ Threshold \in Nat \ {0}
    /\ Lists \subseteq {"none", "right", "wrong"}
    /\ RemoteChain \in Seq(Body)
    /\ Synced \in 0 .. Len(RemoteChain)
    /\ \A i \in 1 .. Len(RemoteChain) : RemoteChain[i].height = i - 1
    /\ Bootstrap \in Seq(Tx) /\ IsInjective(Bootstrap)
    /\ Bootstrap # <<>> => Synced = 0
    /\ MaxSends \in Nat /\ MaxCrashes \in Nat /\ MaxFaults \in Nat
    /\ MaxHeight \in Nat

-----------------------------------------------------------------------------
VARIABLES
    chain,          \* the blocks list of the database
    txs,            \* pool.txs: "absent", "hash" (None) or "full" (Some)
    unconfirmed,    \* pool.unconfirmed, a QueueSet
    confirmed,      \* pool.confirmed, from heights to block infos
    aligned,        \* the aligner status: TRUE when not aligning
    building,       \* the flag that a builder task exists
    executing,      \* the flag that an executor task exists
    agenda,         \* what the worker still does before it polls again
    handler,        \* the dispatcher tasks
    builder,        \* the builder tasks
    executor,       \* the executor tasks
    aligner,        \* the aligner thread
    sent,           \* how often each message was received
    crashes, faults \* how often the environment interfered

pool == <<txs, unconfirmed, confirmed>>
worker == <<building, executing, agenda>>
env == <<sent, crashes, faults>>
vars == <<chain, pool, aligned, worker, handler, builder, executor, aligner, env>>

(* The messages that change the node: a transaction (PutTransactionRequest  *)
(* or GetTransactionResponse) and a block, whose list nobody checks yet.    *)
Message ==
    [type : {"tx"}, tx : Tx] \cup
    [type : {"block"}, height : 0 .. Len(RemoteChain) - 1, list : Lists]

Idle == [pc |-> "idle"]
IdleBuilder == [pc |-> "idle", height |-> 0, count |-> 0]
IdleExecutor == [pc |-> "idle", height |-> 0, prev |-> NoHash, info |-> NoInfo]
IdleAligner == [pc |-> "sleep", next |-> 0, target |-> 0, last |-> 0]

(* put_txs on the empty pool of a node that starts. *)
put_txs(ts) ==
    /\ txs = [t \in Tx |-> IF t \in Range(ts) THEN "full" ELSE "absent"]
    /\ unconfirmed = [fifo |-> ts, set |-> Range(ts)]
    /\ confirmed = <<>>

Init ==
    /\ chain = InitialChain
    /\ put_txs(Bootstrap)
    /\ aligned = TRUE
    /\ building = FALSE /\ executing = FALSE /\ agenda = <<>>
    /\ handler = [c \in Handlers |-> Idle]
    /\ builder = [b \in Builders |-> IdleBuilder]
    /\ executor = [e \in Executors |-> IdleExecutor]
    /\ aligner = IdleAligner
    /\ sent = [m \in Message |-> 0]
    /\ crashes = 0 /\ faults = 0

-----------------------------------------------------------------------------
(* Database reads.  load_block(u64::MAX) is the last block of the list. *)
NextHeight == IF chain = <<>> THEN 0 ELSE chain[Len(chain)].height + 1
TipHash == IF chain = <<>> THEN NoHash ELSE PrimaryHash(chain[Len(chain)])
contains_transaction(t) == \E i \in DOMAIN chain : t \in Range(chain[i].txs)

(* BTreeMap::insert and BTreeMap::remove. *)
Insert(map, k, v) == [x \in DOMAIN map \cup {k} |-> IF x = k THEN v ELSE map[x]]
Delete(map, k) == [x \in DOMAIN map \ {k} |-> map[x]]

-----------------------------------------------------------------------------
(* The worker: BlockWorker::run and the functions it calls. *)

(* A task that is about to take, or holds, the write lock of the pool. *)
PoolContended ==
    \/ \E c \in Handlers : handler[c].pc \in {"put_pool", "block_pool"}
    \/ \E b \in Builders : builder[b].pc = "fill"
    \/ \E e \in Executors : executor[e].pc \in {"steal", "exec", "clean"}
    \/ aligner.pc = "update"

(* Builder::can_run.  try_read gives up, and counts no transactions, when *)
(* the pool is locked.                                                    *)
can_build(threshold) == len(unconfirmed) >= threshold

(* Executor::can_run(height) *)
can_exec(height) ==
    /\ height \in DOMAIN confirmed
    /\ confirmed[height].known
    /\ \A t \in Range(confirmed[height].txs) : txs[t] = "full"

(* The timer expires: try_build_block(1) on an aligned validator, and       *)
(* try_exec_block.  The status is looked at when try_build_block begins.    *)
timer_calls_build == <<"build_any">>        \* mutant: try_exec_block is left out
timer_calls == IF IsValidator THEN <<"build_any", "exec">> ELSE <<"exec">>

Timer ==
    /\ agenda = <<>>
    /\ agenda' = timer_calls
    /\ UNCHANGED <<chain, pool, aligned, building, executing, handler, builder,
                   executor, aligner, env>>

(* A message arrives: handle_message spawns a dispatcher task for it, then *)
(* a validator tries to execute and, if aligned, to build a full block.    *)
Receive(c, m) ==
    /\ agenda = <<>>
    /\ handler[c] = Idle
    /\ sent[m] < MaxSends
    /\ sent' = [sent EXCEPT ![m] = @ + 1]
    /\ handler' = [handler EXCEPT ![c] =
           IF m.type = "tx"
           THEN [pc |-> "put_db", tx |-> m.tx]
           ELSE [pc |-> "block_db", height |-> m.height, list |-> m.list,
                 start |-> 0]]
    /\ agenda' = IF IsValidator THEN <<"exec", "build_full">> ELSE <<>>
    /\ UNCHANGED <<chain, pool, aligned, building, executing, builder, executor,
                   aligner, crashes, faults>>

(* try_build_block up to the test of the `building` flag. *)
TryBuild ==
    /\ agenda # <<>> /\ Head(agenda) \in {"build_any", "build_full"}
    /\ \/ /\ aligned
          /\ can_build(IF Head(agenda) = "build_any" THEN 1 ELSE Threshold)
          /\ agenda' = <<"spawn_builder">> \o Tail(agenda)
       \/ /\ \/ ~aligned
             \/ ~can_build(IF Head(agenda) = "build_any" THEN 1 ELSE Threshold)
             \/ PoolContended
          /\ agenda' = Tail(agenda)
    /\ UNCHANGED <<chain, pool, aligned, building, executing, handler, builder,
                   executor, aligner, env>>

(* building.swap(true): a task is spawned only by who finds it false. *)
SpawnBuilder ==
    /\ agenda # <<>> /\ Head(agenda) = "spawn_builder"
    /\ agenda' = Tail(agenda)
    /\ building' = TRUE
    /\ IF ~building
       THEN \E b \in Builders :
                /\ builder[b] = IdleBuilder
                /\ builder' = [builder EXCEPT ![b].pc = "start"]
       ELSE UNCHANGED builder
    /\ UNCHANGED <<chain, pool, aligned, executing, handler, executor, aligner,
                   env>>

(* try_exec_block up to the test of the `executing` flag.  The height is read  *)
(* from the database and the slot from the pool: a block merged between the    *)
(* two leaves the slot busy or free, and the flag up or about to be tested by  *)
(* the executor itself, so the two reads are one step here.                    *)
TryExec ==
    /\ agenda # <<>> /\ Head(agenda) = "exec"
    /\ agenda' = IF can_exec(NextHeight)
                 THEN <<"spawn_executor">> \o Tail(agenda)
                 ELSE Tail(agenda)
    /\ UNCHANGED <<chain, pool, aligned, building, executing, handler, builder,
                   executor, aligner, env>>

(* executing.swap(true) *)
may_spawn(flag) == ~flag

SpawnExecutor ==
    /\ agenda # <<>> /\ Head(agenda) = "spawn_executor"
    /\ agenda' = Tail(agenda)
    /\ executing' = TRUE
    /\ IF may_spawn(executing)
       THEN \E e \in Executors :
                /\ executor[e] = IdleExecutor
                /\ executor' = [executor EXCEPT ![e].pc = "start"]
       ELSE UNCHANGED executor
    /\ UNCHANGED <<chain, pool, aligned, building, handler, builder, aligner, env>>

-----------------------------------------------------------------------------
(* The dispatcher tasks. *)

(* put_transaction_internal up to the check against the database. *)
PutCheck(c) ==
    /\ handler[c].pc = "put_db"
    /\ handler' = [handler EXCEPT ![c] =
           IF contains_transaction(@.tx) THEN Idle ELSE [@ EXCEPT !.pc = "put_pool"]]
    /\ UNCHANGED <<chain, pool, aligned, worker, builder, executor, aligner, env>>

(* put_transaction_internal under the write lock of the pool. *)
PutPool(c) ==
    /\ handler[c].pc = "put_pool"
    /\ LET t == handler[c].tx
       IN  /\ txs' = [txs EXCEPT ![t] = "full"]
           /\ unconfirmed' = IF txs[t] = "absent" THEN push(unconfirmed, t)
                                                  ELSE unconfirmed
    /\ handler' = [handler EXCEPT ![c] = Idle]
    /\ UNCHANGED <<chain, confirmed, aligned, worker, builder, executor, aligner,
                   env>>

(* get_block_res_handler up to the read of the last block. *)
BlockCheck(c) ==
    /\ handler[c].pc = "block_db"
    /\ handler' = [handler EXCEPT ![c].pc = "block_next", ![c].start = NextHeight]
    /\ UNCHANGED <<chain, pool, aligned, worker, builder, executor, aligner, env>>

(* The test that the block is the next one and that the node is aligned. *)
is_next(start, height) == start + 1 = height

BlockNext(c) ==
    /\ handler[c].pc = "block_next"
    /\ handler' = [handler EXCEPT ![c] =
           CASE is_next(@.start, @.height) /\ aligned -> [@ EXCEPT !.pc = "block_pool"]
             [] @.start <= @.height /\ ~(is_next(@.start, @.height) /\ aligned)
                                   -> [@ EXCEPT !.pc = "block_missed"]
             [] OTHER -> Idle]
    /\ UNCHANGED <<chain, pool, aligned, worker, builder, executor, aligner, env>>

(* The aligner is launched, or given the block when it is already at work. *)
BlockMissed(c) ==
    /\ handler[c].pc = "block_missed"
    /\ aligned' = FALSE
    /\ handler' = [handler EXCEPT ![c] = Idle]
    /\ UNCHANGED <<chain, pool, worker, builder, executor, aligner, env>>

(* The pool as a block taken from other nodes leaves it: its transactions   *)
(* are no longer unconfirmed, and those not in the pool are waited for.     *)
TakeBlock(h, list) ==
    LET info == RemoteInfo(h, list) IN
    /\ unconfirmed' \in without(unconfirmed, Range(info.txs))
    /\ txs' = [t \in Tx |-> IF t \in Range(info.txs) /\ txs[t] = "absent"
                            THEN "hash" ELSE txs[t]]
    /\ confirmed' = Insert(confirmed, h, info)

BlockPool(c) ==
    /\ handler[c].pc = "block_pool"
    /\ TakeBlock(handler[c].height, handler[c].list)
    /\ handler' = [handler EXCEPT ![c] = Idle]
    /\ UNCHANGED <<chain, aligned, worker, builder, executor, aligner, env>>

-----------------------------------------------------------------------------
(* The builder tasks: Builder::run. *)

(* The height after the last block to execute or, when there is none, after *)
(* the last block executed.  The pool is locked over the database read.     *)
first_height ==
    IF DOMAIN confirmed = {} THEN NextHeight ELSE Max(DOMAIN confirmed) + 1

BuildStart(b) ==
    /\ builder[b].pc = "start"
    /\ builder' = [builder EXCEPT ![b].pc = "count", ![b].height = first_height]
    /\ UNCHANGED <<chain, pool, aligned, worker, handler, executor, aligner, env>>

BuildCount(b) ==
    /\ builder[b].pc = "count"
    /\ builder' = [builder EXCEPT ![b].pc = "fill", ![b].count = len(unconfirmed)]
    /\ UNCHANGED <<chain, pool, aligned, worker, handler, executor, aligner, env>>

(* What the builder puts in a block. *)
block_txs == firstN(unconfirmed, Threshold)

(* count.checked_sub(n).unwrap_or_default() *)
remaining_unchecked(count, n) == count - n          \* mutant
remaining(count, n) == IF n <= count THEN count - n ELSE 0

(* One turn of the inner loop.  The queue may hold less than was counted, or *)
(* nothing: the block is made all the same, and the loop goes on while the   *)
(* count is not zero.  A builder that reaches MaxHeight stays in the loop,   *)
(* as the code does; only the blocks it would go on to make are left out.    *)
BuildFill(b) ==
    /\ builder[b].pc = "fill" /\ builder[b].count > 0
    /\ builder[b].height <= MaxHeight
    /\ unconfirmed' = popN(unconfirmed, Len(block_txs))
    /\ confirmed' = Insert(confirmed, builder[b].height,
                           [NoInfo EXCEPT !.known = TRUE, !.txs = block_txs])
    /\ builder' = [builder EXCEPT
           ![b].height = @ + 1,
           ![b].count = remaining(@, Len(block_txs))]
    /\ UNCHANGED <<chain, txs, aligned, worker, handler, executor, aligner, env>>

(* The count is taken again: the loop ends when it is below the threshold. *)
is_last_reversed(count) == count > Threshold        \* mutant
is_last(count) == count < Threshold

BuildRecount(b) ==
    /\ builder[b].pc = "fill" /\ builder[b].count = 0
    /\ builder' = [builder EXCEPT
           ![b].pc = IF is_last(len(unconfirmed)) THEN "done" ELSE "fill",
           ![b].count = len(unconfirmed)]
    /\ UNCHANGED <<chain, pool, aligned, worker, handler, executor, aligner, env>>

BuildDone(b) ==
    /\ builder[b].pc = "done"
    /\ builder' = [builder EXCEPT ![b] = IdleBuilder]
    /\ building' = FALSE
    /\ UNCHANGED <<chain, pool, aligned, executing, agenda, handler, executor,
                   aligner, env>>

-----------------------------------------------------------------------------
(* The executor tasks: Executor::run. *)

ExecStart(e) ==
    /\ executor[e].pc = "start"
    /\ executor' = [executor EXCEPT ![e].pc = "steal", ![e].height = NextHeight,
                                    ![e].prev = TipHash]
    /\ UNCHANGED <<chain, pool, aligned, worker, handler, builder, aligner, env>>

(* What stays in the slot while its block is executed: the slot is busy. *)
busy_with_txs(info) ==                      \* mutant: the hashes are copied
    [info EXCEPT !.validator = NoKey]
busy(info) == [info EXCEPT !.validator = NoKey, !.txs = <<>>]
free_slot(h) == Delete(confirmed, h)        \* mutant: the slot is not kept
take_slot(h) == [confirmed EXCEPT ![h] = busy(@)]

ExecSteal(e) ==
    LET h == executor[e].height IN
    /\ executor[e].pc = "steal"
    /\ IF h \in DOMAIN confirmed /\ confirmed[h].known
       THEN /\ executor' = [executor EXCEPT ![e].pc = "exec",
                                            ![e].info = confirmed[h]]
            /\ confirmed' = take_slot(h)
       ELSE /\ executor' = [executor EXCEPT ![e].pc = "done"]
            /\ UNCHANGED confirmed
    /\ UNCHANGED <<chain, txs, unconfirmed, aligned, worker, handler, builder,
                   aligner, env>>

(* The block that exec_block makes of what the executor has stolen. *)
NewBlock(e) ==
    LET x == executor[e] IN
    [height    |-> x.height,
     validator |-> IF x.info.validator # NoKey THEN x.info.validator
                   ELSE IF x.height = 0 THEN NoKey ELSE Self,
     txs       |-> x.info.txs,
     prev      |-> x.prev]

all_full(ts) == \A t \in Range(ts) : txs[t] = "full"

(* The signature verifies when it was made of this same block. *)
acceptable_unhashed(info, block) == \* mutant: only the validator is checked
    info.validator # NoKey => info.validator \in Validators
acceptable(info, block) ==
    /\ info.validator # NoKey => /\ PrimaryHash(block) = info.hash
                                 /\ info.validator \in Validators
    /\ info.hash # NoHash => PrimaryHash(block) = info.hash

(* exec_transactions finds that a transaction is not there, and panics: the *)
(* task is gone and nobody clears its flag.                                 *)
ExecPanic(e) ==
    /\ executor[e].pc = "exec"
    /\ ~all_full(executor[e].info.txs)
    /\ executor' = [executor EXCEPT ![e].pc = "dead"]
    /\ UNCHANGED <<chain, pool, aligned, worker, handler, builder, aligner, env>>

(* exec_block succeeds: its last step merges the fork into the database. *)
ExecCommit(e) ==
    /\ executor[e].pc = "exec"
    /\ all_full(executor[e].info.txs)
    /\ acceptable(executor[e].info, NewBlock(e))
    /\ chain' = Append(chain, NewBlock(e))
    /\ executor' = [executor EXCEPT ![e].pc = "clean",
                                    ![e].prev = PrimaryHash(NewBlock(e))]
    /\ UNCHANGED <<pool, aligned, worker, handler, builder, aligner, env>>

(* exec_block fails: the block is not the expected one, or its validator is *)
(* not one, or the validator check or the merge itself fails (a fault).     *)
(* What was stolen goes back to its slot.                                   *)
put_back(x) == Insert(confirmed, x.height, x.info)

ExecFail(e) ==
    /\ executor[e].pc = "exec"
    /\ all_full(executor[e].info.txs)
    /\ \/ ~acceptable(executor[e].info, NewBlock(e)) /\ UNCHANGED faults
       \/ faults < MaxFaults /\ faults' = faults + 1
    /\ confirmed' = put_back(executor[e])
    /\ executor' = [executor EXCEPT ![e].pc = "done"]
    /\ UNCHANGED <<chain, txs, unconfirmed, aligned, worker, handler, builder,
                   aligner, sent, crashes>>

(* The slot is freed, and the transactions of the block leave the pool. *)
advanced_not(x) == [x EXCEPT !.pc = "next", !.info = NoInfo]    \* mutant
advanced(x) ==
    [pc |-> "next", height |-> x.height + 1, prev |-> x.prev, info |-> NoInfo]

ExecClean(e) ==
    /\ executor[e].pc = "clean"
    /\ confirmed' = Delete(confirmed, executor[e].height)
    /\ txs' = [t \in Tx |-> IF t \in Range(executor[e].info.txs) THEN "absent"
                                                                 ELSE txs[t]]
    /\ executor' = [executor EXCEPT ![e] = advanced(@)]
    /\ UNCHANGED <<chain, unconfirmed, aligned, worker, handler, builder, aligner,
                   env>>

ExecNext(e) ==
    /\ executor[e].pc = "next"
    /\ executor' = [executor EXCEPT
           ![e].pc = IF can_exec(executor[e].height) THEN "steal" ELSE "done"]
    /\ UNCHANGED <<chain, pool, aligned, worker, handler, builder, aligner, env>>

ExecDone(e) ==
    /\ executor[e].pc = "done"
    /\ executor' = [executor EXCEPT ![e] = IdleExecutor]
    /\ executing' = FALSE
    /\ UNCHANGED <<chain, pool, aligned, building, agenda, handler, builder,
                   aligner, env>>

-----------------------------------------------------------------------------
(***************************************************************************)
(* The aligner thread, as the rest of the node sees it.  How it finds      *)
(* peers and collects blocks from them is abstracted to the outcome: some  *)
(* range of the blocks it has missed, or an abandoned attempt.             *)
(***************************************************************************)
AlignWake ==
    /\ aligner.pc = "sleep" /\ ~aligned
    /\ aligner' = [aligner EXCEPT !.pc = "blocks"]
    /\ UNCHANGED <<chain, pool, aligned, worker, handler, builder, executor, env>>

(* find_trusted_peers asks the peers for their last blocks, and filter_peers *)
(* keeps those of one block that the node does not have.                     *)
find_trusted_peers == 0 .. Len(RemoteChain) - 1
filter_peers(heights) == {h \in heights : h >= NextHeight}

(* collect_missing_blocks: the blocks up to that of the trusted peers, and   *)
(* maybe some after it that arrived though nobody asked for them.            *)
collected(target) == target .. Len(RemoteChain) - 1

AlignBlocks ==
    /\ aligner.pc = "blocks" /\ chain # <<>>
    /\ \E target \in filter_peers(find_trusted_peers) :
       \E last \in collected(target) :
           aligner' = [pc |-> "txs", next |-> NextHeight, target |-> target,
                       last |-> last]
    /\ UNCHANGED <<chain, pool, aligned, worker, handler, builder, executor, env>>

(* collect_missing_txs: the dispatcher has put in the pool all those that    *)
(* were asked for, which are those of the blocks up to `target`.             *)
AlignTxs ==
    /\ aligner.pc = "txs"
    /\ \A h \in aligner.next .. aligner.target :
           \A t \in Range(RemoteChain[h + 1].txs) :
               txs[t] = "full" \/ contains_transaction(t)
    /\ aligner' = [aligner EXCEPT !.pc = "update"]
    /\ UNCHANGED <<chain, pool, aligned, worker, handler, builder, executor, env>>

(* update_pool, which locks the pool for one block at a time. *)
AlignUpdate ==
    /\ aligner.pc = "update" /\ aligner.next <= aligner.last
    /\ TakeBlock(aligner.next, "right")
    /\ aligner' = [aligner EXCEPT !.next = @ + 1]
    /\ UNCHANGED <<chain, aligned, worker, handler, builder, executor, env>>

(* reset, when the blocks are executed or any of the steps has failed. *)
AlignReset ==
    /\ \/ aligner.pc \in {"blocks", "txs"}
       \/ /\ aligner.pc = "update" /\ aligner.next > aligner.last
          /\ NextHeight > aligner.target
    /\ aligner' = IdleAligner
    /\ aligned' = TRUE
    /\ UNCHANGED <<chain, pool, worker, handler, builder, executor, env>>

-----------------------------------------------------------------------------
(* The process is killed and started again: only the database survives. *)
Reopened_new == InitialChain        \* mutant: the database is made anew
Reopened == chain

Crash ==
    /\ crashes < MaxCrashes
    /\ crashes' = crashes + 1
    /\ txs' = [t \in Tx |-> IF chain = <<>> /\ t \in Range(Bootstrap)
                            THEN "full" ELSE "absent"]
    /\ unconfirmed' = IF chain = <<>>
                      THEN [fifo |-> Bootstrap, set |-> Range(Bootstrap)]
                      ELSE emptyQueue
    /\ confirmed' = <<>>
    /\ aligned' = TRUE
    /\ building' = FALSE /\ executing' = FALSE /\ agenda' = <<>>
    /\ handler' = [c \in Handlers |-> Idle]
    /\ builder' = [b \in Builders |-> IdleBuilder]
    /\ executor' = [e \in Executors |-> IdleExecutor]
    /\ aligner' = IdleAligner
    /\ chain' = Reopened
    /\ UNCHANGED <<sent, faults>>

WorkerStep == Timer \/ TryBuild \/ SpawnBuilder \/ TryExec \/ SpawnExecutor
HandlerStep(c) ==
    PutCheck(c) \/ PutPool(c) \/ BlockCheck(c) \/ BlockNext(c) \/ BlockMissed(c)
        \/ BlockPool(c)
BuilderStep(b) ==
    BuildStart(b) \/ BuildCount(b) \/ BuildFill(b) \/ BuildRecount(b)
        \/ BuildDone(b)
ExecutorStep(e) ==
    ExecStart(e) \/ ExecSteal(e) \/ ExecPanic(e) \/ ExecCommit(e) \/ ExecFail(e)
        \/ ExecClean(e) \/ ExecNext(e) \/ ExecDone(e)
AlignerStep == AlignWake \/ AlignBlocks \/ AlignTxs \/ AlignUpdate \/ AlignReset

Next ==
    \/ WorkerStep
    \/ \E c \in Handlers, m \in Message : Receive(c, m)
    \/ \E c \in Handlers : HandlerStep(c)
    \/ \E b \in Builders : BuilderStep(b)
    \/ \E e \in Executors : ExecutorStep(e)
    \/ AlignerStep
    \/ Crash

Spec == Init /\ [][Next]_vars

(***************************************************************************)
(* Fairness.  The runtime polls every task that can run, the timer fires   *)
(* again and again, and the aligner is a thread of its own.  Nothing       *)
(* obliges messages to arrive, or crashes and faults to happen.            *)
(***************************************************************************)
Fairness ==
    /\ WF_vars(WorkerStep)
    /\ \A c \in Handlers : WF_vars(HandlerStep(c))
    /\ \A b \in Builders : WF_vars(BuilderStep(b))
    /\ \A e \in Executors : WF_vars(ExecutorStep(e))
    /\ WF_vars(AlignerStep)

FairSpec == Spec /\ Fairness

-----------------------------------------------------------------------------
Task == [pc : {"idle"}] \cup [pc : {"put_db", "put_pool"}, tx : Tx] \cup
        [pc : {"block_db", "block_next", "block_missed", "block_pool"},
         height : 0 .. Len(RemoteChain) - 1, list : Lists, start : Nat]

(* No block is to be executed above the bound on what the builder makes and *)
(* what the other nodes have.                                               *)
TopHeight == MaxHeight + Len(RemoteChain)

TypeChain == chain \in Seq(Block)

TypePool ==
    /\ txs \in [Tx -> {"absent", "hash", "full"}]
    /\ unconfirmed \in QueueOf(Tx)
    /\ DOMAIN confirmed \subseteq 0 .. TopHeight
    /\ \A h \in DOMAIN confirmed : confirmed[h] \in BlockInfo

Call == {"build_any", "build_full", "spawn_builder", "exec", "spawn_executor"}
TypeWorker ==
    /\ aligned \in BOOLEAN /\ building \in BOOLEAN /\ executing \in BOOLEAN
    /\ agenda \in Seq(Call)

TypeHandlers == handler \in [Handlers -> Task]

TypeBuilders ==
    builder \in [Builders -> [pc : {"idle", "start", "count", "fill", "done"},
                              height : Nat, count : Nat]]

TypeExecutors ==
    /\ executor \in [Executors ->
           [pc : {"idle", "start", "steal", "exec", "clean", "next", "done", "dead"},
            height : Nat, prev : Hash, info : BlockInfo]]
    /\ \A e \in Executors : executor[e].pc = "exec" => executor[e].height <= TopHeight

TypeAligner ==
    /\ aligner \in [pc : {"sleep", "blocks", "txs", "update"}, next : Nat,
                    target : Nat, last : Nat]
    /\ aligner.pc \in {"txs", "update"} => aligner.last < Len(RemoteChain)

TypeEnv ==
    /\ sent \in [Message -> 0 .. MaxSends]
    /\ crashes \in 0 .. MaxCrashes /\ faults \in 0 .. MaxFaults

(* Every variable keeps the type of the field of the code it stands for, and *)
(* the heights that an executor and the aligner carry along stay in bounds.  *)
TypeOK ==
    /\ TypeChain /\ TypePool /\ TypeWorker /\ TypeHandlers /\ TypeBuilders
    /\ TypeExecutors /\ TypeAligner /\ TypeEnv

(***************************************************************************)
(* The chain in the database is well formed: the block at each position    *)
(* has that height and the hash of the block before it.  The executor      *)
(* reads the tip once, when it starts, and carries height and prev_hash    *)
(* along while other tasks run, so this rests on the `executing` flag.     *)
(***************************************************************************)
ChainLinked ==
    \A i \in 1 .. Len(chain) :
        /\ chain[i].height = i - 1
        /\ chain[i].prev = IF i = 1 THEN NoHash ELSE PrimaryHash(chain[i - 1])

(* There is one executor at most, and none while the flag is down. *)
OneExecutor ==
    /\ ~executing => \A e \in Executors : executor[e].pc = "idle"
    /\ \A e, f \in Executors : executor[e].pc # "idle" /\ executor[f].pc # "idle" =>
                                   e = f

(* The height and prev_hash that an executor carries along are those of the *)
(* tip of the chain as it is now, however long ago it has read them: nobody *)
(* else has added a block.                                                  *)
ExecutorAtTip ==
    \A e \in Executors :
        /\ executor[e].pc \in {"steal", "exec", "next"} =>
               executor[e].height = Len(chain) /\ executor[e].prev = TipHash
        /\ executor[e].pc = "clean" =>
               executor[e].height + 1 = Len(chain) /\ executor[e].prev = TipHash

(* Where a transaction of the pool waits: in the queue, in the slot of a *)
(* block to execute, or with the executor that has stolen that block.    *)
Holders(t) ==
    {<<"unconfirmed", x>> : x \in {y \in {"queue"} : contains(unconfirmed, t)}} \cup
    {<<"confirmed", h>> : h \in {k \in DOMAIN confirmed : t \in Range(confirmed[k].txs)}}
        \cup
    {<<"executor", e>> : e \in {x \in Executors : /\ executor[x].pc \in {"exec", "clean"}
                                                  /\ t \in Range(executor[x].info.txs)}}

(***************************************************************************)
(* In a node that receives no blocks a transaction of the pool is waiting  *)
(* in exactly one place, and one that is not in the pool waits nowhere:    *)
(* none is lost between queue, slot and executor, and none is put in two   *)
(* blocks.                                                                 *)
(***************************************************************************)
TxAccounted ==
    \A t \in Tx : IF txs[t] = "full" THEN \E p \in Holders(t) : Holders(t) = {p}
                                     ELSE Holders(t) = {}

(* The lowest height that can have a slot: the block just merged keeps its *)
(* slot until the executor comes to clean it.                              *)
LowestSlot ==
    IF \E e \in Executors : executor[e].pc = "clean" THEN NextHeight - 1
                                                     ELSE NextHeight

(***************************************************************************)
(* In a node that receives no blocks the slots follow the chain without a  *)
(* gap, and a builder at work is about to fill the one after the last.  A  *)
(* gap would stop the executor for good, and a height behind the chain     *)
(* would make a block that is never executed.  This is what leaving the    *)
(* slot busy during the execution is for.                                  *)
(***************************************************************************)
SlotsContiguous ==
    /\ DOMAIN confirmed = LowestSlot .. first_height - 1
    /\ \A b \in Builders : builder[b].pc \in {"count", "fill"} =>
                               builder[b].height = first_height

(* "Unexpected missing transaction during execution": the panic of          *)
(* exec_transactions does not happen.                                       *)
NoPanic == \A e \in Executors : executor[e].pc # "dead"

(* "Block is created with at least one transaction": no block that the node *)
(* makes is empty.  Not so for a validator that also receives blocks: one   *)
(* of them may take the transactions that the builder has counted.          *)
BlockNotEmpty ==
    \A i \in 1 .. Len(chain) : chain[i].validator \in {Self, NoKey} =>
                                   chain[i].txs # <<>>

(* No transaction is executed twice: put_transaction_internal refuses the   *)
(* ones that are confirmed already.                                         *)
NoDoubleCommit ==
    /\ \A i, j \in 1 .. Len(chain) :
           Range(chain[i].txs) \cap Range(chain[j].txs) # {} => i = j
    /\ \A i \in 1 .. Len(chain) : IsInjective(chain[i].txs)

(* A node that is no validator has the blocks of the validators and no      *)
(* other: whatever arrives and in whatever order, each block it merges is   *)
(* the one that the other nodes have at that height.                        *)
FollowsRemote ==
    /\ Len(chain) <= Len(RemoteChain)
    /\ chain # <<>> => TipHash = RemoteHash(Len(chain) - 1)

(* "In case the received block is the "next block", it means the behaviour  *)
(* is the one expected, the node is aligned": an aligned node that receives *)
(* the block after its last one does not start to realign.  Not so: the     *)
(* test adds one to a height that was increased already.                    *)
NextBlockKeepsAligned ==
    [][\A c \in Handlers :
          /\ handler[c].pc = "block_next" /\ aligned
          /\ handler[c].height = NextHeight /\ handler[c].start = NextHeight
          => handler'[c].pc # "block_missed"]_vars

(* A transaction accepted in the pool is executed in the end, unless the    *)
(* process stops: the pool is in memory only.                               *)
AcceptedIsCommitted ==
    \A t \in Tx, n \in 0 .. MaxCrashes :
        (txs[t] = "full" /\ crashes = n) ~> (contains_transaction(t) \/ crashes > n)

(* A builder has counted more transactions than the queue has: a block that  *)
(* was received has taken some.  The loop waits for as many new ones, and    *)
(* makes empty blocks until they come.                                       *)
Starved(b) == builder[b].pc = "fill" /\ builder[b].count > len(unconfirmed)

(* The flags are given back: a builder that was spawned ends, unless it is   *)
(* left with a count of transactions that are gone, and an executor, unless  *)
(* it panics.                                                                *)
TasksEnd ==
    /\ building ~> (~building \/ \E b \in Builders : Starved(b))
    /\ executing ~> (~executing \/ ~NoPanic)

(* A builder that was spawned ends.  Not so for a validator that also        *)
(* receives blocks.                                                          *)
BuildersEnd == building ~> ~building

(* The node implements the ledger: no step of any task changes the database *)
(* but by adding one block that continues the chain.                        *)
L == INSTANCE Ledger WITH
         ledger <- chain, Genesis <- InitialChain,
         Validator <- Key \cup {Self, NoKey}, TxList <- Seq(Tx),
         HashOf <- PrimaryHash, NoHash <- NoHash
LedgerSpec == L!Spec
=============================================================================

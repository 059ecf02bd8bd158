# TRINCI core: a TLA+ model of the node

TLA+ specifications of `trinci-core`, the library a TRINCI blockchain node is
made of, with TLC models and TLAPS proofs. Paths below are relative to the
repository; lines of code for every definition are in `PROJECT.json` ("map").

## 1. The system

A node is a set of tasks around two shared objects: the **database**
(`db/rocks.rs`, behind a `RwLock`) with accounts, transactions, receipts and the
list of blocks, and the **pool** (`blockchain/pool.rs`, behind another `RwLock`)
with

| field | what it holds |
|---|---|
| `txs` | received transactions by hash; `None` for one known by its hash only |
| `unconfirmed` | a `QueueSet` of the hashes not in a block yet |
| `confirmed` | the slots: by height, the block to build or to check there |

| part | state | what it does | why it is hard |
|---|---|---|---|
| Worker (`blockchain/worker.rs`) | flags `building`, `executing` | polls timer and messages; spawns dispatcher, builder and executor tasks | the flags are tested after the condition they guard was read |
| Dispatcher (`dispatcher.rs`) | none of its own | one task per message: accepts transactions and blocks, wakes the aligner, answers queries | reads database and pool under different locks |
| Builder (`builder.rs`) | height, count | moves unconfirmed transactions to new slots | counts under one lock, pops under another |
| Executor (`executor.rs`) | height, hash of the tip | takes the slot after the tip, executes its transactions on a fork, merges | carries the tip over many lock releases; failed blocks go back |
| Transactions (`executor.rs`) | fork, checkpoint, fuel, receipts | unit and bulk transactions, fuel burned by the service contract | partial failures, a second burn after a rollback |
| Wasm machine (`wm/local.rs`, `wm/host_func.rs`) | call contexts, module cache | nested contract calls that change data and assets | reentrancy, traps, hashes updated on return |
| Random numbers (`crypto/drand.rs`) | five mutexes | the seed contracts draw from | lock order, updates while others read |
| Aligner (`aligner.rs`) | status, collected blocks, peers | brings a node that missed blocks up to date | timeouts, resent requests, busy wait |
| Queue (`base/queue_set.rs`) | a fifo and a set | the unconfirmed transactions | two copies that must agree |
| Indexer (`indexer.rs`) | rows | sends asset changes to an external database | rows of executions that fail or are repeated |
| Database (`db/rocks.rs`) | backend, snapshot | forks, merges, reads | long forks, readers that take the lock several times |
| PubSub, channels (`pubsub.rs`, `channel.rs`) | subscribers, bounded channels | events and replies | reordering, full or closed channels |
| REST, bridge, Kafka (`rest/`, `bridge/`, `kafka/`) | connections | turn requests of users into messages, and forward events | replies that do not come, several writers of one stream |
| P2P (`p2p/`) | tables of peers, requests | gossip and unicast between nodes | one thread that blocks on the blockchain; losses |

The correctness of the whole rests on a few promises: the chain in the database
is linked and only grows; what a node accepts is executed, once; a node executes
the blocks of the validators and no others; a transaction happens entirely or,
but for its fuel, not at all; the same block gives the same state and the same
random numbers everywhere; who reads sees states that were merged; every request
ends; a node that is behind catches up. `PROJECT.json` ("hazards") lists where in
the code each of them is at risk, and which property watches that place.

## 2. Modules

| module | models | extends / uses |
|---|---|---|
| `QueueSet` | `QueueSet` as operators on `[fifo, set]` | |
| `QueueSetSpec` | a queue under any sequence of calls | `QueueSet` |
| `QueueSetProofs` | theorems about it | `QueueSetSpec` |
| `Ledger` | what a chain promises: a log of linked blocks | |
| `Node` | worker, dispatcher, builder, executor, aligner around pool and database | `QueueSet`, instance of `Ledger` |
| `MCNode` | instances of `Node` for TLC | `Node` |
| `NodeProofs` | theorems about any node, about one that is no validator, and about one that receives no blocks | `Node` |
| `TxExec`, `MCTxExec` | the execution of the transactions of a block | |
| `TxExecProofs` | theorems about it | `TxExec` |
| `Wm` | nested contract calls and the data hash of accounts | |
| `WmProofs` | theorems about them | `Wm` |
| `Seed` | the seed of random numbers and its mutexes | |
| `SeedProofs` | theorems about it | `Seed` |
| `Service`, `MCService` | the service's messages: clients, request channel, dispatcher tasks, PubSub | |
| `P2p`, `MCP2p` | the p2p threads of several nodes and the network between them | |
| `P2pProofs` | theorems about them | `P2p` |
| `Store`, `MCStore` | the database and its users: executor with module cache, readers, read-only calls, intake | |
| `StoreProofs` | theorems about `Store` | `Store` |
| `Align`, `MCAlign` | a round of the aligner, message by message | |

The modules cut the node where its parts meet. `Node` has all the tasks that write
to pool and database, with what the aligner does reduced to its effect on the
pool; `Align` has the aligner's messages, and of the rest only the pool and the last
block. `Service` has what is sent to and from the dispatcher, `Store` what the
handlers do with the database, `P2p` what becomes of it between nodes.
In `Service`, `P2p`, `Store` and `Align` a constant `Plans` lists what the
environment does in a run (requests, losses, faults), and `Init` chooses one: the
cases that matter are combined, and not all with all.

### Node

One action is what a task does between taking and releasing a lock, so that
every interleaving of the tasks that the locks allow is a behaviour.

* `chain` is the list of blocks. A block has a height, a validator, its list of
  transactions and the hash of the one before it. A hash is represented by what
  it commits to (the bodies of the blocks up to it), so that two hashes are equal
  only if these are: hash functions are taken as collision free. A signature
  verifies when it was made for the same block.
* `txs`, `unconfirmed`, `confirmed` are the pool. A slot whose transactions the
  executor has taken stays, with an empty list (`take_slot`, `busy`).
* `agenda` is what the worker still has to do before it polls again:
  `Timer` and `Receive` fill it, `TryBuild`, `SpawnBuilder`, `TryExec` and
  `SpawnExecutor` consume it. The test of a condition and that of the flag are
  two steps.
* `handler[c]`: a dispatcher task. `PutCheck`, `PutPool` are
  `put_transaction_internal` before and under the lock of the pool;
  `BlockCheck`, `BlockNext`, `BlockMissed`, `BlockPool` are
  `get_block_res_handler`. Messages come in any order, up to `MaxSends` times each
  or never; a block message has the right list of transactions, a wrong one or
  none.
* `builder[b]`: `BuildStart`, `BuildCount`, `BuildFill`, `BuildRecount`,
  `BuildDone`. A builder whose count is more than the queue has (`Starved`) stays in its
  loop and makes empty blocks, up to `MaxHeight` in the model.
* `executor[e]`: `ExecStart` reads the tip, `ExecSteal` takes a slot, `ExecCommit`
  merges, `ExecFail` puts the slot back, `ExecClean` frees it, `ExecNext` goes on,
  `ExecPanic` is the `panic!` on a missing transaction. What happens in between is
  `TxExec`.
* `aligner`: wakes, obtains some of the missing blocks and their transactions, puts
  them in the pool, waits, resets. How it obtains them is abstracted to the
  outcome; it may give up while it collects.
* `Crash` restarts the process from the database. `ExecFail` may also be a fault of
  the database. Both are bounded by constants.

`Ledger` says that a step adds one block that continues the chain, or none;
`LedgerSpec` is this with `ledger <- chain`.

### TxExec

A block is any sequence of transactions: `exec_block` does not ask whether one was
executed before, so an execution is told by its place in the log of receipts. Each runs
from a checkpoint (`fork.flush`): `Call` is the contract call of a unit transaction, of
the root or of a node of a bulk, `EmptyRoot` the root that calls nothing,
`NoBulk` the branch for a bulk with other data, `RefuseFirst` and `RefuseNode` a refusal
of `app_hash_check`. A call may fail, use
fuel, add to or take from the funds of the caller. `BurnOk` and `BurnFail` are
the burn of the fuel by the service contract, with the rollback and the second
burn. Then `Merge` and `Index`, or `BlockErr`; `Crash` at any time. Writes are
represented by the set of calls that made them. The service contract is not in
the repository: it charges what it is asked for or what there is, or fails with
no effect.

### Wm

`stack` holds the call contexts. A call enters through `app_hash_check` (`Bound`,
`Bind`), changes the data of the account that owns it (`StoreData`, `RemoveData`)
or creates accounts (`StoreAsset`), and calls others, itself included, up to
`MaxDepth`. `ReturnNested`, `ReturnOk` update the data hash of the owner if the
context is marked; `TrapNested` is a nested call that ends in a wasm trap, of
which the caller is told and goes on; `Fail` rolls the transaction back. The hash of
data is represented by the data. `trapped` is a history variable used by
`StaleIsMarked` only.

### Seed

Every mutex of `SeedSource` is locked and released on its own. `get_seed` runs
in dispatcher tasks (`GetSeed` ... `Answer`) and in the executor when a contract
draws a number (`Drand` ... `UpdateSeed`); the executor updates the fields after
a block (`BlockOk`, `Lock`, `Update`). A drawn number is a function of the seed,
so `previous_seed` is represented by the seeds drawn from so far.

### Service

Every request has a response channel of its own, so channels are named by client
and number. `Receive` is the worker's loop, which spawns a task per request;
`Handle` is `message_handler` for one message, `Respond` the reply, in as many
envelopes as the request (`reply`), `EndTask` the drop of the sender. A channel is
closed when its receiver or its last sender is gone (`HasSender`, `Closed`): senders
are in the request, the task, the subscriptions, and the tasks that `publish`
spawns (`Notify`). `StopSend` and `Start` are the service's. The clients are HTTP
handlers (`RestSend`, `RestRecv`, `RestDown`), connections of the bridge
(`Connect` ... `BridgeWrite`, with `ListenRecv`, `ListenWrite`, `ListenEnd` for
`subscription_handler`), and components that subscribe for good (`LocalSend`,
`LocalRecv`, `LocalDown`: Kafka, p2p). A datagram is written as head and body.

### P2p

Each node has one thread. It takes events of the blockchain (`TakeEvent`) and of the
swarm (`identify_event_handler`, `Discovered`, `Expired`, `kad_event_handler`,
`gossip_event_handler`, `reqres_request`, `reqres_response`); where a handler asks
its own blockchain the thread waits (`wait`) until `Handle` has answered, and
`Resume` is the rest of the handler. libp2p is external: a gossip message reaches a
node at most once, a request is answered or fails, `LoseGossip` and `RequestFails`
lose what they like within the plan's number of faults. Of the blockchain there
is what it does with these messages (`Handle`, `Execute`, `AlignAsk`). The intake of a
transaction takes two steps, before and under the lock of the pool: `Look` and `Handle`
for one that arrives, `Submit` and `Put` for one of a client. A handler always ends; those
that block on the aligner's channel are in `Align`.

### Store

`backend` is the database, `snap` what reads see. `ExecBegin` makes the fork,
`ExecCall` is a contract call (`get_module` looks into the cache, or compiles what
the fork has), `ExecTx` the end of a transaction with its checkpoint or rollback and
its events, `ExecMerge` the merge or its failure. A block is built (`Build`) or received
(`TakeBlock`), and one that is received may have transactions of which the pool has
only the hash (`awaited`) until intake brings them. `StoreConfig` is
`store_config_into_db`. Each handler of the dispatcher that reads is one action,
taken once per lock section; `put_transaction_internal` has the integrity checks;
`RoBegin`, `RoEnd` are a read-only call, which holds the write lock in between
(`locked`). Which module leaves a full cache is left open. `ro-exec` is a cargo
feature, taken as enabled. The node starts with one configuration, since
`get_network_id` unwraps it.

### Align

A round is `Wake` (ask all for the last block), `Collect`, `FilterPeers`,
`RetrieveBlock` and `BlockTimeOut`, `AskTx`, `CollectTx` and `TxTimeOut`,
`UpdatePool`, `WaitExecuted`. `LoadLast` is the height that gathering goes down to, which
is read once. Messages come through dispatcher tasks on a limited
number of threads (`Receive`, `PutTx`, `AckTx`, `CheckBlock`, `InsertBlock`, `LaunchOrSend`,
`Launch`, `Send`), which block while the aligner's channel is full; the executor
(`Execute`) needs a thread too. A timeout fires when nothing is on its way, or, as
often as the plan says, before. A block above the common height is told from others
by its branch, and has one transaction. The plan also says which blocks and transactions
are gossiped without being asked for, and whether debug messages are logged: one of them
unwraps the origin of a transaction, and gossip has none (`aligner.rs:419`). `asked`, the
round in which a message was asked for, is a history of the messages that
`WaitIsNotInVain` speaks of.

## 3. What TLC checks

| run | instance | result |
|---|---|---|
| `queue` | 5 values | the set and the fifo agree (`QueueConsistent`); arrival order is kept (`OrderKept`); the operators `Node` uses for several pops and removals are what that many calls do (`BatchesAreCalls`) |
| `solo` | a validator alone: 2 transactions, 2 concurrent clients, 2 builder and 2 executor tasks, a crash, a failed merge | the node implements `Ledger`: the chain is linked and grows (`LedgerSpec`); the executor is at the tip (`ExecutorAtTip`); each transaction of the pool waits in one place (`TxAccounted`); slots have no gap (`SlotsContiguous`); what is accepted is committed unless the process stops (`AcceptedIsCommitted`); an executor ends, and a builder unless it is `Starved` (`TasksEnd`); types (`TypeOK`) |
| `follower` | a node that receives the 2 blocks after a genesis block, right or wrong, in any order, and aligns | its chain is a prefix of that of the validators (`FollowsRemote`) |
| `seed` | 2 blocks, 2 draws each, 2 clients, an execution that fails | no circular wait of any length (`NoCircularWait`); draws are of the last block (`DrawnFromTip`) and, in the first execution of a block, those of any other node (`FirstDrawsRepeatable`) |
| `txexec` | a unit transaction, a bulk of 2, one of 3 with an empty root and one that holds other data, in any blocks of 2 executions in all | all or nothing (`Atomic`); limits and receipts (`FuelAccounted`); the rows of an execution are sent at most once, and only when merged (`IndexedOnce`) |
| `wm` | 2 accounts, calls 3 deep | `OwnerExists`, `StaleIsMarked` |
| `service` | an HTTP client, a connection with up to 2 requests, a component that subscribes, an event, a stop | each event reaches each subscriber once (`NoEventLost`); the bridge keeps subscriptions (`BridgeKeepsListening`); replies have the form of requests (`AnsweredAsAsked`); every request ends (`EveryRequestEnds`) |
| `p2p` | 2 nodes of one network and one of another, one transaction, 2 blocks | an origin has what comes in its name (`OriginHasIt`); a transaction is announced once for each submission, and not by those it reaches (`NoEcho`); requests end (`EveryUnicastEnds`) and transactions spread (`TxSpreads`) |
| `store` | 9 transactions and 9 that intake refuses, 3 contracts, a cache of 1, 2 tasks, blocks built and received | answers are of one moment (`ReadsAreAtomic`), or of moments in order (`AccountReadsForward`); a transaction that is looked for and not found has been merged meanwhile (`MissedIsMerged`); what is called was once stored (`CalledWasStored`); `EventsPublished`, `RequestsEnd` |
| `align` | 3 peers or fewer with chains of different length or branch, 2 threads, a channel of 1, answers lost, timeouts early, gossip meanwhile | a gap in what the aligner waits for comes from a block that this round did not ask for (`WaitIsNotInVain`); a round ends, or is stuck with such a gap, with all threads blocked or in a panic (`RoundsEnd`); with answers in time the node catches up if the tips of the others are `Findable` (`CatchesUp`) |

and where the code departs from what it or its documentation says:

| run | shows |
|---|---|
| `solo_twice` | a transaction sent twice is executed twice: the database is asked before the pool is locked, and the first copy is executed and leaves the pool in between (`dispatcher.rs:163`) |
| `follower_panic` | the executor panics on a transaction that has not arrived: the slot of the block under execution has an empty list, for which `can_run` is true, so that the worker spawns a second executor when the first has ended, and that one does not ask whether the next block is complete (`executor.rs:874`) |

Other places where the code does not do what it or its documentation says. Each
is stated in the modules as a property that no run has, since it does not hold; put
in the cfg that is named, TLC shows a behaviour.

| property | in | shows |
|---|---|---|
| `NextBlockKeepsAligned` | `follower.cfg`, without `SYMMETRY` | the block after the last one starts the aligner: the test adds one to a height that was increased already (`dispatcher.rs:405`) |
| `BlockNotEmpty` | `follower.cfg` with `IsValidator = TRUE`, `Validators = {self, k1}` | a builder makes an empty block when a received one has taken the transactions it counted (`builder.rs:100`) |
| `BuildersEnd` | `solo.cfg` with `RemoteChain <- Remote2`, `Synced = 1`, `Validators = {self, k1}`, `Threshold = 1`, one task of each kind, no crash or fault | the same builder does not end, for its count does not get to zero (`builder.rs:105`). `TasksEnd` holds there |
| `IndexedSucceeded` | `txexec.cfg` | rows of an execution that failed are sent when its fuel is paid (`executor.rs:825`) |
| `NodesSigned` | `store.cfg` | the nodes of a bulk are "signed transactions" (`README.md:83`), and `TransactionDataBulkV1::verify` checks them, but intake calls `Transaction::verify`, which does not (`base/schema.rs:447`) |
| `CacheWithinMax` | `store.cfg` | the cache has one module more than its "Maximum cache size": its length is tested before a module is added, and for more than the maximum (`wm/local.rs:617`) |
| `FramesIntact` | `service.cfg` | head and body of an answer and of an event interleave on a connection with a subscription (`bridge/worker.rs:66`) |
| `EveryRoundEnds` | `align.cfg` | each of the three ways of `RoundsEnd` is reached: the aligner waits for a height that nobody sends, no thread is left, or it has panicked |
| `AlwaysCatchesUp` | `align.cfg` | of three tips of heights 2, 3, 1 and a window of two, the window may leave out the highest (`aligner.rs:577`) |
| `DrawsRepeatable` | `seed.cfg` | after a failed execution the retry of a block draws other numbers (`executor.rs:1167`) |
| `DataHashCurrent` | `wm.cfg` | data stored by a nested call that traps stays under the old data hash (`wm/local.rs:826`) |
| `PackedGetsPacked` | `service.cfg` | "one incoming Packed message generates one outgoing Packed message" is not so for messages without answer, at the limit of the envelopes, or after a wrong first byte (`dispatcher.rs:541`) |

`TypeOK` of `Seed`, `TxExec`, `Wm`, `Service`, `P2p`, `Store` and `Align` states the types of
their variables; it holds in these instances too and can be added to the cfg in the same
way, and for `Seed`, `TxExec` and `Wm` it is proved. `OnlyMerged`, `ChainLinked` and
`OneExecutor` are parts of proved invariants.

Observations that the models make visible and no property states:

* The receipt of a failed transaction may report more than was charged: when a
  transaction gives its caller the funds its fuel is paid with and then exceeds its
  limit, the rollback takes the funds away and the second burn finds less
  (`FuelAccounted` bounds one side only).
* `filter_peers` takes, of the five rarest blocks, the highest one, where a comment of
  `run_async` says "the peers with the most common last block are chosen". A fork
  that one peer is on can be chosen over what the others agree on.
* The limit for blocks is the height of the first answer. When that peer is behind,
  each block above is set aside once; with three trusted peers all attempts can go
  that way and the round fails (`Findable`).
* The list of blocks not to be trusted stays empty: the only addition to it
  (`aligner.rs:358`) is behind a return, and each round has an aligner of its own.
* An unsolicited block just above the last one, taken while blocks are gathered, ends
  the gathering. If a timeout fires early as well, blocks in between are missing and
  the wait of `run_async` does not end. An answer to an earlier round does the same; with
  four early timeouts an instance larger than that of `align` reaches it.
* Messages to the aligner block threads of the runtime. With all of them blocked, the
  executor the aligner waits for cannot run.
* The cache of modules keeps those of forks that were dropped: a call can succeed on a node that has compiled
  the module and fail on another.
* `get_transaction` asks database and pool one after the other and can miss a
  transaction that is merged in between (`MissedIsMerged` says that this is the only
  way); an account and its data can come from different blocks (`AccountReadsForward`
  says how different).
* A bulk transaction of which the data is that of a unit one passes
  `check_integrity`: the branch of `executor.rs:751` ("This should never happen because
  previous controls") can be reached.
* Events can arrive in another order than they were published. `Unsubscribe` on its own has no answer and ends the connection's handler.
* All networks share a gossip topic, and mDNS adds nodes of any network: the blocks a
  node produces go to all of them (`p2p/worker.rs:205`). An answer to
  a request for a transaction that came by gossip is sent as a unicast request, which
  the other side drops. A transaction submitted before p2p has subscribed is not
  announced. The last block is sent once per address of a new node. `stop` of p2p joins
  a thread that does not end.

**Bounds.** Two transactions make two blocks of one or one of two at threshold
2, enough for a block to be built while another is executed. Two slots for
builders and executors are what a wrong flag needs to show. A crash and a fault
each happen once at any point. The follower has two blocks to receive, so that
they can arrive in the wrong order, and `wrong` lists. `MaxHeight` only bounds
what a builder may make and is not reached in `solo`. Depth 3 in `wm` has an
account reentered through another. In `seed` two blocks show what one leaves to
the next. In `service` a connection that subscribes, changes its subscription and
submits a transaction needs two requests and two identifiers; a bound of 2 on channels
makes them full, and 2 envelopes reach the limit of 32. In `p2p` the third node is what
gossip and mDNS bring in from another network; two addresses make the handler wait
twice. In `store` a cache of 1 is full after two of three modules, so that one is
dropped; two blocks and one failed merge have forks that are begun, lost and begun
again, and the tasks read before, between and after. In `align` three blocks are missing,
so that gathering has a middle, and chains of heights 1 to 3 have a peer behind, one
ahead and one on a fork, and with a window of 2 more tips than it takes; a channel of 1
blocks one of two threads, and three gossiped transactions both. In `txexec` two
executions (`MaxRuns`) are two transactions of a block, or one transaction twice, and
the same in two blocks. `TaskSymmetry`
permutes the names of tasks, and is used for invariants only.

**Fairness** (`FairSpec`, used by `solo`): weak, for the worker, each dispatcher,
builder and executor task, and the aligner thread. The runtime polls a task that
is ready, locks are released by all who hold them, and the timer is set again
whenever it expires. Messages, faults and crashes are not fair. `service` assumes that
some task goes on as long as one can, which suffices since all of them come to an end;
`p2p` that the thread and the tasks of each node run and that libp2p reports requests
whose channel was dropped, while losses are not fair; `store` that each dispatcher
task runs, with nothing of the executor; `align` that the aligner's thread, the
executor and each task run.

Every action of the modules fires in a passing run. Deadlock is checked where the
system does not stop: the timer of a node never ends, and clients of `Seed`, `TxExec`
and `Wm` start anew. In `service`, `p2p`, `store` and `align` the plan comes to an end, and
liveness says that nothing is left over.

## 4. What TLAPS proves

Nothing here depends on the size of an instance: the sets of transactions, keys,
accounts and tasks, the remote chain, the threshold, the numbers of messages, faults
and crashes are any. Each inductive invariant was an invariant of a TLC run before it
was proved.

| module | theorem | states |
|---|---|---|
| `QueueSetProofs` | `QueueAlwaysConsistent`, `OrderAlwaysKept`, `BatchesAreAlwaysCalls` | `QueueConsistent`, `OrderKept`, `BatchesAreCalls` |
| | `RemovesIsWithout` | a loop that removes any sequence of values leaves what `without` says |
| `NodeProofs` | `TypeCorrect` | `TypeOK` of `Node` |
| | `ChainInvariant`, `ChainAlwaysLinked`, `ExecutorNeverStale` | `ChainInv`, `ChainLinked`, `ExecutorAtTip` |
| | `NodeImplementsLedger` | `Spec => LedgerSpec` |
| | `FollowerNeverDiverges` | `FollowsRemote`, of a node that is no validator |
| | `SlotsAlwaysContiguous`, `TxAlwaysAccounted` | `SlotsContiguous`, `TxAccounted`, of a node that receives no blocks |
| | `NeverPanics`, `BlocksNeverEmpty` | `NoPanic`, `BlockNotEmpty`, of the same |
| `StoreProofs` | `OnlyMergedIsStored`, `MissedIsAlwaysMerged`, `OnlyStoredIsCalled` | `OnlyMerged`, `MissedIsMerged`, `CalledWasStored` |
| | `CacheIsBounded` | `CacheBound`, one module more than `CacheMax`; that is all that holds |
| | `ReadsAlwaysAtomic`, `AccountsReadForward`, `EventsAlwaysPublished` | `ReadsAreAtomic`, `AccountReadsForward`, `EventsPublished` |
| `P2pProofs` | `OriginInvariant`, `OriginAlwaysHasIt`, `NeverAnEcho` | `OriginHasIt`, `NoEcho` |
| `TxExecProofs` | `AlwaysAtomic`, `FuelAlwaysAccounted`, `AlwaysIndexedOnce` | `Atomic`, `FuelAccounted`, `IndexedOnce` |
| `WmProofs` | `OwnerAlwaysExists`, `StaleAlwaysMarked`, `HashesCurrent` | `OwnerExists`, `StaleIsMarked`, and `DataHashCurrent` while nothing has trapped |
| `SeedProofs` | `NeverCircularWait`, `AlwaysDrawnFromTip`, `FirstDrawsAlwaysRepeatable` | `NoCircularWait`, `DrawnFromTip`, `FirstDrawsRepeatable` |

**Queue.** The invariant is inductive; the lemmas are about removing from a sequence
without repetitions, and about the place of a value in it. That the builder's loop of
pops is `popN`, and the executor's loop of removes `without`, is shown by induction on
the number of calls. The library's induction theorems take an operator, which the
provers cannot instantiate; `SetInduction` says the same of a set and follows from
`<` being well-founded. `without` is a set of queues because it names any increasing
enumeration of the places that are left: `IncreasingUnique` shows there is one.

**Any node.** `ChainInv` is `TypeOK /\ OneExecutor /\ ExecutorAtTip /\ ChainLinked`. A
linked chain is not inductive: that the new block fits depends on the height and hash
the executor has read some steps before, and that these are still those of the tip
depends on there being no other executor, which depends on the flag. The refinement
uses the same invariant: only `ExecCommit` changes the chain, and its block
continues it.

**A node that is no validator** (`~IsValidator`). `FollowInv` adds to `ChainInv` that
nothing the worker has to do calls for a builder (`NoBuild`), that every slot has the
hash of the remote block of its height (`SlotsRemote`), and so has what an executor has
taken from a slot (`StolenRemote`). `ExecCommit` compares that hash with the one of the
block it has made, and since a hash stands for what it commits to, the block is the
remote one.

**A node that receives no blocks** (`RemoteChain = <<>>`, a validator alone and its
clients). The properties do not hold of other nodes: a received block opens a slot at
any height, and its transactions may be missing, waiting or already executed.
`SoloInv` is `ChainInv` with

* `SlotsInv`: there is one builder at most, the slot of a block in execution is kept, with
  no transactions, and the slots are those of the heights from the lowest to the last
  one built, without a gap. The empty slot that is kept is needed: without it the
  builder would make another block of that height.
* `PlacedInv`: a transaction of the pool is in the queue, in one slot, or with one
  executor, in one of them only, and is never known by its hash alone.

`BlocksNeverEmpty` adds that a builder which has counted transactions still finds as
many when it pops them under another lock, since in such a node nobody else takes any
(`CountOk`), and that an empty slot is that of a block in execution (`SlotsFilled`). With the violation `follower_panic`, and `BlockNotEmpty` in section 3,
this locates the two faults: both need a received block.

**Database.** `Inv` says of the states between a fork and its merge what the
theorems need:

* The blocks of the fork, and of its checkpoint, are those of the database, and the
  contracts of the database are in both (`Ahead`). The configuration need not agree,
  since it can be stored in between: what the fork was made from is the database but
  for the configuration, which the fork leaves alone (`ForkInv`).
* Every code in the database, in the fork, in the checkpoint and in the cache was in
  a fork at some time (`CodeInv`). The cache must be named on its own, because a
  rollback does not take its modules away.
* The log of merges grows in each step (`Grows`), and its last entry is what the reads
  see.

`ReadsInv` goes through the lock sections of each request: what a task has read so far
is of an entry of the log since the request began, and what it reads next is of the last
one. `MissedInv` says that a transaction the node had when it was asked for is in the
pool or in the database until it is looked for in both, because a block leaves the pool
only after it was merged. `EventsInv` bounds the events of each transaction by the blocks of the database
that have it, the execution under way and the failed ones. The argument is a lemma per
action; those that only read share one (`ReadInv`).

**Peer to peer.** A message is on its way in many places: events, requests to the
blockchain, the answer a thread waits for, gossip, unicast. `Carried(S)` says that all of
these are messages of `S`. `OriginInv` is `Carried(Genuine)`, where the origin that a
genuine message names has the block or transaction it is about, with `Asking`: a thread
waits while one request of its own is with the blockchain. `NoEcho` needs what a node
will announce as well, so `EchoInv` adds the events that it has not yet taken, and that
what was announced is not one of the submissions still to come or between the two steps
of their intake.

**Transactions.** `Good` is what `Atomic` and `FuelAccounted` say, of a state.
`TxInv` says it of the database, of the checkpoint, and of the fork between
transactions; within a transaction the fork is the checkpoint and the writes of the
calls so far (`InCall`, `InBurn`), and the rows at hand are of executions of this block,
which come after all those of the database (`RowsFresh`).

**Contract calls.** `WmInv` needs that an account with a contract exists, for
`app_hash_check` lets no other call through, and that in the fork a failed transaction
goes back to no hash is stale but those of trapped calls (`CheckpointCurrent`).

**Seed.** A task holds the mutexes that come before the one it is at, in the order of
its statement (`LocksHeld`). Among any set of tasks one waits for none of them:
the executor if it updates and holds something; else the task that measures and holds
`nonce`; else any. The draws need that the hashes are those of the tip unless the
executor is about to update them (`FieldsAtTip`), and how far it has come in copying
them (`SeedAtTip`).

**Assumptions.** `NodeAssumption` (keys are distinct, heights of the remote chain count
from zero, bounds are natural numbers), `StoreAssumption` (the form of transactions and
requests), `PoolAssumption` (the pool starts with transactions of the network, which is all that
`put_txs` asks of them),
`PlansAssumption` (what the clients of `P2p` may ask), `SeedAssumption`, `TxExecAssumption`
and `WmAssumption` (names are distinct, a unit
transaction has one call, bounds, limits and funds are natural numbers). TLC evaluates all of them. `~IsValidator` and
`RemoteChain = <<>>` are hypotheses of the theorems that have them.

**Only model-checked:**

* Liveness, for which TLAPS has no rules of fairness here: `AcceptedIsCommitted`,
  `TasksEnd`, `EveryRequestEnds`, `EveryUnicastEnds`, `TxSpreads`, `RequestsEnd`,
  `RoundsEnd`, `CatchesUp`.
* The invariants of `Service`.
* `WaitIsNotInVain` of `Align`: an invariant of one round would have to follow each
  message from the request to the channel.
* The two violations.

## 5. Not modelled

* Start and stop of REST, bridge, Kafka and p2p; HTTP routing; the Kafka producer;
  transport, queries and mesh of libp2p. The network monitor, which sends statistics
  out: I/O without effect on the node.
* The receptions with a timeout of `channel.rs`, which no part uses.
* The branches of p2p for a blockchain service that is down.
* Cryptography: hashes and signatures are ideal. Serialization.
* The content of contracts and of the service contract; wasmtime.
* Weak memory: the flags use `Ordering::Relaxed`, but each is a single atomic
  object and the data it protects is behind locks.
* `is_validator` is asked once when the worker starts and is a constant; the
  set of validators does not change.
* Host functions that only read; the rows `store_asset` makes for the indexer.

## 6. Plan

1. *Done*: queue, node, ledger, transactions, contract calls, seed; types and the
   chain proved.
2. *Done*: aligner, service with PubSub, channels, bridge and REST, p2p, database with
   its readers and the module cache.
3. That `Align` implements the aligner of `Node`: blocks and transactions are
   identified in the one and apart in the other, so the mapping needs the latter's data
   in the former.
4. *Done*: proofs for `TxExec`, `Wm`, `Seed`, the reads and events of `Store`, and the two
   special cases of `Node`.
5. Proofs: `NoEventLost`, `BridgeKeepsListening` and `AnsweredAsAsked` of `Service`.

---------------------------- MODULE StoreProofs ----------------------------
(***************************************************************************)
(* Theorems about Store: what the database holds, what is in the pool and  *)
(* in the cache, what the dispatcher tasks read while blocks are merged,   *)
(* and which events are published, for any transactions, contracts, tasks  *)
(* and requests.                                                           *)
(*                                                                         *)
(* The invariants of the history rest on what is true of the fork that an  *)
(* executor works on, over the steps between its creation and its merge:   *)
(* while it runs, the blocks of the fork are those of the database, and    *)
(* the contracts of the database are in the fork; what it was made from is *)
(* the database but for the configuration, which the fork leaves alone.    *)
(* The reads rest on where in the history of the database a task stands,   *)
(* and the events on counting, for a transaction, the blocks that hold it. *)
(***************************************************************************)
EXTENDS Store, FiniteSetTheorems, TLAPS

Db == [blocks : Seq(Seq(Tx)), ok : SUBSET Tx, data : Nat,
       code : SUBSET Contract, config : Nat]
Run == [pc : {"run"}, base : Db, fork : Db, check : Db, i : Nat \ {0}, a : Nat \ {0},
        ok : BOOLEAN]
Clean == [pc |-> "clean"]
PlanType == [pool : SUBSET Tx, blocks : Seq(Block), requests : [Task -> Seq(Requests)],
             faults : Nat, configs : Nat]

TaskShape ==
    task = [k \in Task |-> [pc |-> task[k].pc, from |-> task[k].from, had |-> task[k].had,
                            got |-> task[k].got]]

(* The types that the proofs use. *)
Types ==
    /\ backend \in Db /\ log \in Seq(Db) /\ log # <<>>
    /\ txs \subseteq Tx /\ unconfirmed \subseteq Tx /\ confirmed \in Seq(Tx)
    /\ exec \in Run \cup {NoExec, Clean}
    /\ cache \subseteq Contract /\ IsFiniteSet(cache)
    /\ plan \in PlanType
    /\ TaskShape

(* The code that can be called, from the cache or from a fork, was seen. *)
CodeInv ==
    /\ backend.code \subseteq seen /\ cache \subseteq seen /\ called \subseteq seen
    /\ exec.pc = "run" => /\ exec.fork.code \subseteq seen
                          /\ exec.check.code \subseteq seen

(* A fork that is not merged yet. *)
Ahead(f) ==
    /\ f.blocks = backend.blocks /\ backend.code \subseteq f.code
    /\ backend.data <= f.data /\ f.data <= Len(backend.blocks) + 1
Grows(d, e) ==
    /\ d.config <= e.config /\ d.data <= e.data
    /\ IsPrefix(d.blocks, e.blocks)
    /\ d.code \subseteq e.code
LogInv ==
    /\ OnlyMerged /\ backend.data <= Len(backend.blocks) + 1
    /\ \A i, j \in DOMAIN log : i <= j => Grows(log[i], log[j])
    /\ exec.pc = "run" => Ahead(exec.fork) /\ Ahead(exec.check)

(* What a fork was made from, and what it leaves alone. *)
Same(b) ==
    /\ b.blocks = backend.blocks /\ b.ok = backend.ok
    /\ b.data = backend.data /\ b.code = backend.code
ForkInv ==
    exec.pc = "run" => /\ Same(exec.base)
                       /\ exec.fork.config = exec.base.config
                       /\ exec.check.config = exec.base.config

(* A task that is not idle has a request. *)
Asks(k) == Request(k).type = "put"
AskInv ==
    \A k \in Task : /\ task[k].pc # "idle" => plan.requests[k] # <<>>
                    /\ task[k].pc \in {"put", "insert"} => Asks(k)

Inv == Types /\ CodeInv /\ LogInv /\ ForkInv /\ AskInv /\ CacheBound

-----------------------------------------------------------------------------
(* Sequences that begin with another one: each with itself, with what is    *)
(* appended to it, and transitively.                                        *)
LEMMA PrefixFacts ==
    ASSUME NEW S, NEW r \in Seq(S), NEW s \in Seq(S), NEW t \in Seq(S), NEW x \in S
    PROVE  /\ IsPrefix(s, s)
           /\ IsPrefix(s, Append(s, x))
           /\ IsPrefix(r, s) /\ IsPrefix(s, t) => IsPrefix(r, t)
  <1>1. IsPrefix(s, s) /\ IsPrefix(s, Append(s, x))
    BY DEF IsPrefix
  <1>2. IsPrefix(r, s) /\ IsPrefix(s, t) => IsPrefix(r, t)
    BY DEF IsPrefix
  <1> QED BY <1>1, <1>2, Zenon

(* What grows, grows on. *)
LEMMA GrowsFacts ==
    ASSUME NEW c \in Db, NEW d \in Db, NEW e \in Db
    PROVE  /\ Grows(d, d)
           /\ Grows(c, d) /\ Grows(d, e) => Grows(c, e)
  <1>1. /\ c.blocks \in Seq(Seq(Tx)) /\ d.blocks \in Seq(Seq(Tx)) /\ e.blocks \in Seq(Seq(Tx))
        /\ c.config \in Nat /\ d.config \in Nat /\ e.config \in Nat
        /\ c.data \in Nat /\ d.data \in Nat /\ e.data \in Nat
    BY Zenon DEF Db
  <1>2. /\ IsPrefix(d.blocks, d.blocks)
        /\ IsPrefix(c.blocks, d.blocks) /\ IsPrefix(d.blocks, e.blocks)
             => IsPrefix(c.blocks, e.blocks)
    <2> <<>> \in Seq(Tx)
      OBVIOUS
    <2> QED BY <1>1, PrefixFacts, Zenon
  <1> QED BY <1>1, <1>2, SMTT(60) DEF Grows

(* The log after a merge. *)
LEMMA LogAppend ==
    ASSUME Types, LogInv, NEW d \in Db, Grows(backend, d),
           log' = Append(log, d), backend' = d, snap' = d
    PROVE  /\ log' \in Seq(Db) /\ log' # <<>>
           /\ OnlyMerged'
           /\ (\A i, j \in DOMAIN log : i <= j => Grows(log[i], log[j]))'
  <1>1. /\ log' \in Seq(Db) /\ Len(log') = Len(log) + 1 /\ Len(log) \in Nat
        /\ log'[Len(log) + 1] = d
        /\ \A i \in 1 .. Len(log) : log'[i] = log[i] /\ log[i] \in Db
        /\ DOMAIN log' = 1 .. Len(log) + 1 /\ DOMAIN log = 1 .. Len(log)
    BY DEF Types
  <1>2. log' # <<>> /\ OnlyMerged'
    BY <1>1 DEF OnlyMerged
  <1>3. backend = log[Len(log)] /\ Len(log) \in 1 .. Len(log)
    BY <1>1 DEF LogInv, OnlyMerged, Types
  <1>4. ASSUME NEW i \in DOMAIN log', NEW j \in DOMAIN log', i <= j
        PROVE  Grows(log'[i], log'[j])
    <2>1. CASE j \in DOMAIN log
      <3>1. i \in DOMAIN log
        BY <1>1, <1>4, <2>1
      <3> QED BY <1>1, <1>4, <2>1, <3>1, Zenon DEF LogInv
    <2>2. CASE j = Len(log) + 1 /\ i = j
      BY <1>1, <2>2, GrowsFacts, Zenon
    <2>3. CASE j = Len(log) + 1 /\ i \in DOMAIN log
      <3>1. Grows(log[i], backend) /\ log[i] \in Db /\ backend \in Db
        BY <1>1, <1>3, <2>3, SMTT(30) DEF LogInv, Types
      <3> QED BY <1>1, <2>3, <3>1, GrowsFacts
    <2> QED BY <1>1, <1>4, <2>1, <2>2, <2>3
  <1>5. (\A i, j \in DOMAIN log : i <= j => Grows(log[i], log[j]))'
    BY <1>4, Zenon
  <1> QED BY <1>1, <1>2, <1>5, Zenon

(* The state of a task is set. *)
LEMMA TaskFacts ==
    ASSUME TaskShape, NEW k \in Task, NEW pc, NEW from, NEW had, NEW got,
           task' = [task EXCEPT ![k] = [pc |-> pc, from |-> from, had |-> had, got |-> got]]
    PROVE  /\ TaskShape'
           /\ task'[k].pc = pc
           /\ task'[k] = [pc |-> pc, from |-> from, had |-> had, got |-> got]
           /\ \A j \in Task \ {k} : task'[j] = task[j]
  <1> DEFINE shape(r) == r = [pc |-> r.pc, from |-> r.from, had |-> r.had, got |-> r.got]
  <1>1. DOMAIN task = Task /\ \A j \in Task : shape(task[j])
    BY Zenon DEF TaskShape
  <1>2. /\ task'[k] = [pc |-> pc, from |-> from, had |-> had, got |-> got]
        /\ task' = [j \in Task |-> task'[j]]
        /\ \A j \in Task \ {k} : task'[j] = task[j]
    BY <1>1, Zenon
  <1>3. \A j \in Task : shape(task'[j])
    BY <1>1, <1>2, Zenon
  <1>4. TaskShape'
    BY <1>2, <1>3, Zenon DEF TaskShape
  <1> QED BY <1>2, <1>4, Zenon

(* A step of a task changes its pc and what it has got. *)
LEMMA StepsFacts ==
    ASSUME TaskShape, NEW k \in Task, NEW pc, NEW got, Steps(k, pc, got)
    PROVE  /\ TaskShape'
           /\ task'[k].pc = pc /\ task'[k].from = task[k].from
           /\ task'[k].had = task[k].had
           /\ task'[k].got = Append(task[k].got, got)
           /\ \A j \in Task \ {k} : task'[j] = task[j]
  <1>1. /\ DOMAIN task = Task
        /\ task[k] = [pc |-> task[k].pc, from |-> task[k].from, had |-> task[k].had,
                      got |-> task[k].got]
    BY Zenon DEF TaskShape
  <1> DEFINE more == Append(task[k].got, got)
             from == task[k].from
             had == task[k].had
  <1>2. task' = [task EXCEPT ![k] = [pc |-> pc, from |-> from, had |-> had, got |-> more]]
    BY <1>1, SMTT(60) DEF Steps
  <1> HIDE DEF more, from, had
  <1>3. TaskShape' /\ task'[k].pc = pc /\ \A j \in Task \ {k} : task'[j] = task[j]
    BY <1>2, TaskFacts, Zenon
  <1>4. task'[k] = [pc |-> pc, from |-> from, had |-> had, got |-> more]
    BY <1>1, <1>2, Zenon
  <1>5. task'[k].from = from /\ task'[k].had = had /\ task'[k].got = more
    BY <1>4
  <1> QED BY <1>3, <1>5, Zenon DEF more, from, had

(* The cache after a module was asked for: it has grown by that module at   *)
(* most, only if its code was there, and not beyond its bound.              *)
LEMMA ModuleFacts ==
    ASSUME IsFiniteSet(cache), CacheBound, NEW c, NEW code, NEW r \in get_module(c, code)
    PROVE  /\ IsFiniteSet(r.cache) /\ Cardinality(r.cache) <= CacheMax + 1
           /\ r.cache \subseteq cache \cup ({c} \cap code)
           /\ r.ok => c \in cache \cup code
  <1> CacheMax \in Nat /\ Cardinality(cache) \in Nat
    BY StoreAssumption, FS_CardinalityType, Zenon
  <1>1. CASE c \in cache
    BY <1>1 DEF get_module, CacheBound
  <1>2. CASE c \notin cache
    <2>1. PICK kept \in IF Cardinality(cache) > CacheMax THEN {cache \ {x} : x \in cache}
                        ELSE {cache} :
            r = [cache |-> IF c \in code THEN kept \cup {c} ELSE kept, ok |-> c \in code]
      BY <1>2, Zenon DEF get_module, load_module
    <2>2. kept \subseteq cache /\ IsFiniteSet(kept) /\ Cardinality(kept) <= CacheMax
      <3>1. CASE Cardinality(cache) > CacheMax
        <4>1. PICK x \in cache : kept = cache \ {x}
          BY <2>1, <3>1, Zenon
        <4>2. IsFiniteSet(kept) /\ Cardinality(kept) = Cardinality(cache) - 1
          BY <4>1, FS_RemoveElement, Zenon
        <4> QED BY <4>1, <4>2 DEF CacheBound
      <3>2. CASE ~(Cardinality(cache) > CacheMax)
        BY <2>1, <3>2
      <3> QED BY <3>1, <3>2, Zenon
    <2>3. Cardinality(kept) \in Nat
      BY <2>2, FS_CardinalityType, Zenon
    <2>4. IsFiniteSet(kept \cup {c}) /\ Cardinality(kept \cup {c}) = Cardinality(kept) + 1
      BY <1>2, <2>2, FS_AddElement, Zenon
    <2>5. CASE c \in code
      <3>1. r.cache = kept \cup {c}
        BY <2>1, <2>5, Zenon
      <3>2. Cardinality(r.cache) <= CacheMax + 1
        BY <2>2, <2>3, <2>4, <3>1
      <3> QED BY <2>2, <2>4, <2>5, <3>1, <3>2, Zenon
    <2>6. CASE c \notin code
      <3>1. r.cache = kept /\ ~r.ok
        BY <2>1, <2>6, Zenon
      <3>2. Cardinality(r.cache) <= CacheMax + 1
        BY <2>2, <2>3, <3>1
      <3> QED BY <2>2, <3>1, <3>2, Zenon
    <2> QED BY <2>5, <2>6, Zenon
  <1> QED BY <1>1, <1>2, Zenon

(* A number is added to the numbers that were read. *)
LEMMA AppendNat ==
    ASSUME NEW s \in Seq(Nat), NEW v \in Nat
    PROVE  /\ Append(s, v) \in Seq(Nat) /\ Append(s, v) # <<>>
           /\ DOMAIN Append(s, v) = 1 .. Len(s) + 1
           /\ Len(s) \in Nat /\ DOMAIN s = 1 .. Len(s)
           /\ Append(s, v)[Len(s) + 1] = v
           /\ \A i \in DOMAIN s : Append(s, v)[i] = s[i]
  OBVIOUS

(* The first of the numbers that were read. *)
LEMMA FirstNat ==
    ASSUME NEW s \in Seq(Nat), s # <<>>
    PROVE  s[1] \in Nat
  OBVIOUS

(* A position that is not after one of the first n. *)
LEMMA Before ==
    ASSUME NEW n \in Nat, NEW i \in 1 .. n + 1, NEW j \in 1 .. n, i <= j
    PROVE  i \in 1 .. n
  OBVIOUS

(* A position of the first n + 1 is the last or one of the first n. *)
LEMMA LastOrBefore ==
    ASSUME NEW n \in Nat, NEW j \in 1 .. n + 1
    PROVE  j = n + 1 \/ j \in 1 .. n
  OBVIOUS

(* An executor that runs, as a record. *)
LEMMA RunFacts ==
    ASSUME Types, exec.pc = "run"
    PROVE  exec \in Run
  BY DEF Types, NoExec, Clean

-----------------------------------------------------------------------------
(* The genesis block, an empty cache, and tasks that are idle. *)
LEMMA InitInv ==
    ASSUME Init
    PROVE  Inv
  <1>1. plan \in PlanType /\ txs \subseteq Tx
    BY StoreAssumption, Zenon DEF Init, PlanType
  <1>2. Initial \in Db
    <2> << <<>> >> \in Seq(Seq(Tx))
      OBVIOUS
    <2> QED BY StoreAssumption, Zenon DEF Initial, Db
  <1>3. IsFiniteSet({}) /\ Cardinality({}) = 0
    BY FS_EmptySet, Zenon
  <1>4. Types
    BY <1>1, <1>2, <1>3 DEF Init, Types, TaskShape, NoTask
  <1>5. CodeInv
    BY Zenon DEF Init, CodeInv, Initial, NoExec
  <1>6. LogInv
    <2>1. log = <<Initial>> /\ DOMAIN log = {1} /\ log[1] = Initial /\ log[Len(log)] = Initial
      BY DEF Init
    <2>2. Grows(Initial, Initial)
      BY <1>2, GrowsFacts, Zenon
    <2>3. backend.data <= Len(backend.blocks) + 1
      BY DEF Init, Initial
    <2> QED BY <2>1, <2>2, <2>3, Zenon DEF Init, LogInv, OnlyMerged, NoExec
  <1>7. AskInv /\ ForkInv
    BY Zenon DEF Init, AskInv, ForkInv, NoTask, NoExec
  <1>8. CacheBound
    BY <1>3, StoreAssumption DEF Init, CacheBound
  <1> QED BY <1>4, <1>5, <1>6, <1>7, <1>8, Zenon DEF Inv

-----------------------------------------------------------------------------
(* The steps of the dispatcher tasks. *)

(* A task takes a step and touches nothing but its own state.  It does not  *)
(* get to `put` or `insert`.                                                *)
LEMMA ReadInv ==
    ASSUME Inv, NEW k \in Task, NEW pc, NEW got, Steps(k, pc, got),
           task[k].pc # "idle", pc \notin {"put", "insert"}, UNCHANGED <<pool, others>>
    PROVE  Inv'
  <1> USE DEF pool, others, db, history
  <1>1. /\ TaskShape' /\ task'[k].pc = pc
        /\ \A j \in Task \ {k} : task'[j] = task[j]
    BY StepsFacts, Zenon DEF Inv, Types
  <1>2. Types'
    BY <1>1, Zenon DEF Inv, Types
  <1>3. CodeInv' /\ CacheBound'
    BY Zenon DEF Inv, CodeInv, CacheBound
  <1>4. LogInv' /\ ForkInv'
    BY Zenon DEF Inv, LogInv, OnlyMerged, Ahead, ForkInv, Same
  <1>5. AskInv'
    BY <1>1, Zenon DEF Inv, AskInv, Asks, Request
  <1> QED BY <1>2, <1>3, <1>4, <1>5, Zenon DEF Inv

(* A request is taken, and its answer sent. *)
LEMMA BeginEndInv ==
    ASSUME Inv, NEW k \in Task, Begin(k) \/ End(k)
    PROVE  Inv'
  <1> USE DEF pool, others, db, history, Begin, End
  <1>1. /\ TaskShape' /\ \A j \in Task \ {k} : task'[j] = task[j]
        /\ \/ task'[k].pc = "idle"
           \/ /\ plan' = plan /\ plan.requests[k] # <<>>
              /\ task'[k].pc = Request(k).type
    <2>1. CASE Begin(k)
      BY <2>1, TaskFacts, Zenon DEF Inv, Types
    <2>2. CASE End(k)
      BY <2>2, TaskFacts, Zenon DEF Inv, Types, NoTask
    <2> QED BY <2>1, <2>2, Zenon
  <1>2. /\ plan' \in PlanType
        /\ \A j \in Task \ {k} : plan'.requests[j] = plan.requests[j]
    <2>1. plan \in PlanType /\ plan.requests[k] \in Seq(Requests)
      BY Zenon DEF Inv, Types, PlanType
    <2>2. CASE plan' = plan
      BY <2>1, <2>2, Zenon
    <2>3. CASE End(k)
      <3>1. plan.requests[k] # <<>>
        BY <2>3, Zenon DEF Inv, AskInv
      <3>2. Tail(plan.requests[k]) \in Seq(Requests)
        BY <2>1, <3>1
      <3> QED BY <2>1, <2>3, <3>2, Zenon DEF PlanType
    <2> QED BY <2>2, <2>3, Zenon
  <1>3. Types'
    BY <1>1, <1>2, Zenon DEF Inv, Types
  <1>4. CodeInv' /\ CacheBound'
    BY Zenon DEF Inv, CodeInv, CacheBound
  <1>5. LogInv' /\ ForkInv'
    BY Zenon DEF Inv, LogInv, OnlyMerged, Ahead, ForkInv, Same
  <1>6. AskInv'
    <2>1. plan.requests[k] # <<>> => Request(k).type # "insert"
      <3>1. plan.requests[k] # <<>> => Request(k) \in Requests
        BY DEF Inv, Types, PlanType, Request
      <3> QED BY <3>1, Zenon DEF Requests
    <2> QED BY <1>1, <1>2, <2>1, Zenon DEF Inv, AskInv, Asks, Request
  <1> QED BY <1>3, <1>4, <1>5, <1>6, Zenon DEF Inv

(* A transaction is checked and put into the pool. *)
LEMMA PutInv ==
    ASSUME Inv, NEW k \in Task, put_transaction_internal(k)
    PROVE  Inv'
  <1> USE DEF pool, others, db, history
  <1> DEFINE t == Request(k).tx
  <1>1. CASE Steps(k, "done", FALSE) /\ UNCHANGED pool
    BY <1>1, ReadInv, Zenon DEF put_transaction_internal
  <1>2. CASE \/ task[k].pc = "put" /\ Steps(k, "insert", TRUE) /\ UNCHANGED pool
             \/ /\ task[k].pc = "insert" /\ Steps(k, "done", t \notin txs)
                /\ txs' = txs \cup {t} /\ UNCHANGED confirmed
                /\ unconfirmed' = IF t \in txs \cup awaited THEN unconfirmed
                                  ELSE unconfirmed \cup {t}
    <2>1. /\ TaskShape' /\ task'[k].pc \in {"done", "insert"}
          /\ \A j \in Task \ {k} : task'[j] = task[j]
      BY <1>2, StepsFacts, Zenon DEF Inv, Types
    <2>2. /\ task[k].pc \in {"put", "insert"}
          /\ txs' \subseteq txs \cup {t} /\ unconfirmed' \subseteq unconfirmed \cup {t}
          /\ UNCHANGED <<confirmed, others>>
      BY <1>2, Zenon DEF put_transaction_internal
    <2>3. Asks(k) /\ t \in Tx
      <3>1. Asks(k)
        BY <2>2, Zenon DEF Inv, AskInv
      <3>2. Request(k) \in Requests
        BY <2>2 DEF Inv, Types, PlanType, Request, AskInv
      <3> QED BY <3>1, <3>2, Zenon DEF Asks, Requests
    <2>4. Types'
      BY <2>1, <2>2, <2>3, Zenon DEF Inv, Types
    <2>5. CodeInv' /\ CacheBound'
      BY <2>2, Zenon DEF Inv, CodeInv, CacheBound
    <2>6. LogInv' /\ ForkInv'
      BY <2>2, Zenon DEF Inv, LogInv, OnlyMerged, Ahead, ForkInv, Same
    <2>7. AskInv'
      BY <2>1, <2>2, <2>3, Zenon DEF Inv, AskInv, Asks, Request
    <2> QED BY <2>4, <2>5, <2>6, <2>7, Zenon DEF Inv
  <1> QED BY <1>1, <1>2, Zenon DEF put_transaction_internal

(* Every step of a task. *)
LEMMA ServeInv ==
    ASSUME Inv, NEW k \in Task, Serve(k)
    PROVE  Inv'
  <1>1. CASE Begin(k) \/ End(k)
    BY <1>1, BeginEndInv, Zenon
  <1>2. CASE put_transaction_internal(k)
    BY <1>2, PutInv, Zenon
  <1>3. CASE get_block_handler(k)
    <2> PICK pc, got : Steps(k, pc, got) /\ pc \in {"done", "hashes"}
      BY <1>3, Zenon DEF get_block_handler
    <2> QED BY <1>3, ReadInv, Zenon DEF get_block_handler
  <1>4. CASE get_account_handler(k)
    <2> PICK pc, got : Steps(k, pc, got) /\ pc \in {"done", "get_account"}
      BY <1>4, Zenon DEF get_account_handler
    <2> QED BY <1>4, ReadInv, Zenon DEF get_account_handler
  <1>5. CASE get_transaction_handler(k)
    <2> PICK pc, got : Steps(k, pc, got) /\ pc \in {"done", "pool"}
      BY <1>5, Zenon DEF get_transaction_handler
    <2> QED BY <1>5, ReadInv, Zenon DEF get_transaction_handler
  <1>6. CASE get_receipt_handler(k) \/ get_network_id_handler(k)
    <2> PICK got : Steps(k, "done", got)
      BY <1>6, Zenon DEF get_receipt_handler, get_network_id_handler
    <2> QED BY <1>6, ReadInv, Zenon DEF get_receipt_handler, get_network_id_handler
  <1>7. CASE get_stats_handler(k)
    <2> PICK pc, got : Steps(k, pc, got) /\ pc \in {"done", "get_stats"}
      BY <1>7, Zenon DEF get_stats_handler
    <2> QED BY <1>7, ReadInv, Zenon DEF get_stats_handler
  <1>8. CASE RoBegin(k)
    <2> PICK got : Steps(k, "ro_run", got)
      BY <1>8, Zenon DEF RoBegin
    <2> QED BY <1>8, ReadInv, Zenon DEF RoBegin
  <1>9. CASE RoEnd(k)
    <2> PICK got : Steps(k, "done", got)
      BY <1>9, Zenon DEF RoEnd
    <2> QED BY <1>9, ReadInv, Zenon DEF RoEnd, ro_exec, others
  <1> QED BY <1>1, <1>2, <1>3, <1>4, <1>5, <1>6, <1>7, <1>8, <1>9, Zenon DEF Serve

-----------------------------------------------------------------------------
(* The steps of the builder, of the executor and of the configuration. *)

(* The tasks and their requests are left alone. *)
LEMMA AskFrame ==
    ASSUME AskInv, task' = task, plan'.requests = plan.requests
    PROVE  AskInv'
  <1>1. \A k \in Task : Request(k)' = Request(k)
    BY Zenon DEF Request
  <1> QED BY <1>1, Zenon DEF AskInv, Asks

(* A block is built from unconfirmed transactions. *)
LEMMA BuildInv ==
    ASSUME Inv, NEW block \in Seq(unconfirmed), Build(block)
    PROVE  Inv'
  <1> USE DEF Build, db, history
  <1>1. block \in Seq(Tx)
    BY DEF Inv, Types
  <1>2. Types'
    BY <1>1, Zenon DEF Inv, Types, TaskShape
  <1>3. CodeInv' /\ CacheBound'
    BY Zenon DEF Inv, CodeInv, CacheBound
  <1>4. LogInv' /\ ForkInv'
    BY Zenon DEF Inv, LogInv, OnlyMerged, Ahead, ForkInv, Same
  <1>5. AskInv'
    BY AskFrame, Zenon DEF Inv
  <1> QED BY <1>2, <1>3, <1>4, <1>5, Zenon DEF Inv

(* A block of another node. *)
LEMMA TakeBlockInv ==
    ASSUME Inv, TakeBlock
    PROVE  Inv' /\ confirmed' \in Block /\ plan'.requests = plan.requests
  <1> USE DEF TakeBlock, db, history
  <1>1. /\ plan \in PlanType /\ plan.blocks \in Seq(Block) /\ plan.blocks # <<>>
        /\ confirmed' = Head(plan.blocks)
    BY Zenon DEF Inv, Types, PlanType
  <1>2. Head(plan.blocks) \in Block /\ Tail(plan.blocks) \in Seq(Block)
    BY <1>1
  <1>3. confirmed' \in Seq(Tx) /\ confirmed' \in Block
    BY <1>1, <1>2, Zenon DEF Block
  <1>4. plan' \in PlanType /\ plan'.requests = plan.requests
    <2>1. plan' = [pool |-> plan.pool, blocks |-> Tail(plan.blocks),
                   requests |-> plan.requests, faults |-> plan.faults,
                   configs |-> plan.configs]
      BY <1>1, Zenon DEF PlanType
    <2> QED BY <1>1, <1>2, <2>1, Zenon DEF PlanType
  <1>5. Types'
    BY <1>3, <1>4, Zenon DEF Inv, Types, TaskShape
  <1>6. CodeInv' /\ CacheBound'
    BY Zenon DEF Inv, CodeInv, CacheBound
  <1>7. LogInv' /\ ForkInv'
    BY Zenon DEF Inv, LogInv, OnlyMerged, Ahead, ForkInv, Same
  <1>8. AskInv'
    BY <1>4, AskFrame, Zenon DEF Inv
  <1> QED BY <1>3, <1>4, <1>5, <1>6, <1>7, <1>8, Zenon DEF Inv

(* A fork is made from the database. *)
LEMMA ExecBeginInv ==
    ASSUME Inv, ExecBegin
    PROVE  Inv'
  <1> USE DEF ExecBegin, db, pool, history
  <1>1. Types'
    <2>1. exec' \in Run
      BY DEF Inv, Types, Run
    <2> QED BY <2>1, Zenon DEF Inv, Types, TaskShape
  <1>2. CodeInv' /\ CacheBound'
    BY Zenon DEF Inv, CodeInv, CacheBound
  <1>3. LogInv'
    <2>1. backend.data \in Nat /\ backend.data <= backend.data
      BY DEF Inv, Types, Db
    <2> QED BY <2>1, Zenon DEF Inv, LogInv, OnlyMerged, Ahead
  <1>5. ForkInv'
    BY Zenon DEF ForkInv, Same
  <1>4. AskInv'
    BY AskFrame, Zenon DEF Inv
  <1> QED BY <1>1, <1>2, <1>3, <1>4, <1>5, Zenon DEF Inv

(* The transaction that is executed, and its next call. *)
LEMMA ThisFacts ==
    ASSUME Inv, Running
    PROVE  /\ This \in Tx /\ exec \in Run
           /\ exec.a <= Len(This.acts) => This.acts[exec.a] \in Act
  <1>1. exec \in Run
    BY RunFacts, Zenon DEF Inv, Running
  <1>2. This \in Tx
    BY <1>1 DEF Inv, Types, Running, This, Run
  <1>3. This.acts \in Seq(Act) /\ exec.a \in Nat \ {0}
    BY <1>1, <1>2, StoreAssumption, Zenon DEF Run
  <1> QED BY <1>1, <1>2, <1>3

(* The executor after a transaction. *)
LEMMA NextTxFacts ==
    ASSUME NEW r \in Run, NEW f \in Db
    PROVE  \E s \in Run :
              /\ s = [r EXCEPT !.fork = f, !.check = f, !.i = @ + 1, !.a = 1, !.ok = TRUE]
              /\ s.base = r.base /\ s.fork = f /\ s.check = f /\ s.i = r.i + 1
  <1> PICK s : s = [r EXCEPT !.fork = f, !.check = f, !.i = @ + 1, !.a = 1, !.ok = TRUE]
    BY Zenon
  <1>1. s = [pc |-> r.pc, base |-> r.base, fork |-> f, check |-> f, i |-> r.i + 1, a |-> 1,
             ok |-> TRUE]
    BY Zenon DEF Run
  <1>2. /\ r.pc \in {"run"} /\ r.base \in Db /\ TRUE \in BOOLEAN
        /\ r.i + 1 \in Nat \ {0} /\ 1 \in Nat \ {0}
    BY DEF Run
  <1>3. s \in Run
    BY <1>1, <1>2, Zenon DEF Run
  <1> QED BY <1>1, <1>3, Zenon

(* A contract is called: from the cache, or from the fork. *)
LEMMA ExecCallInv ==
    ASSUME Inv, ExecCall
    PROVE  Inv'
  <1> USE DEF db, pool
  <1> DEFINE act == This.acts[exec.a]
             f == exec.fork
             g == [f EXCEPT !.code = @ \cup act.stores,
                            !.data = IF act.writes THEN Len(f.blocks) + 1 ELSE @]
  <1>1. PICK r \in get_module(act.call, f.code) :
          /\ cache' = r.cache
          /\ exec' = IF r.ok THEN [exec EXCEPT !.fork = g, !.a = @ + 1]
                     ELSE [exec EXCEPT !.ok = FALSE]
          /\ seen' = IF r.ok THEN seen \cup g.code ELSE seen
          /\ called' = IF r.ok THEN called \cup {act.call} ELSE called
    BY Zenon DEF ExecCall
  <1>2. exec \in Run /\ act \in Act /\ exec.pc = "run"
    BY ThisFacts, Zenon DEF ExecCall, Running
  <1>3. f \in Db /\ act.stores \subseteq Contract /\ act.call \in Contract
    BY <1>2, Zenon DEF Run, Act
  <1>4. /\ g \in Db /\ g.code = f.code \cup act.stores /\ g.blocks = f.blocks
        /\ g.data \in {f.data, Len(f.blocks) + 1} /\ g.config = f.config
    <2> DEFINE code == f.code \cup act.stores
               data == IF act.writes THEN Len(f.blocks) + 1 ELSE f.data
    <2>1. code \in SUBSET Contract
      BY <1>3, Zenon DEF Db
    <2>2. data \in Nat
      <3>1. f.data \in Nat /\ Len(f.blocks) \in Nat
        BY <1>3 DEF Db
      <3> QED BY <3>1
    <2>3. g = [f EXCEPT !.code = code, !.data = data]
      BY Zenon
    <2> HIDE DEF code, data, g, f, act
    <2>4. /\ g \in Db /\ g.code = code /\ g.blocks = f.blocks /\ g.data = data
          /\ g.config = f.config
      <3>1. g = [blocks |-> f.blocks, ok |-> f.ok, data |-> data, code |-> code,
                 config |-> f.config]
        BY <1>3, <2>3, Zenon DEF Db
      <3> QED BY <1>3, <2>1, <2>2, <3>1, Zenon DEF Db
    <2>5. data \in {f.data, Len(f.blocks) + 1}
      BY Zenon DEF data
    <2> QED BY <2>4, <2>5, Zenon DEF code
  <1>5. /\ IsFiniteSet(cache') /\ CacheBound'
        /\ cache' \subseteq cache \cup ({act.call} \cap f.code)
        /\ r.ok => act.call \in cache \cup f.code
    BY <1>1, ModuleFacts DEF Inv, Types, CacheBound
  <1>6. /\ exec' \in Run /\ exec'.check = exec.check /\ exec'.base = exec.base
        /\ exec'.fork = IF r.ok THEN g ELSE f
    <2>1. CASE r.ok
      <3> HIDE DEF g
      <3>1. exec' = [exec EXCEPT !.fork = g, !.a = @ + 1]
        BY <1>1, <2>1, Zenon
      <3>2. exec' = [pc |-> exec.pc, base |-> exec.base, fork |-> g, check |-> exec.check,
                     i |-> exec.i, a |-> exec.a + 1, ok |-> exec.ok]
        BY <1>2, <3>1, Zenon DEF Run
      <3>3. exec.a + 1 \in Nat \ {0} /\ g \in Db
        BY <1>2, <1>4 DEF Run
      <3>4. exec' \in Run
        BY <1>2, <3>2, <3>3, Zenon DEF Run
      <3> QED BY <2>1, <3>2, <3>4, Zenon
    <2>2. CASE ~r.ok
      BY <1>1, <1>2, <2>2, Zenon DEF Run
    <2> QED BY <2>1, <2>2, Zenon
  <1> HIDE DEF act, f, g
  <1>7. Types'
    BY <1>3, <1>5, <1>6, Zenon DEF ExecCall, Inv, Types, TaskShape
  <1>8. CodeInv'
    <2>1. f.code \subseteq seen /\ seen \subseteq seen'
      BY <1>1, <1>2, Zenon DEF Inv, CodeInv, f
    <2>2. /\ backend' = backend /\ backend.code \subseteq seen
          /\ cache \subseteq seen /\ called \subseteq seen
          /\ exec.check.code \subseteq seen
      BY <1>2, Zenon DEF ExecCall, db, Inv, CodeInv
    <2>3. cache' \subseteq seen /\ (r.ok => act.call \in seen)
      BY <1>5, <2>1, <2>2, Zenon
    <2>4. called' \subseteq seen'
      BY <1>1, <2>1, <2>2, <2>3, Zenon
    <2>5. exec'.fork.code \subseteq seen'
      BY <1>1, <1>6, <2>1, Zenon
    <2> QED BY <1>6, <2>1, <2>2, <2>3, <2>4, <2>5, Zenon DEF CodeInv
  <1>9. LogInv'
    <2>1. Ahead(f) /\ Ahead(exec.check)
      BY <1>2, Zenon DEF Inv, LogInv, f
    <2>2. backend' = backend /\ Ahead(g)
      <3>1. backend.data <= g.data /\ g.data <= Len(backend.blocks) + 1
        <4>1. backend.data \in Nat /\ Len(backend.blocks) \in Nat
          BY DEF Inv, Types, Db
        <4>2. backend.data <= Len(backend.blocks) + 1
          BY Zenon DEF Inv, LogInv
        <4> QED BY <1>4, <2>1, <4>1, <4>2 DEF Ahead
      <3> QED BY <1>4, <2>1, <3>1, Zenon DEF Ahead, ExecCall
    <2>3. Ahead(exec'.fork) /\ Ahead(exec'.check)
      BY <1>6, <2>1, <2>2, Zenon
    <2>4. (Ahead(exec.fork) /\ Ahead(exec.check))'
      BY <2>2, <2>3, Zenon DEF Ahead
    <2> QED BY <2>4, Zenon DEF ExecCall, Inv, LogInv, OnlyMerged
  <1>10. AskInv'
    BY AskFrame, Zenon DEF Inv, ExecCall
  <1>11. ForkInv'
    <2>1. /\ Same(exec.base) /\ f.config = exec.base.config
          /\ exec.check.config = exec.base.config
      BY <1>2, Zenon DEF Inv, ForkInv, f
    <2>2. exec'.fork.config = exec.base.config
      BY <1>4, <1>6, <2>1, Zenon
    <2> QED BY <1>6, <2>1, <2>2, Zenon DEF ForkInv, Same, ExecCall
  <1> QED BY <1>5, <1>7, <1>8, <1>9, <1>10, <1>11, Zenon DEF Inv

(* A transaction ends. *)
LEMMA ExecTxInv ==
    ASSUME Inv, ExecTx
    PROVE  Inv'
  <1> USE DEF db, pool
  <1>1. exec \in Run /\ This \in Tx /\ exec.pc = "run"
    BY ThisFacts, Zenon DEF ExecTx, Running
  <1>2. PICK f : /\ f \in {[exec.fork EXCEPT !.ok = @ \cup {This}], exec.check}
                 /\ exec' = [exec EXCEPT !.fork = f, !.check = f, !.i = @ + 1,
                                         !.a = 1, !.ok = TRUE]
    BY Zenon DEF ExecTx
  <1>3. /\ f \in Db
        /\ \E g \in {exec.fork, exec.check} :
             /\ f.code = g.code /\ f.blocks = g.blocks /\ f.data = g.data
             /\ f.config = g.config
    <2>1. exec.fork \in Db /\ exec.check \in Db
      BY <1>1, Zenon DEF Run
    <2>2. CASE f = exec.check
      BY <2>1, <2>2, Zenon
    <2>3. CASE f = [exec.fork EXCEPT !.ok = @ \cup {This}]
      <3>1. f = [blocks |-> exec.fork.blocks, ok |-> exec.fork.ok \cup {This},
                 data |-> exec.fork.data, code |-> exec.fork.code,
                 config |-> exec.fork.config]
        BY <2>1, <2>3, Zenon DEF Db
      <3>2. f \in Db
        BY <1>1, <2>1, <3>1, Zenon DEF Db
      <3>3. /\ f.code = exec.fork.code /\ f.blocks = exec.fork.blocks
            /\ f.data = exec.fork.data /\ f.config = exec.fork.config
        BY <3>1, Zenon
      <3> QED BY <3>2, <3>3, Zenon
    <2> QED BY <1>2, <2>2, <2>3, Zenon
  <1>4. exec' \in Run /\ exec'.fork = f /\ exec'.check = f /\ exec'.base = exec.base
    <2>1. PICK s \in Run :
              /\ s = [exec EXCEPT !.fork = f, !.check = f, !.i = @ + 1, !.a = 1, !.ok = TRUE]
              /\ s.base = exec.base /\ s.fork = f /\ s.check = f /\ s.i = exec.i + 1
      BY <1>1, <1>3, NextTxFacts, Zenon
    <2>2. exec' = s
      BY <1>2, <2>1, Zenon
    <2> QED BY <2>1, <2>2, Zenon
  <1>5. Types'
    BY <1>4, Zenon DEF ExecTx, Inv, Types, TaskShape
  <1>6. CodeInv' /\ CacheBound'
    BY <1>1, <1>3, <1>4, Zenon DEF ExecTx, Inv, CodeInv, CacheBound
  <1>7. LogInv'
    <2>1. Ahead(f) /\ backend' = backend
      BY <1>1, <1>3, Zenon DEF ExecTx, Inv, LogInv, Ahead
    <2>2. (Ahead(exec.fork) /\ Ahead(exec.check))'
      BY <1>4, <2>1, Zenon DEF Ahead
    <2> QED BY <2>2, Zenon DEF ExecTx, Inv, LogInv, OnlyMerged
  <1>8. AskInv'
    BY AskFrame, Zenon DEF Inv, ExecTx
  <1>9. ForkInv'
    <2>1. Same(exec.base) /\ f.config = exec.base.config
      BY <1>1, <1>3, Zenon DEF Inv, ForkInv
    <2> QED BY <1>4, <2>1, Zenon DEF ForkInv, Same, ExecTx
  <1> QED BY <1>5, <1>6, <1>7, <1>8, <1>9, Zenon DEF Inv

(* What is merged is what a fork has changed, or what was there already. *)
LEMMA WrittenFacts ==
    ASSUME NEW x, NEW y
    PROVE  Written(x, x, y) = y /\ Written(x, y, y) = x
  BY Zenon DEF Written

(* The fork of a block, merged, by fields: the block is appended, the       *)
(* contracts of the fork are stored, and the configuration stays as it is.  *)
LEMMA MergedFields ==
    ASSUME NEW b \in Db, NEW e \in Db, NEW f \in Db, NEW c \in Seq(Tx),
           e.blocks = b.blocks, e.ok = b.ok, e.data = b.data, e.code = b.code,
           f.blocks = b.blocks, f.config = e.config
    PROVE  \E d \in Db :
              /\ d = Merged(b, e, [f EXCEPT !.blocks = Append(@, c)])
              /\ d.blocks = Append(b.blocks, c) /\ d.code = f.code
              /\ d.config = b.config /\ d.data = f.data /\ d.ok = f.ok
  <1> DEFINE blocks == Append(b.blocks, c)
             d == [blocks |-> blocks, ok |-> f.ok, data |-> f.data,
                   code |-> f.code, config |-> b.config]
  <1>2. /\ blocks \in Seq(Seq(Tx)) /\ f.ok \in SUBSET Tx /\ f.data \in Nat
        /\ f.code \in SUBSET Contract /\ b.config \in Nat /\ f.config \in Nat
    BY DEF Db
  <1>1. d = Merged(b, e, [f EXCEPT !.blocks = Append(@, c)])
    <2>1. PICK g : g = [f EXCEPT !.blocks = Append(@, c)]
      BY Zenon
    <2>2. g = [blocks |-> blocks, ok |-> f.ok, data |-> f.data,
               code |-> f.code, config |-> f.config]
      BY <2>1, Zenon DEF Db
    <2>3. /\ g.blocks = blocks /\ g.ok = f.ok /\ g.data = f.data
          /\ g.code = f.code /\ g.config = e.config
      BY <2>2, Zenon
    <2> HIDE DEF blocks
    <2>4. /\ Written(b.blocks, e.blocks, g.blocks) = blocks
          /\ Written(b.ok, e.ok, g.ok) = f.ok
          /\ Written(b.data, e.data, g.data) = f.data
          /\ Written(b.code, e.code, g.code) = f.code
          /\ Written(b.config, e.config, g.config) = b.config
      <3>1. /\ Written(b.blocks, b.blocks, blocks) = blocks
            /\ Written(b.ok, b.ok, f.ok) = f.ok
        BY WrittenFacts, Zenon
      <3>2. /\ Written(b.data, b.data, f.data) = f.data
            /\ Written(b.code, b.code, f.code) = f.code
        BY WrittenFacts, Zenon
      <3>3. Written(b.config, e.config, e.config) = b.config
        BY WrittenFacts, Zenon
      <3> QED BY <2>3, <3>1, <3>2, <3>3, Zenon
    <2>5. Merged(b, e, g) = d
      BY <2>4, Zenon DEF Merged
    <2> QED BY <2>1, <2>5, Zenon
  <1> HIDE DEF blocks
  <1>3. d \in Db
    BY <1>2, Zenon DEF Db
  <1>4. /\ d.blocks = blocks /\ d.code = f.code
        /\ d.config = b.config /\ d.data = f.data /\ d.ok = f.ok
    BY Zenon
  <1> HIDE DEF d
  <1> QED BY <1>1, <1>3, <1>4, Zenon DEF blocks

(* What the merge of a block makes of the database. *)
LEMMA MergedFacts ==
    ASSUME Inv, exec.pc = "run",
           NEW d, d = Merged(backend, exec.base,
                             [exec.fork EXCEPT !.blocks = Append(@, confirmed)])
    PROVE  /\ d \in Db /\ Grows(backend, d) /\ d.code = exec.fork.code
           /\ d.blocks = Append(backend.blocks, confirmed) /\ d.ok = exec.fork.ok
           /\ d.data <= Len(d.blocks) + 1
           /\ Committed(d) = Committed(backend) \cup Range(confirmed)
  <1>1. /\ exec.fork \in Db /\ backend \in Db /\ confirmed \in Seq(Tx)
        /\ exec.fork.blocks = backend.blocks /\ backend.code \subseteq exec.fork.code
        /\ backend.data <= exec.fork.data /\ exec.fork.data <= Len(backend.blocks) + 1
    BY RunFacts, Zenon DEF Run, Inv, Types, LogInv, Ahead
  <1>3. /\ exec.base \in Db /\ exec.fork.config = exec.base.config
        /\ exec.base.blocks = backend.blocks /\ exec.base.ok = backend.ok
        /\ exec.base.data = backend.data /\ exec.base.code = backend.code
    BY RunFacts, Zenon DEF Run, Inv, ForkInv, Same
  <1>2. /\ backend.blocks \in Seq(Seq(Tx)) /\ backend.config \in Nat
        /\ exec.fork.data \in Nat
    BY <1>1, Zenon DEF Db
  <1> DEFINE blocks == Append(backend.blocks, confirmed)
  <1>4. blocks \in Seq(Seq(Tx)) /\ IsPrefix(backend.blocks, blocks)
    BY <1>1, <1>2, PrefixFacts
  <1>10. exec.fork.data <= Len(blocks) + 1
    BY <1>1, <1>2
  <1>5. \A i \in DOMAIN blocks : \/ blocks[i] = confirmed
                                 \/ i \in DOMAIN backend.blocks /\ blocks[i] = backend.blocks[i]
    BY <1>1, <1>2, SMTT(60)
  <1>6. /\ \A i \in DOMAIN backend.blocks : i \in DOMAIN blocks /\ blocks[i] = backend.blocks[i]
        /\ \E i \in DOMAIN blocks : blocks[i] = confirmed
    <2>1. /\ \A i \in DOMAIN backend.blocks : i \in DOMAIN blocks /\ blocks[i] = backend.blocks[i]
          /\ Len(backend.blocks) + 1 \in DOMAIN blocks
          /\ blocks[Len(backend.blocks) + 1] = confirmed
      BY <1>1, <1>2, SMTT(60)
    <2> QED BY <2>1, Zenon
  <1>7. /\ d.blocks = blocks /\ d.code = exec.fork.code /\ d.config = backend.config
        /\ d.data = exec.fork.data /\ d.ok = exec.fork.ok /\ d \in Db
    <2>1. PICK b \in Db, f \in Db, g \in Db : b = backend /\ f = exec.fork /\ g = exec.base
      BY <1>1, <1>3, Zenon
    <2>2. /\ g.blocks = b.blocks /\ g.ok = b.ok /\ g.data = b.data /\ g.code = b.code
          /\ f.blocks = b.blocks /\ f.config = g.config
      BY <1>1, <1>3, <2>1, Zenon
    <2>3. PICK e \in Db :
              /\ e = Merged(b, g, [f EXCEPT !.blocks = Append(@, confirmed)])
              /\ e.blocks = Append(b.blocks, confirmed) /\ e.code = f.code
              /\ e.config = b.config /\ e.data = f.data /\ e.ok = f.ok
      <3>1. confirmed \in Seq(Tx)
        BY <1>1, Zenon
      <3> QED BY <2>2, <3>1, MergedFields, Zenon
    <2>4. d = e
      BY <2>1, <2>3, Zenon
    <2> QED BY <2>1, <2>3, <2>4, Zenon
  <1> HIDE DEF blocks
  <1>8. Grows(backend, d)
    <2>1. backend.config <= d.config /\ backend.data <= d.data
      BY <1>1, <1>2, <1>7
    <2>2. backend.code \subseteq d.code
      BY <1>1, <1>7, Zenon
    <2>3. IsPrefix(backend.blocks, d.blocks)
      BY <1>4, <1>7, Zenon
    <2> QED BY <2>1, <2>2, <2>3, Zenon DEF Grows
  <1>9. ASSUME NEW t \in Committed(d)
        PROVE  t \in Committed(backend) \cup Range(confirmed)
    <2>1. PICK i \in DOMAIN blocks : t \in Range(blocks[i])
      BY <1>7, <1>9, Zenon DEF Committed
    <2>2. CASE blocks[i] = confirmed
      BY <2>1, <2>2, Zenon
    <2>3. CASE i \in DOMAIN backend.blocks /\ blocks[i] = backend.blocks[i]
      <3>1. t \in Range(backend.blocks[i])
        BY <2>1, <2>3, Zenon
      <3> QED BY <2>3, <3>1, Zenon DEF Committed
    <2> QED BY <1>5, <2>2, <2>3, Zenon
  <1>11. Committed(backend) \cup Range(confirmed) \subseteq Committed(d)
    BY <1>6, <1>7, ZenonT(40) DEF Committed
  <1>12. Committed(d) = Committed(backend) \cup Range(confirmed)
    BY <1>9, <1>11, ZenonT(40)
  <1> QED BY <1>7, <1>8, <1>10, <1>12, Zenon DEF blocks

(* The block is stored, or its execution is lost. *)
LEMMA ExecMergeInv ==
    ASSUME Inv, ExecMerge
    PROVE  Inv'
  <1> USE DEF db, pool
  <1> DEFINE d == Merged(backend, exec.base, [exec.fork EXCEPT !.blocks = Append(@, confirmed)])
  <1>1. CASE /\ fork_merge(d) /\ log' = Append(log, d) /\ exec' = Clean
             /\ UNCHANGED plan
    <2>1. /\ d \in Db /\ Grows(backend, d) /\ d.code = exec.fork.code
          /\ d.data <= Len(d.blocks) + 1
      BY MergedFacts, Zenon DEF ExecMerge
    <2>2. backend' = d /\ snap' = d /\ exec'.pc = "clean"
      BY <1>1, Zenon DEF fork_merge, Clean
    <2> HIDE DEF d
    <2>3. /\ log' \in Seq(Db) /\ log' # <<>> /\ OnlyMerged'
          /\ (\A i, j \in DOMAIN log : i <= j => Grows(log[i], log[j]))'
      BY <1>1, <2>1, <2>2, LogAppend, Zenon DEF Inv
    <2>4. Types'
      BY <1>1, <2>1, <2>2, <2>3, Zenon DEF ExecMerge, Inv, Types, TaskShape
    <2>5. CodeInv' /\ CacheBound'
      BY <2>1, <2>2, Zenon DEF ExecMerge, Inv, CodeInv, CacheBound
    <2>6. LogInv' /\ ForkInv'
      BY <2>1, <2>2, <2>3, Zenon DEF LogInv, ForkInv
    <2>7. AskInv'
      BY <1>1, AskFrame, Zenon DEF ExecMerge, Inv
    <2> QED BY <2>4, <2>5, <2>6, <2>7, Zenon DEF Inv
  <1>2. CASE /\ plan.faults > 0 /\ plan' = [plan EXCEPT !.faults = @ - 1]
             /\ exec' = NoExec /\ UNCHANGED <<db, log>>
    <2>1. plan' \in PlanType /\ plan'.requests = plan.requests
      <3>1. plan \in PlanType /\ plan.faults - 1 \in Nat
        BY <1>2 DEF Inv, Types, PlanType
      <3>2. plan' = [pool |-> plan.pool, blocks |-> plan.blocks, requests |-> plan.requests,
                     faults |-> plan.faults - 1, configs |-> plan.configs]
        BY <1>2, <3>1, Zenon DEF PlanType
      <3> QED BY <3>1, <3>2, Zenon DEF PlanType
    <2>2. exec'.pc = "idle"
      BY <1>2, Zenon DEF NoExec
    <2>3. Types'
      BY <1>2, <2>1, Zenon DEF ExecMerge, Inv, Types, TaskShape
    <2>4. CodeInv' /\ CacheBound'
      BY <1>2, <2>2, Zenon DEF ExecMerge, Inv, CodeInv, CacheBound
    <2>5. LogInv' /\ ForkInv'
      BY <1>2, <2>2, Zenon DEF Inv, LogInv, OnlyMerged, ForkInv
    <2>6. AskInv'
      BY <2>1, AskFrame, Zenon DEF ExecMerge, Inv
    <2> QED BY <2>3, <2>4, <2>5, <2>6, Zenon DEF Inv
  <1> QED BY <1>1, <1>2, Zenon DEF ExecMerge, ExecFailed, Clean

(* The block leaves the pool. *)
LEMMA ExecCleanInv ==
    ASSUME Inv, ExecClean
    PROVE  Inv'
  <1> USE DEF ExecClean, db, history
  <1>1. <<>> \in Seq(Tx) /\ Range(<<>>) = {} /\ NoExec.pc = "idle"
    BY DEF Range, NoExec
  <1>2. Types'
    BY <1>1, Zenon DEF Inv, Types, TaskShape
  <1>3. CodeInv' /\ CacheBound'
    BY <1>1, Zenon DEF Inv, CodeInv, CacheBound
  <1>4. LogInv' /\ ForkInv'
    BY <1>1, Zenon DEF Inv, LogInv, OnlyMerged, ForkInv
  <1>5. AskInv'
    BY AskFrame, Zenon DEF Inv
  <1> QED BY <1>2, <1>3, <1>4, <1>5, Zenon DEF Inv

(* A configuration is stored, possibly while an executor has a fork. *)
LEMMA StoreConfigInv ==
    ASSUME Inv, StoreConfig
    PROVE  Inv'
  <1> USE DEF pool
  <1> DEFINE d == [backend EXCEPT !.config = @ + 1]
  <1>1. /\ backend \in Db /\ backend.config \in Nat /\ backend.config + 1 \in Nat
        /\ backend.data \in Nat
    BY SMTT(60) DEF Inv, Types, Db
  <1>2. d = [blocks |-> backend.blocks, ok |-> backend.ok, data |-> backend.data,
             code |-> backend.code, config |-> backend.config + 1]
    <2> DEFINE n == backend.config + 1
    <2> HIDE DEF n
    <2>1. [backend EXCEPT !.config = n] =
            [blocks |-> backend.blocks, ok |-> backend.ok, data |-> backend.data,
             code |-> backend.code, config |-> n]
      <3>1. backend \in Db
        BY <1>1, Zenon
      <3>2. PICK e : e = [backend EXCEPT !.config = n]
        BY Zenon
      <3>3. e = [blocks |-> backend.blocks, ok |-> backend.ok, data |-> backend.data,
                 code |-> backend.code, config |-> n]
        BY <3>1, <3>2, Zenon DEF Db
      <3> QED BY <3>2, <3>3, Zenon
    <2> QED BY <2>1, Zenon DEF n
  <1>3. backend' = d /\ snap' = d /\ log' = Append(log, d)
    BY Zenon DEF StoreConfig, fork_merge
  <1> HIDE DEF d
  <1>4. /\ d.blocks = backend.blocks /\ d.code = backend.code
        /\ d.config = backend.config + 1 /\ d.data = backend.data /\ d.ok = backend.ok
    BY <1>2, Zenon
  <1>5. d \in Db
    BY <1>1, <1>2, Zenon DEF Db
  <1>6. Grows(backend, d)
    <2>1. IsPrefix(backend.blocks, d.blocks)
      BY <1>1, <1>4, GrowsFacts, Zenon DEF Grows
    <2> QED BY <1>1, <1>4, <2>1 DEF Grows
  <1>7. /\ log' \in Seq(Db) /\ log' # <<>> /\ OnlyMerged'
        /\ (\A i, j \in DOMAIN log : i <= j => Grows(log[i], log[j]))'
    BY <1>3, <1>5, <1>6, LogAppend, Zenon DEF Inv
  <1>8. plan' \in PlanType /\ plan'.requests = plan.requests
    <2>1. /\ plan \in PlanType /\ plan.configs - 1 \in Nat
          /\ plan' = [plan EXCEPT !.configs = @ - 1]
      BY DEF StoreConfig, Inv, Types, PlanType
    <2>2. plan' = [pool |-> plan.pool, blocks |-> plan.blocks, requests |-> plan.requests,
                   faults |-> plan.faults, configs |-> plan.configs - 1]
      BY <2>1, Zenon DEF PlanType
    <2> QED BY <2>1, <2>2, Zenon DEF PlanType
  <1>9. Types'
    BY <1>3, <1>5, <1>7, <1>8, Zenon DEF StoreConfig, Inv, Types, TaskShape
  <1>10. CodeInv' /\ CacheBound'
    BY <1>3, <1>4, Zenon DEF StoreConfig, Inv, CodeInv, CacheBound
  <1>11. LogInv'
    BY <1>3, <1>4, <1>7, Zenon DEF StoreConfig, Inv, LogInv, Ahead
  <1>12. AskInv'
    BY <1>8, AskFrame, Zenon DEF StoreConfig, Inv
  <1>13. ForkInv'
    <2>1. exec' = exec
      BY Zenon DEF StoreConfig
    <2> QED BY <1>3, <1>4, <2>1, Zenon DEF Inv, ForkInv, Same
  <1> QED BY <1>9, <1>10, <1>11, <1>12, <1>13, Zenon DEF Inv

-----------------------------------------------------------------------------
(* Every step of Store keeps the invariant. *)
LEMMA NextInv ==
    ASSUME Inv, [Next]_vars
    PROVE  Inv'
  <1>1. CASE StoreConfig
    BY <1>1, StoreConfigInv, Zenon
  <1>2. CASE Executor
    BY <1>2, ExecBeginInv, ExecCallInv, ExecTxInv, ExecMergeInv, ExecCleanInv, Zenon
      DEF Executor
  <1>3. ASSUME NEW t \in unconfirmed, NEW u \in unconfirmed, Build(<<t>>) \/ Build(<<t, u>>)
        PROVE  Inv'
    <2>1. <<t>> \in Seq(unconfirmed) /\ <<t, u>> \in Seq(unconfirmed)
      OBVIOUS
    <2> QED BY <1>3, <2>1, BuildInv, Zenon
  <1>4. ASSUME NEW k \in Task, Serve(k)
        PROVE  Inv'
    BY <1>4, ServeInv, Zenon
  <1>5. CASE UNCHANGED vars
    <2>1. Types' /\ CacheBound'
      BY <1>5, Zenon DEF vars, db, pool, history, Inv, Types, TaskShape, CacheBound
    <2>2. CodeInv'
      BY <1>5, Zenon DEF vars, db, history, Inv, CodeInv
    <2>3. LogInv' /\ ForkInv'
      BY <1>5, Zenon DEF vars, db, history, Inv, LogInv, OnlyMerged, Ahead, ForkInv, Same
    <2>4. AskInv'
      BY <1>5, AskFrame, Zenon DEF vars, Inv
    <2> QED BY <2>1, <2>2, <2>3, <2>4, Zenon DEF Inv
  <1>6. CASE TakeBlock
    BY <1>6, TakeBlockInv, Zenon
  <1> QED BY <1>1, <1>2, <1>3, <1>4, <1>5, <1>6, Zenon DEF Next

(* The invariant holds always: of the forks that an executor works on, of   *)
(* the requests of the tasks, of the log and of the cache.                  *)
THEOREM StoreInvariant == Spec => []Inv
  <1>1. Init => Inv
    BY InitInv, Zenon
  <1>2. Inv /\ [Next]_vars => Inv'
    BY NextInv, Zenon
  <1> QED BY <1>1, <1>2, PTL DEF Spec

(* The reads see what the executor and the configuration have merged, and   *)
(* nothing of a fork of the read-only executor or of one that was lost      *)
(* (fork_merge).                                                            *)
THEOREM OnlyMergedIsStored == Spec => []OnlyMerged
  <1>1. Inv => OnlyMerged
    BY Zenon DEF Inv, LogInv
  <1> QED BY <1>1, StoreInvariant, PTL

(* A contract that get_module gives was in a fork, also when it comes from  *)
(* the cache and that fork was rolled back.                                 *)
THEOREM OnlyStoredIsCalled == Spec => []CalledWasStored
  <1>1. Inv => CalledWasStored
    BY Zenon DEF Inv, CodeInv, CalledWasStored
  <1> QED BY <1>1, StoreInvariant, PTL

(* load_module keeps at most one module more than cache_max. *)
THEOREM CacheIsBounded == Spec => []CacheBound
  <1>1. Inv => CacheBound
    BY Zenon DEF Inv
  <1> QED BY <1>1, StoreInvariant, PTL

-----------------------------------------------------------------------------
(***************************************************************************)
(* The answers of the dispatcher tasks.  What a task has read so far is    *)
(* what the database held at one moment since the request began, also when *)
(* other merges come between two sections of the lock.                     *)
(***************************************************************************)
Kinds == {"get_block", "get_account", "get_tx", "get_receipt", "put", "get_stats",
          "get_network", "ro_exec"}
Since(k) == task[k].from .. Len(log)

(* The values of an account, in the order in which they were read. *)
Forward(k) ==
    LET got == task[k].got IN
    /\ got \in Seq(Nat)
    /\ got # <<>> => log[task[k].from].data <= got[1]
    /\ \A i, j \in DOMAIN got : i <= j => got[i] <= got[j]
    /\ \A i \in DOMAIN got : got[i] <= backend.data

(* The answer to a request that the database d gives. *)
AnswerOf(d, r, got) ==
    CASE r.type = "get_block" -> /\ got[1] = load_block(d, r.height)
                                 /\ Len(got) = 2 => got[2] = d.blocks[got[1]]
      [] r.type = "get_receipt" -> got = <<Receipt(d, r.tx)>>
      [] r.type = "get_network" -> got = <<d.config>>
      [] r.type = "ro_exec" -> got = <<d, r.code \in d.code>>
      [] OTHER -> TRUE
Answered(k) == \E i \in Since(k) : AnswerOf(log[i], Request(k), task[k].got)

Reads(k) ==
    LET pc == task[k].pc  got == task[k].got  r == Request(k) IN
    /\ task[k].from \in DOMAIN log
    /\ pc \in Kinds => r.type = pc
    /\ pc \in Kinds \ {"get_account", "get_stats"} => got = <<>>
    /\ pc = "hashes" =>
         /\ r.type = "get_block"
         /\ \E i \in Since(k) : LET b == load_block(log[i], r.height)
                                IN  got = <<b>> /\ b \in DOMAIN log[i].blocks
    /\ pc = "ro_run" => r.type = "ro_exec" /\ \E i \in Since(k) : got = <<log[i]>>
    /\ pc = "pool" => r.type = "get_tx"
    /\ pc = "insert" => r.type = "put"
    /\ pc = "get_account" => Forward(k)
    /\ pc = "done" => /\ Answered(k)
                      /\ r.type = "get_account" => Forward(k) /\ got # <<>>
ReadsInv == \A k \in Task : Reads(k)

-----------------------------------------------------------------------------
(* What is appended to nothing, and to one value. *)
LEMMA Appended ==
    ASSUME NEW x, NEW y
    PROVE  /\ Append(<<>>, x) = <<x>> /\ Append(<<x>>, y) = <<x, y>>
           /\ <<x>>[1] = x /\ Len(<<x>>) = 1
           /\ <<x, y>>[1] = x /\ <<x, y>>[2] = y
  <1>1. Append(<<>>, x) = <<x>>
    OBVIOUS
  <1>2. Append(<<x>>, y) = <<x, y>>
    <2> DEFINE s == Append(<<x>>, y)
    <2>1. <<x>> \in Seq({x, y}) /\ Len(<<x>>) = 1 /\ <<x>>[1] = x
      OBVIOUS
    <2>2. s \in Seq({x, y}) /\ Len(s) = 2 /\ s[1] = x /\ s[2] = y
      BY <2>1
    <2> HIDE DEF s
    <2>3. s = <<s[1], s[2]>>
      BY <2>2
    <2> QED BY <2>2, <2>3, Zenon DEF s
  <1>3. /\ <<x>>[1] = x /\ Len(<<x>>) = 1
        /\ <<x, y>>[1] = x /\ <<x, y>>[2] = y
    BY Zenon
  <1> QED BY <1>1, <1>2, <1>3, Zenon

(* Sequences that begin with another one agree with it. *)
LEMMA PrefixAt ==
    ASSUME NEW S, NEW p \in Seq(S), NEW q \in Seq(S), IsPrefix(p, q), NEW j \in DOMAIN p
    PROVE  p[j] = q[j]
  BY Zenon DEF IsPrefix

(* The reads see the last state of the log, and every other state of it is  *)
(* what grew into that one.                                                 *)
LogState ==
    /\ Len(log) \in Nat /\ Len(log) >= 1 /\ DOMAIN log = 1 .. Len(log)
    /\ snap = log[Len(log)] /\ backend = log[Len(log)]
    /\ \A i \in DOMAIN log : log[i] \in Db /\ Grows(log[i], backend)

(* The invariant of the database implies it. *)
LEMMA LogFacts == Inv => LogState
  <1> SUFFICES ASSUME Inv
               PROVE  LogState
    BY Zenon
  <1>1. log \in Seq(Db) /\ log # <<>>
    BY Zenon DEF Inv, Types
  <1>2. Len(log) \in Nat \ {0} /\ DOMAIN log = 1 .. Len(log)
    BY <1>1
  <1>3. snap = log[Len(log)] /\ backend = log[Len(log)]
    BY Zenon DEF Inv, LogInv, OnlyMerged
  <1>4. \A i \in DOMAIN log : log[i] \in Db
    BY <1>1
  <1>5. \A i \in DOMAIN log : i <= Len(log) /\ Len(log) \in DOMAIN log
    BY <1>2
  <1>6. \A i \in DOMAIN log : Grows(log[i], backend)
    BY <1>3, <1>5, Zenon DEF Inv, LogInv
  <1> QED BY <1>2, <1>3, <1>4, <1>6 DEF LogState

(* The log keeps what it has. *)
LogKept == Len(log) <= Len(log') /\ \A i \in DOMAIN log : log'[i] = log[i]

(* It does when a merge appends to it. *)
LEMMA LogIsKept ==
    ASSUME Inv, NEW d, log' = log \/ log' = Append(log, d)
    PROVE  LogKept
  <1>1. log \in Seq(Db) /\ Len(log) \in Nat
    BY DEF Inv, Types
  <1>2. CASE log' = log
    BY <1>1, <1>2 DEF LogKept
  <1>3. CASE log' = Append(log, d)
    <2>1. Len(log') = Len(log) + 1 /\ \A i \in DOMAIN log : log'[i] = log[i]
      BY <1>1, <1>3
    <2> QED BY <1>1, <2>1 DEF LogKept
  <1> QED BY <1>2, <1>3, Zenon

(* What a task has read stays good while others merge. *)
LEMMA ReadsKept ==
    ASSUME Inv, Inv', NEW k \in Task, Reads(k), task'[k] = task[k],
           plan'.requests[k] = plan.requests[k], LogKept
    PROVE  Reads(k)'
  <1>0. LogState /\ LogState'
    BY LogFacts, PTL
  <1>1. /\ Len(log) \in Nat /\ Len(log) >= 1 /\ DOMAIN log = 1 .. Len(log)
        /\ Len(log') \in Nat /\ Len(log') >= 1 /\ DOMAIN log' = 1 .. Len(log')
    BY <1>0, Zenon DEF LogState
  <1>2. Len(log) <= Len(log') /\ \A i \in DOMAIN log : log'[i] = log[i]
    BY Zenon DEF LogKept
  <1>3. backend.data \in Nat /\ backend'.data \in Nat /\ backend.data <= backend'.data
    <2>1. Len(log) \in DOMAIN log' /\ log'[Len(log)] = backend
      BY <1>0, <1>1, <1>2 DEF LogState
    <2>2. \A i \in DOMAIN log' : Grows(log'[i], backend')
      BY <1>0, Zenon DEF LogState
    <2>3. Grows(backend, backend')
      BY <2>1, <2>2, Zenon
    <2> QED BY <2>3, Zenon DEF Grows, Inv, Types, Db
  <1>4. /\ Request(k)' = Request(k) /\ task[k].from \in DOMAIN log
        /\ task[k].from \in DOMAIN log' /\ log'[task[k].from] = log[task[k].from]
        /\ \A i \in Since(k) : i \in Since(k)' /\ log'[i] = log[i]
    <2>1. Request(k)' = Request(k) /\ task[k].from \in DOMAIN log
      BY Zenon DEF Request, Reads
    <2>2. \A i \in Since(k) : i \in DOMAIN log /\ i \in Since(k)'
      BY <1>1, <1>2, <2>1 DEF Since
    <2>3. task[k].from \in DOMAIN log'
      BY <1>1, <1>2, <2>1
    <2> QED BY <1>2, <2>1, <2>2, <2>3, Zenon
  <1>5. Forward(k) => Forward(k)'
    BY <1>3, <1>4 DEF Forward
  <1>6. Answered(k) => Answered(k)'
    <2>1. ASSUME NEW i \in Since(k), AnswerOf(log[i], Request(k), task[k].got)
          PROVE  AnswerOf(log'[i], Request(k)', task'[k].got)
      BY <1>4, <2>1, Zenon
    <2> QED BY <1>4, <2>1, Zenon DEF Answered
  <1>7. /\ task'[k].pc = "hashes" => (\E i \in Since(k) : LET b == load_block(log[i], Request(k).height)
                                IN  task[k].got = <<b>> /\ b \in DOMAIN log[i].blocks)'
        /\ task'[k].pc = "ro_run" => (\E i \in Since(k) : task[k].got = <<log[i]>>)'
    BY <1>4, Zenon DEF Reads
  <1> QED BY <1>4, <1>5, <1>6, <1>7, Zenon DEF Reads

(* A step of a task: what it sees is the last state of the log, and that    *)
(* state is one since the request began.                                    *)
LEMMA StepReads ==
    ASSUME Inv, NEW k \in Task, Reads(k), NEW pc, NEW got, Steps(k, pc, got),
           UNCHANGED <<plan, log>>
    PROVE  /\ task'[k].pc = pc /\ task'[k].from = task[k].from
           /\ task'[k].got = Append(task[k].got, got)
           /\ Request(k)' = Request(k) /\ Since(k)' = Since(k)
           /\ task'[k].from \in DOMAIN log'
           /\ Len(log) \in Since(k) /\ log[Len(log)] = snap /\ log[Len(log)] = backend
  <1>1. /\ task'[k].pc = pc /\ task'[k].from = task[k].from
        /\ task'[k].got = Append(task[k].got, got)
    BY StepsFacts DEF Inv, Types
  <1>2. Request(k)' = Request(k) /\ Since(k)' = Since(k) /\ task'[k].from \in DOMAIN log'
    BY <1>1, Zenon DEF Request, Since, Reads
  <1>3. Len(log) \in Since(k) /\ log[Len(log)] = snap /\ log[Len(log)] = backend
    <2>1. LogState /\ task[k].from \in DOMAIN log
      BY LogFacts, Zenon DEF Reads
    <2>2. /\ log[Len(log)] = snap /\ log[Len(log)] = backend
          /\ Len(log) \in Nat /\ DOMAIN log = 1 .. Len(log)
      BY <2>1, Zenon DEF LogState
    <2>3. Len(log) \in task[k].from .. Len(log)
      BY <2>1, <2>2
    <2> QED BY <2>2, <2>3, Zenon DEF Since
  <1> QED BY <1>1, <1>2, <1>3, Zenon

(* The other handlers get to `done` with nothing to show. *)
LEMMA OtherReads ==
    ASSUME Inv, NEW k \in Task, Reads(k), NEW pc, NEW got, Steps(k, pc, got),
           UNCHANGED <<plan, log>>,
           Request(k).type \in {"get_tx", "get_stats", "put"},
           \/ pc = "done"
           \/ pc = "pool" /\ Request(k).type = "get_tx"
           \/ pc = "get_stats" /\ Request(k).type = "get_stats"
           \/ pc = "insert" /\ Request(k).type = "put"
    PROVE  Reads(k)'
  <1>1. /\ task'[k].pc = pc /\ Request(k)' = Request(k) /\ Since(k)' = Since(k)
        /\ task'[k].from \in DOMAIN log' /\ Len(log) \in Since(k)
    BY StepReads, Zenon
  <1>2. Answered(k)'
    BY <1>1, Zenon DEF Answered, AnswerOf
  <1> QED BY <1>1, <1>2, Zenon DEF Reads, Kinds

(* get_block_handler: the list of transactions is loaded in a section of    *)
(* its own, for the block that was found in the one before.                 *)
LEMMA BlockReads ==
    ASSUME Inv, NEW k \in Task, Reads(k), get_block_handler(k)
    PROVE  Reads(k)'
  <1> DEFINE r == Request(k)
             b == load_block(snap, r.height)
  <1> UNCHANGED <<plan, log>>
    BY Zenon DEF get_block_handler, others, history
  <1>1. CASE task[k].pc = "get_block"
    <2>1. Steps(k, IF b # 0 /\ r.txs THEN "hashes" ELSE "done", b)
      BY <1>1, Zenon DEF get_block_handler
    <2>2. r.type = "get_block" /\ task[k].got = <<>>
      BY <1>1, Zenon DEF Reads, Kinds
    <2>3. PICK pc : pc \in {"hashes", "done"} /\ (pc = "hashes" => b # 0) /\ Steps(k, pc, b)
      BY <2>1, Zenon
    <2>4. b # 0 => b \in DOMAIN snap.blocks
      <3>1. snap.blocks \in Seq(Seq(Tx))
        BY LogFacts DEF LogState, Db
      <3> QED BY <3>1 DEF load_block
    <2> HIDE DEF b
    <2>5. /\ task'[k].pc = pc /\ task'[k].got = <<b>>
          /\ Request(k)' = r /\ Since(k)' = Since(k) /\ task'[k].from \in DOMAIN log'
          /\ Len(log) \in Since(k) /\ log[Len(log)] = snap
      BY <2>2, <2>3, StepReads, Appended
    <2>6. CASE pc = "hashes"
      <3>1. \E i \in Since(k)' : LET c == load_block(log'[i], Request(k)'.height)
                                 IN  task'[k].got = <<c>> /\ c \in DOMAIN log'[i].blocks
        BY <2>3, <2>4, <2>5, <2>6, Zenon DEF b
      <3> QED BY <2>2, <2>5, <2>6, <3>1, Zenon DEF Reads, Kinds
    <2>7. CASE pc = "done"
      <3>1. task'[k].got[1] = b /\ Len(task'[k].got) = 1
        BY <2>5, Appended, Zenon
      <3>2. AnswerOf(snap, r, task'[k].got)
        BY <2>2, <3>1 DEF AnswerOf, b
      <3>3. Answered(k)'
        BY <2>5, <3>2, Zenon DEF Answered
      <3> QED BY <2>2, <2>5, <2>7, <3>3, Zenon DEF Reads, Kinds
    <2> QED BY <2>3, <2>6, <2>7, Zenon
  <1>2. CASE task[k].pc = "hashes"
    <2> DEFINE list == load_transactions_hashes(snap, task[k].got[1], r.height)
    <2>1. Steps(k, "done", list)
      BY <1>2, Zenon DEF get_block_handler
    <2>2. r.type = "get_block"
      BY <1>2, Zenon DEF Reads
    <2>3. PICK i \in Since(k) : LET c == load_block(log[i], r.height)
                                IN  task[k].got = <<c>> /\ c \in DOMAIN log[i].blocks
      BY <1>2, Zenon DEF Reads
    <2> DEFINE c == load_block(log[i], r.height)
    <2>4. task[k].got = <<c>> /\ c \in DOMAIN log[i].blocks
      BY <2>3, Zenon
    <2>5. list = log[i].blocks[c]
      <3>1. list = snap.blocks[c]
        BY <2>4, Appended, Zenon DEF load_transactions_hashes
      <3>2. i \in DOMAIN log
        <4>1. task[k].from \in DOMAIN log
          BY Zenon DEF Reads
        <4>2. log \in Seq(Db)
          BY Zenon DEF Inv, Types
        <4> QED BY <4>1, <4>2 DEF Since
      <3>3. IsPrefix(log[i].blocks, snap.blocks) /\ snap \in Db /\ log[i] \in Db
        BY <3>2, LogFacts DEF LogState, Grows
      <3>4. snap.blocks \in Seq(Seq(Tx)) /\ log[i].blocks \in Seq(Seq(Tx))
        BY <3>3, Zenon DEF Db
      <3> QED BY <2>4, <3>1, <3>3, <3>4, PrefixAt, ZenonT(60)
    <2> HIDE DEF list, c
    <2>6. /\ task'[k].pc = "done" /\ task'[k].got = <<c, list>>
          /\ Request(k)' = r /\ Since(k)' = Since(k) /\ task'[k].from \in DOMAIN log'
      <3>1. /\ task'[k].pc = "done" /\ task'[k].got = Append(task[k].got, list)
            /\ Request(k)' = r /\ Since(k)' = Since(k) /\ task'[k].from \in DOMAIN log'
        BY <2>1, StepReads, Zenon
      <3> QED BY <2>4, <3>1, Appended
    <2>7. task'[k].got[1] = c /\ task'[k].got[2] = list
      BY <2>6, Appended
    <2>8. AnswerOf(log[i], r, task'[k].got)
      BY <2>2, <2>5, <2>7, Zenon DEF AnswerOf, c
    <2>9. Answered(k)'
      BY <2>6, <2>8, Zenon DEF Answered
    <2> QED BY <2>2, <2>6, <2>9, Zenon DEF Reads, Kinds
  <1> QED BY <1>1, <1>2, Zenon DEF get_block_handler

(* get_receipt_handler and get_network_id_handler: one section. *)
LEMMA OneRead ==
    ASSUME Inv, NEW k \in Task, Reads(k),
           get_receipt_handler(k) \/ get_network_id_handler(k)
    PROVE  Reads(k)'
  <1> UNCHANGED <<plan, log>>
    BY Zenon DEF get_receipt_handler, get_network_id_handler, others, history
  <1>1. PICK got : /\ Steps(k, "done", got)
                   /\ \/ task[k].pc = "get_receipt" /\ got = Receipt(snap, Request(k).tx)
                      \/ task[k].pc = "get_network" /\ got = snap.config
    BY Zenon DEF get_receipt_handler, get_network_id_handler
  <1>2. Request(k).type = task[k].pc /\ task[k].got = <<>>
    BY <1>1, Zenon DEF Reads, Kinds
  <1>3. /\ task'[k].pc = "done" /\ task'[k].got = <<got>>
        /\ Request(k)' = Request(k) /\ Since(k)' = Since(k) /\ task'[k].from \in DOMAIN log'
        /\ Len(log) \in Since(k) /\ log[Len(log)] = snap
    BY <1>1, <1>2, StepReads, Appended
  <1>4. AnswerOf(snap, Request(k), task'[k].got)
    BY <1>1, <1>2, <1>3, Zenon DEF AnswerOf
  <1>5. Answered(k)'
    BY <1>3, <1>4, Zenon DEF Answered
  <1> QED BY <1>1, <1>2, <1>3, <1>5, Zenon DEF Reads, Kinds

(* The read-only executor: its fork is one state, whatever is merged by the *)
(* time it has run.                                                         *)
LEMMA RoReads ==
    ASSUME Inv, NEW k \in Task, Reads(k), RoBegin(k) \/ RoEnd(k)
    PROVE  Reads(k)'
  <1> UNCHANGED <<plan, log>>
    BY Zenon DEF RoBegin, RoEnd, others, history
  <1>1. CASE RoBegin(k)
    <2>1. Steps(k, "ro_run", backend) /\ task[k].pc = "ro_exec"
      BY <1>1, Zenon DEF RoBegin
    <2>2. Request(k).type = "ro_exec" /\ task[k].got = <<>>
      BY <2>1, Zenon DEF Reads, Kinds
    <2>3. /\ task'[k].pc = "ro_run" /\ task'[k].got = <<backend>>
          /\ Request(k)' = Request(k) /\ Since(k)' = Since(k) /\ task'[k].from \in DOMAIN log'
          /\ Len(log) \in Since(k) /\ log[Len(log)] = backend
      BY <2>1, <2>2, StepReads, Appended
    <2> QED BY <2>2, <2>3, Zenon DEF Reads, Kinds
  <1>2. CASE RoEnd(k)
    <2>1. task[k].pc = "ro_run"
      BY <1>2, Zenon DEF RoEnd
    <2>2. PICK i \in Since(k) : task[k].got = <<log[i]>>
      BY <2>1, Zenon DEF Reads
    <2> DEFINE found == Request(k).code \in log[i].code
    <2>3. Steps(k, "done", found)
      BY <1>2, <2>2, Appended, Zenon DEF RoEnd
    <2>4. Request(k).type = "ro_exec"
      BY <2>1, Zenon DEF Reads
    <2>5. /\ task'[k].pc = "done" /\ task'[k].got = Append(<<log[i]>>, found)
          /\ Request(k)' = Request(k) /\ Since(k)' = Since(k) /\ task'[k].from \in DOMAIN log'
      BY <2>2, <2>3, StepReads, Zenon
    <2>6. task'[k].got = <<log[i], found>>
      BY <2>5, Appended, ZenonT(60)
    <2>7. AnswerOf(log[i], Request(k), task'[k].got)
      BY <2>4, <2>6, Zenon DEF AnswerOf
    <2>8. Answered(k)'
      BY <2>5, <2>7, Zenon DEF Answered
    <2> HIDE DEF found
    <2> QED BY <2>4, <2>5, <2>8, ZenonT(40) DEF Reads, Kinds
  <1> QED BY <1>1, <1>2, Zenon

(* get_account_handler: three sections, each of them after the other. *)
LEMMA AccountReads ==
    ASSUME Inv, NEW k \in Task, Reads(k), get_account_handler(k)
    PROVE  Reads(k)'
  <1> DEFINE got == task[k].got
             v == snap.data
  <1> UNCHANGED <<plan, log, backend>>
    BY Zenon DEF get_account_handler, others, history, db
  <1>1. PICK pc : pc \in {"done", "get_account"} /\ Steps(k, pc, v)
    BY Zenon DEF get_account_handler
  <1>2. task[k].pc = "get_account" /\ Request(k).type = "get_account" /\ Forward(k)
    BY Zenon DEF get_account_handler, Reads, Kinds
  <1>3. /\ task'[k].pc = pc /\ task'[k].got = Append(got, v)
        /\ task'[k].from = task[k].from
        /\ Request(k)' = Request(k) /\ Since(k)' = Since(k) /\ task'[k].from \in DOMAIN log'
        /\ Len(log) \in Since(k) /\ log[Len(log)] = snap /\ log[Len(log)] = backend
    <2>1. UNCHANGED <<plan, log>> /\ Steps(k, pc, v)
      BY <1>1, Zenon
    <2> HIDE DEF v
    <2>2. /\ task'[k].pc = pc /\ task'[k].from = task[k].from
          /\ task'[k].got = Append(task[k].got, v)
          /\ Request(k)' = Request(k) /\ Since(k)' = Since(k)
          /\ task'[k].from \in DOMAIN log'
          /\ Len(log) \in Since(k) /\ log[Len(log)] = snap /\ log[Len(log)] = backend
      BY <2>1, StepReads, Zenon
    <2>3. QED
      BY <2>2, Zenon
  <1>4. /\ v \in Nat /\ v = backend.data
        /\ log[task[k].from].data \in Nat /\ log[task[k].from].data <= v
    <2>1. task[k].from \in DOMAIN log
      BY Zenon DEF Reads
    <2>2. log[task[k].from] \in Db /\ backend \in Db /\ Grows(log[task[k].from], backend)
      BY <2>1, LogFacts, Zenon DEF LogState, Inv, Types
    <2> QED BY <1>3, <2>2, Zenon DEF Db, Grows
  <1> HIDE DEF v
  <1>5. /\ got \in Seq(Nat)
        /\ got # <<>> => log[task[k].from].data <= got[1]
        /\ \A i, j \in DOMAIN got : i <= j => got[i] <= got[j]
        /\ \A i \in DOMAIN got : got[i] <= v
    BY <1>2, <1>4, Zenon DEF Forward
  <1>6. Forward(k)' /\ task'[k].got # <<>>
    <2> DEFINE more == Append(got, v)
    <2>1. /\ more \in Seq(Nat) /\ more # <<>> /\ DOMAIN more = 1 .. Len(got) + 1
          /\ Len(got) \in Nat /\ DOMAIN got = 1 .. Len(got)
          /\ more[Len(got) + 1] = v /\ \A i \in DOMAIN got : more[i] = got[i]
      BY <1>4, <1>5, AppendNat, Zenon
    <2> HIDE DEF more
    <2>2. log[task[k].from].data <= more[1]
      <3>1. CASE got = <<>>
        <4>1. more[1] = v
          BY <2>1, <3>1
        <4> QED BY <1>4, <4>1, Zenon
      <3>2. CASE got # <<>>
        <4>1. 1 \in DOMAIN got
          BY <1>5, <3>2
        <4> QED BY <1>5, <2>1, <3>2, <4>1, Zenon
      <3> QED BY <3>1, <3>2, Zenon
    <2>3. ASSUME NEW i \in DOMAIN more
          PROVE  more[i] <= v
      <3>1. CASE i = Len(got) + 1
        BY <1>4, <2>1, <3>1
      <3>2. CASE i \in DOMAIN got
        BY <1>5, <2>1, <3>2, Zenon
      <3> QED BY <2>1, <3>1, <3>2, LastOrBefore, Zenon
    <2>4. ASSUME NEW i \in DOMAIN more, NEW j \in DOMAIN more, i <= j
          PROVE  more[i] <= more[j]
      <3>1. CASE j = Len(got) + 1
        BY <2>1, <2>3, <3>1, Zenon
      <3>2. CASE j \in DOMAIN got
        <4>1. i \in DOMAIN got
          BY <2>1, <2>4, <3>2, Before, Zenon
        <4> QED BY <1>5, <2>1, <2>4, <3>2, <4>1, Zenon
      <3> QED BY <2>1, <3>1, <3>2, LastOrBefore, Zenon
    <2>5. task'[k].got = more
      BY <1>3, Zenon DEF more
    <2> QED BY <1>3, <1>4, <2>1, <2>2, <2>3, <2>4, <2>5, Zenon DEF Forward
  <1>7. Answered(k)'
    BY <1>2, <1>3, Zenon DEF Answered, AnswerOf
  <1> QED BY <1>1, <1>2, <1>3, <1>6, <1>7, Zenon DEF Reads, Kinds

(* A request is taken, and its answer sent. *)
LEMMA BeginEndReads ==
    ASSUME Inv, Inv', NEW k \in Task, Reads(k), Begin(k) \/ End(k)
    PROVE  Reads(k)'
  <1>1. CASE Begin(k)
    <2>1. /\ task'[k].pc = Request(k).type /\ task'[k].from = Len(log) /\ task'[k].got = <<>>
          /\ UNCHANGED <<plan, log>> /\ plan.requests[k] # <<>>
      <3>1. task'[k] = [pc |-> Request(k).type, from |-> Len(log),
                        had |-> Has(Request(k)), got |-> <<>>]
        BY <1>1, Zenon DEF Begin, Inv, Types, TaskShape
      <3> QED BY <1>1, <3>1 DEF Begin, others, history
    <2>2. Request(k)' = Request(k) /\ Len(log) \in DOMAIN log'
      BY <2>1, LogFacts DEF LogState, Request
    <2>3. Request(k).type \in Kinds
      <3>1. plan \in PlanType
        BY Zenon DEF Inv, Types
      <3>2. plan.requests[k] \in Seq(Requests)
        BY <3>1, Zenon DEF PlanType
      <3>3. Request(k) \in Requests
        BY <2>1, <3>2 DEF Request
      <3> QED BY <3>3, Zenon DEF Requests, Kinds
    <2>4. Forward(k)'
      BY <2>1 DEF Forward
    <2> QED BY <2>1, <2>2, <2>3, <2>4, Zenon DEF Reads, Kinds
  <1>2. CASE End(k)
    <2>1. task'[k].pc = "idle" /\ task'[k].from = 1
      <3>1. task'[k] = NoTask
        BY <1>2, Zenon DEF End, Inv, Types, TaskShape
      <3> QED BY <3>1 DEF NoTask
    <2>2. 1 \in DOMAIN log'
      BY <1>2, LogFacts DEF LogState, End, history
    <2> QED BY <2>1, <2>2, Zenon DEF Reads, Kinds
  <1> QED BY <1>1, <1>2, Zenon

(* The handlers whose answers are of no one state. *)
LEMMA MixedReads ==
    ASSUME Inv, NEW k \in Task, Reads(k),
           \/ get_transaction_handler(k) \/ get_stats_handler(k)
           \/ put_transaction_internal(k)
    PROVE  Reads(k)'
  <1> UNCHANGED <<plan, log>>
    BY Zenon
      DEF get_transaction_handler, get_stats_handler, put_transaction_internal, others, history
  <1>1. CASE get_transaction_handler(k)
    <2>1. PICK pc, got : Steps(k, pc, got) /\ pc \in {"done", "pool"}
      BY <1>1, Zenon DEF get_transaction_handler
    <2>2. Request(k).type = "get_tx"
      BY <1>1, Zenon DEF get_transaction_handler, Reads, Kinds
    <2> QED BY <2>1, <2>2, OtherReads, Zenon
  <1>2. CASE get_stats_handler(k)
    <2>1. PICK pc, got : Steps(k, pc, got) /\ pc \in {"done", "get_stats"}
      BY <1>2, Zenon DEF get_stats_handler
    <2>2. Request(k).type = "get_stats"
      BY <1>2, Zenon DEF get_stats_handler, Reads, Kinds
    <2> QED BY <2>1, <2>2, OtherReads, Zenon
  <1>3. CASE put_transaction_internal(k)
    <2>1. PICK pc, got : Steps(k, pc, got) /\ pc \in {"done", "insert"}
      BY <1>3, Zenon DEF put_transaction_internal
    <2>2. Request(k).type = "put"
      BY <1>3, Zenon DEF put_transaction_internal, Reads, Kinds
    <2> QED BY <2>1, <2>2, OtherReads, Zenon
  <1> QED BY <1>1, <1>2, <1>3, Zenon

(* A step of a task leaves the log, the other tasks and their requests as   *)
(* they are.                                                                *)
LEMMA ServeFrame ==
    ASSUME Inv, NEW k \in Task, Serve(k), NEW j \in Task \ {k}
    PROVE  /\ task'[j] = task[j] /\ plan'.requests[j] = plan.requests[j]
           /\ log' = log
  <1>1. CASE Begin(k)
    <2>1. \E r : task' = [task EXCEPT ![k] = r]
      BY <1>1, Zenon DEF Begin
    <2> QED BY <1>1, <2>1, Zenon DEF Begin, Inv, Types, TaskShape, others, history
  <1>2. CASE End(k)
    BY <1>2, Zenon DEF End, Inv, Types, TaskShape, PlanType, history
  <1>3. ASSUME NEW pc, NEW got, Steps(k, pc, got), UNCHANGED <<plan, log>>
        PROVE  /\ task'[j] = task[j] /\ plan'.requests[j] = plan.requests[j]
               /\ log' = log
    BY <1>3, StepsFacts, Zenon DEF Inv, Types
  <1>4. CASE \/ get_block_handler(k) \/ get_account_handler(k) \/ get_transaction_handler(k)
             \/ get_receipt_handler(k) \/ get_network_id_handler(k) \/ get_stats_handler(k)
             \/ put_transaction_internal(k) \/ RoBegin(k) \/ RoEnd(k)
    <2>1. UNCHANGED <<plan, log>>
      BY <1>4, Zenon DEF get_block_handler, get_account_handler, get_transaction_handler,
         get_receipt_handler, get_network_id_handler, get_stats_handler,
         put_transaction_internal, RoBegin, RoEnd, others, history
    <2>2. \E pc, got : Steps(k, pc, got)
      BY <1>4, Zenon DEF get_block_handler, get_account_handler, get_transaction_handler,
         get_receipt_handler, get_network_id_handler, get_stats_handler,
         put_transaction_internal, RoBegin, RoEnd
    <2> QED BY <1>3, <2>1, <2>2, Zenon
  <1> QED BY <1>1, <1>2, <1>4, Zenon DEF Serve

(* Every step keeps what the tasks have read. *)
LEMMA ReadsNext ==
    ASSUME Inv, Inv', ReadsInv, [Next]_vars
    PROVE  ReadsInv'
  <1> SUFFICES ASSUME NEW k \in Task
               PROVE  Reads(k)'
    BY Zenon DEF ReadsInv
  <1>0. Reads(k)
    BY Zenon DEF ReadsInv
  <1>1. CASE Serve(k)
    BY <1>0, <1>1, BeginEndReads, BlockReads, AccountReads, OneRead, MixedReads, RoReads, Zenon
       DEF Serve
  <1>2. ASSUME NEW j \in Task \ {k}, Serve(j)
        PROVE  Reads(k)'
    <2>1. /\ task'[k] = task[k] /\ plan'.requests[k] = plan.requests[k] /\ log' = log
      BY <1>2, ServeFrame, Zenon
    <2>2. LogKept
      BY <2>1, LogIsKept, Zenon
    <2> QED BY <1>0, <2>1, <2>2, ReadsKept, Zenon
  <1>3. ASSUME task' = task, plan'.requests = plan.requests,
               NEW d, log' = log \/ log' = Append(log, d)
        PROVE  Reads(k)'
    <2>1. LogKept
      BY <1>3, LogIsKept, Zenon
    <2> QED BY <1>0, <1>3, <2>1, ReadsKept, Zenon
  <1>4. CASE StoreConfig
    <2>1. plan'.requests = plan.requests /\ task' = task
      BY <1>4, Zenon DEF StoreConfig, Inv, Types, PlanType
    <2> QED BY <1>3, <1>4, <2>1, Zenon DEF StoreConfig
  <1>5. CASE ExecMerge
    <2>1. plan'.requests = plan.requests /\ task' = task
      BY <1>5, Zenon DEF ExecMerge, Inv, Types, PlanType
    <2>2. \E d : log' = log \/ log' = Append(log, d)
      BY <1>5, Zenon DEF ExecMerge
    <2> QED BY <1>3, <2>1, <2>2, Zenon
  <1>7. CASE TakeBlock
    <2>1. plan'.requests = plan.requests /\ task' = task /\ log' = log
      BY <1>7, TakeBlockInv, Zenon DEF TakeBlock, history
    <2> QED BY <1>3, <2>1, Zenon
  <1>6. CASE \/ ExecBegin \/ ExecCall \/ ExecTx \/ ExecClean
             \/ \E t, u \in unconfirmed : Build(<<t>>) \/ Build(<<t, u>>)
             \/ UNCHANGED vars
    <2>1. UNCHANGED <<task, plan, log>>
      BY <1>6, Zenon DEF ExecBegin, ExecCall, ExecTx, ExecClean, Build, vars, history
    <2> QED BY <1>3, <2>1, Zenon
  <1> QED BY <1>1, <1>2, <1>4, <1>5, <1>6, <1>7, Zenon DEF Next, Executor

(* What the tasks have read is always of states since they began. *)
THEOREM ReadsInvariant == Spec => []ReadsInv
  <1>1. Init => ReadsInv
    <2> SUFFICES ASSUME Init, NEW k \in Task
                 PROVE  Reads(k)
      BY Zenon DEF ReadsInv
    <2>1. task[k].pc = "idle" /\ task[k].from = 1 /\ 1 \in DOMAIN log
      BY DEF Init, NoTask
    <2> QED BY <2>1, Zenon DEF Reads, Kinds
  <1>2. Inv /\ Inv' /\ ReadsInv /\ [Next]_vars => ReadsInv'
    BY ReadsNext, Zenon
  <1> QED BY <1>1, <1>2, StoreInvariant, PTL DEF Spec

(* The answers of get_block_handler, get_receipt_handler,                   *)
(* get_network_id_handler and the read-only executor are what the database  *)
(* held at one moment since the request began.                              *)
THEOREM ReadsAlwaysAtomic == Spec => []ReadsAreAtomic
  <1>1. ReadsInv => ReadsAreAtomic
    <2> SUFFICES ASSUME ReadsInv, NEW k \in Task, task[k].pc = "done"
                 PROVE  \E i \in task[k].from .. Len(log) :
                            AnswerOf(log[i], Request(k), task[k].got)
      BY Zenon DEF ReadsAreAtomic, AnswerOf
    <2> QED BY Zenon DEF ReadsInv, Reads, Answered, Since
  <1> QED BY <1>1, ReadsInvariant, PTL

(* get_account_handler reads an account and its data forward in time. *)
THEOREM AccountsReadForward == Spec => []AccountReadsForward
  <1>1. ReadsInv /\ LogState => AccountReadsForward
    <2> SUFFICES ASSUME ReadsInv, LogState, NEW k \in Task, task[k].pc = "done",
                        Request(k).type = "get_account"
                 PROVE  /\ task[k].got[1] >= log[task[k].from].data
                        /\ \A i, j \in DOMAIN task[k].got :
                             i <= j => task[k].got[i] <= task[k].got[j]
      BY Zenon DEF AccountReadsForward
    <2>1. Forward(k) /\ task[k].got # <<>> /\ task[k].from \in DOMAIN log
      BY Zenon DEF ReadsInv, Reads
    <2>2. task[k].got[1] \in Nat /\ log[task[k].from].data \in Nat
      <3>1. task[k].got \in Seq(Nat)
        BY <2>1, Zenon DEF Forward
      <3>2. task[k].got[1] \in Nat
        BY <2>1, <3>1, FirstNat, Zenon
      <3> QED BY <2>1, <3>2, Zenon DEF LogState, Db
    <2> QED BY <2>1, <2>2, Zenon DEF Forward
  <1> QED BY <1>1, ReadsInvariant, StoreInvariant, LogFacts, PTL

-----------------------------------------------------------------------------
(***************************************************************************)
(* The transaction that get_transaction_handler is asked for, when the     *)
(* node had it as the request began: it is in the pool or in the database  *)
(* at all times, since a block leaves the pool after it was merged.        *)
(***************************************************************************)
Kept(k) == Request(k).tx \in txs \cup Committed(backend)
Missed(k) ==
    LET pc == task[k].pc  got == task[k].got IN
    /\ pc # "idle" /\ task[k].had => Request(k).type = "get_tx"
    /\ pc \in {"get_tx", "pool"} /\ task[k].had => Kept(k)
    /\ pc = "pool" => \E x : got = <<x>>
    /\ pc = "done" /\ task[k].had /\ TRUE \notin Range(got) =>
         Request(k).tx \in Committed(backend)
MissedInv ==
    /\ exec.pc # "idle" => confirmed # <<>>
    /\ exec.pc = "clean" => Range(confirmed) \subseteq Committed(backend)
    /\ \A k \in Task : Missed(k)

(* The elements of one and of two values. *)
LEMMA RangeFacts ==
    ASSUME NEW x, NEW y
    PROVE  x \in Range(<<x>>) /\ x \in Range(<<x, y>>) /\ y \in Range(<<x, y>>)
  <1>1. 1 \in DOMAIN <<x>> /\ <<x>>[1] = x
    OBVIOUS
  <1>2. /\ 1 \in DOMAIN <<x, y>> /\ <<x, y>>[1] = x
        /\ 2 \in DOMAIN <<x, y>> /\ <<x, y>>[2] = y
    OBVIOUS
  <1> QED BY <1>1, <1>2, Zenon DEF Range

(* A task that does not move, while nothing is lost. *)
LEMMA MissedKept ==
    ASSUME NEW k \in Task, Missed(k), task'[k] = task[k],
           plan'.requests[k] = plan.requests[k],
           Committed(backend) \subseteq Committed(backend)',
           txs \cup Committed(backend) \subseteq txs' \cup Committed(backend)'
    PROVE  Missed(k)'
  <1>1. Request(k)' = Request(k)
    BY Zenon DEF Request
  <1>2. Kept(k) => Kept(k)'
    BY <1>1, Zenon DEF Kept
  <1> QED BY <1>1, <1>2, Zenon DEF Missed

(* The tasks of the other requests, and those that begin and end. *)
LEMMA MissedOther ==
    ASSUME Inv, NEW k \in Task, Reads(k), Missed(k), NEW pc, NEW got, Steps(k, pc, got),
           plan' = plan, task[k].pc # "idle", Request(k).type # "get_tx", pc # "pool"
    PROVE  Missed(k)'
  <1>1. task'[k].pc = pc /\ task'[k].had = task[k].had
    BY StepsFacts, Zenon DEF Inv, Types
  <1>2. Request(k)' = Request(k)
    BY Zenon DEF Request
  <1> QED BY <1>1, <1>2, Zenon DEF Missed

(* What a task has read, with one more value. *)
LEMMA StepsGot ==
    ASSUME TaskShape, NEW k \in Task, NEW pc, NEW got, Steps(k, pc, got)
    PROVE  task'[k].got = Append(task[k].got, got)
  BY StepsFacts

(* get_transaction_handler: the database, and then the pool. *)
LEMMA MissedGet ==
    ASSUME Inv, NEW k \in Task, Reads(k), Missed(k), get_transaction_handler(k)
    PROVE  Missed(k)'
  <1> DEFINE t == Request(k).tx
  <1>0. UNCHANGED <<plan, backend, txs, pool>> /\ snap = backend
    BY Zenon DEF get_transaction_handler, others, db, pool, Inv, LogInv, OnlyMerged
  <1>1. Request(k)' = Request(k) /\ Committed(backend)' = Committed(backend)
    BY <1>0, Zenon DEF Request, Committed
  <1>2. CASE task[k].pc = "get_tx" /\ ~locked
             /\ LET found == t \in Committed(snap)
                IN  Steps(k, IF found THEN "done" ELSE "pool", found)
    <2>1. PICK pc, found : /\ Steps(k, pc, found)
                           /\ t \in Committed(snap) => found = TRUE /\ pc = "done"
                           /\ t \notin Committed(snap) => pc = "pool"
      BY <1>2, Zenon
    <2>2. task[k].got = <<>>
      BY <1>2, Zenon DEF Reads, Kinds
    <2>3. /\ task'[k].pc = pc /\ task'[k].had = task[k].had
          /\ task'[k].got = Append(<<>>, found)
      <3>0. TaskShape
        BY Zenon DEF Inv, Types
      <3>2. Steps(k, pc, found)
        BY <2>1, Zenon
      <3>1. /\ task'[k].pc = pc /\ task'[k].had = task[k].had
            /\ task'[k].got = Append(task[k].got, found)
        <4>1. task'[k].pc = pc
          BY <3>0, <3>2, StepsFacts, Zenon
        <4>2. task'[k].had = task[k].had
          BY <3>0, <3>2, StepsFacts, Zenon
        <4>3. task'[k].got = Append(task[k].got, found)
          BY <3>0, <3>2, StepsGot, Zenon
        <4> QED BY <4>1, <4>2, <4>3, Zenon
      <3> QED BY <2>2, <3>1, Zenon
    <2>4. Append(<<>>, found) = <<found>> /\ found \in Range(<<found>>)
      BY Appended, RangeFacts, Zenon
    <2>5. task'[k].got = <<found>> /\ found \in Range(task'[k].got)
      BY <2>3, <2>4, Zenon
    <2>6. CASE t \in Committed(snap)
      <3>1. TRUE \in Range(task'[k].got) /\ task'[k].pc = "done"
        BY <2>1, <2>3, <2>5, <2>6, Zenon
      <3> QED BY <1>1, <1>2, <2>3, <3>1, Zenon DEF Missed
    <2>7. CASE t \notin Committed(snap)
      <3>1. task'[k].pc = "pool"
        BY <2>1, <2>3, <2>7, Zenon
      <3>2. task[k].had => Kept(k)'
        BY <1>0, <1>1, <1>2, Zenon DEF Missed, Kept
      <3>3. \E x : task'[k].got = <<x>>
        BY <2>5, Zenon
      <3> QED BY <1>1, <1>2, <2>3, <3>1, <3>2, <3>3, Zenon DEF Missed
    <2> QED BY <2>6, <2>7, Zenon
  <1>3. CASE task[k].pc = "pool" /\ Steps(k, "done", t \in txs)
    <2>1. PICK x : task[k].got = <<x>>
      BY <1>3, Zenon DEF Missed
    <2>2. PICK found : Steps(k, "done", found) /\ (t \in txs => found = TRUE)
      BY <1>3, Zenon
    <2>3. /\ task'[k].pc = "done" /\ task'[k].had = task[k].had
          /\ task'[k].got = Append(<<x>>, found)
      <3>0. TaskShape
        BY Zenon DEF Inv, Types
      <3>2. Steps(k, "done", found)
        BY <2>2, Zenon
      <3>1. /\ task'[k].pc = "done" /\ task'[k].had = task[k].had
            /\ task'[k].got = Append(task[k].got, found)
        <4>1. task'[k].pc = "done"
          BY <3>0, <3>2, StepsFacts, Zenon
        <4>2. task'[k].had = task[k].had
          BY <3>0, <3>2, StepsFacts, Zenon
        <4>3. task'[k].got = Append(task[k].got, found)
          BY <3>0, <3>2, StepsGot, Zenon
        <4> QED BY <4>1, <4>2, <4>3, Zenon
      <3> QED BY <2>1, <3>1, Zenon
    <2>4. Append(<<x>>, found) = <<x, found>> /\ found \in Range(<<x, found>>)
      BY Appended, RangeFacts, Zenon
    <2>5. TRUE \notin Range(task'[k].got) => t \notin txs
      BY <2>2, <2>3, <2>4, Zenon
    <2>6. task[k].had => t \in txs \cup Committed(backend)
      BY <1>3, Zenon DEF Missed, Kept
    <2> QED BY <1>1, <1>3, <2>3, <2>5, <2>6, Zenon DEF Missed
  <1> QED BY <1>2, <1>3, Zenon DEF get_transaction_handler

(* Every step of a task. *)
LEMMA MissedServe ==
    ASSUME Inv, ReadsInv, MissedInv, NEW k \in Task, Serve(k)
    PROVE  MissedInv'
  <1>1. UNCHANGED <<backend, exec, confirmed>> /\ txs \subseteq txs'
    BY Zenon DEF Serve, Begin, End, get_block_handler, get_account_handler,
       get_transaction_handler, get_receipt_handler, get_network_id_handler,
       get_stats_handler, put_transaction_internal, RoBegin, RoEnd, ro_exec,
       others, db, pool
  <1>2. Committed(backend)' = Committed(backend)
    BY <1>1, Zenon DEF Committed
  <1>3. ASSUME NEW j \in Task \ {k}
        PROVE  Missed(j)'
    <2>1. task'[j] = task[j] /\ plan'.requests[j] = plan.requests[j]
      BY ServeFrame, Zenon
    <2>2. Missed(j)
      BY Zenon DEF MissedInv
    <2>3. txs \cup Committed(backend) \subseteq txs' \cup Committed(backend)'
      BY <1>1, <1>2, Zenon
    <2> QED BY <1>2, <2>1, <2>2, <2>3, MissedKept, Zenon
  <1>4. Missed(k)'
    <2>0. Reads(k) /\ Missed(k)
      BY Zenon DEF ReadsInv, MissedInv
    <2>1. CASE Begin(k)
      <3>1. PICK had : /\ had = Has(Request(k))
                       /\ task'[k] = [pc |-> Request(k).type, from |-> Len(log),
                                      had |-> had, got |-> <<>>]
        BY <2>1, Zenon DEF Begin, Inv, Types, TaskShape
      <3>2. task'[k].pc = Request(k).type /\ task'[k].had = Has(Request(k))
        BY <3>1
      <3>3. Request(k)' = Request(k) /\ snap = backend /\ txs' = txs
        BY <2>1, Zenon DEF Begin, Request, others, pool, Inv, LogInv, OnlyMerged
      <3>4. Request(k).type \notin {"pool", "done"}
        <4>1. plan \in PlanType /\ plan.requests[k] # <<>>
          BY <2>1, Zenon DEF Inv, Types, Begin
        <4>2. plan.requests[k] \in Seq(Requests)
          BY <4>1, Zenon DEF PlanType
        <4>3. Request(k) \in Requests
          BY <4>1, <4>2 DEF Request
        <4> QED BY <4>3, Zenon DEF Requests
      <3>5. Has(Request(k)) => Kept(k)' /\ Request(k).type = "get_tx"
        BY <1>2, <3>3, Zenon DEF Has, Kept
      <3> QED BY <3>2, <3>3, <3>4, <3>5, Zenon DEF Missed
    <2>2. CASE End(k)
      <3>1. task'[k] = NoTask
        BY <2>2, Zenon DEF End, Inv, Types, TaskShape
      <3>2. task'[k].pc = "idle"
        BY <3>1 DEF NoTask
      <3> QED BY <3>2, Zenon DEF Missed
    <2>3. CASE get_transaction_handler(k)
      BY <2>0, <2>3, MissedGet, Zenon
    <2>4. CASE \/ get_block_handler(k) \/ get_account_handler(k)
               \/ get_receipt_handler(k) \/ get_network_id_handler(k) \/ get_stats_handler(k)
               \/ put_transaction_internal(k) \/ RoBegin(k) \/ RoEnd(k)
      <3>1. plan' = plan
        BY <2>4, Zenon DEF get_block_handler, get_account_handler,
           get_receipt_handler, get_network_id_handler, get_stats_handler,
           put_transaction_internal, RoBegin, RoEnd, others
      <3>2. /\ task[k].pc \in {"get_block", "hashes", "get_account", "get_receipt",
                               "get_network", "get_stats", "put", "insert", "ro_exec", "ro_run"}
            /\ \E pc, got : Steps(k, pc, got) /\ pc # "pool"
        <4>1. CASE get_block_handler(k)
          <5>1. \E pc, got : Steps(k, pc, got) /\ pc \in {"done", "hashes"}
            BY <4>1, Zenon DEF get_block_handler
          <5>2. task[k].pc \in {"get_block", "hashes"}
            BY <4>1, Zenon DEF get_block_handler
          <5> QED BY <5>1, <5>2, Zenon
        <4>2. CASE get_account_handler(k)
          <5>1. \E pc, got : Steps(k, pc, got) /\ pc \in {"done", "get_account"}
            BY <4>2, Zenon DEF get_account_handler
          <5>2. task[k].pc \in {"get_account"}
            BY <4>2, Zenon DEF get_account_handler
          <5> QED BY <5>1, <5>2, Zenon
        <4>3. CASE get_stats_handler(k)
          <5>1. \E pc, got : Steps(k, pc, got) /\ pc \in {"done", "get_stats"}
            BY <4>3, Zenon DEF get_stats_handler
          <5>2. task[k].pc \in {"get_stats"}
            BY <4>3, Zenon DEF get_stats_handler
          <5> QED BY <5>1, <5>2, Zenon
        <4>4. CASE put_transaction_internal(k)
          <5>1. \E pc, got : Steps(k, pc, got) /\ pc \in {"done", "insert"}
            BY <4>4, Zenon DEF put_transaction_internal
          <5>2. task[k].pc \in {"put", "insert"}
            BY <4>4, Zenon DEF put_transaction_internal
          <5> QED BY <5>1, <5>2, Zenon
        <4>5. CASE get_receipt_handler(k)
          <5>1. \E pc, got : Steps(k, pc, got) /\ pc \in {"done"}
            BY <4>5, Zenon DEF get_receipt_handler
          <5>2. task[k].pc \in {"get_receipt"}
            BY <4>5, Zenon DEF get_receipt_handler
          <5> QED BY <5>1, <5>2, Zenon
        <4>6. CASE get_network_id_handler(k)
          <5>1. \E pc, got : Steps(k, pc, got) /\ pc \in {"done"}
            BY <4>6, Zenon DEF get_network_id_handler
          <5>2. task[k].pc \in {"get_network"}
            BY <4>6, Zenon DEF get_network_id_handler
          <5> QED BY <5>1, <5>2, Zenon
        <4>7. CASE RoBegin(k)
          <5>1. \E pc, got : Steps(k, pc, got) /\ pc \in {"ro_run"}
            BY <4>7, Zenon DEF RoBegin
          <5>2. task[k].pc \in {"ro_exec"}
            BY <4>7, Zenon DEF RoBegin
          <5> QED BY <5>1, <5>2, Zenon
        <4>8. CASE RoEnd(k)
          <5>1. \E pc, got : Steps(k, pc, got) /\ pc \in {"done"}
            BY <4>8, Zenon DEF RoEnd
          <5>2. task[k].pc \in {"ro_run"}
            BY <4>8, Zenon DEF RoEnd
          <5> QED BY <5>1, <5>2, Zenon
        <4> QED BY <2>4, <4>1, <4>2, <4>3, <4>4, <4>5, <4>6, <4>7, <4>8, Zenon
      <3>3. Request(k).type # "get_tx"
        BY <2>0, <3>2, Zenon DEF Reads, Kinds
      <3> QED BY <2>0, <3>1, <3>2, <3>3, MissedOther, Zenon
    <2> QED BY <2>1, <2>2, <2>3, <2>4, Zenon DEF Serve
  <1> QED BY <1>1, <1>2, <1>3, <1>4, Zenon DEF MissedInv

(* Every other step. *)
LEMMA MissedNext ==
    ASSUME Inv, ReadsInv, MissedInv, [Next]_vars
    PROVE  MissedInv'
  <1>1. ASSUME NEW k \in Task, Serve(k)
        PROVE  MissedInv'
    BY <1>1, MissedServe, Zenon
  <1>2. ASSUME task' = task, plan'.requests = plan.requests,
               Committed(backend) \subseteq Committed(backend)',
               txs \cup Committed(backend) \subseteq txs' \cup Committed(backend)'
        PROVE  \A k \in Task : Missed(k)'
    <2> TAKE k \in Task
    <2>1. Missed(k) /\ task'[k] = task[k] /\ plan'.requests[k] = plan.requests[k]
      BY <1>2, Zenon DEF MissedInv
    <2> QED BY <1>2, <2>1, MissedKept, Zenon
  <1>3. CASE \/ ExecBegin \/ ExecCall \/ ExecTx \/ UNCHANGED vars
             \/ \E t, u \in unconfirmed : Build(<<t>>) \/ Build(<<t, u>>)
    <2>1. UNCHANGED <<task, plan, txs, backend>>
      BY <1>3, Zenon DEF ExecBegin, ExecCall, ExecTx, Build, vars, db, pool
    <2>2. Committed(backend)' = Committed(backend)
      BY <2>1, Zenon DEF Committed
    <2>3. \A k \in Task : Missed(k)'
      BY <1>2, <2>1, <2>2, Zenon
    <2>4. /\ exec'.pc # "idle" => confirmed' # <<>>
          /\ exec'.pc = "clean" => Range(confirmed') \subseteq Committed(backend)
      <3>1. CASE ExecBegin
        <4>1. exec'.pc = "run" /\ confirmed' = confirmed /\ confirmed # <<>>
          BY <3>1, Zenon DEF ExecBegin, pool
        <4> QED BY <4>1, Zenon
      <3>2. CASE ExecCall \/ ExecTx
        <4>1. exec.pc = "run" /\ confirmed' = confirmed /\ exec \in Run
          BY <3>2, ThisFacts, Zenon DEF ExecCall, ExecTx, Running, pool
        <4>2. exec'.pc = "run"
          BY <3>2, <4>1, Zenon DEF ExecCall, ExecTx, Run
        <4> QED BY <4>1, <4>2, Zenon DEF MissedInv
      <3>3. CASE UNCHANGED vars
        BY <3>3, Zenon DEF vars, pool, MissedInv
      <3>4. CASE \E t, u \in unconfirmed : Build(<<t>>) \/ Build(<<t, u>>)
        <4>1. exec' = exec /\ confirmed = <<>>
          BY <3>4, Zenon DEF Build
        <4> QED BY <4>1, Zenon DEF MissedInv
      <3> QED BY <1>3, <3>1, <3>2, <3>3, <3>4, Zenon
    <2> QED BY <2>2, <2>3, <2>4, Zenon DEF MissedInv
  <1>4. CASE TakeBlock
    <2>1. /\ task' = task /\ txs' = txs /\ backend' = backend
          /\ exec' = exec /\ confirmed = <<>> /\ plan'.requests = plan.requests
      BY <1>4, TakeBlockInv, Zenon DEF TakeBlock, db
    <2>2. Committed(backend)' = Committed(backend)
      BY <2>1, Zenon DEF Committed
    <2>3. \A k \in Task : Missed(k)'
      BY <1>2, <2>1, <2>2, Zenon
    <2> QED BY <2>1, <2>3, Zenon DEF MissedInv
  <1>5. CASE StoreConfig
    <2>1. /\ task' = task /\ txs' = txs /\ exec' = exec /\ confirmed' = confirmed
          /\ plan'.requests = plan.requests
      BY <1>5, Zenon DEF StoreConfig, pool, Inv, Types, PlanType
    <2>2. backend'.blocks = backend.blocks
      <3>1. backend \in Db /\ backend' = [backend EXCEPT !.config = @ + 1]
        BY <1>5, Zenon DEF StoreConfig, fork_merge, Inv, Types
      <3> QED BY <3>1, Zenon DEF Db
    <2>3. Committed(backend)' = Committed(backend)
      BY <2>2, Zenon DEF Committed
    <2>4. \A k \in Task : Missed(k)'
      BY <1>2, <2>1, <2>3, Zenon
    <2> QED BY <2>1, <2>3, <2>4, Zenon DEF MissedInv
  <1>6. CASE ExecMerge
    <2> DEFINE d == Merged(backend, exec.base, [exec.fork EXCEPT !.blocks = Append(@, confirmed)])
    <2>1. /\ task' = task /\ txs' = txs /\ confirmed' = confirmed
          /\ exec.pc = "run" /\ plan'.requests = plan.requests
      BY <1>6, Zenon DEF ExecMerge, pool, Inv, Types, PlanType
    <2>2. Committed(d) = Committed(backend) \cup Range(confirmed)
      BY <2>1, MergedFacts, Zenon
    <2>3. \/ backend' = d /\ exec'.pc = "clean"
          \/ backend' = backend /\ exec'.pc = "idle"
      <3>1. \/ backend' = d /\ exec' = [pc |-> "clean"]
            \/ backend' = backend /\ exec' = [pc |-> "idle"]
        BY <1>6, Zenon DEF ExecMerge, fork_merge, db, ExecFailed, NoExec
      <3> HIDE DEF d
      <3> QED BY <3>1
    <2> HIDE DEF d
    <2>4. /\ Committed(backend) \subseteq Committed(backend)'
          /\ exec'.pc = "clean" => Range(confirmed) \subseteq Committed(backend)'
      <3>1. CASE backend' = d
        <4>1. Committed(backend)' = Committed(d)
          BY <3>1, Zenon DEF Committed
        <4> QED BY <2>2, <4>1, Zenon
      <3>2. CASE backend' = backend /\ exec'.pc = "idle"
        <4>1. Committed(backend)' = Committed(backend)
          BY <3>2, Zenon DEF Committed
        <4> QED BY <3>2, <4>1, Zenon
      <3> QED BY <2>3, <3>1, <3>2, Zenon
    <2>5. \A k \in Task : Missed(k)'
      BY <1>2, <2>1, <2>4, Zenon
    <2> QED BY <2>1, <2>4, <2>5, Zenon DEF MissedInv
  <1>7. CASE ExecClean
    <2>1. /\ task' = task /\ plan' = plan /\ backend' = backend /\ exec.pc = "clean"
          /\ txs' = txs \ Range(confirmed)
      BY <1>7, Zenon DEF ExecClean, db
    <2>2. Committed(backend)' = Committed(backend)
      BY <2>1, Zenon DEF Committed
    <2>3. Range(confirmed) \subseteq Committed(backend)
      BY <2>1, Zenon DEF MissedInv
    <2>4. \A k \in Task : Missed(k)'
      BY <1>2, <2>1, <2>2, <2>3, Zenon
    <2>5. exec'.pc = "idle"
      BY <1>7, Zenon DEF ExecClean, NoExec
    <2> QED BY <2>4, <2>5, Zenon DEF MissedInv
  <1> QED BY <1>1, <1>3, <1>4, <1>5, <1>6, <1>7, Zenon DEF Next, Executor

(* get_transaction_handler misses a transaction of the node only when it    *)
(* was merged since: the one who asks again finds it in the database.       *)
THEOREM MissedIsAlwaysMerged == Spec => []MissedIsMerged
  <1>1. Init => MissedInv
    <2> SUFFICES ASSUME Init PROVE MissedInv
      OBVIOUS
    <2>1. exec.pc = "idle"
      BY DEF Init, NoExec
    <2>2. ASSUME NEW k \in Task
          PROVE  Missed(k)
      <3>1. task[k] = NoTask
        BY Zenon DEF Init
      <3>2. task[k].pc = "idle"
        BY <3>1 DEF NoTask
      <3> QED BY <3>2, Zenon DEF Missed
    <2> QED BY <2>1, <2>2, Zenon DEF MissedInv
  <1>2. Inv /\ ReadsInv /\ MissedInv /\ [Next]_vars => MissedInv'
    BY MissedNext, Zenon
  <1>3. Inv /\ MissedInv => MissedIsMerged
    BY Zenon DEF Inv, LogInv, OnlyMerged, MissedInv, Missed, MissedIsMerged
  <1> QED BY <1>1, <1>2, <1>3, StoreInvariant, ReadsInvariant, PTL DEF Spec

-----------------------------------------------------------------------------
(***************************************************************************)
(* The events of a transaction: those of the executions that were lost,    *)
(* those of the blocks that are stored, and those of the block that is     *)
(* executed, up to the transaction that is next.                           *)
(***************************************************************************)
With(blocks, t) == {i \in DOMAIN blocks : t \in Range(blocks[i])}
Stored(t) == Cardinality(With(backend.blocks, t))
Done == {confirmed[j] : j \in {j \in DOMAIN confirmed : j < exec.i}}
Now(t) == IF exec.pc = "run" /\ t \in Done THEN 1 ELSE 0
EventsInv ==
    /\ emitted \in [Tx -> Nat] /\ failures \in Nat
    /\ \A i, j \in DOMAIN confirmed : confirmed[i] = confirmed[j] => i = j
    /\ exec.pc = "run" => confirmed # <<>>
    /\ \A t \in Tx :
         /\ emitted[t] <= failures + Stored(t) + Now(t)
         /\ t \in backend.ok => emitted[t] > 0
         /\ exec.pc = "run" /\ t \in exec.fork.ok \cup exec.check.ok => emitted[t] > 0
         /\ t.fail = "fuel" => emitted[t] = 0

(* The number of blocks with a transaction, and what a block adds to it. *)
LEMMA StoredFacts ==
    ASSUME NEW blocks \in Seq(Seq(Tx)), NEW b \in Seq(Tx), NEW t
    PROVE  /\ Cardinality(With(blocks, t)) \in Nat
           /\ Cardinality(With(Append(blocks, b), t)) =
                Cardinality(With(blocks, t)) + (IF t \in Range(b) THEN 1 ELSE 0)
  <1> DEFINE n == Len(blocks)
             more == Append(blocks, b)
             S == With(blocks, t)
             T == With(more, t)
  <1>1. /\ n \in Nat /\ DOMAIN blocks = 1 .. n /\ DOMAIN more = 1 .. n + 1
        /\ more[n + 1] = b /\ \A i \in 1 .. n : more[i] = blocks[i]
    OBVIOUS
  <1>2. IsFiniteSet(S) /\ Cardinality(S) \in Nat
    <2>1. IsFiniteSet(1 .. n) /\ S \subseteq 1 .. n
      BY <1>1, FS_Interval DEF With
    <2> QED BY <2>1, FS_Subset, FS_CardinalityType, Zenon
  <1> HIDE DEF n, more
  <1>3. n + 1 \notin S
    BY <1>1 DEF With
  <1>4. T = IF t \in Range(b) THEN S \cup {n + 1} ELSE S
    <2>1. \A i : i \in 1 .. n + 1 <=> i \in 1 .. n \/ i = n + 1
      BY <1>1
    <2> QED BY <1>1, <2>1 DEF With
  <1> HIDE DEF S, T
  <1>5. Cardinality(T) = Cardinality(S) + (IF t \in Range(b) THEN 1 ELSE 0)
    <2>1. CASE t \in Range(b)
      BY <1>2, <1>3, <1>4, <2>1, FS_AddElement, Zenon
    <2>2. CASE t \notin Range(b)
      BY <1>2, <1>4, <2>2
    <2> QED BY <2>1, <2>2, Zenon
  <1> QED BY <1>2, <1>5, Zenon DEF S, T, more

(* How many blocks of the database hold a transaction is a number. *)
LEMMA StoredNat ==
    ASSUME Inv, NEW t
    PROVE  Stored(t) \in Nat
  <1>1. backend.blocks \in Seq(Seq(Tx)) /\ <<>> \in Seq(Tx)
    BY DEF Inv, Types, Db
  <1> QED BY <1>1, StoredFacts, Zenon DEF Stored

(* A step that neither executes nor merges. *)
LEMMA EventsKept ==
    ASSUME EventsInv, UNCHANGED <<emitted, failures, confirmed, exec>>,
           backend'.blocks = backend.blocks, backend'.ok = backend.ok
    PROVE  EventsInv'
  <1>1. Done' = Done /\ \A t : Stored(t)' = Stored(t) /\ Now(t)' = Now(t)
    BY Zenon DEF Done, Stored, Now
  <1> QED BY <1>1, Zenon DEF EventsInv

(* A block is built; a fork is made; the block leaves the pool. *)
LEMMA EventsIdle ==
    ASSUME Inv, EventsInv,
           \/ ExecBegin \/ ExecClean \/ TakeBlock
           \/ \E t, u \in unconfirmed : Build(<<t>>) \/ Build(<<t, u>>)
    PROVE  EventsInv'
  <1>1. UNCHANGED <<emitted, failures, backend>> /\ exec.pc # "run"
    BY Zenon DEF ExecBegin, ExecClean, TakeBlock, Build, history, db, EventsInv
  <1>2. /\ \A i, j \in DOMAIN confirmed' : confirmed'[i] = confirmed'[j] => i = j
        /\ confirmed' \in Seq(Tx)
        /\ exec'.pc = "run" => /\ confirmed' # <<>> /\ exec'.i = 1
                               /\ exec'.fork = backend /\ exec'.check = backend
    <2>1. CASE ExecBegin
      <3>1. confirmed' = confirmed /\ confirmed # <<>>
        BY <2>1, Zenon DEF ExecBegin, pool
      <3>2. exec'.i = 1 /\ exec'.fork = backend /\ exec'.check = backend
        BY <2>1, Zenon DEF ExecBegin
      <3> QED BY <3>1, <3>2, Zenon DEF EventsInv, Inv, Types
    <2>2. CASE ExecClean
      <3>1. confirmed' = <<>> /\ exec'.pc = "idle"
        BY <2>2, Zenon DEF ExecClean, NoExec
      <3>2. DOMAIN confirmed' = {} /\ confirmed' \in Seq(Tx)
        BY <3>1
      <3> QED BY <3>1, <3>2, Zenon
    <2>3. ASSUME NEW t \in unconfirmed, NEW u \in unconfirmed,
                 Build(<<t>>) \/ Build(<<t, u>>)
          PROVE  /\ \A i, j \in DOMAIN confirmed' : confirmed'[i] = confirmed'[j] => i = j
                 /\ confirmed' \in Seq(Tx) /\ exec'.pc # "run"
      <3>1. t \in Tx /\ u \in Tx
        BY Zenon DEF Inv, Types
      <3>2. <<t>> \in Seq(Tx) /\ <<t, u>> \in Seq(Tx)
        BY <3>1
      <3>3. IsInjective(confirmed') /\ confirmed' \in Seq(Tx) /\ exec' = exec
        BY <2>3, <3>2, Zenon DEF Build
      <3> QED BY <1>1, <3>3, Zenon DEF IsInjective
    <2>4. CASE TakeBlock
      <3>1. confirmed' \in Block /\ exec' = exec
        BY <2>4, TakeBlockInv, Zenon DEF TakeBlock
      <3> QED BY <1>1, <3>1, Zenon DEF Block, IsInjective
    <2> QED BY <2>1, <2>2, <2>3, <2>4, Zenon
  <1>3. \A t : Stored(t)' = Stored(t) /\ Now(t)' = 0 /\ Now(t) = 0
    <2>1. exec'.pc = "run" => Done' = {}
      BY <1>2 DEF Done
    <2> QED BY <1>1, <2>1, Zenon DEF Stored, Now
  <1> QED BY <1>1, <1>2, <1>3 DEF EventsInv

(* A call changes neither the receipts nor what was published. *)
LEMMA EventsCall ==
    ASSUME Inv, EventsInv, ExecCall
    PROVE  EventsInv'
  <1>1. UNCHANGED <<emitted, failures, confirmed, backend>> /\ exec.pc = "run" /\ exec \in Run
    BY ThisFacts, Zenon DEF ExecCall, db, pool, Running
  <1>2. /\ exec'.pc = "run" /\ exec'.i = exec.i
        /\ exec'.fork.ok = exec.fork.ok /\ exec'.check = exec.check
    <2> DEFINE act == This.acts[exec.a]
               g == [exec.fork EXCEPT !.code = @ \cup act.stores,
                       !.data = IF act.writes THEN Len(exec.fork.blocks) + 1 ELSE @]
    <2>1. g.ok = exec.fork.ok
      BY <1>1, Zenon DEF Run, Db
    <2>2. \/ exec' = [exec EXCEPT !.fork = g, !.a = @ + 1]
          \/ exec' = [exec EXCEPT !.ok = FALSE]
      BY Zenon DEF ExecCall
    <2> HIDE DEF g
    <2> QED BY <1>1, <2>1, <2>2, Zenon DEF Run
  <1>3. Done' = Done /\ \A t : Stored(t)' = Stored(t) /\ Now(t)' = Now(t)
    BY <1>1, <1>2, Zenon DEF Done, Stored, Now
  <1> QED BY <1>1, <1>2, <1>3, Zenon DEF EventsInv

(* A transaction ends: its events are published once in this execution,     *)
(* since a block has it once.                                               *)
LEMMA EventsTx ==
    ASSUME Inv, EventsInv, ExecTx
    PROVE  EventsInv'
  <1>1. /\ UNCHANGED <<failures, confirmed, backend>> /\ exec.pc = "run"
        /\ exec \in Run /\ This \in Tx
    BY ThisFacts, Zenon DEF ExecTx, db, pool, Running
  <1>2. /\ emitted \in [Tx -> Nat] /\ failures \in Nat
        /\ \A t \in Tx : emitted[t] \in Nat
        /\ \A i, j \in DOMAIN confirmed : confirmed[i] = confirmed[j] => i = j
    BY Zenon DEF EventsInv
  <1>3. PICK f : /\ \/ f = exec.check
                    \/ /\ f = [exec.fork EXCEPT !.ok = @ \cup {This}]
                       /\ exec.ok /\ This.fail = "no"
                 /\ exec' = [exec EXCEPT !.fork = f, !.check = f, !.i = @ + 1,
                                         !.a = 1, !.ok = TRUE]
    BY Zenon DEF ExecTx
  <1>4. /\ f \in Db
        /\ \/ f.ok = exec.check.ok
           \/ f.ok = exec.fork.ok \cup {This} /\ exec.ok /\ This.fail = "no"
    <2>1. exec.fork \in Db /\ exec.check \in Db
      BY <1>1, Zenon DEF Run
    <2>2. CASE f = exec.check
      BY <2>1, <2>2, Zenon
    <2>3. CASE f = [exec.fork EXCEPT !.ok = @ \cup {This}] /\ exec.ok /\ This.fail = "no"
      <3>1. f = [blocks |-> exec.fork.blocks, ok |-> exec.fork.ok \cup {This},
                 data |-> exec.fork.data, code |-> exec.fork.code,
                 config |-> exec.fork.config]
        BY <2>1, <2>3, Zenon DEF Db
      <3>2. f \in Db
        BY <1>1, <2>1, <3>1, Zenon DEF Db
      <3>3. f.ok = exec.fork.ok \cup {This}
        BY <3>1, Zenon
      <3> QED BY <2>3, <3>2, <3>3, Zenon
    <2> QED BY <1>3, <2>2, <2>3, Zenon
  <1>5. exec' \in Run /\ exec'.fork = f /\ exec'.check = f /\ exec'.i = exec.i + 1
    <2>1. PICK s \in Run :
              /\ s = [exec EXCEPT !.fork = f, !.check = f, !.i = @ + 1, !.a = 1, !.ok = TRUE]
              /\ s.base = exec.base /\ s.fork = f /\ s.check = f /\ s.i = exec.i + 1
      BY <1>1, <1>4, NextTxFacts, Zenon
    <2>2. exec' = s
      BY <1>3, <2>1, Zenon
    <2> QED BY <2>1, <2>2, Zenon
  <1>6. exec'.pc = "run"
    BY <1>5, Zenon DEF Run
  <1>7. Done' = Done \cup {This} /\ This \notin Done
    <2>1. /\ exec.i \in Nat /\ exec.i \in DOMAIN confirmed /\ This = confirmed[exec.i]
          /\ DOMAIN confirmed \subseteq Nat
      BY <1>1 DEF Run, ExecTx, Running, This, Inv, Types
    <2>2. This \notin Done
      BY <1>2, <2>1 DEF Done
    <2>3. \A j \in DOMAIN confirmed : j < exec.i + 1 <=> j < exec.i \/ j = exec.i
      BY <2>1
    <2>4. Done' = {confirmed[j] : j \in {j \in DOMAIN confirmed : j < exec.i + 1}}
      BY <1>1, <1>5, Zenon DEF Done
    <2>5. Done' = Done \cup {This}
      BY <2>1, <2>3, <2>4, Zenon DEF Done
    <2> QED BY <2>2, <2>5, Zenon
  <1>8. emits(This, exec.a - 1, exec.ok) => This.fail # "fuel"
    BY Zenon DEF emits
  <1>9. exec.ok /\ This.fail = "no" => emits(This, exec.a - 1, exec.ok)
    <2>1. This.acts \in Seq(Act) /\ This.acts # <<>>
      BY <1>1, StoreAssumption, Zenon
    <2>2. Len(This.acts) >= 1 /\ exec.a \in Nat /\ Len(This.acts) \in Nat
      BY <1>1, <2>1 DEF Run
    <2>3. exec.ok => exec.a - 1 > 0
      BY <2>2 DEF ExecTx
    <2> QED BY <2>3, Zenon DEF emits
  <1>10. /\ emitted' \in [Tx -> Nat]
         /\ \A t \in Tx : emitted'[t] >= emitted[t]
         /\ \A t \in Tx \ {This} : emitted'[t] = emitted[t]
         /\ emitted'[This] <= emitted[This] + 1
         /\ This.fail = "fuel" => emitted'[This] = emitted[This]
         /\ exec.ok /\ This.fail = "no" => emitted'[This] > 0
    <2>1. CASE emits(This, exec.a - 1, exec.ok)
      <3>1. emitted' = [emitted EXCEPT ![This] = @ + 1]
        BY <2>1, Zenon DEF ExecTx
      <3> QED BY <1>1, <1>2, <1>8, <2>1, <3>1
    <2>2. CASE ~emits(This, exec.a - 1, exec.ok)
      <3>1. emitted' = emitted
        BY <2>2, Zenon DEF ExecTx
      <3> QED BY <1>1, <1>2, <1>9, <2>2, <3>1
    <2> QED BY <2>1, <2>2, Zenon
  <1>11. ASSUME NEW t \in Tx
         PROVE  /\ emitted'[t] <= failures + Stored(t)' + Now(t)'
                /\ t \in backend.ok => emitted'[t] > 0
                /\ t \in f.ok => emitted'[t] > 0
                /\ t.fail = "fuel" => emitted'[t] = 0
    <2>1. Stored(t)' = Stored(t) /\ Stored(t) \in Nat
      BY <1>1, StoredNat, Zenon DEF Stored
    <2>2. /\ emitted[t] <= failures + Stored(t) + Now(t) /\ emitted[t] \in Nat
          /\ emitted'[t] \in Nat
          /\ t \in backend.ok => emitted[t] > 0
          /\ t \in exec.fork.ok \cup exec.check.ok => emitted[t] > 0
          /\ t.fail = "fuel" => emitted[t] = 0
      BY <1>1, <1>2, <1>10, Zenon DEF EventsInv
    <2>3. CASE t = This
      <3>1. Now(t) = 0 /\ Now(t)' = 1
        BY <1>1, <1>6, <1>7, <2>3, Zenon DEF Now
      <3> QED BY <1>2, <1>4, <1>10, <2>1, <2>2, <2>3, <3>1
    <2>4. CASE t # This
      <3>1. Now(t)' = Now(t)
        BY <1>1, <1>6, <1>7, <2>4, Zenon DEF Now
      <3> QED BY <1>4, <1>10, <2>1, <2>2, <2>4, <3>1, Zenon
    <2> QED BY <2>3, <2>4, Zenon
  <1>12. exec'.pc = "run" => confirmed' # <<>>
    BY <1>1, Zenon DEF EventsInv
  <1> QED BY <1>1, <1>2, <1>5, <1>10, <1>11, <1>12, Zenon DEF EventsInv

(* The block is stored with all its transactions, or its execution is lost  *)
(* and counted.                                                             *)
LEMMA EventsMerge ==
    ASSUME Inv, EventsInv, ExecMerge
    PROVE  EventsInv'
  <1> DEFINE d == Merged(backend, exec.base, [exec.fork EXCEPT !.blocks = Append(@, confirmed)])
  <1>1. UNCHANGED <<emitted, confirmed>> /\ exec.pc = "run"
    BY Zenon DEF ExecMerge, pool
  <1>2. exec'.pc # "run" /\ \A t : Now(t)' = 0
    BY DEF ExecMerge, ExecFailed, NoExec, Now
  <1>3. /\ emitted \in [Tx -> Nat] /\ failures \in Nat
        /\ \A t \in Tx : emitted[t] \in Nat /\ Stored(t) \in Nat
    BY StoredNat, Zenon DEF EventsInv
  <1>4. CASE backend' = d /\ failures' = failures
    <2>1. /\ d.blocks = Append(backend.blocks, confirmed) /\ d.ok = exec.fork.ok
          /\ backend.blocks \in Seq(Seq(Tx)) /\ confirmed \in Seq(Tx)
      BY <1>1, MergedFacts, Zenon DEF Inv, Types, Db
    <2> HIDE DEF d
    <2>2. ASSUME NEW t \in Tx
          PROVE  /\ emitted'[t] <= failures' + Stored(t)' + Now(t)'
                 /\ t \in backend'.ok => emitted'[t] > 0
                 /\ t.fail = "fuel" => emitted'[t] = 0
      <3>1. Stored(t)' = Stored(t) + (IF t \in Range(confirmed) THEN 1 ELSE 0)
        <4>1. backend'.blocks = Append(backend.blocks, confirmed)
          BY <1>4, <2>1, Zenon
        <4> QED BY <2>1, <4>1, StoredFacts DEF Stored
      <3>2. Now(t) <= IF t \in Range(confirmed) THEN 1 ELSE 0
        <4>1. Done \subseteq Range(confirmed)
          BY Zenon DEF Done, Range
        <4> QED BY <4>1 DEF Now
      <3>3. Now(t) \in {0, 1} /\ Now(t)' = 0
        BY <1>2, Zenon DEF Now
      <3>4. /\ emitted[t] <= failures + Stored(t) + Now(t)
            /\ t \in exec.fork.ok => emitted[t] > 0
            /\ t.fail = "fuel" => emitted[t] = 0
        BY <1>1, Zenon DEF EventsInv
      <3> QED BY <1>1, <1>3, <1>4, <2>1, <3>1, <3>2, <3>3, <3>4
    <2> QED BY <1>1, <1>2, <1>3, <1>4, <2>2, Zenon DEF EventsInv
  <1>5. CASE backend' = backend /\ failures' = failures + 1
    <2>1. ASSUME NEW t \in Tx
          PROVE  emitted'[t] <= failures' + Stored(t)' + Now(t)'
      <3>1. Stored(t)' = Stored(t) /\ Now(t)' = 0 /\ Now(t) \in {0, 1}
        BY <1>2, <1>5, Zenon DEF Stored, Now
      <3>2. emitted[t] <= failures + Stored(t) + Now(t)
        BY Zenon DEF EventsInv
      <3> QED BY <1>1, <1>3, <1>5, <3>1, <3>2
    <2>2. failures' \in Nat
      BY <1>3, <1>5
    <2> QED BY <1>1, <1>2, <1>5, <2>1, <2>2, Zenon DEF EventsInv
  <1> QED BY <1>4, <1>5, Zenon DEF ExecMerge, fork_merge, db

(* Every step keeps the account of what was published. *)
LEMMA EventsNext ==
    ASSUME Inv, EventsInv, [Next]_vars
    PROVE  EventsInv'
  <1>1. CASE StoreConfig
    <2>1. backend \in Db /\ backend' = [backend EXCEPT !.config = @ + 1]
      BY <1>1, Zenon DEF StoreConfig, fork_merge, Inv, Types
    <2>2. backend'.blocks = backend.blocks /\ backend'.ok = backend.ok
      BY <2>1, Zenon DEF Db
    <2>3. UNCHANGED <<emitted, failures, confirmed, exec>>
      BY <1>1, Zenon DEF StoreConfig, pool
    <2> QED BY <2>2, <2>3, EventsKept, Zenon
  <1>2. CASE Executor
    BY <1>2, EventsIdle, EventsCall, EventsTx, EventsMerge, Zenon DEF Executor
  <1>3. CASE TakeBlock \/ \E t, u \in unconfirmed : Build(<<t>>) \/ Build(<<t, u>>)
    BY <1>3, EventsIdle, Zenon
  <1>4. ASSUME NEW k \in Task, Serve(k)
        PROVE  EventsInv'
    <2>1. UNCHANGED <<emitted, failures, confirmed, exec, backend>>
      BY <1>4, Zenon DEF Serve, Begin, End, get_block_handler, get_account_handler,
         get_transaction_handler, get_receipt_handler, get_network_id_handler,
         get_stats_handler, put_transaction_internal, RoBegin, RoEnd, ro_exec,
         others, history, db, pool
    <2> QED BY <2>1, EventsKept, Zenon
  <1>5. CASE UNCHANGED vars
    BY <1>5, EventsKept, Zenon DEF vars, db, pool, history
  <1> QED BY <1>1, <1>2, <1>3, <1>4, <1>5, Zenon DEF Next

(* What was published is accounted for at all times. *)
THEOREM EventsInvariant == Spec => []EventsInv
  <1>1. Init => EventsInv
    <2> SUFFICES ASSUME Init
                 PROVE  EventsInv
      BY Zenon
    <2>1. /\ emitted = [t \in Tx |-> 0] /\ failures = 0 /\ confirmed = <<>>
          /\ exec.pc = "idle" /\ backend.ok = {}
      BY Zenon DEF Init, NoExec, Initial
    <2>2. \A t \in Tx : Stored(t) \in Nat /\ Now(t) = 0
      BY <2>1, InitInv, StoredNat, Zenon DEF Now
    <2>3. ASSUME NEW t \in Tx
          PROVE  emitted[t] = 0 /\ 0 <= failures + Stored(t) + Now(t)
      BY <2>1, <2>2
    <2>4. emitted \in [Tx -> Nat] /\ failures \in Nat
      BY <2>1, Zenon
    <2> QED BY <2>1, <2>3, <2>4 DEF EventsInv
  <1>2. Inv /\ EventsInv /\ [Next]_vars => EventsInv'
    BY EventsNext, Zenon
  <1> QED BY <1>1, <1>2, StoreInvariant, PTL DEF Spec

(* exec_block publishes the events of a transaction at most once for each   *)
(* execution of its block and at least once when it succeeds.               *)
THEOREM EventsAlwaysPublished == Spec => []EventsPublished
  <1>1. Inv /\ EventsInv => EventsPublished
    <2> SUFFICES ASSUME Inv, EventsInv, NEW t \in Tx
                 PROVE  /\ emitted[t] <= failures + Stored(t)
                                         + (IF exec.pc = "run" THEN 1 ELSE 0)
                        /\ t \in backend.ok => emitted[t] > 0
                        /\ t.fail = "fuel" => emitted[t] = 0
      BY Zenon DEF EventsPublished, Stored, With
    <2>1. /\ emitted[t] <= failures + Stored(t) + Now(t)
          /\ emitted[t] \in Nat /\ failures \in Nat /\ Stored(t) \in Nat
      BY StoredNat, Zenon DEF EventsInv
    <2>2. Now(t) \in {0, 1} /\ (exec.pc # "run" => Now(t) = 0)
      BY Zenon DEF Now
    <2>3. emitted[t] <= failures + Stored(t) + (IF exec.pc = "run" THEN 1 ELSE 0)
      BY <2>1, <2>2
    <2> QED BY <2>3, Zenon DEF EventsInv
  <1> QED BY <1>1, EventsInvariant, StoreInvariant, PTL
=============================================================================

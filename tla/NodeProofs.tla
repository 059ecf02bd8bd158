----------------------------- MODULE NodeProofs -----------------------------
(***************************************************************************)
(* Type correctness of Node, and that the chain of a node is well formed   *)
(* and only grows, for every set of transactions, every chain of the other *)
(* nodes, every number of tasks and of crashes, whether the node is a      *)
(* validator or not; the chain of a node that is not one is that of the    *)
(* others.                                                                 *)
(*                                                                         *)
(* ChainLinked is not inductive: that the next block fits rests on what    *)
(* the executor carries along, and that rests on its being the only one.   *)
(***************************************************************************)
EXTENDS Node, FiniteSetTheorems, TLAPS

(* What is defined on the numbers up to n is a sequence. *)
LEMMA FcnIsSeq ==
    ASSUME NEW S, NEW n \in Nat, NEW f \in [1 .. n -> S]
    PROVE  f \in Seq(S)
  OBVIOUS

(* A bounded set of numbers that is not empty has a greatest element. *)
LEMMA MaxExists ==
    ASSUME NEW M \in Nat, NEW S \in SUBSET (0 .. M), S # {}
    PROVE  Max(S) \in S /\ \A y \in S : y <= Max(S)
  <1> DEFINE U == {m \in Nat : \A y \in S : y <= m}
             R == OpToRel(<, Nat)
  <1>1. U \subseteq Nat /\ M \in U
    OBVIOUS
  <1>2. IsWellFoundedOn(R, Nat)
    BY NatLessThanWellFounded, Zenon
  <1>3. \A v, u \in Nat : v < u => <<v, u>> \in R
    BY Zenon DEF OpToRel
  <1> HIDE DEF R
  <1>4. PICK u \in U : \A v \in U : ~(<<v, u>> \in R)
    BY <1>1, <1>2, WFMin, Zenon
  <1>5. u \in S
    <2>1. SUFFICES ASSUME u \notin S
                   PROVE  FALSE
      BY Zenon
    <2>2. u \in Nat /\ \A y \in S : y \in Nat /\ y <= u
      BY <1>4
    <2>3. PICK z \in S : TRUE
      BY Zenon
    <2>4. u - 1 \in Nat /\ u - 1 < u
      BY <2>1, <2>2, <2>3
    <2>5. \A y \in S : y <= u - 1
      BY <2>1, <2>2
    <2>6. u - 1 \in U
      BY <2>4, <2>5, Zenon
    <2>7. <<u - 1, u>> \in R
      BY <2>2, <2>4, <1>3, Zenon
    <2>8. QED
      BY <2>6, <2>7, <1>4, Zenon
  <1>6. QED
    BY <1>4, <1>5, Zenon DEF Max

-----------------------------------------------------------------------------
(* Types of the operators. *)

(* A block has a primary hash, and never that of Hash::default(). *)
LEMMA HashType ==
    ASSUME NEW b \in Block
    PROVE  PrimaryHash(b) \in Hash /\ PrimaryHash(b) # NoHash
  <1> DEFINE body == [height |-> b.height, validator |-> b.validator, txs |-> b.txs]
  <1>1. body \in Body /\ b.prev \in Seq(Body)
    BY Zenon DEF Block, Body, Hash
  <1>2. PrimaryHash(b) = Append(b.prev, body)
    BY Zenon DEF PrimaryHash
  <1> HIDE DEF body
  <1>3. QED
    BY <1>1, <1>2 DEF Hash, NoHash

(* load_block(u64::MAX) gives a next height and a previous hash. *)
LEMMA TipType ==
    ASSUME chain \in Seq(Block)
    PROVE  NextHeight \in Nat /\ TipHash \in Hash
  <1>1. CASE chain = <<>>
    BY <1>1 DEF NextHeight, TipHash, Hash, NoHash
  <1>2. CASE chain # <<>>
    <2>1. chain[Len(chain)] \in Block
      BY <1>2
    <2>2. QED
      BY <1>2, <2>1, HashType DEF NextHeight, TipHash, Block
  <1>3. QED
    BY <1>1, <1>2, Zenon

(* What a message tells of a block is a BlockInfo for its height. *)
LEMMA RemoteInfoType ==
    ASSUME NEW h \in 0 .. Len(RemoteChain) - 1, NEW list
    PROVE  RemoteInfo(h, list) \in BlockInfo /\ h \in 0 .. TopHeight
  <1>1. RemoteChain \in Seq(Body) /\ MaxHeight \in Nat
    BY NodeAssumption, Zenon
  <1>2. RemoteChain[h + 1] \in Body /\ Len(RemoteChain) \in Nat
    BY <1>1
  <1>3. RemoteHash(h) \in Hash
    BY <1>1 DEF RemoteHash, Hash
  <1>4. QED
    BY <1>1, <1>2, <1>3 DEF RemoteInfo, BlockInfo, Body, TopHeight

(* So is the empty one. *)
LEMMA NoInfoType == NoInfo \in BlockInfo
  BY DEF NoInfo, BlockInfo, NoHash, Hash

(* Taking values from a queue gives a list of them and a queue. *)
LEMMA QueueTypes ==
    ASSUME NEW S, NEW q \in QueueOf(S), NEW n \in Nat
    PROVE  /\ firstN(q, n) \in Seq(S)
           /\ popN(q, n) \in QueueOf(S)
           /\ len(q) \in Nat
  <1>1. q.fifo \in Seq(S) /\ q.set \in SUBSET S
    BY Zenon DEF QueueOf
  <1>2. firstN(q, n) \in Seq(S)
    BY <1>1 DEF firstN
  <1>3. SubSeq(q.fifo, Len(firstN(q, n)) + 1, Len(q.fifo)) \in Seq(S)
    BY <1>1, <1>2
  <1>4. QED
    BY <1>1, <1>2, <1>3 DEF popN, QueueOf, len

(* The builder starts at a height. *)
LEMMA FirstHeightType ==
    ASSUME TypeOK
    PROVE  first_height \in Nat
  <1>1. TopHeight \in Nat
    BY NodeAssumption DEF TopHeight
  <1>2. CASE DOMAIN confirmed = {}
    BY <1>2, TipType, Zenon DEF first_height, TypeOK, TypeChain
  <1>3. CASE DOMAIN confirmed # {}
    <2>1. Max(DOMAIN confirmed) \in DOMAIN confirmed
      BY <1>1, <1>3, MaxExists, Zenon DEF TypeOK, TypePool
    <2>2. QED
      BY <1>1, <1>3, <2>1 DEF first_height, TypeOK, TypePool
  <1>4. QED
    BY <1>2, <1>3, Zenon

(* What exec_block constructs is a block. *)
LEMMA NewBlockType ==
    ASSUME TypeOK, NEW e \in Executors
    PROVE  NewBlock(e) \in Block
  <1>1. executor[e].height \in Nat /\ executor[e].prev \in Hash
        /\ executor[e].info \in BlockInfo
    BY Zenon DEF TypeOK, TypeExecutors
  <1>2. QED
    BY <1>1, Zenon DEF NewBlock, Block, BlockInfo

-----------------------------------------------------------------------------
(* A component that a step leaves alone keeps its type. *)
LEMMA TypeKept ==
    /\ TypeChain /\ UNCHANGED chain => TypeChain'
    /\ TypePool /\ UNCHANGED pool => TypePool'
    /\ TypeWorker /\ UNCHANGED <<aligned, worker>> => TypeWorker'
    /\ TypeHandlers /\ UNCHANGED handler => TypeHandlers'
    /\ TypeBuilders /\ UNCHANGED builder => TypeBuilders'
    /\ TypeExecutors /\ UNCHANGED executor => TypeExecutors'
    /\ TypeAligner /\ UNCHANGED aligner => TypeAligner'
    /\ TypeEnv /\ UNCHANGED env => TypeEnv'
  <1>1. TypeChain /\ UNCHANGED chain => TypeChain'
    BY Zenon DEF TypeChain
  <1>2. TypePool /\ UNCHANGED pool => TypePool'
    BY Zenon DEF TypePool, pool
  <1>3. TypeWorker /\ UNCHANGED <<aligned, worker>> => TypeWorker'
    BY Zenon DEF TypeWorker, worker
  <1>4. TypeHandlers /\ UNCHANGED handler => TypeHandlers'
    BY Zenon DEF TypeHandlers
  <1>5. TypeBuilders /\ UNCHANGED builder => TypeBuilders'
    BY Zenon DEF TypeBuilders
  <1>6. TypeExecutors /\ UNCHANGED executor => TypeExecutors'
    BY Zenon DEF TypeExecutors
  <1>7. TypeAligner /\ UNCHANGED aligner => TypeAligner'
    BY Zenon DEF TypeAligner
  <1>8. TypeEnv /\ UNCHANGED env => TypeEnv'
    BY Zenon DEF TypeEnv, env
  <1>9. QED
    BY <1>1, <1>2, <1>3, <1>4, <1>5, <1>6, <1>7, <1>8, Zenon

(* The agendas that the worker sets itself. *)
LEMMA Agendas ==
    /\ <<>> \in Seq(Call) /\ <<"exec">> \in Seq(Call)
    /\ <<"build_any", "exec">> \in Seq(Call) /\ <<"exec", "build_full">> \in Seq(Call)
    /\ \A s \in Seq(Call) : s # <<>> =>
           /\ Tail(s) \in Seq(Call)
           /\ <<"spawn_builder">> \o Tail(s) \in Seq(Call)
           /\ <<"spawn_executor">> \o Tail(s) \in Seq(Call)
  <1>1. "exec" \in Call /\ "build_any" \in Call /\ "build_full" \in Call
        /\ "spawn_builder" \in Call /\ "spawn_executor" \in Call
    BY Zenon DEF Call
  <1>2. QED
    BY <1>1

(* A node starts with the types right. *)
LEMMA TypeInit == Init => TypeOK
  <1> SUFFICES ASSUME Init
               PROVE  TypeOK
    BY Zenon
  <1>1. TypeChain
    <2>1. RemoteChain \in Seq(Body) /\ Synced \in 0 .. Len(RemoteChain)
      BY NodeAssumption, Zenon
    <2>2. ASSUME NEW i \in 1 .. Synced
          PROVE  InitialChain[i] \in Block
      <3>1. RemoteChain[i] \in Body
        BY <2>1
      <3>2. SubSeq(RemoteChain, 1, i - 1) \in Hash
        BY <2>1 DEF Hash
      <3>3. QED
        BY <3>1, <3>2, Zenon DEF InitialChain, Block, Body
    <2>3. InitialChain \in [1 .. Synced -> Block]
      BY <2>2, Zenon DEF InitialChain
    <2>4. QED
      BY <2>1, <2>3, FcnIsSeq DEF Init, TypeChain
  <1>2. TypePool
    BY NodeAssumption DEF Init, put_txs, QueueOf, Range, TypePool
  <1>3. TypeWorker
    <2>1. agenda \in Seq(Call)
      BY Agendas, Zenon DEF Init
    <2>2. QED
      BY <2>1, Zenon DEF Init, TypeWorker
  <1>4. TypeHandlers
    BY Zenon DEF Init, Idle, Task, TypeHandlers
  <1>5. TypeBuilders
    BY Zenon DEF Init, IdleBuilder, TypeBuilders
  <1>6. TypeExecutors
    BY NoInfoType DEF Init, IdleExecutor, NoHash, Hash, TypeExecutors
  <1>7. TypeAligner
    BY Zenon DEF Init, IdleAligner, TypeAligner
  <1>8. TypeEnv
    BY NodeAssumption DEF Init, TypeEnv
  <1>9. QED
    BY <1>1, <1>2, <1>3, <1>4, <1>5, <1>6, <1>7, <1>8, Zenon DEF TypeOK

(* The worker keeps the types. *)
LEMMA TypeWorkerStep ==
    ASSUME TypeOK, WorkerStep
    PROVE  TypeOK'
  <1> USE DEF pool, worker, env
  <1>1. CASE Timer
    <2>1. TypeWorker'
      <3>1. agenda' \in Seq(Call)
        BY <1>1, Agendas, Zenon DEF Timer, timer_calls, TypeOK, TypeWorker
      <3>2. QED
        BY <1>1, <3>1, Zenon DEF Timer, TypeOK, TypeWorker
    <2>2. QED
      BY <1>1, <2>1, TypeKept, Zenon DEF Timer, TypeOK
  <1>2. CASE TryBuild
    <2>1. TypeWorker'
      <3>1. agenda' \in Seq(Call)
        BY <1>2, Agendas, Zenon DEF TryBuild, TypeOK, TypeWorker
      <3>2. QED
        BY <1>2, <3>1, Zenon DEF TryBuild, TypeOK, TypeWorker
    <2>2. QED
      BY <1>2, <2>1, TypeKept, Zenon DEF TryBuild, TypeOK
  <1>3. CASE TryExec
    <2>1. TypeWorker'
      <3>1. agenda' \in Seq(Call)
        BY <1>3, Agendas, Zenon DEF TryExec, TypeOK, TypeWorker
      <3>2. QED
        BY <1>3, <3>1, Zenon DEF TryExec, TypeOK, TypeWorker
    <2>2. QED
      BY <1>3, <2>1, TypeKept, Zenon DEF TryExec, TypeOK
  <1>4. CASE SpawnBuilder
    <2>1. TypeWorker'
      <3>1. agenda' \in Seq(Call)
        BY <1>4, Agendas, Zenon DEF SpawnBuilder, TypeOK, TypeWorker
      <3>2. QED
        BY <1>4, <3>1, Zenon DEF SpawnBuilder, TypeOK, TypeWorker
    <2>2. TypeBuilders'
      BY <1>4, ZenonT(60) DEF SpawnBuilder, TypeOK, TypeBuilders
    <2>3. QED
      BY <1>4, <2>1, <2>2, TypeKept, Zenon DEF SpawnBuilder, TypeOK
  <1>5. CASE SpawnExecutor
    <2>1. TypeWorker'
      <3>1. agenda' \in Seq(Call)
        BY <1>5, Agendas, Zenon DEF SpawnExecutor, TypeOK, TypeWorker
      <3>2. QED
        BY <1>5, <3>1, Zenon DEF SpawnExecutor, TypeOK, TypeWorker
    <2>2. TypeExecutors'
      BY <1>5, ZenonT(60) DEF SpawnExecutor, TypeOK, TypeExecutors
    <2>3. QED
      BY <1>5, <2>1, <2>2, TypeKept, Zenon DEF SpawnExecutor, TypeOK
  <1>6. QED
    BY <1>1, <1>2, <1>3, <1>4, <1>5, Zenon DEF WorkerStep

(* A message that arrives keeps the types. *)
LEMMA TypeReceive ==
    ASSUME TypeOK, NEW c \in Handlers, NEW m \in Message, Receive(c, m)
    PROVE  TypeOK'
  <1> USE DEF pool, worker, env
  <1>1. TypeWorker'
    <2>1. agenda' \in Seq(Call)
      BY Agendas, Zenon DEF Receive
    <2>2. QED
      BY <2>1, Zenon DEF Receive, TypeOK, TypeWorker
  <1>2. TypeHandlers'
    <2> DEFINE task == IF m.type = "tx"
                       THEN [pc |-> "put_db", tx |-> m.tx]
                       ELSE [pc |-> "block_db", height |-> m.height,
                             list |-> m.list, start |-> 0]
    <2>1. task \in Task
      BY Zenon DEF Message, Task
    <2>2. handler' = [handler EXCEPT ![c] = task]
      BY Zenon DEF Receive
    <2> HIDE DEF task
    <2>3. QED
      BY <2>1, <2>2, Zenon DEF TypeOK, TypeHandlers
  <1>3. TypeEnv'
    <2>1. MaxSends \in Nat
      BY NodeAssumption, Zenon
    <2>2. /\ sent' = [sent EXCEPT ![m] = sent[m] + 1] /\ sent[m] \in 0 .. MaxSends
          /\ sent[m] < MaxSends /\ UNCHANGED <<crashes, faults>>
      BY Zenon DEF Receive, TypeOK, TypeEnv
    <2>3. sent[m] + 1 \in 0 .. MaxSends
      BY <2>1, <2>2
    <2>4. QED
      BY <2>2, <2>3, Zenon DEF TypeOK, TypeEnv
  <1>4. QED
    BY <1>1, <1>2, <1>3, TypeKept, Zenon DEF Receive, TypeOK

(* Removing values from a queue leaves a queue. *)
LEMMA WithoutType ==
    ASSUME NEW S, NEW q \in QueueOf(S), NEW T, NEW r \in without(q, T)
    PROVE  r \in QueueOf(S)
  <1> DEFINE I == {i \in DOMAIN q.fifo : q.fifo[i] \notin T}
             n == Cardinality(I)
  <1>1. q.fifo \in Seq(S) /\ q.set \in SUBSET S /\ I \in SUBSET (1 .. Len(q.fifo))
    BY DEF QueueOf
  <1>2. n \in Nat
    <2>1. IsFiniteSet(1 .. Len(q.fifo))
      <3>1. 1 \in Int /\ Len(q.fifo) \in Int
        BY <1>1
      <3>2. QED
        BY <3>1, FS_Interval, Zenon
    <2>2. QED
      BY <1>1, <2>1, FS_Subset, FS_CardinalityType, Zenon
  <1>3. PICK f \in Increasing(I) :
            r = [fifo |-> [i \in 1 .. n |-> q.fifo[f[i]]], set |-> q.set \ T]
    BY Zenon DEF without
  <1>4. f \in [1 .. n -> I]
    BY <1>3, Zenon DEF Increasing
  <1> HIDE DEF n
  <1>5. \A i \in 1 .. n : q.fifo[f[i]] \in S
    BY <1>1, <1>4
  <1>6. [i \in 1 .. n |-> q.fifo[f[i]]] \in Seq(S)
    BY <1>2, <1>5, FcnIsSeq, Zenon
  <1>7. QED
    BY <1>1, <1>3, <1>6, Zenon DEF QueueOf, n

(* TakeBlock keeps the types of the pool. *)
LEMMA TypeTakeBlock ==
    ASSUME TypePool, NEW h \in 0 .. Len(RemoteChain) - 1, NEW list,
           TakeBlock(h, list)
    PROVE  TypePool'
  <1> DEFINE info == RemoteInfo(h, list)
  <1>1. info \in BlockInfo /\ h \in 0 .. TopHeight
    BY RemoteInfoType, Zenon
  <1>2. txs' \in [Tx -> {"absent", "hash", "full"}]
    BY Zenon DEF TakeBlock, TypePool
  <1>3. unconfirmed' \in QueueOf(Tx)
    BY WithoutType, Zenon DEF TakeBlock, TypePool
  <1>4. confirmed' = Insert(confirmed, h, info)
    BY Zenon DEF TakeBlock
  <1> HIDE DEF info
  <1>5. QED
    BY <1>1, <1>2, <1>3, <1>4, Zenon DEF TypePool, Insert

(* The dispatcher tasks keep the types. *)
LEMMA TypeHandlerStep ==
    ASSUME TypeOK, NEW c \in Handlers, HandlerStep(c)
    PROVE  TypeOK'
  <1> USE DEF pool, worker, env
  <1>1. CASE PutCheck(c)
    <2>1. TypeHandlers'
      BY <1>1, ZenonT(60) DEF PutCheck, TypeOK, TypeHandlers, Task, Idle
    <2>2. QED
      BY <1>1, <2>1, TypeKept, Zenon DEF PutCheck, TypeOK
  <1>2. CASE PutPool(c)
    <2>1. handler[c].tx \in Tx
      BY <1>2, Zenon DEF PutPool, TypeOK, TypeHandlers, Task
    <2>2. push(unconfirmed, handler[c].tx) \in QueueOf(Tx)
      BY <2>1 DEF push, QueueOf, TypeOK, TypePool
    <2>3. TypePool'
      BY <1>2, <2>1, <2>2, Zenon DEF PutPool, TypeOK, TypePool
    <2>4. TypeHandlers'
      BY <1>2, Zenon DEF PutPool, TypeOK, TypeHandlers, Task, Idle
    <2>5. QED
      BY <1>2, <2>3, <2>4, TypeKept, Zenon DEF PutPool, TypeOK
  <1>3. CASE BlockCheck(c)
    <2>1. NextHeight \in Nat
      BY TipType, Zenon DEF TypeOK, TypeChain
    <2>2. TypeHandlers'
      <3> DEFINE x == handler[c]
      <3>1. x \in [pc : {"block_db", "block_next", "block_missed", "block_pool"},
                   height : 0 .. Len(RemoteChain) - 1, list : Lists, start : Nat]
        BY <1>3, Zenon DEF BlockCheck, TypeOK, TypeHandlers, Task
      <3>2. PICK g : g = [x EXCEPT !.pc = "block_next", !.start = NextHeight]
        BY Zenon
      <3>3. g \in Task
        BY <2>1, <3>1, <3>2, Zenon DEF Task
      <3>4. handler' = [handler EXCEPT ![c] = g]
        BY <1>3, <3>2, Zenon DEF BlockCheck, TypeOK, TypeHandlers
      <3> HIDE DEF x
      <3>5. QED
        BY <3>3, <3>4, Zenon DEF TypeOK, TypeHandlers
    <2>3. QED
      BY <1>3, <2>2, TypeKept, Zenon DEF BlockCheck, TypeOK
  <1>4. CASE BlockNext(c)
    <2>1. TypeHandlers'
      BY <1>4 DEF BlockNext, TypeOK, TypeHandlers, Task, Idle
    <2>2. QED
      BY <1>4, <2>1, TypeKept, Zenon DEF BlockNext, TypeOK
  <1>5. CASE BlockMissed(c)
    <2>1. TypeHandlers'
      BY <1>5, Zenon DEF BlockMissed, TypeOK, TypeHandlers, Task, Idle
    <2>2. TypeWorker'
      BY <1>5, Zenon DEF BlockMissed, TypeOK, TypeWorker
    <2>3. QED
      BY <1>5, <2>1, <2>2, TypeKept, Zenon DEF BlockMissed, TypeOK
  <1>6. CASE BlockPool(c)
    <2>1. handler[c].height \in 0 .. Len(RemoteChain) - 1
      BY <1>6, Zenon DEF BlockPool, TypeOK, TypeHandlers, Task
    <2>2. TypePool'
      BY <1>6, <2>1, TypeTakeBlock, Zenon DEF BlockPool, TypeOK
    <2>3. TypeHandlers'
      BY <1>6, Zenon DEF BlockPool, TypeOK, TypeHandlers, Task, Idle
    <2>4. QED
      BY <1>6, <2>2, <2>3, TypeKept, Zenon DEF BlockPool, TypeOK
  <1>7. QED
    BY <1>1, <1>2, <1>3, <1>4, <1>5, <1>6, Zenon DEF HandlerStep

(* A slot left busy is still a BlockInfo. *)
LEMMA BusyType ==
    ASSUME NEW info \in BlockInfo
    PROVE  busy(info) \in BlockInfo
  <1>1. <<>> \in Seq(Tx) /\ NoKey \in Key \cup {Self, NoKey}
    OBVIOUS
  <1>2. QED
    BY <1>1, Zenon DEF busy, BlockInfo

(* A slot that is filled keeps the types of the slots. *)
LEMMA TypeInsert ==
    ASSUME TypePool, NEW h \in 0 .. TopHeight, NEW info \in BlockInfo,
           confirmed' = Insert(confirmed, h, info)
    PROVE  /\ DOMAIN confirmed' \subseteq 0 .. TopHeight
           /\ \A k \in DOMAIN confirmed' : confirmed'[k] \in BlockInfo
  BY Zenon DEF TypePool, Insert

(* The builder tasks keep the types. *)
LEMMA TypeBuilderStep ==
    ASSUME TypeOK, NEW b \in Builders, BuilderStep(b)
    PROVE  TypeOK'
  <1> USE DEF pool, worker, env
  <1>0. /\ len(unconfirmed) \in Nat /\ block_txs \in Seq(Tx) /\ Len(block_txs) \in Nat
        /\ popN(unconfirmed, Len(block_txs)) \in QueueOf(Tx)
    <2>1. unconfirmed \in QueueOf(Tx) /\ Threshold \in Nat
      BY NodeAssumption, Zenon DEF TypeOK, TypePool
    <2>2. len(unconfirmed) \in Nat /\ block_txs \in Seq(Tx)
      BY <2>1, QueueTypes, Zenon DEF block_txs
    <2>3. Len(block_txs) \in Nat
      BY <2>2
    <2>4. QED
      BY <2>1, <2>2, <2>3, QueueTypes, Zenon
  <1>1. CASE BuildStart(b)
    <2>1. TypeBuilders'
      BY <1>1, FirstHeightType, Zenon DEF BuildStart, TypeOK, TypeBuilders
    <2>2. QED
      BY <1>1, <2>1, TypeKept, Zenon DEF BuildStart, TypeOK
  <1>2. CASE BuildCount(b)
    <2>1. TypeBuilders'
      BY <1>0, <1>2, Zenon DEF BuildCount, TypeOK, TypeBuilders
    <2>2. QED
      BY <1>2, <2>1, TypeKept, Zenon DEF BuildCount, TypeOK
  <1>3. CASE BuildFill(b)
    <2>1. builder[b].height \in 0 .. TopHeight /\ builder[b].count \in Nat
      <3>1. /\ builder[b].height \in Nat /\ builder[b].count \in Nat
            /\ builder[b].height <= MaxHeight
        BY <1>0, <1>3, Zenon DEF BuildFill, TypeOK, TypeBuilders
      <3>2. MaxHeight \in Nat /\ RemoteChain \in Seq(Body)
        BY NodeAssumption, Zenon
      <3>3. QED
        BY <3>1, <3>2 DEF TopHeight
    <2>2. remaining(builder[b].count, Len(block_txs)) \in Nat
      BY <1>0, <2>1 DEF remaining
    <2>3. TypeBuilders'
      <3> DEFINE n == remaining(builder[b].count, Len(block_txs))
      <3>1. builder' = [builder EXCEPT ![b].height = @ + 1, ![b].count = n]
        BY <1>3, Zenon DEF BuildFill
      <3>2. n \in Nat /\ builder[b].height + 1 \in Nat
        BY <2>1, <2>2
      <3> HIDE DEF n
      <3>3. QED
        BY <3>1, <3>2, Zenon DEF TypeOK, TypeBuilders
    <2>4. [NoInfo EXCEPT !.known = TRUE, !.txs = block_txs] \in BlockInfo
      BY <1>0, NoInfoType, Zenon DEF BlockInfo
    <2>5. TypePool'
      BY <1>0, <1>3, <2>1, <2>4, TypeInsert, Zenon DEF BuildFill, TypeOK, TypePool
    <2>6. QED
      BY <1>3, <2>3, <2>5, TypeKept, Zenon DEF BuildFill, TypeOK
  <1>4. CASE BuildRecount(b)
    <2>1. TypeBuilders'
      <3> DEFINE n == len(unconfirmed)
                 to == IF is_last(n) THEN "done" ELSE "fill"
      <3>1. builder' = [builder EXCEPT ![b].pc = to, ![b].count = n]
        BY <1>4, Zenon DEF BuildRecount
      <3>2. n \in Nat /\ to \in {"done", "fill"}
        BY <1>0, Zenon
      <3> HIDE DEF n, to
      <3>3. QED
        BY <3>1, <3>2, Zenon DEF TypeOK, TypeBuilders
    <2>2. QED
      BY <1>4, <2>1, TypeKept, Zenon DEF BuildRecount, TypeOK
  <1>5. CASE BuildDone(b)
    <2>1. TypeBuilders'
      BY <1>5, Zenon DEF BuildDone, TypeOK, TypeBuilders, IdleBuilder
    <2>2. TypeWorker'
      BY <1>5, Zenon DEF BuildDone, TypeOK, TypeWorker
    <2>3. QED
      BY <1>5, <2>1, <2>2, TypeKept, Zenon DEF BuildDone, TypeOK
  <1>6. QED
    BY <1>1, <1>2, <1>3, <1>4, <1>5, Zenon DEF BuilderStep

(* The executor tasks keep the types. *)
LEMMA TypeExecutorStep ==
    ASSUME TypeOK, NEW e \in Executors, ExecutorStep(e)
    PROVE  TypeOK'
  <1> USE DEF pool, worker, env
  <1>1. CASE ExecStart(e)
    <2>1. TypeExecutors'
      <3>1. NextHeight \in Nat /\ TipHash \in Hash
        BY TipType, Zenon DEF TypeOK, TypeChain
      <3>2. executor' = [executor EXCEPT ![e].pc = "steal", ![e].height = NextHeight,
                                         ![e].prev = TipHash]
        BY <1>1, Zenon DEF ExecStart
      <3>3. QED
        BY <3>1, <3>2, ZenonT(60) DEF TypeOK, TypeExecutors
    <2>2. QED
      BY <1>1, <2>1, TypeKept, Zenon DEF ExecStart, TypeOK
  <1>2. CASE ExecSteal(e)
    <2> DEFINE h == executor[e].height
    <2>1. CASE h \in DOMAIN confirmed /\ confirmed[h].known
      <3>1. confirmed[h] \in BlockInfo /\ h \in 0 .. TopHeight /\ TopHeight \in Nat
        BY <2>1, NodeAssumption DEF TypeOK, TypePool, TopHeight
      <3>2. /\ executor' = [executor EXCEPT ![e].pc = "exec", ![e].info = confirmed[h]]
            /\ confirmed' = take_slot(h) /\ UNCHANGED <<txs, unconfirmed>>
        BY <1>2, <2>1, Zenon DEF ExecSteal
      <3>3. TypeExecutors'
        <4> DEFINE i == confirmed[h]
        <4>1. i \in BlockInfo /\ executor[e].height <= TopHeight
          BY <3>1
        <4>2. executor' = [executor EXCEPT ![e].pc = "exec", ![e].info = i]
          BY <3>2, Zenon
        <4> HIDE DEF h, i
        <4>3. QED
          BY <4>1, <4>2, ZenonT(60) DEF TypeOK, TypeExecutors
      <3>4. busy(confirmed[h]) \in BlockInfo
        BY <3>1, BusyType, Zenon
      <3>5. TypePool'
        BY <3>1, <3>2, <3>4, Zenon DEF TypeOK, TypePool, take_slot
      <3>6. QED
        BY <1>2, <3>3, <3>5, TypeKept, Zenon DEF ExecSteal, TypeOK
    <2>2. CASE ~(h \in DOMAIN confirmed /\ confirmed[h].known)
      <3>1. executor' = [executor EXCEPT ![e].pc = "done"] /\ UNCHANGED pool
        BY <1>2, <2>2, Zenon DEF ExecSteal
      <3>2. TypeExecutors'
        BY <3>1, Zenon DEF TypeOK, TypeExecutors
      <3>3. QED
        BY <1>2, <3>1, <3>2, TypeKept, Zenon DEF ExecSteal, TypeOK
    <2>3. QED
      BY <2>1, <2>2, Zenon
  <1>3. CASE ExecPanic(e)
    <2>1. TypeExecutors'
      BY <1>3, Zenon DEF ExecPanic, TypeOK, TypeExecutors
    <2>2. QED
      BY <1>3, <2>1, TypeKept, Zenon DEF ExecPanic, TypeOK
  <1>4. CASE ExecCommit(e)
    <2>1. NewBlock(e) \in Block /\ PrimaryHash(NewBlock(e)) \in Hash
      BY NewBlockType, HashType, Zenon
    <2>2. TypeExecutors'
      BY <1>4, <2>1, ZenonT(60) DEF ExecCommit, TypeOK, TypeExecutors
    <2>3. TypeChain'
      BY <1>4, <2>1 DEF ExecCommit, TypeOK, TypeChain
    <2>4. QED
      BY <1>4, <2>2, <2>3, TypeKept, Zenon DEF ExecCommit, TypeOK
  <1>5. CASE ExecFail(e)
    <2>1. /\ executor[e].height \in 0 .. TopHeight
          /\ executor[e].info \in BlockInfo
      BY <1>5 DEF ExecFail, TypeOK, TypeExecutors
    <2>2. TypePool'
      BY <1>5, <2>1, TypeInsert, Zenon DEF ExecFail, put_back, TypeOK, TypePool
    <2>3. TypeExecutors'
      BY <1>5, Zenon DEF ExecFail, TypeOK, TypeExecutors
    <2>4. TypeEnv'
      <3>1. /\ MaxFaults \in Nat /\ faults \in 0 .. MaxFaults
            /\ faults' = faults \/ (faults < MaxFaults /\ faults' = faults + 1)
        <4>1. faults' = faults \/ (faults < MaxFaults /\ faults' = faults + 1)
          BY <1>5, Zenon DEF ExecFail
        <4>2. MaxFaults \in Nat /\ faults \in 0 .. MaxFaults
          BY NodeAssumption, Zenon DEF TypeOK, TypeEnv
        <4>3. QED
          BY <4>1, <4>2, Zenon
      <3>2. faults' \in 0 .. MaxFaults
        BY <3>1
      <3>3. QED
        BY <1>5, <3>2, Zenon DEF ExecFail, TypeOK, TypeEnv
    <2>5. QED
      BY <1>5, <2>2, <2>3, <2>4, TypeKept, Zenon DEF ExecFail, TypeOK
  <1>6. CASE ExecClean(e)
    <2>1. TypePool'
      BY <1>6, Zenon DEF ExecClean, TypeOK, TypePool, Delete
    <2>2. /\ advanced(executor[e]).pc = "next"
          /\ advanced(executor[e]) \in
                 [pc : {"idle", "start", "steal", "exec", "clean", "next", "done", "dead"},
                  height : Nat, prev : Hash, info : BlockInfo]
      BY NoInfoType DEF advanced, TypeOK, TypeExecutors
    <2>3. TypeExecutors'
      BY <1>6, <2>2, Zenon DEF ExecClean, TypeOK, TypeExecutors
    <2>4. QED
      BY <1>6, <2>1, <2>3, TypeKept, Zenon DEF ExecClean, TypeOK
  <1>7. CASE ExecNext(e)
    <2>1. TypeExecutors'
      BY <1>7 DEF ExecNext, TypeOK, TypeExecutors
    <2>2. QED
      BY <1>7, <2>1, TypeKept, Zenon DEF ExecNext, TypeOK
  <1>8. CASE ExecDone(e)
    <2>1. TypeExecutors'
      BY <1>8, NoInfoType DEF ExecDone, TypeOK, TypeExecutors, IdleExecutor, Hash,
                              NoHash
    <2>2. TypeWorker'
      BY <1>8, Zenon DEF ExecDone, TypeOK, TypeWorker
    <2>3. QED
      BY <1>8, <2>1, <2>2, TypeKept, Zenon DEF ExecDone, TypeOK
  <1>9. QED
    BY <1>1, <1>2, <1>3, <1>4, <1>5, <1>6, <1>7, <1>8, Zenon DEF ExecutorStep

(* The aligner keeps the types. *)
LEMMA TypeAlignerStep ==
    ASSUME TypeOK, AlignerStep
    PROVE  TypeOK'
  <1> USE DEF pool, worker, env
  <1>1. CASE AlignWake
    <2>1. TypeAligner'
      BY <1>1, Zenon DEF AlignWake, TypeOK, TypeAligner
    <2>2. QED
      BY <1>1, <2>1, TypeKept, Zenon DEF AlignWake, TypeOK
  <1>2. CASE AlignBlocks
    <2>1. NextHeight \in Nat /\ Len(RemoteChain) \in Nat
      BY TipType, NodeAssumption DEF TypeOK, TypeChain
    <2>2. TypeAligner'
      BY <1>2, <2>1 DEF AlignBlocks, filter_peers, find_trusted_peers, collected,
                        TypeOK, TypeAligner
    <2>3. QED
      BY <1>2, <2>2, TypeKept, Zenon DEF AlignBlocks, TypeOK
  <1>3. CASE AlignTxs
    <2>1. TypeAligner'
      BY <1>3, Zenon DEF AlignTxs, TypeOK, TypeAligner
    <2>2. QED
      BY <1>3, <2>1, TypeKept, Zenon DEF AlignTxs, TypeOK
  <1>4. CASE AlignUpdate
    <2>1. Len(RemoteChain) \in Nat
      BY NodeAssumption
    <2>2. aligner.next \in 0 .. Len(RemoteChain) - 1
      BY <1>4, <2>1 DEF AlignUpdate, TypeOK, TypeAligner
    <2>3. TypePool'
      BY <1>4, <2>2, TypeTakeBlock, Zenon DEF AlignUpdate, TypeOK
    <2>4. TypeAligner'
      BY <1>4 DEF AlignUpdate, TypeOK, TypeAligner
    <2>5. QED
      BY <1>4, <2>3, <2>4, TypeKept, Zenon DEF AlignUpdate, TypeOK
  <1>5. CASE AlignReset
    <2>1. TypeAligner'
      BY <1>5, Zenon DEF AlignReset, TypeOK, TypeAligner, IdleAligner
    <2>2. TypeWorker'
      BY <1>5, Zenon DEF AlignReset, TypeOK, TypeWorker
    <2>3. QED
      BY <1>5, <2>1, <2>2, TypeKept, Zenon DEF AlignReset, TypeOK
  <1>6. QED
    BY <1>1, <1>2, <1>3, <1>4, <1>5, Zenon DEF AlignerStep

(* A restart sets the types right again. *)
LEMMA TypeCrash ==
    ASSUME TypeOK, Crash
    PROVE  TypeOK'
  <1>1. TypeChain'
    BY Zenon DEF Crash, Reopened, TypeOK, TypeChain
  <1>2. TypePool'
    BY NodeAssumption DEF Crash, QueueOf, Range, TypePool, emptyQueue
  <1>3. TypeWorker'
    <2>1. agenda' \in Seq(Call)
      BY Agendas, Zenon DEF Crash
    <2>2. QED
      BY <2>1, Zenon DEF Crash, TypeWorker
  <1>4. TypeHandlers'
    BY Zenon DEF Crash, Idle, Task, TypeHandlers
  <1>5. TypeBuilders'
    BY Zenon DEF Crash, IdleBuilder, TypeBuilders
  <1>6. TypeExecutors'
    BY NoInfoType DEF Crash, IdleExecutor, NoHash, Hash, TypeExecutors
  <1>7. TypeAligner'
    BY Zenon DEF Crash, IdleAligner, TypeAligner
  <1>8. TypeEnv'
    <2>1. /\ MaxCrashes \in Nat /\ crashes \in 0 .. MaxCrashes
          /\ crashes < MaxCrashes /\ crashes' = crashes + 1
      BY NodeAssumption, Zenon DEF Crash, TypeOK, TypeEnv
    <2>2. crashes' \in 0 .. MaxCrashes
      BY <2>1
    <2>3. QED
      BY <2>2, Zenon DEF Crash, TypeOK, TypeEnv
  <1>9. QED
    BY <1>1, <1>2, <1>3, <1>4, <1>5, <1>6, <1>7, <1>8, Zenon DEF TypeOK

(* No step of any task, and no restart, takes a variable out of its type. *)
LEMMA TypeStep == TypeOK /\ [Next]_vars => TypeOK'
  <1> SUFFICES ASSUME TypeOK, [Next]_vars
               PROVE  TypeOK'
    BY Zenon
  <1>1. CASE UNCHANGED vars
    BY <1>1, TypeKept, Zenon DEF vars, TypeOK
  <1>2. CASE Next
    BY <1>2, TypeWorkerStep, TypeReceive, TypeHandlerStep, TypeBuilderStep,
       TypeExecutorStep, TypeAlignerStep, TypeCrash, Zenon DEF Next
  <1>3. QED
    BY <1>1, <1>2, Zenon

(* The pool, the chain and the tasks keep their types in every behaviour. *)
THEOREM TypeCorrect == Spec => []TypeOK
  BY TypeInit, TypeStep, PTL DEF Spec

-----------------------------------------------------------------------------

ChainInv == TypeOK /\ OneExecutor /\ ExecutorAtTip /\ ChainLinked

(* In a linked chain the height after the last block is its length. *)
LEMMA NextIsLen ==
    ASSUME TypeOK, ChainLinked
    PROVE  NextHeight = Len(chain)
  <1>1. chain \in Seq(Block)
    BY Zenon DEF TypeOK, TypeChain
  <1>2. CASE chain = <<>>
    BY <1>2, Zenon DEF NextHeight
  <1>3. CASE chain # <<>>
    <2>1. Len(chain) \in 1 .. Len(chain) /\ Len(chain) \in Nat
      BY <1>1, <1>3
    <2>2. chain[Len(chain)].height = Len(chain) - 1
      BY <2>1, Zenon DEF ChainLinked
    <2>3. QED
      BY <1>3, <2>1, <2>2 DEF NextHeight
  <1>4. QED
    BY <1>2, <1>3, Zenon

(* The chain that a node starts with is linked. *)
LEMMA ChainInit == Init => ChainInv
  <1> SUFFICES ASSUME Init
               PROVE  ChainInv
    BY Zenon
  <1>1. TypeOK
    BY TypeInit, Zenon
  <1>2. OneExecutor /\ ExecutorAtTip
    BY Zenon DEF Init, IdleExecutor, OneExecutor, ExecutorAtTip
  <1>3. ChainLinked
    <2>1. /\ RemoteChain \in Seq(Body) /\ Synced \in 0 .. Len(RemoteChain)
          /\ \A i \in 1 .. Len(RemoteChain) : RemoteChain[i].height = i - 1
      BY NodeAssumption, Zenon
    <2>2. chain = InitialChain /\ Len(chain) = Synced
      BY <2>1 DEF Init, InitialChain
    <2>3. SUFFICES ASSUME NEW i \in 1 .. Synced
                   PROVE  /\ chain[i].height = i - 1
                          /\ chain[i].prev = IF i = 1 THEN NoHash
                                                      ELSE PrimaryHash(chain[i - 1])
      BY <2>2, Zenon DEF ChainLinked
    <2>4. chain[i].height = i - 1 /\ chain[i].prev = SubSeq(RemoteChain, 1, i - 1)
      <3>1. chain[i] = [height    |-> RemoteChain[i].height,
                        validator |-> RemoteChain[i].validator,
                        txs       |-> RemoteChain[i].txs,
                        prev      |-> SubSeq(RemoteChain, 1, i - 1)]
        BY <2>2, <2>3, Zenon DEF InitialChain
      <3>2. chain[i].height = RemoteChain[i].height
            /\ chain[i].prev = SubSeq(RemoteChain, 1, i - 1)
        BY <3>1
      <3>3. i \in 1 .. Len(RemoteChain)
        BY <2>1
      <3>4. QED
        BY <2>1, <3>2, <3>3, Zenon
    <2>5. CASE i = 1
      BY <2>1, <2>4, <2>5 DEF NoHash
    <2>6. CASE i # 1
      <3> DEFINE r == RemoteChain[i - 1]
      <3>1. i - 1 \in 1 .. Synced /\ i - 1 \in 1 .. Len(RemoteChain) /\ r \in Body
        BY <2>1, <2>3, <2>6
      <3>2. chain[i - 1] = [height |-> r.height, validator |-> r.validator,
                            txs |-> r.txs, prev |-> SubSeq(RemoteChain, 1, (i - 1) - 1)]
        BY <2>2, <3>1, Zenon DEF InitialChain
      <3>3. r = [height |-> r.height, validator |-> r.validator, txs |-> r.txs]
        BY <3>1, Zenon DEF Body
      <3>4. PrimaryHash(chain[i - 1]) = Append(SubSeq(RemoteChain, 1, (i - 1) - 1), r)
        BY <3>2, <3>3 DEF PrimaryHash
      <3>5. SubSeq(RemoteChain, 1, i - 1) =
                Append(SubSeq(RemoteChain, 1, (i - 1) - 1), RemoteChain[i - 1])
        BY <2>1, <3>1
      <3>6. QED
        BY <2>4, <2>6, <3>4, <3>5, Zenon
    <2>7. QED
      BY <2>4, <2>5, <2>6, Zenon
  <1>4. QED
    BY <1>1, <1>2, <1>3, Zenon DEF ChainInv

(* What leaves the chain, the executors and their flag alone keeps it all. *)
LEMMA ChainKept ==
    ASSUME ChainInv, TypeOK', UNCHANGED <<chain, executing, executor>>
    PROVE  ChainInv'
  BY Zenon DEF ChainInv, OneExecutor, ExecutorAtTip, ChainLinked, TipHash

(* A new executor is the only one, since the flag was down. *)
LEMMA ChainSpawn ==
    ASSUME ChainInv, TypeOK', SpawnExecutor
    PROVE  ChainInv'
  <1>1. UNCHANGED chain /\ executing' = TRUE
    BY Zenon DEF SpawnExecutor
  <1>2. CASE executing
    <2>1. UNCHANGED executor
      BY <1>2, Zenon DEF SpawnExecutor, may_spawn
    <2>2. QED
      BY <1>1, <1>2, <2>1, ChainKept, Zenon
  <1>3. CASE ~executing
    <2>1. PICK e \in Executors : executor' = [executor EXCEPT ![e].pc = "start"]
      BY <1>3, Zenon DEF SpawnExecutor, may_spawn
    <2>2. \A f \in Executors : executor[f].pc = "idle"
      BY <1>3, Zenon DEF ChainInv, OneExecutor
    <2>3. \A f \in Executors : executor'[f].pc = IF f = e THEN "start" ELSE "idle"
      BY <2>1, <2>2 DEF ChainInv, TypeOK, TypeExecutors
    <2>4. OneExecutor' /\ ExecutorAtTip'
      BY <1>1, <2>3, Zenon DEF OneExecutor, ExecutorAtTip
    <2>5. ChainLinked'
      BY <1>1, Zenon DEF ChainInv, ChainLinked
    <2>6. QED
      BY <2>4, <2>5, Zenon DEF ChainInv
  <1>4. QED
    BY <1>2, <1>3, Zenon DEF ChainInv, TypeOK, TypeWorker

(* When one executor moves the others are idle, so what it carries along is *)
(* all there is to show.                                                    *)
LEMMA OthersIdle ==
    ASSUME ChainInv, NEW e \in Executors, executor[e].pc # "idle",
           \A f \in Executors \ {e} : executor'[f] = executor[f],
           \/ executing' = executing
           \/ executing' = FALSE /\ executor'[e].pc = "idle"
    PROVE  /\ OneExecutor'
           /\ \A f \in Executors \ {e} : executor'[f].pc = "idle"
  <1>1. \A f \in Executors \ {e} : executor[f].pc = "idle"
    BY Zenon DEF ChainInv, OneExecutor
  <1>2. executing
    BY Zenon DEF ChainInv, OneExecutor
  <1>3. \A f \in Executors \ {e} : executor'[f].pc = "idle"
    BY <1>1, Zenon
  <1>4. QED
    BY <1>2, <1>3, Zenon DEF OneExecutor

(* An executor that starts reads the tip. *)
LEMMA ChainStart ==
    ASSUME ChainInv, TypeOK', NEW e \in Executors, ExecStart(e)
    PROVE  ChainInv'
  <1>1. UNCHANGED <<chain, executing>> /\ executor[e].pc = "start"
    BY Zenon DEF ExecStart, worker
  <1>2. /\ \A f \in Executors \ {e} : executor'[f] = executor[f]
        /\ executor'[e].pc = "steal" /\ executor'[e].height = NextHeight
        /\ executor'[e].prev = TipHash
    BY Zenon DEF ExecStart, ChainInv, TypeOK, TypeExecutors
  <1>3. OneExecutor' /\ \A f \in Executors \ {e} : executor'[f].pc = "idle"
    BY <1>1, <1>2, OthersIdle, Zenon
  <1>4. ExecutorAtTip'
    BY <1>1, <1>2, <1>3, NextIsLen, Zenon DEF ExecutorAtTip, TipHash, ChainInv
  <1>5. ChainLinked'
    BY <1>1, Zenon DEF ChainInv, ChainLinked
  <1>6. QED
    BY <1>3, <1>4, <1>5, Zenon DEF ChainInv

(* An executor that steals, gives up, panics or looks for the next block    *)
(* still carries along what it has.                                         *)
LEMMA ChainCarry ==
    ASSUME ChainInv, TypeOK', NEW e \in Executors,
           ExecSteal(e) \/ ExecPanic(e) \/ ExecFail(e) \/ ExecNext(e) \/ ExecDone(e)
    PROVE  ChainInv'
  <1>1. UNCHANGED chain /\ executor[e].pc # "idle"
    BY Zenon DEF ExecSteal, ExecPanic, ExecFail, ExecNext, ExecDone
  <1>2. /\ \A f \in Executors \ {e} : executor'[f] = executor[f]
        /\ executor'[e].pc \in {"exec", "done", "dead", "steal", "idle"}
        /\ executor'[e].pc \in {"exec", "steal"} =>
               /\ executor[e].pc \in {"steal", "next"}
               /\ executor'[e].height = executor[e].height
               /\ executor'[e].prev = executor[e].prev
        /\ \/ executing' = executing
           \/ executing' = FALSE /\ executor'[e].pc = "idle"
    <2> USE DEF ChainInv, TypeOK, TypeExecutors, worker
    <2>1. CASE ExecSteal(e)
      BY <2>1 DEF ExecSteal
    <2>2. CASE ExecPanic(e)
      BY <2>2, Zenon DEF ExecPanic
    <2>3. CASE ExecFail(e)
      BY <2>3, Zenon DEF ExecFail
    <2>4. CASE ExecNext(e)
      BY <2>4, Zenon DEF ExecNext
    <2>5. CASE ExecDone(e)
      BY <2>5, Zenon DEF ExecDone, IdleExecutor
    <2>6. QED
      BY <2>1, <2>2, <2>3, <2>4, <2>5, Zenon
  <1>3. OneExecutor' /\ \A f \in Executors \ {e} : executor'[f].pc = "idle"
    BY <1>1, <1>2, OthersIdle, Zenon
  <1>4. ExecutorAtTip'
    BY <1>1, <1>2, <1>3, Zenon DEF ExecutorAtTip, TipHash, ChainInv
  <1>5. ChainLinked'
    BY <1>1, Zenon DEF ChainInv, ChainLinked
  <1>6. QED
    BY <1>3, <1>4, <1>5, Zenon DEF ChainInv

(* The block that an executor adds is the next one, and it is then the tip. *)
LEMMA ChainCommit ==
    ASSUME ChainInv, TypeOK', NEW e \in Executors, ExecCommit(e)
    PROVE  ChainInv' /\ NewBlock(e).height = Len(chain) /\ NewBlock(e).prev = TipHash
  <1> DEFINE b == NewBlock(e)
  <1>1. chain \in Seq(Block) /\ b \in Block /\ chain' = Append(chain, b)
    BY NewBlockType, Zenon DEF ExecCommit, ChainInv, TypeOK, TypeChain
  <1>2. b.height = Len(chain) /\ b.prev = TipHash /\ executor[e].pc = "exec"
    BY Zenon DEF ExecCommit, ChainInv, ExecutorAtTip, NewBlock
  <1>3. /\ \A f \in Executors \ {e} : executor'[f] = executor[f]
        /\ executor'[e].pc = "clean" /\ executor'[e].height = executor[e].height
        /\ executor'[e].prev = PrimaryHash(b) /\ executing' = executing
        /\ b.height = executor[e].height
    <2>1. b.height = executor[e].height
      BY Zenon DEF NewBlock
    <2>2. PICK hash : hash = PrimaryHash(b)
      BY Zenon
    <2>3. /\ executor' = [executor EXCEPT ![e].pc = "clean", ![e].prev = hash]
          /\ executing' = executing
      BY <2>2, Zenon DEF ExecCommit, worker
    <2>4. executor \in [Executors ->
              [pc : {"idle", "start", "steal", "exec", "clean", "next", "done", "dead"},
               height : Nat, prev : Hash, info : BlockInfo]]
      BY Zenon DEF ChainInv, TypeOK, TypeExecutors
    <2> HIDE DEF b
    <2>5. QED
      BY <2>1, <2>2, <2>3, <2>4
  <1> HIDE DEF b
  <1>4. /\ Len(chain') = Len(chain) + 1 /\ Len(chain) \in Nat
        /\ chain'[Len(chain) + 1] = b
        /\ \A i \in 1 .. Len(chain) : chain'[i] = chain[i]
    BY <1>1
  <1>5. TipHash' = PrimaryHash(b)
    BY <1>1, <1>4 DEF TipHash
  <1>6. OneExecutor' /\ \A f \in Executors \ {e} : executor'[f].pc = "idle"
    BY <1>2, <1>3, OthersIdle, Zenon
  <1>7. ExecutorAtTip'
    BY <1>2, <1>3, <1>4, <1>5, <1>6, Zenon DEF ExecutorAtTip
  <1>8. ChainLinked'
    <2>1. ASSUME NEW i \in 1 .. Len(chain) + 1
          PROVE  /\ chain'[i].height = i - 1
                 /\ chain'[i].prev = IF i = 1 THEN NoHash ELSE PrimaryHash(chain'[i - 1])
      <3>1. CASE i <= Len(chain)
        <4>1. i \in 1 .. Len(chain) /\ (i # 1 => i - 1 \in 1 .. Len(chain))
          BY <2>1, <3>1, <1>4
        <4>2. /\ chain[i].height = i - 1
              /\ chain[i].prev = IF i = 1 THEN NoHash ELSE PrimaryHash(chain[i - 1])
          BY <4>1, Zenon DEF ChainInv, ChainLinked
        <4>3. chain'[i] = chain[i] /\ (i # 1 => chain'[i - 1] = chain[i - 1])
          BY <4>1, <1>4, Zenon
        <4>4. QED
          BY <4>2, <4>3, Zenon
      <3>2. CASE i = Len(chain) + 1
        <4>1. b.prev = IF i = 1 THEN NoHash ELSE PrimaryHash(chain[i - 1])
          BY <1>1, <1>2, <1>4, <3>2 DEF TipHash
        <4>2. i # 1 => chain'[i - 1] = chain[i - 1]
          BY <1>4, <3>2, <2>1
        <4>3. QED
          BY <1>2, <1>4, <3>2, <4>1, <4>2
      <3>3. QED
        BY <2>1, <3>1, <3>2, <1>4
    <2>2. QED
      BY <2>1, <1>4, Zenon DEF ChainLinked
  <1>9. QED
    BY <1>2, <1>6, <1>7, <1>8, Zenon DEF ChainInv, b

(* Cleaning up after a block moves the executor past it. *)
LEMMA ChainClean ==
    ASSUME ChainInv, TypeOK', NEW e \in Executors, ExecClean(e)
    PROVE  ChainInv'
  <1>1. UNCHANGED <<chain, executing>> /\ executor[e].pc = "clean"
    BY Zenon DEF ExecClean, advanced, worker
  <1>2. /\ \A f \in Executors \ {e} : executor'[f] = executor[f]
        /\ executor'[e].pc = "next" /\ executor'[e].height = executor[e].height + 1
        /\ executor'[e].prev = executor[e].prev
    BY Zenon DEF ExecClean, advanced, ChainInv, TypeOK, TypeExecutors
  <1>3. OneExecutor' /\ \A f \in Executors \ {e} : executor'[f].pc = "idle"
    BY <1>1, <1>2, OthersIdle, Zenon
  <1>4. ExecutorAtTip'
    BY <1>1, <1>2, <1>3, Zenon DEF ExecutorAtTip, TipHash, ChainInv
  <1>5. ChainLinked'
    BY <1>1, Zenon DEF ChainInv, ChainLinked
  <1>6. QED
    BY <1>3, <1>4, <1>5, Zenon DEF ChainInv

(* A restarted node has no executor, and the chain that it had. *)
LEMMA ChainCrash ==
    ASSUME ChainInv, TypeOK', Crash
    PROVE  ChainInv'
  <1>1. UNCHANGED chain /\ executor' = [e \in Executors |-> IdleExecutor]
    BY Zenon DEF Crash, Reopened
  <1>2. \A e \in Executors : executor'[e].pc = "idle"
    BY <1>1, Zenon DEF IdleExecutor
  <1>3. OneExecutor' /\ ExecutorAtTip'
    BY <1>2, Zenon DEF OneExecutor, ExecutorAtTip
  <1>4. ChainLinked'
    BY <1>1, Zenon DEF ChainInv, ChainLinked
  <1>5. QED
    BY <1>3, <1>4, Zenon DEF ChainInv

(* The steps of the other tasks touch neither the chain nor the executors. *)
LEMMA OtherSteps ==
    ASSUME \/ Timer \/ TryBuild \/ SpawnBuilder \/ TryExec
           \/ \E c \in Handlers, m \in Message : Receive(c, m)
           \/ \E c \in Handlers : HandlerStep(c)
           \/ \E b \in Builders : BuilderStep(b)
           \/ AlignerStep
    PROVE  UNCHANGED <<chain, executing, executor>>
  <1>1. CASE Timer \/ TryBuild \/ SpawnBuilder \/ TryExec
    BY <1>1, Zenon DEF Timer, TryBuild, SpawnBuilder, TryExec
  <1>2. CASE \E c \in Handlers, m \in Message : Receive(c, m)
    BY <1>2, Zenon DEF Receive
  <1>3. CASE \E c \in Handlers : HandlerStep(c)
    BY <1>3, Zenon DEF HandlerStep, PutCheck, PutPool, BlockCheck, BlockNext, BlockMissed,
                BlockPool, worker
  <1>4. CASE \E b \in Builders : BuilderStep(b)
    BY <1>4, Zenon DEF BuilderStep, BuildStart, BuildCount, BuildFill, BuildRecount,
                BuildDone, worker
  <1>5. CASE AlignerStep
    BY <1>5, Zenon DEF AlignerStep, AlignWake, AlignBlocks, AlignTxs, AlignUpdate,
                AlignReset, worker
  <1>6. QED
    BY <1>1, <1>2, <1>3, <1>4, <1>5, Zenon

(* Every step keeps the chain linked and the executor at its tip. *)
LEMMA ChainStep == ChainInv /\ [Next]_vars => ChainInv'
  <1> SUFFICES ASSUME ChainInv, [Next]_vars
               PROVE  ChainInv'
    BY Zenon
  <1>1. TypeOK'
    BY TypeStep, Zenon DEF ChainInv
  <1>2. CASE UNCHANGED vars
    BY <1>1, <1>2, ChainKept, Zenon DEF vars, worker
  <1>3. CASE SpawnExecutor
    BY <1>1, <1>3, ChainSpawn, Zenon
  <1>4. CASE \E e \in Executors : ExecutorStep(e)
    BY <1>1, <1>4, ChainStart, ChainCarry, ChainCommit, ChainClean, Zenon DEF ExecutorStep
  <1>5. CASE Crash
    BY <1>1, <1>5, ChainCrash, Zenon
  <1>6. CASE UNCHANGED <<chain, executing, executor>>
    BY <1>1, <1>6, ChainKept, Zenon
  <1>7. QED
    BY <1>2, <1>3, <1>4, <1>5, <1>6, OtherSteps, Zenon DEF Next, WorkerStep

(* ChainInv is an inductive invariant of the node. *)
THEOREM ChainInvariant == Spec => []ChainInv
  BY ChainInit, ChainStep, PTL DEF Spec

(* Heights count up from zero and every block has the hash of the one before *)
(* it, whatever the tasks of the node do and whenever it is killed.          *)
THEOREM ChainAlwaysLinked == Spec => []ChainLinked
  <1>1. ChainInv => ChainLinked
    BY Zenon DEF ChainInv
  <1>2. QED
    BY <1>1, ChainInvariant, PTL

(* The tip that an executor read when it started is never stale. *)
THEOREM ExecutorNeverStale == Spec => []ExecutorAtTip
  <1>1. ChainInv => ExecutorAtTip
    BY Zenon DEF ChainInv
  <1>2. QED
    BY <1>1, ChainInvariant, PTL

(* Only the merge of a block changes the chain, and it is a step of the      *)
(* ledger: the block that is added has the next height, the hash of the tip, *)
(* a known validator and a list of transactions.                             *)
LEMMA LedgerStep == ChainInv /\ TypeOK' /\ [Next]_vars => [L!Add]_chain
  <1> SUFFICES ASSUME ChainInv, TypeOK', [Next]_vars
               PROVE  L!Add \/ chain' = chain
    BY Zenon
  <1>1. ASSUME NEW e \in Executors, ExecCommit(e)
        PROVE  L!Add
    <2> DEFINE b == NewBlock(e)
    <2>1. b.height = Len(chain) /\ b.prev = TipHash
      BY <1>1, ChainCommit, Zenon
    <2>2. chain \in Seq(Block) /\ b \in Block /\ chain' = Append(chain, b)
      BY <1>1, NewBlockType, Zenon DEF ExecCommit, ChainInv, TypeOK, TypeChain
    <2> HIDE DEF b
    <2>3. Len(chain') = Len(chain) + 1 /\ chain'[Len(chain')] = b
      BY <2>2
    <2>4. TipHash = L!Tip
      BY <2>2, Zenon DEF TipHash, L!Tip
    <2>5. b.validator \in Key \cup {Self, NoKey} /\ b.txs \in Seq(Tx)
      BY <2>2, Zenon DEF Block
    <2>6. QED
      BY <2>1, <2>2, <2>3, <2>4, <2>5, Zenon DEF L!Add
  <1>2. CASE SpawnExecutor \/ Crash \/ UNCHANGED vars
    BY <1>2, Zenon DEF SpawnExecutor, Crash, Reopened, vars
  <1>3. ASSUME NEW e \in Executors, ExecutorStep(e), ~ExecCommit(e)
        PROVE  chain' = chain
    BY <1>3, Zenon DEF ExecutorStep, ExecStart, ExecSteal, ExecPanic, ExecFail, ExecClean,
                ExecNext, ExecDone
  <1>4. QED
    BY <1>1, <1>2, <1>3, OtherSteps, Zenon DEF Next, WorkerStep

(* The node implements the ledger: blocks are only ever added, one at a time *)
(* and in order, and no block that was added changes.                        *)
THEOREM NodeImplementsLedger == Spec => LedgerSpec
  <1>1. Init => L!Init
    BY Zenon DEF Init, L!Init
  <1>2. ChainInv /\ ChainInv' /\ [Next]_vars => [L!Add]_chain
    BY LedgerStep, Zenon DEF ChainInv
  <1>3. QED
    BY <1>1, <1>2, ChainInvariant, PTL DEF Spec, LedgerSpec, L!Spec

-----------------------------------------------------------------------------
(***************************************************************************)
(* A node that is no validator.  Nothing that its worker does calls for a  *)
(* builder, so every slot is that of a block of the other nodes and keeps  *)
(* its hash, and so does what an executor steals from it: the block that   *)
(* the executor merges has to have that hash.                              *)
(***************************************************************************)
NoBuild ==
    /\ \A i \in DOMAIN agenda : agenda[i] \in {"exec", "spawn_executor"}
    /\ \A b \in Builders : builder[b].pc = "idle"

IsRemote(h, info) == h < Len(RemoteChain) /\ info.hash = RemoteHash(h)
SlotsRemote == \A h \in DOMAIN confirmed : IsRemote(h, confirmed[h])
StolenRemote ==
    \A e \in Executors : executor[e].pc = "exec" =>
                             IsRemote(executor[e].height, executor[e].info)

FollowInv == ChainInv /\ NoBuild /\ SlotsRemote /\ StolenRemote /\ FollowsRemote

(* The calls of the worker of such a node. *)
LEMMA NoBuildAgendas ==
    ASSUME NEW s \in Seq(Call), \A i \in DOMAIN s : s[i] \in {"exec", "spawn_executor"},
           s # <<>>
    PROVE  /\ \A i \in DOMAIN Tail(s) : Tail(s)[i] \in {"exec", "spawn_executor"}
           /\ \A i \in DOMAIN (<<"spawn_executor">> \o Tail(s)) :
                  (<<"spawn_executor">> \o Tail(s))[i] \in {"exec", "spawn_executor"}
           /\ Head(s) \in {"exec", "spawn_executor"}
  <1> DEFINE r == Tail(s)
  <1>1. /\ r \in Seq(Call) /\ Len(r) \in Nat /\ Len(s) = Len(r) + 1
        /\ \A i \in 1 .. Len(r) : r[i] = s[i + 1]
        /\ Head(s) = s[1]
    OBVIOUS
  <1>2. \A i \in 1 .. Len(r) : i + 1 \in DOMAIN s
    BY <1>1
  <1>3. \A i \in DOMAIN r : r[i] \in {"exec", "spawn_executor"}
    BY <1>1, <1>2
  <1> HIDE DEF r
  <1>4. \A i \in DOMAIN (<<"spawn_executor">> \o r) :
            (<<"spawn_executor">> \o r)[i] \in {"exec", "spawn_executor"}
    <2>1. <<"spawn_executor">> \in Seq(Call)
      BY DEF Call
    <2>2. ASSUME NEW i \in 1 .. Len(r) + 1
          PROVE  (<<"spawn_executor">> \o r)[i] = IF i = 1 THEN "spawn_executor" ELSE r[i - 1]
      BY <1>1, <2>1
    <2>3. DOMAIN (<<"spawn_executor">> \o r) = 1 .. Len(r) + 1
      BY <1>1, <2>1
    <2>4. \A i \in 1 .. Len(r) + 1 : i # 1 => i - 1 \in DOMAIN r
      BY <1>1
    <2> QED BY <1>3, <2>2, <2>3, <2>4, Zenon
  <1> QED BY <1>1, <1>3, <1>4 DEF r

(* No builder is called for or runs. *)
LEMMA NoBuildStep ==
    ASSUME ~IsValidator, TypeOK, NoBuild, [Next]_vars
    PROVE  NoBuild'
  <1> DEFINE Calls == {"exec", "spawn_executor"}
  <1>1. agenda \in Seq(Call) /\ \A i \in DOMAIN agenda : agenda[i] \in Calls
    BY Zenon DEF TypeOK, TypeWorker, NoBuild
  <1>2. \A b \in Builders : builder[b].pc = "idle"
    BY Zenon DEF NoBuild
  <1>3. agenda # <<>> => Head(agenda) \in Calls
    BY <1>1, NoBuildAgendas, Zenon
  <1>4. CASE UNCHANGED <<agenda, builder>>
    BY <1>4, Zenon DEF NoBuild
  <1>5. CASE Timer
    <2>1. agenda' = <<"exec">> /\ UNCHANGED builder
      BY <1>5, Zenon DEF Timer, timer_calls
    <2> QED BY <1>2, <2>1 DEF NoBuild
  <1>6. CASE \E c \in Handlers, m \in Message : Receive(c, m)
    <2>1. agenda' = <<>> /\ UNCHANGED builder
      BY <1>6, Zenon DEF Receive
    <2> QED BY <1>2, <2>1 DEF NoBuild
  <1>7. CASE TryBuild \/ SpawnBuilder
    BY <1>3, <1>7, Zenon DEF TryBuild, SpawnBuilder
  <1>8. CASE TryExec \/ SpawnExecutor
    <2>1. /\ agenda # <<>> /\ UNCHANGED builder
          /\ agenda' = Tail(agenda) \/ agenda' = <<"spawn_executor">> \o Tail(agenda)
      BY <1>8, Zenon DEF TryExec, SpawnExecutor
    <2>2. \A i \in DOMAIN agenda' : agenda'[i] \in Calls
      BY <1>1, <2>1, NoBuildAgendas, Zenon
    <2> QED BY <1>2, <2>1, <2>2, Zenon DEF NoBuild
  <1>9. CASE \E c \in Handlers : HandlerStep(c)
    BY <1>4, <1>9, Zenon DEF HandlerStep, PutCheck, PutPool, BlockCheck, BlockNext,
                      BlockMissed, BlockPool, worker
  <1>10. CASE \E b \in Builders : BuilderStep(b)
    BY <1>2, <1>10, Zenon DEF BuilderStep, BuildStart, BuildCount, BuildFill, BuildRecount,
                       BuildDone
  <1>11. CASE \E e \in Executors : ExecutorStep(e)
    BY <1>4, <1>11, Zenon DEF ExecutorStep, ExecStart, ExecSteal, ExecPanic, ExecCommit,
                       ExecFail, ExecClean, ExecNext, ExecDone, worker
  <1>12. CASE AlignerStep
    BY <1>4, <1>12, Zenon DEF AlignerStep, AlignWake, AlignBlocks, AlignTxs, AlignUpdate,
                       AlignReset, worker
  <1>13. CASE Crash
    <2>1. agenda' = <<>> /\ builder' = [b \in Builders |-> IdleBuilder]
      BY <1>13, Zenon DEF Crash
    <2> QED BY <2>1 DEF NoBuild, IdleBuilder
  <1>14. CASE UNCHANGED vars
    BY <1>4, <1>14, Zenon DEF vars, worker
  <1> QED BY <1>5, <1>6, <1>7, <1>8, <1>9, <1>10, <1>11, <1>12, <1>13, <1>14, Zenon
          DEF Next, WorkerStep

(* The slots and what is stolen from them are of blocks of the other nodes. *)
LEMMA RemoteStep ==
    ASSUME FollowInv, [Next]_vars
    PROVE  SlotsRemote' /\ StolenRemote'
  <1> USE DEF FollowInv
  <1>0. /\ \A b \in Builders : builder[b].pc = "idle"
        /\ Len(RemoteChain) \in Nat
    BY NodeAssumption DEF NoBuild
  <1>1. ASSUME NEW h \in 0 .. Len(RemoteChain) - 1, NEW list, TakeBlock(h, list)
        PROVE  SlotsRemote'
    <2>1. confirmed' = Insert(confirmed, h, RemoteInfo(h, list))
      BY <1>1, Zenon DEF TakeBlock
    <2>2. IsRemote(h, RemoteInfo(h, list))
      BY <1>0, <1>1 DEF IsRemote, RemoteInfo
    <2> QED BY <2>1, <2>2, Zenon DEF SlotsRemote, Insert
  <1>2. CASE UNCHANGED <<confirmed, executor>>
    BY <1>2, Zenon DEF SlotsRemote, StolenRemote
  <1>3. CASE WorkerStep
    <2>1. UNCHANGED confirmed
      BY <1>3, Zenon DEF WorkerStep, Timer, TryBuild, SpawnBuilder, TryExec, SpawnExecutor, pool
    <2>2. \A e \in Executors : executor'[e] = executor[e] \/ executor'[e].pc = "start"
      BY <1>3, Zenon DEF WorkerStep, Timer, TryBuild, SpawnBuilder, TryExec, SpawnExecutor,
                  ChainInv, TypeOK, TypeExecutors
    <2> QED BY <2>1, <2>2, Zenon DEF SlotsRemote, StolenRemote
  <1>4. CASE \E c \in Handlers, m \in Message : Receive(c, m)
    BY <1>2, <1>4, Zenon DEF Receive, pool
  <1>5. ASSUME NEW c \in Handlers, HandlerStep(c)
        PROVE  SlotsRemote' /\ StolenRemote'
    <2>1. CASE BlockPool(c)
      <3>1. handler[c].height \in 0 .. Len(RemoteChain) - 1
        BY <2>1, Zenon DEF BlockPool, ChainInv, TypeOK, TypeHandlers, Task
      <3>2. TakeBlock(handler[c].height, handler[c].list) /\ UNCHANGED executor
        BY <2>1, Zenon DEF BlockPool
      <3>3. SlotsRemote'
        BY <1>1, <3>1, <3>2, Zenon
      <3> QED BY <3>2, <3>3, Zenon DEF StolenRemote
    <2> QED BY <1>2, <1>5, <2>1, Zenon DEF HandlerStep, PutCheck, PutPool, BlockCheck,
                                    BlockNext, BlockMissed, pool
  <1>6. CASE \E b \in Builders : BuilderStep(b)
    BY <1>0, <1>6, Zenon DEF BuilderStep, BuildStart, BuildCount, BuildFill, BuildRecount,
                      BuildDone
  <1>7. ASSUME NEW e \in Executors, ExecutorStep(e)
        PROVE  SlotsRemote' /\ StolenRemote'
    <2> USE DEF ChainInv, TypeOK, TypeExecutors
    <2>1. CASE ExecSteal(e)
      <3> DEFINE h == executor[e].height
      <3>1. CASE h \in DOMAIN confirmed /\ confirmed[h].known
        <4>1. /\ confirmed' = [confirmed EXCEPT ![h] = busy(confirmed[h])]
              /\ executor' = [executor EXCEPT ![e].pc = "exec", ![e].info = confirmed[h]]
          BY <2>1, <3>1, Zenon DEF ExecSteal, take_slot
        <4>2. confirmed[h] \in BlockInfo /\ busy(confirmed[h]).hash = confirmed[h].hash
          BY <3>1, Zenon DEF busy, BlockInfo, TypePool
        <4>3. DOMAIN confirmed' = DOMAIN confirmed
              /\ \A k \in DOMAIN confirmed : confirmed'[k].hash = confirmed[k].hash
          BY <4>1, <4>2, Zenon
        <4>4. executor'[e].height = h /\ executor'[e].info = confirmed[h]
              /\ \A f \in Executors \ {e} : executor'[f] = executor[f]
          BY <4>1, Zenon
        <4>5. SlotsRemote'
          BY <4>3, Zenon DEF SlotsRemote, IsRemote
        <4>6. StolenRemote'
          BY <3>1, <4>4, Zenon DEF StolenRemote, SlotsRemote
        <4> QED BY <4>5, <4>6, Zenon
      <3>2. CASE ~(h \in DOMAIN confirmed /\ confirmed[h].known)
        <4>1. UNCHANGED confirmed /\ executor' = [executor EXCEPT ![e].pc = "done"]
          BY <2>1, <3>2, Zenon DEF ExecSteal
        <4> QED BY <4>1, Zenon DEF StolenRemote, SlotsRemote
      <3> QED BY <3>1, <3>2, Zenon
    <2>2. CASE ExecFail(e)
      <3>1. /\ executor[e].pc = "exec"
            /\ confirmed' = Insert(confirmed, executor[e].height, executor[e].info)
            /\ executor' = [executor EXCEPT ![e].pc = "done"]
        BY <2>2, Zenon DEF ExecFail, put_back
      <3>2. IsRemote(executor[e].height, executor[e].info)
        BY <3>1, Zenon DEF StolenRemote
      <3>3. SlotsRemote'
        BY <3>1, <3>2, Zenon DEF SlotsRemote, Insert
      <3> QED BY <3>1, <3>3, Zenon DEF StolenRemote
    <2>3. CASE ExecClean(e)
      <3>1. /\ confirmed' = Delete(confirmed, executor[e].height)
            /\ executor' = [executor EXCEPT ![e] = advanced(executor[e])]
        BY <2>3, Zenon DEF ExecClean
      <3>2. SlotsRemote'
        BY <3>1, Zenon DEF SlotsRemote, Delete
      <3> QED BY <3>1, <3>2, Zenon DEF StolenRemote, advanced
    <2>4. CASE ExecStart(e) \/ ExecPanic(e) \/ ExecCommit(e) \/ ExecNext(e) \/ ExecDone(e)
      <3>1. UNCHANGED confirmed
        BY <2>4, Zenon DEF ExecStart, ExecPanic, ExecCommit, ExecNext, ExecDone, pool
      <3>2. \A f \in Executors : executor'[f] = executor[f] \/ executor'[f].pc # "exec"
        BY <2>4 DEF ExecStart, ExecPanic, ExecCommit, ExecNext, ExecDone, IdleExecutor
      <3> QED BY <3>1, <3>2, Zenon DEF SlotsRemote, StolenRemote
    <2> QED BY <1>7, <2>1, <2>2, <2>3, <2>4, Zenon DEF ExecutorStep
  <1>8. CASE AlignerStep
    <2>1. CASE AlignUpdate
      <3>1. /\ aligner.next \in 0 .. Len(RemoteChain) - 1
            /\ TakeBlock(aligner.next, "right") /\ UNCHANGED executor
        BY <1>0, <2>1 DEF AlignUpdate, ChainInv, TypeOK, TypeAligner
      <3>2. SlotsRemote'
        BY <1>1, <3>1, Zenon
      <3> QED BY <3>1, <3>2, Zenon DEF StolenRemote
    <2> QED BY <1>2, <1>8, <2>1, Zenon DEF AlignerStep, AlignWake, AlignBlocks, AlignTxs,
                                    AlignReset, pool
  <1>9. CASE Crash
    <2>1. confirmed' = <<>> /\ executor' = [e \in Executors |-> IdleExecutor]
      BY <1>9, Zenon DEF Crash
    <2> QED BY <2>1 DEF SlotsRemote, StolenRemote, IdleExecutor
  <1>10. CASE UNCHANGED vars
    BY <1>2, <1>10, Zenon DEF vars, pool
  <1> QED BY <1>3, <1>4, <1>5, <1>6, <1>7, <1>8, <1>9, <1>10, Zenon DEF Next

(* The node starts with blocks of the other nodes. *)
LEMMA FollowInit == Init => FollowInv
  <1> SUFFICES ASSUME Init
               PROVE  FollowInv
    BY Zenon
  <1>1. ChainInv
    BY ChainInit, Zenon
  <1>2. NoBuild /\ SlotsRemote /\ StolenRemote
    BY DEF Init, put_txs, NoBuild, SlotsRemote, StolenRemote, IdleBuilder, IdleExecutor
  <1>3. /\ RemoteChain \in Seq(Body) /\ Synced \in 0 .. Len(RemoteChain)
    BY NodeAssumption, Zenon
  <1>4. chain = InitialChain /\ Len(chain) = Synced
    BY <1>3 DEF Init, InitialChain
  <1>5. ASSUME chain # <<>>
        PROVE  TipHash = RemoteHash(Len(chain) - 1)
    <2> DEFINE r == RemoteChain[Synced]
    <2>1. chain \in Seq(Block)
      BY <1>1, Zenon DEF ChainInv, TypeOK, TypeChain
    <2>2. Synced \in 1 .. Len(RemoteChain) /\ r \in Body
      BY <1>3, <1>4, <1>5, <2>1
    <2> DEFINE b == chain[Synced]
    <2>3. /\ b.height = r.height /\ b.validator = r.validator /\ b.txs = r.txs
          /\ b.prev = SubSeq(RemoteChain, 1, Synced - 1)
      BY <1>4, <2>2 DEF InitialChain
    <2>4. r = [height |-> r.height, validator |-> r.validator, txs |-> r.txs]
      BY <2>2, Zenon DEF Body
    <2>5. TipHash = PrimaryHash(b)
      BY <1>4, <1>5, Zenon DEF TipHash
    <2> HIDE DEF b
    <2>6. SubSeq(RemoteChain, 1, Synced) = Append(SubSeq(RemoteChain, 1, Synced - 1), r)
      BY <1>3, <2>2
    <2> HIDE DEF r
    <2>7. PrimaryHash(b) = Append(SubSeq(RemoteChain, 1, Synced - 1), r)
      BY <2>3, <2>4, Zenon DEF PrimaryHash
    <2> QED BY <1>3, <1>4, <2>5, <2>6, <2>7 DEF RemoteHash
  <1>6. FollowsRemote
    BY <1>3, <1>4, <1>5 DEF FollowsRemote
  <1> QED BY <1>1, <1>2, <1>6, Zenon DEF FollowInv

(* A block that is merged is the one that the other nodes have. *)
LEMMA FollowStep == ~IsValidator /\ FollowInv /\ [Next]_vars => FollowInv'
  <1> SUFFICES ASSUME ~IsValidator, FollowInv, [Next]_vars
               PROVE  FollowInv'
    BY Zenon
  <1>1. ChainInv'
    BY ChainStep, Zenon DEF FollowInv
  <1>2. NoBuild'
    BY NoBuildStep, Zenon DEF FollowInv, ChainInv
  <1>3. SlotsRemote' /\ StolenRemote'
    BY RemoteStep, Zenon
  <1>4. CASE UNCHANGED chain
    <2>1. FollowsRemote'
      BY <1>4, Zenon DEF FollowInv, FollowsRemote, TipHash
    <2> QED BY <1>1, <1>2, <1>3, <2>1, Zenon DEF FollowInv
  <1>5. ASSUME NEW e \in Executors, ExecCommit(e)
        PROVE  FollowsRemote'
    <2> DEFINE b == NewBlock(e)
    <2>1. /\ chain \in Seq(Block) /\ b \in Block /\ chain' = Append(chain, b)
      BY <1>5, NewBlockType, Zenon DEF ExecCommit, FollowInv, ChainInv, TypeOK, TypeChain
    <2>2. executor[e].pc = "exec" /\ acceptable(executor[e].info, b)
      BY <1>5, Zenon DEF ExecCommit
    <2>3. /\ executor[e].height = Len(chain) /\ Len(chain) < Len(RemoteChain)
          /\ executor[e].info.hash = RemoteHash(Len(chain))
      BY <2>2, Zenon DEF FollowInv, ChainInv, ExecutorAtTip, StolenRemote, IsRemote
    <2>4. RemoteHash(Len(chain)) # NoHash
      <3>1. RemoteChain \in Seq(Body) /\ Len(chain) \in Nat
        BY <2>1, NodeAssumption
      <3>2. Len(RemoteHash(Len(chain))) = Len(chain) + 1
        BY <2>3, <3>1 DEF RemoteHash
      <3> QED BY <3>1, <3>2 DEF NoHash
    <2>5. PrimaryHash(b) = RemoteHash(Len(chain))
      BY <2>2, <2>3, <2>4, Zenon DEF acceptable
    <2> HIDE DEF b
    <2>6. Len(chain') = Len(chain) + 1 /\ chain'[Len(chain')] = b /\ chain' # <<>>
      BY <2>1
    <2>7. TipHash' = RemoteHash(Len(chain') - 1)
      BY <2>1, <2>5, <2>6 DEF TipHash
    <2> QED BY <2>1, <2>3, <2>6, <2>7, NodeAssumption DEF FollowsRemote
  <1>6. CASE \E e \in Executors : ExecCommit(e)
    BY <1>1, <1>2, <1>3, <1>5, <1>6, Zenon DEF FollowInv
  <1>7. (\E e \in Executors : ExecCommit(e)) \/ UNCHANGED chain
    <2>1. CASE SpawnExecutor \/ Crash \/ UNCHANGED vars
      BY <2>1, Zenon DEF SpawnExecutor, Crash, Reopened, vars
    <2>2. ASSUME NEW e \in Executors, ExecutorStep(e), ~ExecCommit(e)
          PROVE  chain' = chain
      BY <2>2, Zenon DEF ExecutorStep, ExecStart, ExecSteal, ExecPanic, ExecFail, ExecClean,
                  ExecNext, ExecDone
    <2> QED BY <2>1, <2>2, OtherSteps, Zenon DEF Next, WorkerStep
  <1> QED BY <1>4, <1>6, <1>7, Zenon

(* A node that is no validator never has a block that the other nodes do not *)
(* have at that height, whatever it receives, in whatever order, and         *)
(* whenever it is killed.                                                    *)
THEOREM FollowerNeverDiverges == ~IsValidator => (Spec => []FollowsRemote)
  <1>1. ~IsValidator /\ FollowInv /\ [Next]_vars => FollowInv'
    BY FollowStep, Zenon
  <1>2. FollowInv => FollowsRemote
    BY Zenon DEF FollowInv
  <1>3. ASSUME ~IsValidator
        PROVE  FollowInv /\ [Next]_vars => FollowInv'
    BY <1>1, <1>3, Zenon
  <1>4. ASSUME ~IsValidator
        PROVE  Spec => []FollowsRemote
    BY <1>2, <1>3, <1>4, FollowInit, PTL DEF Spec
  <1> QED BY <1>4, Zenon

-----------------------------------------------------------------------------
(***************************************************************************)
(* A node that receives no blocks from other nodes: a validator on its own *)
(* and its clients, for any transactions, bootstrap, tasks, faults and     *)
(* crashes.                                                                *)
(*                                                                         *)
(* The slots of the blocks to execute and what is in them are then the     *)
(* work of its builder and its executor only, one of each.  The slot of a  *)
(* block in execution is kept, with no transactions, and that is why the   *)
(* builder never comes back to it.                                         *)
(***************************************************************************)

NoRemote == RemoteChain = <<>>

OneBuilder ==
    /\ ~building => \A b \in Builders : builder[b].pc = "idle"
    /\ \A b, d \in Builders : builder[b].pc # "idle" /\ builder[d].pc # "idle" => b = d

SlotKept ==
    \A e \in Executors : executor[e].pc \in {"exec", "clean"} =>
        /\ executor[e].height \in DOMAIN confirmed
        /\ confirmed[executor[e].height].txs = <<>>

(* The slots are those of the heights from l up to k. *)
SlotsAt(l, k) ==
    /\ LowestSlot = l /\ l <= k /\ DOMAIN confirmed = l .. k - 1
    /\ l = k => k = Len(chain)

SlotsInv == OneBuilder /\ SlotKept /\ SlotsContiguous

(* The steps of such a node that change its pool or its tasks. *)
LEMMA SoloSteps ==
    ASSUME NoRemote, TypeOK, [Next]_vars
    PROVE  \/ UNCHANGED <<chain, pool, building, builder, executor>>
           \/ \E c \in Handlers : PutPool(c)
           \/ SpawnBuilder \/ SpawnExecutor
           \/ \E b \in Builders : BuilderStep(b)
           \/ \E e \in Executors : ExecutorStep(e)
           \/ Crash
  <1>0. Len(RemoteChain) = 0
    BY Zenon DEF NoRemote
  <1>1. CASE WorkerStep
    BY <1>1, Zenon DEF WorkerStep, Timer, TryBuild, TryExec
  <1>2. CASE \E c \in Handlers, m \in Message : Receive(c, m)
    BY <1>2, Zenon DEF Receive
  <1>3. ASSUME NEW c \in Handlers, HandlerStep(c), ~PutPool(c)
        PROVE  UNCHANGED <<chain, pool, building, builder, executor>>
    <2>1. ~BlockPool(c)
      <3>1. handler[c] \in Task
        BY Zenon DEF TypeOK, TypeHandlers
      <3>2. 0 .. Len(RemoteChain) - 1 = {}
        BY <1>0
      <3> QED BY <3>1, <3>2, Zenon DEF Task, BlockPool
    <2> QED BY <1>3, <2>1, Zenon DEF HandlerStep, PutCheck, BlockCheck, BlockNext,
                              BlockMissed, worker
  <1>4. CASE AlignerStep
    <2>1. ~AlignUpdate
      BY <1>0 DEF AlignUpdate, TypeOK, TypeAligner
    <2> QED BY <1>4, <2>1, Zenon DEF AlignerStep, AlignWake, AlignBlocks, AlignTxs,
                              AlignReset, worker
  <1>5. CASE UNCHANGED vars
    BY <1>5, Zenon DEF vars, worker
  <1> QED BY <1>1, <1>2, <1>3, <1>4, <1>5, Zenon DEF Next

(* The greatest height of a range, and the height after it. *)
LEMMA FirstOfRange ==
    ASSUME TypeOK, ChainLinked, NEW l \in Nat, NEW k \in Nat, SlotsAt(l, k)
    PROVE  first_height = k
  <1>1. NextHeight = Len(chain)
    BY NextIsLen, Zenon
  <1>2. CASE l = k
    <2>1. DOMAIN confirmed = {} /\ k = Len(chain)
      BY <1>2 DEF SlotsAt
    <2> QED BY <1>1, <2>1, Zenon DEF first_height
  <1>3. CASE l # k
    <2> DEFINE S == DOMAIN confirmed
    <2>1. S = l .. k - 1 /\ l < k
      BY <1>3 DEF SlotsAt
    <2> HIDE DEF S
    <2>2. S \in SUBSET (0 .. k) /\ k - 1 \in S /\ S # {}
      <3>1. \A x \in l .. k - 1 : x \in 0 .. k
        OBVIOUS
      <3>2. k - 1 \in l .. k - 1
        BY <2>1
      <3>3. QED
        BY <2>1, <3>1, <3>2, Zenon
    <2>3. Max(S) \in S /\ \A y \in S : y <= Max(S)
      BY <2>2, MaxExists, Zenon
    <2>4. Max(S) = k - 1
      BY <2>1, <2>2, <2>3
    <2> QED BY <2>2, <2>4 DEF first_height, S
  <1> QED BY <1>2, <1>3, Zenon

(* Slots without a gap, in the two forms. *)
SlotsRange == \E l, k \in Nat : SlotsAt(l, k)

LowestForm ==
    /\ LowestSlot \in Nat /\ Len(chain) \in Nat /\ NextHeight = Len(chain)
    /\ (\A e \in Executors : executor[e].pc # "clean") => LowestSlot = Len(chain)
    /\ \A e \in Executors : executor[e].pc = "clean" =>
           LowestSlot = executor[e].height /\ LowestSlot + 1 = Len(chain)

(* The lowest slot is that of the next block, or of the block just merged. *)
LEMMA LowestFacts == ChainInv => LowestForm
  <1> SUFFICES ASSUME ChainInv
               PROVE  LowestForm
    BY Zenon
  <1>1. NextHeight = Len(chain) /\ Len(chain) \in Nat
    BY NextIsLen DEF ChainInv, TypeOK, TypeChain
  <1>2. \A e \in Executors : executor[e].pc = "clean" =>
            executor[e].height + 1 = Len(chain) /\ executor[e].height \in Nat
    BY Zenon DEF ChainInv, ExecutorAtTip, TypeOK, TypeExecutors
  <1> QED BY <1>1, <1>2 DEF LowestSlot, LowestForm

SlotsForm ==
    /\ SlotsRange => DOMAIN confirmed = LowestSlot .. first_height - 1
    /\ \A l, k \in Nat : SlotsAt(l, k) => first_height = k
    /\ SlotsContiguous => SlotsAt(LowestSlot, first_height)

(* The bounds of the slots are the ones that the code computes. *)
LEMMA SlotsForms == ChainInv => SlotsForm
  <1> SUFFICES ASSUME ChainInv
               PROVE  SlotsForm
    BY Zenon
  <1>1. ASSUME NEW l \in Nat, NEW k \in Nat, SlotsAt(l, k)
        PROVE  first_height = k
    BY <1>1, FirstOfRange, Zenon DEF ChainInv
  <1>2. SlotsRange => DOMAIN confirmed = LowestSlot .. first_height - 1
    BY <1>1, Zenon DEF SlotsRange, SlotsAt
  <1>3. ASSUME SlotsContiguous
        PROVE  SlotsAt(LowestSlot, first_height)
    <2>1. first_height \in Nat /\ LowestSlot \in Nat /\ Len(chain) \in Nat
      BY FirstHeightType, LowestFacts, Zenon DEF ChainInv, LowestForm
    <2>2. DOMAIN confirmed = LowestSlot .. first_height - 1
      BY <1>3, Zenon DEF SlotsContiguous
    <2>3. CASE DOMAIN confirmed = {}
      <3>1. first_height = Len(chain)
        BY <2>3, NextIsLen, Zenon DEF first_height, ChainInv
      <3>2. LowestSlot <= Len(chain)
        BY LowestFacts DEF LowestForm
      <3>3. ~(LowestSlot <= first_height - 1)
        BY <2>1, <2>2, <2>3
      <3> QED BY <2>1, <2>2, <3>1, <3>2, <3>3, Zenon DEF SlotsAt
    <2>4. CASE DOMAIN confirmed # {}
      <3>1. LowestSlot <= first_height - 1
        BY <2>1, <2>2, <2>4
      <3> QED BY <2>1, <2>2, <3>1 DEF SlotsAt
    <2> QED BY <2>3, <2>4, Zenon
  <1> QED BY <1>1, <1>2, <1>3, Zenon DEF SlotsForm

(* A step that leaves the slots and the tasks alone. *)
LEMMA SlotsKept ==
    ASSUME SlotsInv, UNCHANGED <<chain, confirmed, building, builder, executor>>
    PROVE  SlotsInv'
  <1>1. OneBuilder' /\ SlotKept'
    BY Zenon DEF SlotsInv, OneBuilder, SlotKept
  <1>2. first_height' = first_height /\ LowestSlot' = LowestSlot
    BY Zenon DEF first_height, LowestSlot, NextHeight
  <1> QED BY <1>1, <1>2, Zenon DEF SlotsInv, SlotsContiguous

(* A new builder is the only one, since the flag was down. *)
LEMMA SlotsSpawnBuilder ==
    ASSUME TypeOK, SlotsInv, SpawnBuilder
    PROVE  SlotsInv'
  <1>1. UNCHANGED <<chain, confirmed, executor>> /\ building' = TRUE
    BY Zenon DEF SpawnBuilder, pool
  <1>2. first_height' = first_height /\ LowestSlot' = LowestSlot
    BY <1>1, Zenon DEF first_height, LowestSlot, NextHeight
  <1>3. SlotKept'
    BY <1>1, Zenon DEF SlotsInv, SlotKept
  <1>4. CASE building
    <2>1. UNCHANGED builder
      BY <1>4, Zenon DEF SpawnBuilder
    <2> QED BY <1>1, <1>2, <1>3, <1>4, <2>1, Zenon DEF SlotsInv, OneBuilder, SlotsContiguous
  <1>5. CASE ~building
    <2>1. PICK b \in Builders : builder' = [builder EXCEPT ![b].pc = "start"]
      BY <1>5, Zenon DEF SpawnBuilder
    <2>2. \A d \in Builders : builder'[d].pc = IF d = b THEN "start" ELSE "idle"
      BY <1>5, <2>1, Zenon DEF SlotsInv, OneBuilder, TypeOK, TypeBuilders
    <2>3. OneBuilder'
      BY <1>1, <2>2, Zenon DEF OneBuilder
    <2> QED BY <1>1, <1>2, <1>3, <2>2, <2>3, Zenon DEF SlotsInv, SlotsContiguous
  <1> QED BY <1>4, <1>5, Zenon DEF TypeOK, TypeWorker

(* When one builder moves the others are idle. *)
LEMMA OtherBuilders ==
    ASSUME OneBuilder, NEW b \in Builders, builder[b].pc # "idle",
           \A d \in Builders \ {b} : builder'[d] = builder[d],
           \/ building' = building
           \/ building' = FALSE /\ builder'[b].pc = "idle"
    PROVE  /\ OneBuilder'
           /\ \A d \in Builders \ {b} : builder'[d].pc = "idle"
  <1>1. building /\ \A d \in Builders \ {b} : builder[d].pc = "idle"
    BY Zenon DEF OneBuilder
  <1> QED BY <1>1, Zenon DEF OneBuilder

(* A builder fills the slot after the last one. *)
LEMMA SlotsBuilder ==
    ASSUME ChainInv, ChainInv', SlotsInv, NEW b \in Builders, BuilderStep(b)
    PROVE  SlotsInv'
  <1> DEFINE x == builder[b]
             y == builder'[b]
  <1>1. UNCHANGED <<chain, executor>>
    BY Zenon DEF BuilderStep, BuildStart, BuildCount, BuildFill, BuildRecount, BuildDone
  <1>2. LowestSlot' = LowestSlot
    BY <1>1, Zenon DEF LowestSlot, NextHeight
  <1>3. x.pc # "idle" /\ \A d \in Builders \ {b} : builder'[d] = builder[d]
    BY Zenon DEF BuilderStep, BuildStart, BuildCount, BuildFill, BuildRecount, BuildDone,
           ChainInv, TypeOK, TypeBuilders
  <1>4. \/ building' = building
        \/ building' = FALSE /\ y.pc = "idle"
    <2>1. CASE BuildDone(b)
      BY <2>1, Zenon DEF BuildDone, IdleBuilder, ChainInv, TypeOK, TypeBuilders
    <2>2. CASE ~BuildDone(b)
      <3>1. UNCHANGED worker
        BY <2>2, Zenon DEF BuilderStep, BuildStart, BuildCount, BuildFill, BuildRecount
      <3> QED BY <3>1, Zenon DEF worker
    <2> QED BY <2>1, <2>2, Zenon
  <1>5. OneBuilder' /\ \A d \in Builders \ {b} : builder'[d].pc = "idle"
    BY <1>3, <1>4, OtherBuilders, Zenon DEF SlotsInv
  <1>6. CASE ~BuildFill(b)
    <2>1. UNCHANGED confirmed
      BY <1>6, Zenon DEF BuilderStep, BuildStart, BuildCount, BuildRecount, BuildDone, pool
    <2>2. first_height' = first_height
      BY <1>1, <2>1, Zenon DEF first_height, NextHeight
    <2>3. y.pc \in {"count", "fill"} => y.height = first_height
      BY <1>6 DEF BuilderStep, BuildStart, BuildCount, BuildRecount, BuildDone,
                  ChainInv, TypeOK, TypeBuilders, IdleBuilder, SlotsInv, SlotsContiguous
    <2>4. SlotKept'
      BY <1>1, <2>1, Zenon DEF SlotsInv, SlotKept
    <2> QED BY <1>2, <1>5, <2>1, <2>2, <2>3, <2>4, Zenon DEF SlotsInv, SlotsContiguous
  <1>7. CASE BuildFill(b)
    <2>1. PICK l \in Nat, k \in Nat :
              LowestSlot = l /\ first_height = k /\ SlotsAt(l, k)
      BY LowestFacts, FirstHeightType, SlotsForms, Zenon
        DEF ChainInv, LowestForm, SlotsForm, SlotsInv
    <2>2. x.pc = "fill" /\ x.height = k
      BY <1>7, <2>1, Zenon DEF BuildFill, SlotsInv, SlotsContiguous
    <2>3. y.pc = "fill" /\ y.height = k + 1
      BY <1>7, <2>2 DEF BuildFill, ChainInv, TypeOK, TypeBuilders
    <2>4. /\ DOMAIN confirmed' = DOMAIN confirmed \cup {k}
          /\ \A h \in DOMAIN confirmed : h # k => confirmed'[h] = confirmed[h]
      BY <1>7, <2>2, Zenon DEF BuildFill, Insert
    <2>5. SlotKept'
      <3>1. k \notin DOMAIN confirmed
        BY <2>1 DEF SlotsAt
      <3> QED BY <1>1, <2>4, <3>1, Zenon DEF SlotsInv, SlotKept
    <2>6. l <= k /\ DOMAIN confirmed' = l .. (k + 1) - 1
      BY <2>1, <2>4 DEF SlotsAt
    <2>7. SlotsAt(l, k + 1)'
      BY <1>2, <2>1, <2>6 DEF SlotsAt
    <2>8. SlotsForm'
      BY SlotsForms, PTL
    <2>9. first_height' = k + 1
      BY <2>1, <2>7, <2>8 DEF SlotsForm
    <2> QED BY <1>2, <1>5, <2>1, <2>3, <2>5, <2>6, <2>9, Zenon DEF SlotsInv, SlotsContiguous
  <1> QED BY <1>6, <1>7, Zenon

(* The slots while no executor comes or goes between a merge and its end. *)
LEMMA SlotsAlike ==
    ASSUME ChainInv, ChainInv', SlotsInv, UNCHANGED <<chain, building, builder>>,
           DOMAIN confirmed' = DOMAIN confirmed, SlotKept',
           \A e \in Executors : executor[e].pc # "clean" /\ executor'[e].pc # "clean"
    PROVE  SlotsInv'
  <1>1. OneBuilder'
    BY Zenon DEF SlotsInv, OneBuilder
  <1>2. first_height' = first_height /\ LowestSlot' = LowestSlot
    BY Zenon DEF first_height, LowestSlot, NextHeight
  <1> QED BY <1>1, <1>2, Zenon DEF SlotsInv, SlotsContiguous

(* An executor is spawned. *)
LEMMA SlotsSpawnExecutor ==
    ASSUME ChainInv, ChainInv', SlotsInv, SpawnExecutor
    PROVE  SlotsInv'
  <1>1. UNCHANGED <<chain, confirmed, building, builder>>
    BY Zenon DEF SpawnExecutor, pool
  <1>2. CASE executing
    <2>1. UNCHANGED executor
      BY <1>2, Zenon DEF SpawnExecutor, may_spawn
    <2> QED BY <1>1, <2>1, SlotsKept, Zenon
  <1>3. CASE ~executing
    <2>1. PICK e \in Executors : executor' = [executor EXCEPT ![e].pc = "start"]
      BY <1>3, Zenon DEF SpawnExecutor, may_spawn
    <2>2. \A f \in Executors : executor[f].pc = "idle"
      BY <1>3, Zenon DEF ChainInv, OneExecutor
    <2>3. \A f \in Executors : executor'[f].pc \in {"start", "idle"}
      BY <2>1, <2>2 DEF ChainInv, TypeOK, TypeExecutors
    <2>4. SlotKept'
      BY <2>3, Zenon DEF SlotKept
    <2> QED BY <1>1, <2>2, <2>3, <2>4, SlotsAlike, Zenon
  <1> QED BY <1>2, <1>3, Zenon DEF ChainInv, TypeOK, TypeWorker

(* The other executors, when one of them moves. *)
LEMMA OtherExecutors ==
    ASSUME ChainInv, NEW e \in Executors, ExecutorStep(e)
    PROVE  /\ executor[e].pc # "idle"
           /\ \A f \in Executors \ {e} : executor[f].pc = "idle" /\ executor'[f] = executor[f]
           /\ UNCHANGED <<building, builder>>
  <1>1. executor[e].pc # "idle" /\ \A f \in Executors \ {e} : executor'[f] = executor[f]
    BY Zenon DEF ExecutorStep, ExecStart, ExecSteal, ExecPanic, ExecCommit, ExecFail,
           ExecClean, ExecNext, ExecDone, ChainInv, TypeOK, TypeExecutors
  <1>2. UNCHANGED builder /\ (UNCHANGED worker \/ UNCHANGED building)
    BY Zenon DEF ExecutorStep, ExecStart, ExecSteal, ExecPanic, ExecCommit, ExecFail,
           ExecClean, ExecNext, ExecDone
  <1>3. UNCHANGED building
    BY <1>2, Zenon DEF worker
  <1>4. \A f \in Executors \ {e} : executor[f].pc = "idle"
    BY <1>1, Zenon DEF ChainInv, OneExecutor
  <1> QED BY <1>1, <1>2, <1>3, <1>4, Zenon

(* An executor keeps the slot of its block until the block is merged. *)
LEMMA SlotsExecutor ==
    ASSUME ChainInv, ChainInv', SlotsInv, NEW e \in Executors, ExecutorStep(e)
    PROVE  SlotsInv'
  <1> DEFINE h == executor[e].height
  <1>1. /\ executor[e].pc # "idle" /\ UNCHANGED <<building, builder>>
        /\ \A f \in Executors \ {e} : executor[f].pc = "idle" /\ executor'[f].pc = "idle"
    BY OtherExecutors, Zenon
  <1>2. OneBuilder'
    BY <1>1, Zenon DEF SlotsInv, OneBuilder
  <1>3. CASE ExecStart(e) \/ ExecPanic(e) \/ ExecNext(e) \/ ExecDone(e)
    <2>1. UNCHANGED <<chain, confirmed>>
      BY <1>3, Zenon DEF ExecStart, ExecPanic, ExecNext, ExecDone, pool
    <2>2. executor[e].pc # "clean" /\ executor'[e].pc \notin {"exec", "clean"}
      BY <1>3 DEF ExecStart, ExecPanic, ExecNext, ExecDone, IdleExecutor,
                  ChainInv, TypeOK, TypeExecutors
    <2>3. SlotKept'
      BY <1>1, <2>2, Zenon DEF SlotKept
    <2> QED BY <1>1, <2>1, <2>2, <2>3, SlotsAlike, Zenon
  <1>4. CASE ExecSteal(e)
    <2>1. UNCHANGED chain /\ executor[e].pc = "steal"
      BY <1>4, Zenon DEF ExecSteal
    <2>2. CASE h \in DOMAIN confirmed /\ confirmed[h].known
      <3>1. /\ confirmed' = [confirmed EXCEPT ![h] = busy(confirmed[h])]
            /\ executor' = [executor EXCEPT ![e].pc = "exec", ![e].info = confirmed[h]]
        BY <1>4, <2>2, Zenon DEF ExecSteal, take_slot
      <3>2. busy(confirmed[h]).txs = <<>>
        BY <2>2, Zenon DEF busy, ChainInv, TypeOK, TypePool, BlockInfo
      <3>3. executor'[e].pc = "exec" /\ executor'[e].height = h
        BY <3>1 DEF ChainInv, TypeOK, TypeExecutors
      <3>4. DOMAIN confirmed' = DOMAIN confirmed /\ confirmed'[h].txs = <<>>
        BY <2>2, <3>1, <3>2, Zenon
      <3>5. SlotKept'
        BY <1>1, <2>2, <3>3, <3>4, Zenon DEF SlotKept
      <3> QED BY <1>1, <2>1, <3>3, <3>4, <3>5, SlotsAlike, Zenon
    <2>3. CASE ~(h \in DOMAIN confirmed /\ confirmed[h].known)
      <3>1. UNCHANGED confirmed /\ executor' = [executor EXCEPT ![e].pc = "done"]
        BY <1>4, <2>3, Zenon DEF ExecSteal
      <3>2. executor'[e].pc = "done"
        BY <3>1, Zenon DEF ChainInv, TypeOK, TypeExecutors
      <3>3. SlotKept'
        BY <1>1, <3>2, Zenon DEF SlotKept
      <3> QED BY <1>1, <2>1, <3>1, <3>2, <3>3, SlotsAlike, Zenon
    <2> QED BY <2>2, <2>3, Zenon
  <1>5. CASE ExecFail(e)
    <2>1. /\ UNCHANGED chain /\ executor[e].pc = "exec"
          /\ confirmed' = Insert(confirmed, h, executor[e].info)
          /\ executor' = [executor EXCEPT ![e].pc = "done"]
      BY <1>5, Zenon DEF ExecFail, put_back
    <2>2. executor'[e].pc = "done"
      BY <2>1, Zenon DEF ChainInv, TypeOK, TypeExecutors
    <2>3. h \in DOMAIN confirmed
      BY <2>1, Zenon DEF SlotsInv, SlotKept
    <2>4. DOMAIN confirmed' = DOMAIN confirmed
      BY <2>1, <2>3, Zenon DEF Insert
    <2>5. SlotKept'
      BY <1>1, <2>2, Zenon DEF SlotKept
    <2> QED BY <1>1, <2>1, <2>2, <2>4, <2>5, SlotsAlike, Zenon
  <1>6. PICK l \in Nat, k \in Nat : LowestSlot = l /\ first_height = k /\ SlotsAt(l, k)
    BY LowestFacts, FirstHeightType, SlotsForms, Zenon
      DEF ChainInv, LowestForm, SlotsForm, SlotsInv
  <1>7. SlotsForm' /\ LowestForm'
    BY SlotsForms, LowestFacts, PTL
  <1>8. \A b \in Builders : builder'[b].pc \in {"count", "fill"} => builder'[b].height = k
    BY <1>1, <1>6, Zenon DEF SlotsInv, SlotsContiguous
  <1>9. CASE ExecCommit(e)
    <2>1. /\ executor[e].pc = "exec" /\ chain' = Append(chain, NewBlock(e))
          /\ UNCHANGED confirmed
          /\ executor' = [executor EXCEPT ![e].pc = "clean",
                                          ![e].prev = PrimaryHash(NewBlock(e))]
      BY <1>9, Zenon DEF ExecCommit, pool
    <2>2. executor'[e].pc = "clean" /\ executor'[e].height = h
      BY <2>1 DEF ChainInv, TypeOK, TypeExecutors
    <2>3. l = Len(chain) /\ h = Len(chain)
      BY <1>1, <1>6, <2>1, LowestFacts, Zenon DEF LowestForm, ChainInv, ExecutorAtTip
    <2>4. LowestSlot' = h
      BY <1>7, <2>2, Zenon DEF LowestForm
    <2>5. h \in DOMAIN confirmed
      BY <2>1, Zenon DEF SlotsInv, SlotKept
    <2>6. l < k
      BY <1>6, <2>3, <2>5 DEF SlotsAt
    <2>7. SlotsAt(l, k)'
      BY <1>6, <2>1, <2>3, <2>4, <2>6 DEF SlotsAt
    <2>8. first_height' = k
      BY <1>6, <1>7, <2>7, Zenon DEF SlotsForm
    <2>9. SlotKept'
      BY <1>1, <2>1, <2>2, Zenon DEF SlotsInv, SlotKept
    <2>10. SlotsContiguous'
      BY <1>6, <1>8, <2>1, <2>3, <2>4, <2>8, Zenon DEF SlotsContiguous, SlotsAt
    <2> QED BY <1>2, <2>9, <2>10, Zenon DEF SlotsInv
  <1>10. CASE ExecClean(e)
    <2>1. /\ executor[e].pc = "clean" /\ UNCHANGED chain
          /\ confirmed' = Delete(confirmed, h)
          /\ executor' = [executor EXCEPT ![e] = advanced(executor[e])]
      BY <1>10, Zenon DEF ExecClean
    <2>2. executor'[e].pc = "next"
      BY <2>1, Zenon DEF advanced, ChainInv, TypeOK, TypeExecutors
    <2>3. l = h /\ l + 1 = Len(chain)
      BY <1>6, <2>1, LowestFacts, Zenon DEF LowestForm
    <2>4. LowestSlot' = l + 1
      <3>1. \A f \in Executors : executor'[f].pc # "clean"
        BY <1>1, <2>2, Zenon
      <3> QED BY <1>7, <2>1, <2>3, <3>1, Zenon DEF LowestForm
    <2>5. h \in DOMAIN confirmed
      BY <2>1, Zenon DEF SlotsInv, SlotKept
    <2>6. l + 1 <= k
      BY <1>6, <2>3, <2>5 DEF SlotsAt
    <2>7. DOMAIN confirmed' = (l + 1) .. k - 1
      <3>1. DOMAIN confirmed' = (l .. k - 1) \ {l}
        BY <1>6, <2>1, <2>3, Zenon DEF Delete, SlotsAt
      <3> QED BY <1>6, <3>1
    <2>8. SlotsAt(l + 1, k)'
      BY <1>6, <2>1, <2>3, <2>4, <2>6, <2>7, Zenon DEF SlotsAt
    <2>9. first_height' = k
      BY <1>6, <1>7, <2>8 DEF SlotsForm
    <2>10. SlotKept'
      BY <1>1, <2>2, Zenon DEF SlotKept
    <2>11. SlotsContiguous'
      BY <1>6, <1>8, <2>4, <2>7, <2>9, Zenon DEF SlotsContiguous
    <2> QED BY <1>2, <2>10, <2>11, Zenon DEF SlotsInv
  <1> QED BY <1>3, <1>4, <1>5, <1>9, <1>10, Zenon DEF ExecutorStep

(* A restarted node has no slots, and neither builder nor executor. *)
LEMMA SlotsCrash ==
    ASSUME ChainInv', Crash
    PROVE  SlotsInv'
  <1>1. /\ confirmed' = <<>> /\ builder' = [b \in Builders |-> IdleBuilder]
        /\ executor' = [e \in Executors |-> IdleExecutor]
    BY Zenon DEF Crash
  <1>2. /\ \A b \in Builders : builder'[b].pc = "idle"
        /\ \A e \in Executors : executor'[e].pc = "idle"
        /\ DOMAIN confirmed' = {}
    BY <1>1 DEF IdleBuilder, IdleExecutor
  <1>3. OneBuilder' /\ SlotKept'
    BY <1>2, Zenon DEF OneBuilder, SlotKept
  <1>4. SlotsForm' /\ LowestForm'
    BY SlotsForms, LowestFacts, PTL
  <1>5. PICK n \in Nat : n = Len(chain')
    BY <1>4, Zenon DEF LowestForm
  <1>6. SlotsAt(n, n)'
    BY <1>2, <1>4, <1>5 DEF SlotsAt, LowestForm
  <1>7. SlotsContiguous'
    BY <1>2, <1>4, <1>6, Zenon DEF SlotsContiguous, SlotsForm, SlotsRange
  <1> QED BY <1>3, <1>7, Zenon DEF SlotsInv

(* A node starts without slots. *)
LEMMA SlotsInit == Init => SlotsInv
  <1> SUFFICES ASSUME Init
               PROVE  SlotsInv
    BY Zenon
  <1>1. /\ \A b \in Builders : builder[b].pc = "idle"
        /\ \A e \in Executors : executor[e].pc = "idle"
        /\ DOMAIN confirmed = {}
    <2>1. IdleBuilder.pc = "idle" /\ IdleExecutor.pc = "idle"
      BY DEF IdleBuilder, IdleExecutor
    <2>2. /\ \A b \in Builders : builder[b] = IdleBuilder
          /\ \A e \in Executors : executor[e] = IdleExecutor
          /\ confirmed = <<>>
      BY Zenon DEF Init, put_txs
    <2>3. DOMAIN <<>> = {}
      OBVIOUS
    <2> QED BY <2>1, <2>2, <2>3, Zenon
  <1>2. OneBuilder /\ SlotKept
    BY <1>1, Zenon DEF OneBuilder, SlotKept
  <1>3. SlotsForm /\ LowestForm
    BY ChainInit, SlotsForms, LowestFacts, Zenon
  <1>4. SlotsAt(Len(chain), Len(chain)) /\ Len(chain) \in Nat
    BY <1>1, <1>3 DEF SlotsAt, LowestForm
  <1>5. SlotsContiguous
    BY <1>1, <1>3, <1>4, Zenon DEF SlotsContiguous, SlotsForm, SlotsRange
  <1> QED BY <1>2, <1>5, Zenon DEF SlotsInv

(* Every step of a node that receives no blocks keeps its slots in order. *)
LEMMA SlotsStep ==
    ASSUME NoRemote, ChainInv, ChainInv', SlotsInv, [Next]_vars
    PROVE  SlotsInv'
  <1>1. CASE UNCHANGED <<chain, pool, building, builder, executor>>
    BY <1>1, SlotsKept, Zenon DEF pool
  <1>2. CASE \E c \in Handlers : PutPool(c)
    <2>1. UNCHANGED <<chain, confirmed, worker, builder, executor>>
      BY <1>2, Zenon DEF PutPool
    <2>2. UNCHANGED building
      BY <2>1, Zenon DEF worker
    <2> QED BY <2>1, <2>2, SlotsKept, Zenon
  <1>3. CASE SpawnBuilder
    BY <1>3, SlotsSpawnBuilder, Zenon DEF ChainInv
  <1> QED BY <1>1, <1>2, <1>3, SoloSteps, SlotsSpawnExecutor, SlotsBuilder,
             SlotsExecutor, SlotsCrash, Zenon DEF ChainInv

-----------------------------------------------------------------------------
(***************************************************************************)
(* Where the transactions of such a node wait.                             *)
(***************************************************************************)
InSlot(h, t) == h \in DOMAIN confirmed /\ t \in Range(confirmed[h].txs)
InExec(e, t) == executor[e].pc \in {"exec", "clean"} /\ t \in Range(executor[e].info.txs)
InPool(t) ==
    \/ t \in unconfirmed.set
    \/ \E h \in DOMAIN confirmed : InSlot(h, t)
    \/ \E e \in Executors : InExec(e, t)

Placed(t) ==
    /\ t \in unconfirmed.set => /\ \A h \in DOMAIN confirmed : ~InSlot(h, t)
                                /\ \A e \in Executors : ~InExec(e, t)
    /\ \A h, g \in DOMAIN confirmed : InSlot(h, t) /\ InSlot(g, t) => h = g
    /\ \A h \in DOMAIN confirmed, e \in Executors : ~(InSlot(h, t) /\ InExec(e, t))
    /\ txs[t] # "hash"
    /\ txs[t] = "full" <=> InPool(t)

PlacedInv == Consistent(unconfirmed) /\ \A t \in Tx : Placed(t)

(* A transaction of the pool that is placed has one holder. *)
LEMMA PlacedIsAccounted ==
    ASSUME OneExecutor, NEW t \in Tx, Placed(t)
    PROVE  IF txs[t] = "full" THEN \E p \in Holders(t) : Holders(t) = {p}
                              ELSE Holders(t) = {}
  <1> DEFINE Q == {<<"unconfirmed", x>> : x \in {y \in {"queue"} : contains(unconfirmed, t)}}
             C == {<<"confirmed", h>> : h \in {k \in DOMAIN confirmed :
                                                    t \in Range(confirmed[k].txs)}}
             E == {<<"executor", e>> : e \in {x \in Executors :
                                                  /\ executor[x].pc \in {"exec", "clean"}
                                                  /\ t \in Range(executor[x].info.txs)}}
  <1>1. Holders(t) = Q \cup C \cup E
    BY Zenon DEF Holders
  <1>2. Q = IF t \in unconfirmed.set THEN {<<"unconfirmed", "queue">>} ELSE {}
    BY Zenon DEF contains
  <1>3. \A h \in DOMAIN confirmed : InSlot(h, t) => C = {<<"confirmed", h>>}
    BY Zenon DEF Placed, InSlot
  <1>4. (\A h \in DOMAIN confirmed : ~InSlot(h, t)) => C = {}
    BY Zenon DEF InSlot
  <1>5. \A e, f \in Executors : InExec(e, t) /\ InExec(f, t) => e = f
    BY Zenon DEF OneExecutor, InExec
  <1>6. \A e \in Executors : InExec(e, t) => E = {<<"executor", e>>}
    BY <1>5, Zenon DEF InExec
  <1>7. (\A e \in Executors : ~InExec(e, t)) => E = {}
    BY Zenon DEF InExec
  <1> HIDE DEF Q, C, E
  <1>8. CASE t \in unconfirmed.set
    BY <1>1, <1>2, <1>4, <1>7, <1>8, Zenon DEF Placed, InPool
  <1>9. CASE t \notin unconfirmed.set /\ \E h \in DOMAIN confirmed : InSlot(h, t)
    BY <1>1, <1>2, <1>3, <1>7, <1>9, Zenon DEF Placed, InPool
  <1>10. CASE t \notin unconfirmed.set /\ \E e \in Executors : InExec(e, t)
    BY <1>1, <1>2, <1>4, <1>6, <1>10, Zenon DEF Placed, InPool
  <1>11. CASE ~InPool(t)
    BY <1>1, <1>2, <1>4, <1>7, <1>11, Zenon DEF Placed, InPool
  <1> QED BY <1>8, <1>9, <1>10, <1>11, Zenon DEF InPool

(* A transaction that a step does not move. *)
LEMMA Unmoved ==
    ASSUME NEW t \in Tx, Placed(t), txs'[t] = txs[t],
           t \in unconfirmed'.set <=> t \in unconfirmed.set,
           \A h : InSlot(h, t)' <=> InSlot(h, t),
           \A e \in Executors : InExec(e, t)' <=> InExec(e, t)
    PROVE  Placed(t)'
  <1>1. \A h : InSlot(h, t) => h \in DOMAIN confirmed
    BY Zenon DEF InSlot
  <1>2. \A h : InSlot(h, t)' => h \in DOMAIN confirmed'
    BY Zenon DEF InSlot
  <1>3. InPool(t)' <=> InPool(t)
    BY <1>1, <1>2, Zenon DEF InPool
  <1> QED BY <1>1, <1>2, <1>3, Zenon DEF Placed

(* Pushing a new value, and taking the first ones. *)
LEMMA QueueFacts ==
    ASSUME NEW S, NEW q \in QueueOf(S), Consistent(q)
    PROVE  /\ \A v \in S : v \notin q.set =>
                  Consistent(push(q, v)) /\ push(q, v).set = q.set \cup {v}
           /\ \A n \in Nat :
                  /\ Range(firstN(q, n)) \subseteq q.set
                  /\ Consistent(popN(q, Len(firstN(q, n))))
                  /\ popN(q, Len(firstN(q, n))).set = q.set \ Range(firstN(q, n))
                  /\ len(popN(q, Len(firstN(q, n)))) = len(q) - Len(firstN(q, n))
                  /\ Len(firstN(q, n)) \in 0 .. len(q)
                  /\ n > 0 /\ len(q) > 0 => firstN(q, n) # <<>>
  <1>1. /\ q.fifo \in Seq(S) /\ q.set = Range(q.fifo) /\ IsInjective(q.fifo)
        /\ Len(q.fifo) \in Nat /\ DOMAIN q.fifo = 1 .. Len(q.fifo)
    BY DEF QueueOf, Consistent
  <1>2. ASSUME NEW v \in S, v \notin q.set
        PROVE  Consistent(push(q, v)) /\ push(q, v).set = q.set \cup {v}
    <2> DEFINE r == Append(q.fifo, v)
    <2>1. push(q, v) = [fifo |-> r, set |-> q.set \cup {v}]
      BY <1>2, Zenon DEF push
    <2>2. /\ r \in Seq(S) /\ DOMAIN r = 1 .. Len(q.fifo) + 1
          /\ \A i \in 1 .. Len(q.fifo) : r[i] = q.fifo[i]
          /\ r[Len(q.fifo) + 1] = v
      BY <1>1
    <2> HIDE DEF r
    <2>3. \A i \in 1 .. Len(q.fifo) + 1 : i \in 1 .. Len(q.fifo) \/ i = Len(q.fifo) + 1
      BY <1>1
    <2>4. \A i \in 1 .. Len(q.fifo) : q.fifo[i] # v
      BY <1>1, <1>2, Zenon DEF Range
    <2>5. Range(r) = q.set \cup {v}
      <3>1. \A i \in 1 .. Len(q.fifo) : i \in 1 .. Len(q.fifo) + 1
        BY <1>1
      <3>2. Len(q.fifo) + 1 \in 1 .. Len(q.fifo) + 1
        BY <1>1
      <3> QED BY <1>1, <2>2, <2>3, <3>1, <3>2, Zenon DEF Range
    <2>6. IsInjective(r)
      BY <1>1, <2>2, <2>3, <2>4, Zenon DEF IsInjective
    <2> QED BY <2>1, <2>5, <2>6 DEF Consistent
  <1>3. ASSUME NEW n \in Nat
        PROVE  /\ Range(firstN(q, n)) \subseteq q.set
               /\ Consistent(popN(q, Len(firstN(q, n))))
               /\ popN(q, Len(firstN(q, n))).set = q.set \ Range(firstN(q, n))
               /\ len(popN(q, Len(firstN(q, n)))) = len(q) - Len(firstN(q, n))
               /\ Len(firstN(q, n)) \in 0 .. len(q)
               /\ n > 0 /\ len(q) > 0 => firstN(q, n) # <<>>
    <2> DEFINE s == q.fifo
               m == IF n < Len(s) THEN n ELSE Len(s)
               a == SubSeq(s, 1, m)
               b == SubSeq(s, m + 1, Len(s))
    <2>1. /\ m \in 0 .. Len(s) /\ m \in Nat /\ (n > 0 /\ Len(s) > 0 => m > 0)
          /\ ~(m < Len(s)) => m = Len(s)
      BY <1>1
    <2> HIDE DEF m
    <2>2. /\ a \in Seq(S) /\ Len(a) = m /\ DOMAIN a = 1 .. m
          /\ \A i \in 1 .. m : a[i] = s[i]
      BY <1>1, <2>1
    <2>3. /\ b \in Seq(S) /\ Len(b) = Len(s) - m /\ DOMAIN b = 1 .. Len(s) - m
          /\ \A i \in 1 .. Len(s) - m : b[i] = s[m + i]
      BY <1>1, <2>1
    <2>4. firstN(q, n) = a
      BY Zenon DEF firstN, m
    <2>5. firstN(q, m) = a
      <3>1. (IF m < Len(s) THEN m ELSE Len(s)) = m
        BY <2>1, Zenon
      <3> QED BY <3>1, Zenon DEF firstN
    <2>6. popN(q, m) = [fifo |-> b, set |-> q.set \ Range(a)]
      BY <2>2, <2>5, Zenon DEF popN
    <2> HIDE DEF a, b
    <2>7. Range(a) \subseteq q.set
      <3>1. \A i \in 1 .. m : i \in 1 .. Len(s)
        BY <1>1, <2>1
      <3> QED BY <1>1, <2>2, <3>1, Zenon DEF Range
    <2>8. Range(b) = q.set \ Range(a) /\ IsInjective(b)
      <3>1. \A i \in 1 .. Len(s) - m : m + i \in 1 .. Len(s) /\ m + i \notin 1 .. m
        BY <1>1, <2>1
      <3>2. \A j \in 1 .. Len(s) : j \in 1 .. m \/ (j - m \in 1 .. Len(s) - m
                                                    /\ m + (j - m) = j)
        BY <1>1, <2>1
      <3>3. \A i, j \in 1 .. Len(s) : s[i] = s[j] => i = j
        BY <1>1, Zenon DEF IsInjective
      <3>4. \A i \in 1 .. m : i \in 1 .. Len(s)
        BY <1>1, <2>1
      <3>5. ASSUME NEW v \in Range(b)
            PROVE  v \in q.set /\ v \notin Range(a)
        <4>1. PICK i \in 1 .. Len(s) - m : v = s[m + i]
          BY <2>3, Zenon DEF Range
        <4>2. m + i \in 1 .. Len(s) /\ m + i \notin 1 .. m
          BY <3>1, Zenon
        <4>3. v \in q.set
          BY <1>1, <4>1, <4>2, Zenon DEF Range
        <4>4. ASSUME NEW j \in 1 .. m, a[j] = v
              PROVE  FALSE
          <5>1. j \in 1 .. Len(s) /\ s[j] = s[m + i]
            BY <2>2, <3>4, <4>1, <4>4, Zenon
          <5>2. j = m + i
            BY <3>3, <4>2, <5>1, Zenon
          <5> QED BY <4>2, <5>2, Zenon
        <4> QED BY <2>2, <4>3, <4>4, Zenon DEF Range
      <3>6. ASSUME NEW v \in q.set, v \notin Range(a)
            PROVE  v \in Range(b)
        <4>1. PICK j \in 1 .. Len(s) : v = s[j]
          BY <1>1, <3>6, Zenon DEF Range
        <4>2. j \notin 1 .. m
          BY <2>2, <3>6, <4>1, Zenon DEF Range
        <4>3. j - m \in 1 .. Len(s) - m /\ m + (j - m) = j
          BY <3>2, <4>2, Zenon
        <4>4. b[j - m] = v
          BY <2>3, <4>1, <4>3, Zenon
        <4> QED BY <2>3, <4>3, <4>4, Zenon DEF Range
      <3>7. ASSUME NEW i \in 1 .. Len(s) - m, NEW j \in 1 .. Len(s) - m, b[i] = b[j]
            PROVE  i = j
        <4>1. m + i = m + j
          BY <2>3, <3>1, <3>3, <3>7, Zenon
        <4> QED BY <2>1, <4>1
      <3> QED BY <2>3, <3>5, <3>6, <3>7, Zenon DEF IsInjective
    <2>9. Len(firstN(q, n)) = m
      BY <2>2, <2>4, Zenon
    <2>10. Consistent(popN(q, m)) /\ popN(q, m).set = q.set \ Range(a)
      <3>1. popN(q, m).fifo = b /\ popN(q, m).set = q.set \ Range(a)
        BY <2>6
      <3> QED BY <2>8, <3>1, Zenon DEF Consistent
    <2>11. len(popN(q, m)) = len(q) - m /\ m \in 0 .. len(q)
      BY <2>1, <2>3, <2>6 DEF len
    <2>12. n > 0 /\ len(q) > 0 => a # <<>>
      BY <2>1, <2>2 DEF len
    <2> QED BY <2>4, <2>7, <2>9, <2>10, <2>11, <2>12, Zenon
  <1> QED BY <1>2, <1>3, Zenon

(* A step that leaves the pool and the executors at work alone. *)
LEMMA PlacedKept ==
    ASSUME PlacedInv, UNCHANGED pool,
           \A e \in Executors, t \in Tx : InExec(e, t)' <=> InExec(e, t)
    PROVE  PlacedInv'
  <1>1. UNCHANGED <<txs, unconfirmed, confirmed>>
    BY Zenon DEF pool
  <1>2. Consistent(unconfirmed)'
    BY <1>1, Zenon DEF PlacedInv
  <1>3. \A h, t : InSlot(h, t)' <=> InSlot(h, t)
    BY <1>1, Zenon DEF InSlot
  <1>4. ASSUME NEW t \in Tx
        PROVE  Placed(t)'
    BY <1>1, <1>3, Unmoved, Zenon DEF PlacedInv
  <1> QED BY <1>2, <1>4, Zenon DEF PlacedInv

(* A transaction that nobody has goes to the queue. *)
LEMMA PlacedPut ==
    ASSUME TypeOK, PlacedInv, NEW c \in Handlers, PutPool(c)
    PROVE  PlacedInv'
  <1>1. PICK v \in Tx :
            /\ UNCHANGED <<confirmed, executor>>
            /\ txs' = [txs EXCEPT ![v] = "full"]
            /\ unconfirmed' = IF txs[v] = "absent" THEN push(unconfirmed, v)
                                                   ELSE unconfirmed
    BY Zenon DEF PutPool, TypeOK, TypeHandlers, Task, Idle
  <1>2. unconfirmed \in QueueOf(Tx) /\ txs \in [Tx -> {"absent", "hash", "full"}]
    BY Zenon DEF TypeOK, TypePool
  <1>3. /\ \A h, t : InSlot(h, t)' <=> InSlot(h, t)
        /\ \A e, t : InExec(e, t)' <=> InExec(e, t)
    BY <1>1, Zenon DEF InSlot, InExec
  <1>4. Placed(v) /\ txs[v] # "hash"
    BY <1>1, Zenon DEF PlacedInv, Placed
  <1>5. CASE txs[v] = "absent"
    <2>1. ~InPool(v) /\ v \notin unconfirmed.set
      BY <1>4, <1>5, Zenon DEF Placed, InPool
    <2>2. Consistent(unconfirmed)' /\ unconfirmed'.set = unconfirmed.set \cup {v}
      BY <1>1, <1>2, <1>5, <2>1, QueueFacts, Zenon DEF PlacedInv
    <2>3. ASSUME NEW t \in Tx, t # v
          PROVE  Placed(t)'
      <3>1. txs'[t] = txs[t]
        BY <1>1, <1>2, <2>3, Zenon
      <3>2. t \in unconfirmed'.set <=> t \in unconfirmed.set
        BY <2>2, <2>3, Zenon
      <3>3. Placed(t)
        BY Zenon DEF PlacedInv
      <3> QED BY <1>3, <3>1, <3>2, <3>3, Unmoved, Zenon
    <2>4. Placed(v)'
      <3>1. /\ v \in unconfirmed'.set /\ txs'[v] = "full"
            /\ \A h \in DOMAIN confirmed : ~InSlot(h, v)
            /\ \A e \in Executors : ~InExec(e, v)
        BY <1>1, <1>2, <2>1, <2>2, Zenon DEF InPool
      <3> QED BY <1>1, <1>3, <3>1, Zenon DEF Placed, InPool
    <2> QED BY <2>2, <2>3, <2>4, Zenon DEF PlacedInv
  <1>6. CASE txs[v] # "absent"
    <2>1. txs[v] = "full"
      BY <1>1, <1>2, <1>4, <1>6, Zenon
    <2>2. txs' = txs /\ UNCHANGED unconfirmed
      BY <1>1, <1>2, <1>6, <2>1, Zenon
    <2> QED BY <1>1, <1>3, <2>2, PlacedKept, Zenon DEF pool
  <1> QED BY <1>5, <1>6, Zenon

(* The builder moves the first transactions of the queue to a new slot. *)
LEMMA PlacedFill ==
    ASSUME ChainInv, SlotsInv, PlacedInv, NEW b \in Builders, BuildFill(b)
    PROVE  PlacedInv'
  <1> DEFINE T == Range(block_txs)
             info == [NoInfo EXCEPT !.known = TRUE, !.txs = block_txs]
  <1>1. PICK k \in Nat : k = first_height
    BY FirstHeightType, Zenon DEF ChainInv
  <1>2. builder[b].height = k /\ k \notin DOMAIN confirmed
    <2>1. builder[b].height = k
      BY <1>1, Zenon DEF BuildFill, SlotsInv, SlotsContiguous
    <2>2. LowestSlot \in Nat /\ DOMAIN confirmed = LowestSlot .. k - 1
      BY <1>1, LowestFacts, Zenon DEF LowestForm, SlotsInv, SlotsContiguous
    <2> QED BY <2>1, <2>2
  <1>3. /\ unconfirmed' = popN(unconfirmed, Len(block_txs))
        /\ confirmed' = Insert(confirmed, k, info)
        /\ UNCHANGED <<txs, executor>>
    BY <1>2, Zenon DEF BuildFill
  <1>4. /\ Consistent(unconfirmed)' /\ unconfirmed'.set = unconfirmed.set \ T
        /\ T \subseteq unconfirmed.set
    <2>1. unconfirmed \in QueueOf(Tx) /\ Consistent(unconfirmed) /\ Threshold \in Nat
      BY NodeAssumption, Zenon DEF ChainInv, TypeOK, TypePool, PlacedInv
    <2>2. /\ Range(firstN(unconfirmed, Threshold)) \subseteq unconfirmed.set
          /\ Consistent(popN(unconfirmed, Len(firstN(unconfirmed, Threshold))))
          /\ popN(unconfirmed, Len(firstN(unconfirmed, Threshold))).set =
                 unconfirmed.set \ Range(firstN(unconfirmed, Threshold))
      BY <2>1, QueueFacts, Zenon
    <2> QED BY <1>3, <2>2, Zenon DEF block_txs
  <1>5. info.txs = block_txs
    BY Zenon DEF NoInfo
  <1> HIDE DEF info
  <1>6. /\ DOMAIN confirmed' = DOMAIN confirmed \cup {k}
        /\ confirmed'[k].txs = block_txs
        /\ \A h \in DOMAIN confirmed : confirmed'[h] = confirmed[h]
    BY <1>2, <1>3, <1>5, Zenon DEF Insert
  <1>7. \A e, t : InExec(e, t)' <=> InExec(e, t)
    BY <1>3, Zenon DEF InExec
  <1>8. \A h, t : InSlot(h, t)' <=> InSlot(h, t) \/ (h = k /\ t \in T)
    BY <1>2, <1>6, Zenon DEF InSlot
  <1>9. \A t : ~InSlot(k, t)
    BY <1>2, Zenon DEF InSlot
  <1> HIDE DEF T
  <1>10. ASSUME NEW t \in Tx
         PROVE  Placed(t)'
    <2>1. Placed(t)
      BY Zenon DEF PlacedInv
    <2>2. CASE t \notin T
      <3>1. t \in unconfirmed'.set <=> t \in unconfirmed.set
        BY <1>4, <2>2, Zenon
      <3>2. \A h : InSlot(h, t)' <=> InSlot(h, t)
        BY <1>8, <2>2, Zenon
      <3> QED BY <1>3, <1>7, <2>1, <3>1, <3>2, Unmoved, Zenon
    <2>3. CASE t \in T
      <3>1. /\ t \in unconfirmed.set /\ t \notin unconfirmed'.set
            /\ \A h \in DOMAIN confirmed : ~InSlot(h, t)
            /\ \A e \in Executors : ~InExec(e, t)
            /\ txs[t] = "full"
        BY <1>4, <2>1, <2>3, Zenon DEF Placed, InPool
      <3>2. \A h \in DOMAIN confirmed' : InSlot(h, t)' <=> h = k
        BY <1>6, <1>8, <2>3, <3>1, Zenon
      <3>3. InPool(t)'
        BY <1>6, <3>2, Zenon DEF InPool
      <3> QED BY <1>3, <1>7, <3>1, <3>2, <3>3, Zenon DEF Placed
    <2> QED BY <2>2, <2>3, Zenon
  <1> QED BY <1>4, <1>10, Zenon DEF PlacedInv

(* What an executor has stolen is in the pool, so it does not panic. *)
LEMMA PlacedFull ==
    ASSUME PlacedInv, TypeOK, NEW e \in Executors, executor[e].pc = "exec"
    PROVE  all_full(executor[e].info.txs)
  <1>1. executor[e].info.txs \in Seq(Tx)
    BY Zenon DEF TypeOK, TypeExecutors, BlockInfo
  <1>2. ASSUME NEW t \in Range(executor[e].info.txs)
        PROVE  txs[t] = "full"
    <2>1. t \in Tx
      BY <1>1 DEF Range
    <2>2. InPool(t)
      BY Zenon DEF InPool, InExec
    <2> QED BY <2>1, <2>2, Zenon DEF PlacedInv, Placed
  <1> QED BY <1>2, Zenon DEF all_full

(* Transactions go from a slot to the executor when it steals, and back when *)
(* it fails: in both states one of the two has them.                         *)
LEMMA PlacedSwap ==
    ASSUME PlacedInv, UNCHANGED <<txs, unconfirmed>>, NEW e \in Executors, NEW h,
           h \in DOMAIN confirmed, DOMAIN confirmed' = DOMAIN confirmed,
           \A g \in DOMAIN confirmed : g # h => confirmed'[g] = confirmed[g],
           \A f \in Executors \ {e}, t \in Tx : ~InExec(f, t) /\ ~InExec(f, t)',
           \A t \in Tx : /\ InSlot(h, t)' <=> InExec(e, t)
                         /\ InExec(e, t)' <=> InSlot(h, t)
    PROVE  PlacedInv'
  <1>1. ASSUME NEW t \in Tx
        PROVE  Placed(t)'
    <2>1. Placed(t)
      BY Zenon DEF PlacedInv
    <2>2. \A g : g # h => (InSlot(g, t)' <=> InSlot(g, t))
      BY Zenon DEF InSlot
    <2>3. /\ InSlot(h, t)' <=> InExec(e, t)
          /\ InExec(e, t)' <=> InSlot(h, t)
          /\ \A f \in Executors \ {e} : ~InExec(f, t) /\ ~InExec(f, t)'
      BY Zenon
    <2>4. InPool(t)' <=> InPool(t)
      BY <2>2, <2>3, Zenon DEF InPool
    <2>5. t \in unconfirmed'.set => /\ \A g \in DOMAIN confirmed' : ~InSlot(g, t)'
                                    /\ \A f \in Executors : ~InExec(f, t)'
      BY <2>1, <2>2, <2>3, Zenon DEF Placed
    <2>6. \A g, k \in DOMAIN confirmed' : InSlot(g, t)' /\ InSlot(k, t)' => g = k
      BY <2>1, <2>2, <2>3, Zenon DEF Placed
    <2>7. \A g \in DOMAIN confirmed', f \in Executors : ~(InSlot(g, t)' /\ InExec(f, t)')
      BY <2>1, <2>2, <2>3, Zenon DEF Placed
    <2> QED BY <2>1, <2>4, <2>5, <2>6, <2>7, Zenon DEF Placed
  <1> QED BY <1>1, Zenon DEF PlacedInv

(* An executor takes the transactions of a slot and, once the block is       *)
(* merged, out of the pool; when the block is not merged it gives them back. *)
LEMMA PlacedExecutor ==
    ASSUME ChainInv, SlotsInv, PlacedInv, NEW e \in Executors, ExecutorStep(e)
    PROVE  PlacedInv'
  <1> DEFINE h == executor[e].height
  <1>1. \A f \in Executors \ {e} : executor[f].pc = "idle" /\ executor'[f].pc = "idle"
    BY OtherExecutors, Zenon
  <1>2. \A f \in Executors \ {e}, t \in Tx : ~InExec(f, t) /\ ~InExec(f, t)'
    BY <1>1, Zenon DEF InExec
  <1>3. /\ executor \in [Executors -> [pc : {"idle", "start", "steal", "exec", "clean",
                                            "next", "done", "dead"},
                                      height : Nat, prev : Hash, info : BlockInfo]]
        /\ \A k \in DOMAIN confirmed : confirmed[k] \in BlockInfo
    BY Zenon DEF ChainInv, TypeOK, TypeExecutors, TypePool
  <1>4. CASE ExecStart(e) \/ ExecNext(e) \/ ExecDone(e)
    <2>1. UNCHANGED pool
      BY <1>4, Zenon DEF ExecStart, ExecNext, ExecDone
    <2>2. executor[e].pc \notin {"exec", "clean"} /\ executor'[e].pc \notin {"exec", "clean"}
      BY <1>3, <1>4 DEF ExecStart, ExecNext, ExecDone, IdleExecutor
    <2>3. \A t \in Tx : ~InExec(e, t) /\ ~InExec(e, t)'
      BY <2>2, Zenon DEF InExec
    <2> QED BY <1>2, <2>1, <2>3, PlacedKept, Zenon
  <1>5. CASE ExecPanic(e)
    BY <1>5, PlacedFull, Zenon DEF ExecPanic, ChainInv
  <1>6. CASE ExecCommit(e)
    <2>1. UNCHANGED pool /\ executor[e].pc = "exec"
      BY <1>6, Zenon DEF ExecCommit
    <2>2. executor'[e].pc = "clean" /\ executor'[e].info = executor[e].info
      BY <1>3, <1>6, Zenon DEF ExecCommit
    <2>3. \A t \in Tx : InExec(e, t)' <=> InExec(e, t)
      BY <2>1, <2>2, Zenon DEF InExec
    <2> QED BY <1>2, <2>1, <2>3, PlacedKept, Zenon
  <1>7. CASE ExecSteal(e)
    <2>1. executor[e].pc = "steal" /\ UNCHANGED <<txs, unconfirmed>>
      BY <1>7, Zenon DEF ExecSteal
    <2>2. CASE h \in DOMAIN confirmed /\ confirmed[h].known
      <3>1. /\ confirmed' = [confirmed EXCEPT ![h] = busy(confirmed[h])]
            /\ executor' = [executor EXCEPT ![e].pc = "exec", ![e].info = confirmed[h]]
        BY <1>7, <2>2, Zenon DEF ExecSteal, take_slot
      <3>2. busy(confirmed[h]).txs = <<>>
        BY <1>3, <2>2, Zenon DEF busy, BlockInfo
      <3>3. executor'[e].pc = "exec" /\ executor'[e].info = confirmed[h]
        BY <1>3, <3>1, Zenon
      <3>4. /\ DOMAIN confirmed' = DOMAIN confirmed /\ confirmed'[h].txs = <<>>
            /\ \A g \in DOMAIN confirmed : g # h => confirmed'[g] = confirmed[g]
        BY <2>2, <3>1, <3>2, Zenon
      <3>5. \A t \in Tx : ~InExec(e, t) /\ (InExec(e, t)' <=> InSlot(h, t))
        BY <2>1, <2>2, <3>3, Zenon DEF InExec, InSlot
      <3>6. \A t : t \notin Range(confirmed'[h].txs)
        BY <3>4 DEF Range
      <3>7. PICK k : k = h
        BY Zenon
      <3>8. \A t \in Tx : ~InSlot(k, t)'
        BY <3>6, <3>7, Zenon DEF InSlot
      <3> HIDE DEF h
      <3> QED BY <1>2, <2>1, <2>2, <3>4, <3>5, <3>7, <3>8, PlacedSwap, Zenon
    <2>3. CASE ~(h \in DOMAIN confirmed /\ confirmed[h].known)
      <3>1. UNCHANGED confirmed /\ executor' = [executor EXCEPT ![e].pc = "done"]
        BY <1>7, <2>3, Zenon DEF ExecSteal
      <3>2. executor'[e].pc = "done"
        BY <1>3, <3>1, Zenon
      <3>3. \A t \in Tx : ~InExec(e, t) /\ ~InExec(e, t)'
        BY <2>1, <3>2, Zenon DEF InExec
      <3> QED BY <1>2, <2>1, <3>1, <3>3, PlacedKept, Zenon DEF pool
    <2> QED BY <2>2, <2>3, Zenon
  <1>8. ASSUME executor[e].pc \in {"exec", "clean"}
        PROVE  h \in DOMAIN confirmed /\ \A t : ~InSlot(h, t)
    <2>1. h \in DOMAIN confirmed /\ confirmed[h].txs = <<>>
      BY <1>8, Zenon DEF SlotsInv, SlotKept
    <2> QED BY <2>1 DEF InSlot, Range
  <1>9. CASE ExecFail(e)
    <2>1. /\ UNCHANGED <<txs, unconfirmed>> /\ executor[e].pc = "exec"
          /\ confirmed' = Insert(confirmed, h, executor[e].info)
          /\ executor' = [executor EXCEPT ![e].pc = "done"]
      BY <1>9, Zenon DEF ExecFail, put_back
    <2>2. executor'[e].pc = "done"
      BY <1>3, <2>1, Zenon
    <2>3. /\ h \in DOMAIN confirmed /\ DOMAIN confirmed' = DOMAIN confirmed
          /\ confirmed'[h] = executor[e].info
          /\ \A g \in DOMAIN confirmed : g # h => confirmed'[g] = confirmed[g]
      BY <1>8, <2>1, Zenon DEF Insert
    <2>4. PICK k : k = h
      BY Zenon
    <2>5. \A t \in Tx : InSlot(k, t)' <=> InExec(e, t)
      BY <2>1, <2>3, <2>4, Zenon DEF InSlot, InExec
    <2>6. \A t \in Tx : ~InExec(e, t)' /\ ~InSlot(k, t)
      BY <1>8, <2>1, <2>2, <2>4, Zenon DEF InExec
    <2> HIDE DEF h
    <2> QED BY <1>2, <2>1, <2>3, <2>4, <2>5, <2>6, PlacedSwap, Zenon
  <1>10. CASE ExecClean(e)
    <2> DEFINE T == Range(executor[e].info.txs)
    <2>1. /\ executor[e].pc = "clean" /\ UNCHANGED unconfirmed
          /\ confirmed' = Delete(confirmed, h)
          /\ txs' = [t \in Tx |-> IF t \in T THEN "absent" ELSE txs[t]]
          /\ executor' = [executor EXCEPT ![e] = advanced(executor[e])]
      BY <1>10, Zenon DEF ExecClean
    <2>2. executor'[e].pc = "next"
      BY <1>3, <2>1, Zenon DEF advanced
    <2>3. \A t : ~InSlot(h, t)
      BY <1>8, <2>1, Zenon
    <2>4. \A g, t : InSlot(g, t)' <=> InSlot(g, t)
      BY <2>1, <2>3, Zenon DEF InSlot, Delete
    <2>5. \A f \in Executors, t \in Tx : ~InExec(f, t)'
      BY <1>2, <2>2, Zenon DEF InExec
    <2>6. \A t \in Tx : InExec(e, t) <=> t \in T
      BY <2>1, Zenon DEF InExec
    <2> HIDE DEF h, T
    <2>7. ASSUME NEW t \in Tx
          PROVE  Placed(t)'
      <3>1. Placed(t)
        BY Zenon DEF PlacedInv
      <3>2. CASE t \notin T
        <4>1. txs'[t] = txs[t] /\ \A f \in Executors : InExec(f, t)' <=> InExec(f, t)
          BY <1>2, <2>1, <2>5, <2>6, <3>2, Zenon
        <4> QED BY <2>1, <2>4, <3>1, <4>1, Unmoved, Zenon
      <3>3. CASE t \in T
        <4>1. txs'[t] = "absent" /\ t \notin unconfirmed'.set
              /\ \A g \in DOMAIN confirmed : ~InSlot(g, t)
          BY <2>1, <2>6, <3>1, <3>3, Zenon DEF Placed
        <4>2. \A g \in DOMAIN confirmed' : ~InSlot(g, t)'
          BY <2>4, <4>1, Zenon DEF InSlot
        <4> QED BY <2>5, <4>1, <4>2, Zenon DEF Placed, InPool
      <3> QED BY <3>2, <3>3, Zenon
    <2> QED BY <2>1, <2>7, Zenon DEF PlacedInv
  <1> QED BY <1>4, <1>5, <1>6, <1>7, <1>9, <1>10, Zenon DEF ExecutorStep

(* The queue that a node starts with holds what was put in the pool. *)
LEMMA PlacedFresh ==
    ASSUME NEW ts \in Seq(Tx), IsInjective(ts)
    PROVE  Consistent([fifo |-> ts, set |-> Range(ts)])
  BY Zenon DEF Consistent

(* A node starts, or starts again, with an empty pool, or with the bootstrap *)
(* transactions in the queue.                                                *)
LEMMA PlacedInit == Init => PlacedInv
  <1> SUFFICES ASSUME Init
               PROVE  PlacedInv
    BY Zenon
  <1>1. /\ txs = [t \in Tx |-> IF t \in Range(Bootstrap) THEN "full" ELSE "absent"]
        /\ unconfirmed = [fifo |-> Bootstrap, set |-> Range(Bootstrap)]
        /\ DOMAIN confirmed = {}
        /\ \A e \in Executors : executor[e].pc = "idle"
    <2>1. IdleExecutor.pc = "idle" /\ DOMAIN <<>> = {}
      BY DEF IdleExecutor
    <2>2. /\ \A e \in Executors : executor[e] = IdleExecutor
          /\ confirmed = <<>> /\ put_txs(Bootstrap)
      BY Zenon DEF Init, put_txs
    <2> QED BY <2>1, <2>2, Zenon DEF put_txs
  <1>2. Consistent(unconfirmed)
    BY <1>1, PlacedFresh, NodeAssumption, Zenon
  <1>3. \A t \in Tx : Placed(t)
    BY <1>1, Zenon DEF Placed, InPool, InExec
  <1> QED BY <1>2, <1>3, Zenon DEF PlacedInv

(* So does one that is killed: what was in its pool is gone. *)
LEMMA PlacedCrash ==
    ASSUME Crash
    PROVE  PlacedInv'
  <1> DEFINE ts == IF chain = <<>> THEN Bootstrap ELSE <<>>
  <1>1. ts \in Seq(Tx) /\ IsInjective(ts)
    BY NodeAssumption DEF IsInjective
  <1>2. /\ txs' = [t \in Tx |-> IF t \in Range(ts) THEN "full" ELSE "absent"]
        /\ unconfirmed' = [fifo |-> ts, set |-> Range(ts)]
    <2>1. CASE chain = <<>>
      BY <2>1, Zenon DEF Crash
    <2>2. CASE chain # <<>>
      <3>1. Range(<<>>) = {}
        BY DEF Range
      <3> QED BY <2>2, <3>1, Zenon DEF Crash, emptyQueue
    <2> QED BY <2>1, <2>2, Zenon
  <1>3. confirmed' = <<>> /\ executor' = [e \in Executors |-> IdleExecutor]
    BY Zenon DEF Crash
  <1>4. DOMAIN confirmed' = {} /\ \A e \in Executors : executor'[e].pc = "idle"
    BY <1>3 DEF IdleExecutor
  <1> HIDE DEF ts
  <1>5. Consistent(unconfirmed)'
    BY <1>1, <1>2, PlacedFresh, Zenon
  <1>6. ASSUME NEW t \in Tx
        PROVE  Placed(t)'
    BY <1>2, <1>4, Zenon DEF Placed, InPool, InExec
  <1> QED BY <1>5, <1>6, Zenon DEF PlacedInv

(* Every step of a node that receives no blocks keeps its transactions. *)
LEMMA PlacedStep ==
    ASSUME NoRemote, ChainInv, SlotsInv, PlacedInv, [Next]_vars
    PROVE  PlacedInv'
  <1>1. CASE UNCHANGED pool /\ UNCHANGED executor
    <2>1. \A e, t : InExec(e, t)' <=> InExec(e, t)
      BY <1>1, Zenon DEF InExec
    <2> QED BY <1>1, <2>1, PlacedKept, Zenon
  <1>2. CASE \E c \in Handlers : PutPool(c)
    BY <1>2, PlacedPut, Zenon DEF ChainInv
  <1>3. CASE SpawnBuilder
    BY <1>1, <1>3, Zenon DEF SpawnBuilder
  <1>4. CASE SpawnExecutor
    <2>1. UNCHANGED pool
      BY <1>4, Zenon DEF SpawnExecutor
    <2>2. CASE executing
      <3>1. UNCHANGED executor
        BY <1>4, <2>2, Zenon DEF SpawnExecutor, may_spawn
      <3> QED BY <1>1, <2>1, <3>1, Zenon
    <2>3. CASE ~executing
      <3>1. PICK e \in Executors : executor' = [executor EXCEPT ![e].pc = "start"]
        BY <1>4, <2>3, Zenon DEF SpawnExecutor, may_spawn
      <3>2. \A f \in Executors : executor[f].pc = "idle"
        BY <2>3, Zenon DEF ChainInv, OneExecutor
      <3>3. \A f \in Executors : executor'[f].pc \in {"start", "idle"}
        BY <3>1, <3>2, Zenon DEF ChainInv, TypeOK, TypeExecutors
      <3>4. \A f \in Executors, t \in Tx : ~InExec(f, t) /\ ~InExec(f, t)'
        BY <3>2, <3>3, Zenon DEF InExec
      <3> QED BY <2>1, <3>4, PlacedKept, Zenon
    <2> QED BY <2>2, <2>3, Zenon DEF ChainInv, TypeOK, TypeWorker
  <1>5. ASSUME NEW b \in Builders, BuilderStep(b)
        PROVE  PlacedInv'
    <2>1. CASE BuildFill(b)
      BY <2>1, PlacedFill, Zenon
    <2>2. CASE ~BuildFill(b)
      <3>1. UNCHANGED pool /\ UNCHANGED executor
        BY <1>5, <2>2, Zenon DEF BuilderStep, BuildStart, BuildCount, BuildRecount, BuildDone
      <3> QED BY <1>1, <3>1, Zenon
    <2> QED BY <2>1, <2>2, Zenon
  <1>6. CASE \E e \in Executors : ExecutorStep(e)
    BY <1>6, PlacedExecutor, Zenon
  <1>7. CASE Crash
    BY <1>7, PlacedCrash, Zenon
  <1> QED BY <1>1, <1>2, <1>3, <1>4, <1>5, <1>6, <1>7, SoloSteps, Zenon DEF ChainInv

SoloInv == ChainInv /\ SlotsInv /\ PlacedInv

(* SoloInv is an inductive invariant of a node that receives no blocks. *)
THEOREM SoloInvariant == NoRemote => (Spec => []SoloInv)
  <1>1. Init => SoloInv
    BY ChainInit, SlotsInit, PlacedInit, Zenon DEF SoloInv
  <1>2. ASSUME NoRemote
        PROVE  SoloInv /\ [Next]_vars => SoloInv'
    <2> SUFFICES ASSUME SoloInv, [Next]_vars
                 PROVE  SoloInv'
      BY Zenon
    <2>1. ChainInv'
      BY ChainStep, Zenon DEF SoloInv
    <2>2. SlotsInv'
      BY <1>2, <2>1, SlotsStep, Zenon DEF SoloInv
    <2>3. PlacedInv'
      BY <1>2, PlacedStep, Zenon DEF SoloInv
    <2> QED BY <2>1, <2>2, <2>3, Zenon DEF SoloInv
  <1>3. ASSUME NoRemote
        PROVE  Spec => []SoloInv
    BY <1>1, <1>2, <1>3, PTL DEF Spec
  <1> QED BY <1>3, Zenon

(* In a node that receives no blocks the slots follow the chain without a  *)
(* gap, and a builder fills the one after the last, whatever its tasks do. *)
THEOREM SlotsAlwaysContiguous == NoRemote => (Spec => []SlotsContiguous)
  <1>1. SoloInv => SlotsContiguous
    BY Zenon DEF SoloInv, SlotsInv
  <1>2. ASSUME NoRemote
        PROVE  Spec => []SlotsContiguous
    <2>1. Spec => []SoloInv
      BY <1>2, SoloInvariant, Zenon
    <2> QED BY <1>1, <2>1, PTL
  <1> QED BY <1>2, Zenon

(* In a node that receives no blocks a transaction of the pool waits in one *)
(* place and in no other, however its tasks interleave and fail.            *)
THEOREM TxAlwaysAccounted == NoRemote => (Spec => []TxAccounted)
  <1>1. SoloInv => TxAccounted
    BY PlacedIsAccounted, Zenon DEF SoloInv, PlacedInv, ChainInv, TxAccounted
  <1>2. ASSUME NoRemote
        PROVE  Spec => []TxAccounted
    <2>1. Spec => []SoloInv
      BY <1>2, SoloInvariant, Zenon
    <2> QED BY <1>1, <2>1, PTL
  <1> QED BY <1>2, Zenon

(* Without blocks from other nodes no executor ever misses a transaction, so *)
(* none panics: the panic of exec_transactions takes a list of transactions  *)
(* that was received.                                                        *)
THEOREM NeverPanics == NoRemote => (Spec => []NoPanic)
  <1>1. Init => NoPanic
    BY DEF Init, IdleExecutor, NoPanic
  <1>2. SoloInv /\ NoPanic /\ [Next]_vars => NoPanic'
    <2> SUFFICES ASSUME SoloInv, NoPanic, [Next]_vars
                 PROVE  NoPanic'
      BY Zenon
    <2>0. executor \in [Executors -> [pc : {"idle", "start", "steal", "exec", "clean",
                                           "next", "done", "dead"},
                                     height : Nat, prev : Hash, info : BlockInfo]]
      BY Zenon DEF SoloInv, ChainInv, TypeOK, TypeExecutors
    <2>1. CASE UNCHANGED executor
      BY <2>1, Zenon DEF NoPanic
    <2>2. CASE SpawnExecutor
      <3>1. \A f \in Executors : executor'[f] = executor[f] \/ executor'[f].pc = "start"
        BY <2>0, <2>2, Zenon DEF SpawnExecutor
      <3> QED BY <3>1, Zenon DEF NoPanic
    <2>3. ASSUME NEW e \in Executors, ExecutorStep(e)
          PROVE  NoPanic'
      <3>1. ~ExecPanic(e)
        BY PlacedFull, Zenon DEF ExecPanic, SoloInv, ChainInv
      <3>2. \A f \in Executors : executor'[f] = executor[f] \/ executor'[f].pc # "dead"
        <4>1. CASE ExecSteal(e) \/ ExecFail(e) \/ ExecDone(e)
          BY <2>0, <4>1 DEF ExecSteal, ExecFail, ExecDone, IdleExecutor
        <4>2. CASE ExecStart(e) \/ ExecCommit(e) \/ ExecNext(e)
          BY <2>0, <4>2 DEF ExecStart, ExecCommit, ExecNext
        <4>3. CASE ExecClean(e)
          BY <2>0, <4>3, Zenon DEF ExecClean, advanced
        <4> QED BY <2>3, <3>1, <4>1, <4>2, <4>3, Zenon DEF ExecutorStep
      <3> QED BY <3>2, Zenon DEF NoPanic
    <2>4. CASE Crash
      <3>1. executor' = [e \in Executors |-> IdleExecutor]
        BY <2>4, Zenon DEF Crash
      <3> QED BY <3>1, Zenon DEF NoPanic, IdleExecutor
    <2>5. CASE UNCHANGED vars
      BY <2>1, <2>5, Zenon DEF vars
    <2> QED BY <2>1, <2>2, <2>3, <2>4, <2>5, OtherSteps, Zenon DEF Next, WorkerStep
  <1>3. ASSUME NoRemote
        PROVE  Spec => []NoPanic
    <2>1. Spec => []SoloInv
      BY <1>3, SoloInvariant, Zenon
    <2> QED BY <1>1, <1>2, <2>1, PTL DEF Spec
  <1> QED BY <1>3, Zenon

(***************************************************************************)
(* The builder counts the queue and then fills blocks until the count is   *)
(* used up.  Nobody else takes from the queue of such a node, so what it   *)
(* counted is still there and no block is empty.                           *)
(***************************************************************************)
AtWork(e) == executor[e].pc \in {"exec", "clean"}
CountOk == \A b \in Builders : builder[b].pc = "fill" => builder[b].count <= len(unconfirmed)
SlotsFilled ==
    /\ \A h \in DOMAIN confirmed : confirmed[h].txs = <<>> =>
           \E e \in Executors : AtWork(e) /\ executor[e].height = h
    /\ \A e \in Executors : AtWork(e) => executor[e].info.txs # <<>>
ChainFilled == \A i \in 1 .. Len(chain) : chain[i].txs # <<>>

FilledInv == CountOk /\ SlotsFilled /\ ChainFilled

(* Only the builder itself shortens the queue while it fills blocks. *)
LEMMA CountStep ==
    ASSUME NoRemote, SoloInv, CountOk, [Next]_vars
    PROVE  CountOk'
  <1>1. /\ unconfirmed \in QueueOf(Tx) /\ Consistent(unconfirmed) /\ Threshold \in Nat
        /\ len(unconfirmed) \in Nat
        /\ builder \in [Builders -> [pc : {"idle", "start", "count", "fill", "done"},
                                     height : Nat, count : Nat]]
    BY NodeAssumption, QueueTypes, Zenon
       DEF SoloInv, PlacedInv, ChainInv, TypeOK, TypePool, TypeBuilders
  <1>2. CASE UNCHANGED <<unconfirmed, builder>>
    BY <1>2, Zenon DEF CountOk
  <1>3. ASSUME NEW c \in Handlers, PutPool(c)
        PROVE  CountOk'
    <2>1. UNCHANGED builder /\ (\/ unconfirmed' = unconfirmed
                                \/ unconfirmed' = push(unconfirmed, handler[c].tx))
      BY <1>3, Zenon DEF PutPool
    <2>2. ASSUME NEW v
          PROVE  len(push(unconfirmed, v)) \in Nat /\ len(unconfirmed) <= len(push(unconfirmed, v))
      <3>1. unconfirmed.fifo \in Seq(Tx)
        BY <1>1, Zenon DEF QueueOf
      <3>2. Len(Append(unconfirmed.fifo, v)) = Len(unconfirmed.fifo) + 1
            /\ Len(unconfirmed.fifo) \in Nat
        BY <3>1
      <3> QED BY <3>2 DEF push, len
    <2>3. len(unconfirmed') \in Nat /\ len(unconfirmed) <= len(unconfirmed')
      BY <1>1, <2>1, <2>2
    <2> QED BY <1>1, <2>1, <2>3 DEF CountOk
  <1>4. CASE SpawnBuilder
    <2>1. UNCHANGED unconfirmed
      BY <1>4, Zenon DEF SpawnBuilder, pool
    <2>2. \A d \in Builders : builder'[d] = builder[d] \/ builder'[d].pc = "start"
      BY <1>1, <1>4, Zenon DEF SpawnBuilder
    <2> QED BY <2>1, <2>2, Zenon DEF CountOk
  <1>5. ASSUME NEW b \in Builders, BuilderStep(b)
        PROVE  CountOk'
    <2>1. CASE BuildFill(b)
      <3> DEFINE m == Len(block_txs)
                 n == remaining(builder[b].count, m)
      <3>1. /\ len(unconfirmed') = len(unconfirmed) - m /\ m \in 0 .. len(unconfirmed)
        <4>1. /\ len(popN(unconfirmed, Len(firstN(unconfirmed, Threshold)))) =
                     len(unconfirmed) - Len(firstN(unconfirmed, Threshold))
              /\ Len(firstN(unconfirmed, Threshold)) \in 0 .. len(unconfirmed)
          BY <1>1, QueueFacts, Zenon
        <4> QED BY <2>1, <4>1, Zenon DEF BuildFill, block_txs
      <3>2. builder' = [builder EXCEPT ![b].height = @ + 1, ![b].count = n]
        BY <2>1, Zenon DEF BuildFill
      <3>3. builder[b].count \in Nat /\ builder[b].count <= len(unconfirmed)
        BY <1>1, <2>1, Zenon DEF BuildFill, CountOk
      <3> HIDE DEF m
      <3>4. n <= len(unconfirmed')
        BY <1>1, <3>1, <3>3 DEF remaining
      <3> HIDE DEF n
      <3>5. builder'[b].count = n
        BY <1>1, <3>2, Zenon
      <3>6. \A d \in Builders \ {b} : builder'[d].pc = "idle"
        <4>1. \A d \in Builders \ {b} : builder'[d] = builder[d]
          BY <1>1, <3>2, Zenon
        <4>2. \A d \in Builders \ {b} : builder[d].pc = "idle"
          BY <2>1, Zenon DEF BuildFill, SoloInv, SlotsInv, OneBuilder
        <4> QED BY <4>1, <4>2, Zenon
      <3> QED BY <3>4, <3>5, <3>6, Zenon DEF CountOk
    <2>2. CASE ~BuildFill(b)
      <3>1. UNCHANGED unconfirmed
        BY <1>5, <2>2, Zenon
          DEF BuilderStep, BuildStart, BuildCount, BuildRecount, BuildDone, pool
      <3>2. /\ \A d \in Builders \ {b} : builder'[d] = builder[d]
            /\ builder'[b].pc = "fill" => builder'[b].count = len(unconfirmed)
        <4>1. CASE BuildRecount(b)
          <5> DEFINE n == len(unconfirmed)
                     to == IF is_last(n) THEN "done" ELSE "fill"
          <5>1. builder' = [builder EXCEPT ![b].pc = to, ![b].count = n]
            BY <4>1, Zenon DEF BuildRecount
          <5> HIDE DEF n, to
          <5>2. \A d \in Builders \ {b} : builder'[d] = builder[d]
            BY <1>1, <5>1, Zenon
          <5>3. builder'[b].count = n
            BY <1>1, <5>1, Zenon
          <5> QED BY <5>2, <5>3, Zenon DEF n
        <4>2. CASE BuildStart(b)
          BY <1>1, <4>2, Zenon DEF BuildStart
        <4>3. CASE BuildCount(b)
          <5> DEFINE n == len(unconfirmed)
          <5>1. builder' = [builder EXCEPT ![b].pc = "fill", ![b].count = n]
            BY <4>3, Zenon DEF BuildCount
          <5> HIDE DEF n
          <5>2. \A d \in Builders \ {b} : builder'[d] = builder[d]
            BY <1>1, <5>1, Zenon
          <5>3. builder'[b].count = n
            BY <1>1, <5>1, Zenon
          <5> QED BY <5>2, <5>3, Zenon DEF n
        <4>4. CASE BuildDone(b)
          BY <1>1, <4>4, Zenon DEF BuildDone, IdleBuilder
        <4> QED BY <1>5, <2>2, <4>1, <4>2, <4>3, <4>4, Zenon DEF BuilderStep
      <3> QED BY <1>1, <3>1, <3>2 DEF CountOk
    <2> QED BY <2>1, <2>2, Zenon
  <1>6. CASE \E e \in Executors : ExecutorStep(e)
    <2>1. UNCHANGED <<unconfirmed, builder>>
      BY <1>6, Zenon DEF ExecutorStep, ExecStart, ExecSteal, ExecPanic, ExecCommit, ExecFail,
                  ExecClean, ExecNext, ExecDone, pool
    <2> QED BY <1>2, <2>1, Zenon
  <1>7. CASE Crash
    <2>1. builder' = [b \in Builders |-> IdleBuilder]
      BY <1>7, Zenon DEF Crash
    <2> QED BY <2>1, Zenon DEF CountOk, IdleBuilder
  <1>8. CASE SpawnExecutor
    BY <1>2, <1>8, Zenon DEF SpawnExecutor, pool
  <1>9. CASE UNCHANGED <<chain, pool, building, builder, executor>>
    BY <1>2, <1>9, Zenon DEF pool
  <1> QED BY <1>3, <1>4, <1>5, <1>6, <1>7, <1>8, <1>9, SoloSteps, Zenon DEF SoloInv, ChainInv

(* A step in which no executor begins or ends its work on a block. *)
LEMMA FilledKept ==
    ASSUME SlotsFilled, UNCHANGED confirmed,
           \A e \in Executors :
               \/ ~AtWork(e) /\ ~AtWork(e)'
               \/ /\ AtWork(e) /\ AtWork(e)' /\ executor'[e].height = executor[e].height
                  /\ executor'[e].info = executor[e].info
    PROVE  SlotsFilled'
  BY ZenonT(60) DEF SlotsFilled

(* The blocks in the slots and with the executor are not empty. *)
LEMMA FilledStep ==
    ASSUME NoRemote, SoloInv, CountOk, SlotsFilled, [Next]_vars
    PROVE  SlotsFilled'
  <1>0. /\ executor \in [Executors -> [pc : {"idle", "start", "steal", "exec", "clean",
                                            "next", "done", "dead"},
                                      height : Nat, prev : Hash, info : BlockInfo]]
        /\ \A k \in DOMAIN confirmed : confirmed[k] \in BlockInfo
    BY Zenon DEF SoloInv, ChainInv, TypeOK, TypeExecutors, TypePool
  <1>1. CASE UNCHANGED <<confirmed, executor>>
    BY <1>1, FilledKept, Zenon DEF AtWork
  <1>2. CASE \E c \in Handlers : PutPool(c)
    BY <1>1, <1>2, Zenon DEF PutPool
  <1>3. CASE SpawnBuilder
    BY <1>1, <1>3, Zenon DEF SpawnBuilder, pool
  <1>4. CASE SpawnExecutor
    <2>1. UNCHANGED confirmed
      BY <1>4, Zenon DEF SpawnExecutor, pool
    <2>2. CASE executing
      <3>1. UNCHANGED executor
        BY <1>4, <2>2, Zenon DEF SpawnExecutor, may_spawn
      <3> QED BY <1>1, <2>1, <3>1, Zenon
    <2>3. CASE ~executing
      <3>1. PICK e \in Executors : executor' = [executor EXCEPT ![e].pc = "start"]
        BY <1>4, <2>3, Zenon DEF SpawnExecutor, may_spawn
      <3>2. \A f \in Executors : executor[f].pc = "idle"
        BY <2>3, Zenon DEF SoloInv, ChainInv, OneExecutor
      <3>3. \A f \in Executors : executor'[f].pc \in {"start", "idle"}
        BY <1>0, <3>1, <3>2, Zenon
      <3>4. \A f \in Executors : ~AtWork(f) /\ ~AtWork(f)'
        BY <3>2, <3>3, Zenon DEF AtWork
      <3> QED BY <2>1, <3>4, FilledKept, Zenon
    <2> QED BY <2>2, <2>3, Zenon DEF SoloInv, ChainInv, TypeOK, TypeWorker
  <1>5. ASSUME NEW b \in Builders, BuilderStep(b)
        PROVE  SlotsFilled'
    <2>1. CASE BuildFill(b)
      <3> DEFINE info == [NoInfo EXCEPT !.known = TRUE, !.txs = block_txs]
                 k == builder[b].height
      <3>1. confirmed' = Insert(confirmed, k, info) /\ UNCHANGED executor
        BY <2>1, Zenon DEF BuildFill
      <3>2. info.txs = block_txs
        BY Zenon DEF NoInfo
      <3>3. block_txs # <<>>
        <4>1. /\ unconfirmed \in QueueOf(Tx) /\ Consistent(unconfirmed)
              /\ Threshold \in Nat /\ Threshold > 0
          <5>1. unconfirmed \in QueueOf(Tx) /\ Consistent(unconfirmed)
            BY Zenon DEF SoloInv, PlacedInv, ChainInv, TypeOK, TypePool
          <5>2. Threshold \in Nat \ {0}
            BY NodeAssumption, Zenon
          <5> QED BY <5>1, <5>2
        <4>2. len(unconfirmed) \in Nat /\ len(unconfirmed) > 0
          <5>1. builder[b].count \in Nat /\ builder[b].count > 0
                /\ builder[b].count <= len(unconfirmed) /\ len(unconfirmed) \in Nat
            BY <2>1, <4>1, QueueTypes, Zenon DEF BuildFill, CountOk, SoloInv, ChainInv, TypeOK,
                                          TypeBuilders
          <5> QED BY <5>1
        <4>3. firstN(unconfirmed, Threshold) # <<>>
          BY <4>1, <4>2, QueueFacts, Zenon
        <4> QED BY <4>3, Zenon DEF block_txs
      <3> HIDE DEF info, k
      <3>4. \A h \in DOMAIN confirmed' : h = k \/ (h \in DOMAIN confirmed
                                                   /\ confirmed'[h] = confirmed[h])
        BY <3>1, Zenon DEF Insert
      <3>5. confirmed'[k].txs # <<>>
        BY <3>1, <3>2, <3>3, Zenon DEF Insert
      <3> QED BY <3>1, <3>4, <3>5, ZenonT(60) DEF SlotsFilled, AtWork
    <2>2. CASE ~BuildFill(b)
      <3>1. UNCHANGED <<confirmed, executor>>
        BY <1>5, <2>2, Zenon
          DEF BuilderStep, BuildStart, BuildCount, BuildRecount, BuildDone, pool
      <3> QED BY <1>1, <3>1, Zenon
    <2> QED BY <2>1, <2>2, Zenon
  <1>6. ASSUME NEW e \in Executors, ExecutorStep(e)
        PROVE  SlotsFilled'
    <2> DEFINE h == executor[e].height
    <2>1. \A f \in Executors \ {e} : ~AtWork(f) /\ ~AtWork(f)'
      BY <1>6, OtherExecutors, Zenon DEF SoloInv, AtWork
    <2>2. CASE ExecStart(e) \/ ExecNext(e) \/ ExecDone(e)
      <3>1. UNCHANGED confirmed
        BY <2>2, Zenon DEF ExecStart, ExecNext, ExecDone, pool
      <3>2. ~AtWork(e) /\ ~AtWork(e)'
        BY <1>0, <2>2 DEF ExecStart, ExecNext, ExecDone, IdleExecutor, AtWork
      <3> QED BY <2>1, <3>1, <3>2, FilledKept, Zenon
    <2>3. CASE ExecPanic(e)
      BY <2>3, PlacedFull, Zenon DEF ExecPanic, SoloInv, ChainInv
    <2>4. CASE ExecCommit(e)
      <3>1. UNCHANGED confirmed /\ executor[e].pc = "exec"
        BY <2>4, Zenon DEF ExecCommit, pool
      <3>2. executor'[e].pc = "clean" /\ executor'[e].height = h
            /\ executor'[e].info = executor[e].info
        BY <1>0, <2>4, Zenon DEF ExecCommit
      <3> QED BY <2>1, <3>1, <3>2, FilledKept, Zenon DEF AtWork
    <2>5. CASE ExecSteal(e)
      <3>1. executor[e].pc = "steal" /\ ~AtWork(e)
        BY <2>5, Zenon DEF ExecSteal, AtWork
      <3>2. \A k \in DOMAIN confirmed : confirmed[k].txs # <<>>
        BY <2>1, <3>1, Zenon DEF SlotsFilled
      <3>3. CASE h \in DOMAIN confirmed /\ confirmed[h].known
        <4>1. /\ confirmed' = [confirmed EXCEPT ![h] = busy(confirmed[h])]
              /\ executor' = [executor EXCEPT ![e].pc = "exec", ![e].info = confirmed[h]]
          BY <2>5, <3>3, Zenon DEF ExecSteal, take_slot
        <4>2. executor'[e].pc = "exec" /\ executor'[e].info = confirmed[h]
              /\ executor'[e].height = h
          BY <1>0, <4>1, Zenon
        <4>3. DOMAIN confirmed' = DOMAIN confirmed
              /\ \A k \in DOMAIN confirmed : k # h => confirmed'[k] = confirmed[k]
          BY <3>3, <4>1, Zenon
        <4>4. AtWork(e)' /\ executor'[e].height = h /\ executor'[e].info.txs # <<>>
          <5>1. AtWork(e)'
            BY <4>2 DEF AtWork
          <5>2. confirmed[h].txs # <<>>
            BY <3>2, <3>3, Zenon
          <5> QED BY <4>2, <5>1, <5>2, Zenon
        <4>5. \A x \in Executors : x # e => executor'[x] = executor[x]
          BY <1>0, <4>1, Zenon
        <4>6. ASSUME NEW k \in DOMAIN confirmed', confirmed'[k].txs = <<>>
              PROVE  \E x \in Executors : AtWork(x)' /\ executor'[x].height = k
          <5>1. k = h
            BY <3>2, <4>3, <4>6, Zenon
          <5> QED BY <4>4, <5>1, Zenon
        <4>7. ASSUME NEW x \in Executors, AtWork(x)'
              PROVE  executor'[x].info.txs # <<>>
          <5>1. CASE x = e
            BY <4>4, <5>1, Zenon
          <5>2. CASE x # e
            BY <2>1, <4>5, <4>7, <5>2, Zenon DEF SlotsFilled, AtWork
          <5> QED BY <5>1, <5>2, Zenon
        <4> QED BY <4>6, <4>7, Zenon DEF SlotsFilled
      <3>4. CASE ~(h \in DOMAIN confirmed /\ confirmed[h].known)
        <4>1. UNCHANGED confirmed /\ executor' = [executor EXCEPT ![e].pc = "done"]
          BY <2>5, <3>4, Zenon DEF ExecSteal
        <4>2. ~AtWork(e)'
          BY <1>0, <4>1, Zenon DEF AtWork
        <4> QED BY <2>1, <3>1, <4>1, <4>2, FilledKept, Zenon
      <3> QED BY <3>3, <3>4, Zenon
    <2>6. CASE ExecFail(e)
      <3>1. /\ executor[e].pc = "exec"
            /\ confirmed' = Insert(confirmed, h, executor[e].info)
            /\ executor' = [executor EXCEPT ![e].pc = "done"]
        BY <2>6, Zenon DEF ExecFail, put_back
      <3>2. ~AtWork(e)' /\ executor[e].info.txs # <<>>
        BY <1>0, <3>1 DEF AtWork, SlotsFilled
      <3>3. /\ confirmed'[h] = executor[e].info
            /\ \A k \in DOMAIN confirmed' : k # h => k \in DOMAIN confirmed
                                                     /\ confirmed'[k] = confirmed[k]
        BY <3>1, Zenon DEF Insert
      <3>4. \A k \in DOMAIN confirmed : k # h => confirmed[k].txs # <<>>
        BY <2>1, Zenon DEF SlotsFilled
      <3> QED BY <2>1, <3>2, <3>3, <3>4, Zenon DEF SlotsFilled
    <2>7. CASE ExecClean(e)
      <3>1. /\ confirmed' = Delete(confirmed, h)
            /\ executor' = [executor EXCEPT ![e] = advanced(executor[e])]
        BY <2>7, Zenon DEF ExecClean
      <3>2. ~AtWork(e)'
        BY <1>0, <3>1, Zenon DEF AtWork, advanced
      <3>3. \A k \in DOMAIN confirmed' : k # h /\ k \in DOMAIN confirmed
                                         /\ confirmed'[k] = confirmed[k]
        BY <3>1, Zenon DEF Delete
      <3>4. \A k \in DOMAIN confirmed : k # h => confirmed[k].txs # <<>>
        BY <2>1, Zenon DEF SlotsFilled
      <3> QED BY <2>1, <3>2, <3>3, <3>4, Zenon DEF SlotsFilled
    <2> QED BY <1>6, <2>2, <2>3, <2>4, <2>5, <2>6, <2>7, Zenon DEF ExecutorStep
  <1>7. CASE Crash
    <2>1. confirmed' = <<>> /\ executor' = [e \in Executors |-> IdleExecutor]
      BY <1>7, Zenon DEF Crash
    <2>2. IdleExecutor.pc = "idle" /\ DOMAIN <<>> = {}
      BY DEF IdleExecutor
    <2>3. \A e \in Executors : executor'[e].pc = "idle"
      BY <2>1, <2>2, Zenon
    <2> QED BY <2>1, <2>2, <2>3, Zenon DEF SlotsFilled, AtWork
  <1>8. CASE UNCHANGED <<chain, pool, building, builder, executor>>
    BY <1>1, <1>8, Zenon DEF pool
  <1> QED BY <1>2, <1>3, <1>4, <1>5, <1>6, <1>7, <1>8, SoloSteps, Zenon DEF SoloInv, ChainInv

(* "Block is created with at least one transaction": so it is in a node that *)
(* receives no blocks, whatever the builder counted and when.                *)
THEOREM BlocksNeverEmpty == NoRemote => (Spec => []BlockNotEmpty)
  <1>1. ASSUME NoRemote, Init
        PROVE  FilledInv
    <2>1. Len(chain) = 0
      BY <1>1, NodeAssumption DEF NoRemote, Init, InitialChain
    <2>2. DOMAIN confirmed = {} /\ \A e \in Executors : executor[e].pc = "idle"
      BY <1>1 DEF Init, put_txs, IdleExecutor
    <2>3. \A b \in Builders : builder[b].pc = "idle"
      BY <1>1, Zenon DEF Init, IdleBuilder
    <2> QED BY <2>1, <2>2, <2>3
            DEF FilledInv, CountOk, SlotsFilled, ChainFilled, AtWork
  <1>2. ASSUME NoRemote
        PROVE  SoloInv /\ FilledInv /\ [Next]_vars => FilledInv'
    <2> SUFFICES ASSUME SoloInv, FilledInv, [Next]_vars
                 PROVE  FilledInv'
      BY Zenon
    <2>1. CountOk' /\ SlotsFilled'
      BY <1>2, CountStep, FilledStep, Zenon DEF FilledInv
    <2>2. ASSUME NEW e \in Executors, ExecCommit(e)
          PROVE  ChainFilled'
      <3> DEFINE b == NewBlock(e)
      <3>1. chain \in Seq(Block) /\ b \in Block /\ chain' = Append(chain, b)
        BY <2>2, NewBlockType, Zenon DEF ExecCommit, SoloInv, ChainInv, TypeOK, TypeChain
      <3>2. b.txs # <<>>
        BY <2>2, Zenon DEF ExecCommit, NewBlock, FilledInv, SlotsFilled, AtWork
      <3> HIDE DEF b
      <3>3. \A i \in 1 .. Len(chain') : i \in 1 .. Len(chain) \/ chain'[i] = b
        BY <3>1
      <3>4. \A i \in 1 .. Len(chain) : chain'[i] = chain[i]
        BY <3>1
      <3> QED BY <3>2, <3>3, <3>4, Zenon DEF FilledInv, ChainFilled
    <2>3. ASSUME UNCHANGED chain
          PROVE  ChainFilled'
      BY <2>3, Zenon DEF FilledInv, ChainFilled
    <2>4. ASSUME NEW e \in Executors, ExecutorStep(e), ~ExecCommit(e)
          PROVE  chain' = chain
      BY <2>4, Zenon DEF ExecutorStep, ExecStart, ExecSteal, ExecPanic, ExecFail, ExecClean,
                  ExecNext, ExecDone
    <2>5. ASSUME SpawnExecutor \/ Crash \/ UNCHANGED vars
          PROVE  chain' = chain
      BY <2>5, Zenon DEF SpawnExecutor, Crash, Reopened, vars
    <2>6. ChainFilled'
      BY <2>2, <2>3, <2>4, <2>5, OtherSteps, Zenon DEF Next, WorkerStep
    <2> QED BY <2>1, <2>6, Zenon DEF FilledInv
  <1>3. FilledInv => BlockNotEmpty
    BY Zenon DEF FilledInv, ChainFilled, BlockNotEmpty
  <1>4. ASSUME NoRemote
        PROVE  Spec => []BlockNotEmpty
    <2>1. Spec => []SoloInv
      BY <1>4, SoloInvariant, Zenon
    <2>2. Init => FilledInv
      BY <1>1, <1>4, Zenon
    <2>3. SoloInv /\ FilledInv /\ [Next]_vars => FilledInv'
      BY <1>2, <1>4, Zenon
    <2> QED BY <1>3, <2>1, <2>2, <2>3, PTL DEF Spec
  <1> QED BY <1>4, Zenon
=============================================================================

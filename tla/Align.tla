------------------------------- MODULE Align -------------------------------
(***************************************************************************)
(* The aligner: the thread that brings a node up to the others.  A round   *)
(* asks everyone for the last block, trusts the peers that have the same   *)
(* one, asks them for the blocks down to its own last one and for their    *)
(* transactions, puts all that in the pool and waits until it is executed. *)
(* The answers come through dispatcher tasks, that read the status of the  *)
(* aligner and send to its bounded channel, blocking their thread while it *)
(* is full; the executor needs a thread too.                               *)
(*                                                                         *)
(* Node has the effect of a round on the pool; here are its messages, with *)
(* those that are lost, late or out of order, and its timeouts.            *)
(***************************************************************************)
EXTENDS Integers, Sequences, FiniteSets, SequencesExt

CONSTANTS
    Peer,           \* the other nodes
    Common,         \* the height up to which all chains agree
    Threads,        \* the number of threads that run the tasks
    ChanMax,        \* the capacity of the channel to the aligner
    MaxAttempts,    \* MAX_ATTEMPTS
    LatestWindow,   \* LATEST_WINDOW
    Plans           \* what happens in one run:
                    \*   height, branch: of the chain of each peer, -1 if empty
                    \*   last: the height of the chain of the node, -1 if empty
                    \*   gossip: blocks on their way that nobody asked for,
                    \*           as the peers that made them
                    \*   spread: the same for transactions, as the heights of
                    \*           their blocks
                    \*   debug: the log has the messages of level debug
                    \*   losses: how many answers are lost
                    \*   early: how many timeouts fire while an answer is on its way
                    \*   reliable: neither happens

ASSUME AlignAssumption ==
    /\ {Threads, ChanMax, MaxAttempts, LatestWindow} \subseteq Nat \ {0}
    /\ \A p \in Plans : /\ \A q \in Peer : p.height[q] >= -1
                        /\ p.last <= Common
                        /\ \A q \in p.gossip : q \in Peer /\ p.height[q] >= 0
                        /\ p.spread \subseteq Nat /\ p.debug \in BOOLEAN
                        /\ {p.losses, p.early} \subseteq Nat
                        /\ p.reliable => p.losses = 0 /\ p.early = 0

VARIABLES
    last,           \* the last block of the node
    aligned,        \* the status: FALSE while the aligner works
    confirmed,      \* the slots of the pool: a block for a height
    txs,            \* the transactions of the pool; each block has its own
    named,          \* those that a slot has named, so that they are not unconfirmed
    chan,           \* the channel to the aligner
    task,           \* the dispatcher tasks, one for each thread at most
    net,            \* the messages on their way to the node
    al,             \* the aligner thread
    plan,           \* what has not happened yet
    rounds          \* history: the rounds that were started

vars == <<last, aligned, confirmed, txs, named, chan, task, net, al, plan, rounds>>

-----------------------------------------------------------------------------
(* Blocks: above the common part they are told apart by their branch. *)
Block(branch, h) == [height |-> h, branch |-> IF h <= Common THEN "main" ELSE branch]
Tip(p) == Block(plan.branch[p], plan.height[p])
NoBlock == [height |-> -1, branch |-> "main"]
Linked(a, b) == b.height = a.height + 1 /\ a = Block(b.branch, a.height)

(* GetBlockResponse and GetTransactionResponse.  The transaction of a block *)
(* is identified with it.  The message itself does not say which round has  *)
(* asked for it: `asked` is history, 0 if none has.                         *)
BlockMsg(b, with_txs, origin, asked) ==
    [type |-> "block", block |-> b, txs |-> with_txs, origin |-> origin, asked |-> asked]
TxMsg(b, origin, asked) ==
    [type |-> "tx", block |-> b, txs |-> FALSE, origin |-> origin, asked |-> asked]
Among(s, m) == \E n \in Range(s) : [n EXCEPT !.asked = m.asked] = m

(* The round that asks: Wake begins the next one. *)
round == IF al.pc = "sleep" THEN rounds + 1 ELSE rounds

(* The answer of a peer to a request for its block at a height, -1 being    *)
(* u64::MAX, and for a transaction.                                         *)
BlockOf(p, h, with_txs) ==
    {BlockMsg(Block(plan.branch[p], i), with_txs, p, round) :
        i \in {IF h = -1 THEN plan.height[p] ELSE h} \cap 0 .. plan.height[p]}
TxOf(p, b) ==
    {TxMsg(c, p, round) : c \in {b} \cap {Block(plan.branch[p], i) : i \in 0 .. plan.height[p]}}

(* Answers are on their way, unless one is lost. *)
Sent(answers) ==
    \/ net' = net \cup answers /\ UNCHANGED plan
    \/ /\ plan.losses > 0 /\ answers # {}
       /\ \E m \in answers : net' = net \cup (answers \ {m})
       /\ plan' = [plan EXCEPT !.losses = @ - 1]

Idle == [pc |-> "idle"]
Asleep == [pc |-> "sleep", got |-> <<>>, trusted |-> <<>>, max |-> 0, missing |-> <<>>,
           unexpected |-> <<>>, want |-> <<>>, attempt |-> 0, peer |-> "none", local |-> 0]

Init ==
    /\ plan \in Plans
    /\ last = IF plan.last = -1 THEN NoBlock ELSE Block("main", plan.last)
    /\ aligned = TRUE /\ confirmed = {} /\ txs = {} /\ named = {} /\ chan = <<>>
    /\ task = [k \in 1 .. Threads |-> Idle]
    /\ net = {BlockMsg(Tip(p), TRUE, "none", 0) : p \in plan.gossip}
               \cup {TxMsg(Block("main", h), "none", 0) : h \in plan.spread}
    /\ al = Asleep /\ rounds = 0

-----------------------------------------------------------------------------
(* A block goes to the slot of its height, whatever is there. *)
Placed(slots, b) == {c \in slots : c.height # b.height} \cup {b}

-----------------------------------------------------------------------------
(* The dispatcher tasks. *)
Room == Len(chan) < ChanMax

Stored(b) == b.height <= last.height /\ b = Block(last.branch, b.height)

(* A message arrives, and a free thread takes it.  A transaction is looked  *)
(* up in the database, a block is compared with the last one.               *)
Receive(k) ==
    /\ task[k] = Idle
    /\ \E m \in net :
         /\ net' = net \ {m}
         /\ task' = [task EXCEPT ![k] =
                       IF m.type = "tx"
                       THEN [pc |-> IF Stored(m.block) THEN "ack" ELSE "put", msg |-> m]
                       ELSE [pc |-> "check", msg |-> m, start |-> last.height + 1]]
    /\ UNCHANGED <<last, aligned, confirmed, txs, named, chan, al, plan, rounds>>

(* put_transaction_internal: what is not stored goes to the pool. *)
PutTx(k) ==
    /\ task[k].pc = "put"
    /\ txs' = txs \cup {task[k].msg.block}
    /\ task' = [task EXCEPT ![k].pc = "ack"]
    /\ UNCHANGED <<last, aligned, confirmed, named, chan, net, al, plan, rounds>>

(* get_transaction_res_handler: the aligner, if it works, is told. *)
AckTx(k) ==
    /\ task[k].pc = "ack"
    /\ task' = [task EXCEPT ![k] = IF aligned THEN Idle ELSE [@ EXCEPT !.pc = "send"]]
    /\ UNCHANGED <<last, aligned, confirmed, txs, named, chan, net, al, plan, rounds>>

(* get_block_res_handler: a block that passes for the next one is put in    *)
(* the pool when the node is aligned, a later one is for the aligner.       *)
CheckBlock(k) ==
    /\ task[k].pc = "check"
    /\ LET b == task[k].msg.block  start == task[k].start IN
       task' = [task EXCEPT ![k] =
                  IF start + 1 = b.height /\ aligned THEN [@ EXCEPT !.pc = "insert"]
                  ELSE IF start <= b.height THEN [@ EXCEPT !.pc = "align"] ELSE Idle]
    /\ UNCHANGED <<last, aligned, confirmed, txs, named, chan, net, al, plan, rounds>>

InsertBlock(k) ==
    /\ task[k].pc = "insert"
    /\ confirmed' = Placed(confirmed, task[k].msg.block)
    /\ named' = named \cup {task[k].msg.block}
    /\ task' = [task EXCEPT ![k] = Idle]
    /\ UNCHANGED <<last, aligned, txs, chan, net, al, plan, rounds>>

(* It wakes the aligner up or, when it is at work already, sends to it.     *)
(* The status is read and written under locks of their own.                 *)
LaunchOrSend(k) ==
    /\ task[k].pc = "align"
    /\ task' = [task EXCEPT ![k].pc = IF aligned THEN "launch" ELSE "send"]
    /\ UNCHANGED <<last, aligned, confirmed, txs, named, chan, net, al, plan, rounds>>

Launch(k) ==
    /\ task[k].pc = "launch"
    /\ aligned' = FALSE
    /\ task' = [task EXCEPT ![k] = Idle]
    /\ UNCHANGED <<last, confirmed, txs, named, chan, net, al, plan, rounds>>

Send(k) ==
    /\ task[k].pc = "send" /\ Room
    /\ chan' = Append(chan, task[k].msg)
    /\ task' = [task EXCEPT ![k] = Idle]
    /\ UNCHANGED <<last, aligned, confirmed, txs, named, net, al, plan, rounds>>

(* The executor, on a free thread: the block after the last one, when its   *)
(* transaction is there; one that does not follow the last block fails, and *)
(* stays where it is.                                                       *)
Execute ==
    /\ \E k \in 1 .. Threads : task[k] = Idle
    /\ \E b \in confirmed :
         /\ Linked(last, b) /\ b \in txs
         /\ last' = b
         /\ confirmed' = confirmed \ {b} /\ txs' = txs \ {b} /\ named' = named \ {b}
    /\ UNCHANGED <<aligned, chan, task, net, al, plan, rounds>>

-----------------------------------------------------------------------------
(* The aligner. *)
rest == <<last, confirmed, txs, named, task>>

(* The status becomes TRUE and the round ends; the next one has an aligner  *)
(* of its own, and the same channel.                                        *)
reset == aligned' = TRUE /\ al' = Asleep

(* Nothing more would arrive. *)
Quiet == net = {} /\ chan = <<>> /\ \A k \in 1 .. Threads : task[k] = Idle

(* Time runs out: when nothing is on its way, or before that. *)
TimeOut(answers) ==
    \/ Quiet /\ Sent(answers)
    \/ /\ ~Quiet /\ plan.early > 0
       /\ plan' = [plan EXCEPT !.early = @ - 1] /\ net' = net \cup answers

(* A round begins with a request to everyone. *)
Wake ==
    /\ al.pc = "sleep" /\ ~aligned
    /\ al' = [al EXCEPT !.pc = "collect"]
    /\ rounds' = rounds + 1
    /\ Sent(UNION {BlockOf(p, -1, FALSE) : p \in Peer})
    /\ UNCHANGED <<aligned, chan, rest>>

(* find_trusted_peers: what is not an answer to it is dropped. *)
Collect ==
    /\ al.pc = "collect" /\ chan # <<>>
    /\ chan' = Tail(chan)
    /\ LET m == Head(chan) IN
       al' = IF m.type = "block" /\ ~m.txs /\ m.origin # "none" /\ ~Among(al.got, m)
             THEN [al EXCEPT !.got = Append(@, m)] ELSE al
    /\ UNCHANGED <<aligned, net, plan, rounds, rest>>

(* The blocks that filter_peers may take for the most common one: of those  *)
(* that occur least the highest, and of two of them the one that occurs     *)
(* more often.                                                              *)
Occurrences(got, b) == Cardinality({i \in DOMAIN got : got[i].block = b})
\* mutant: the blocks are sorted by height the other way round
most_common_blocks_lowest(got) ==
    LET blocks == {m.block : m \in Range(got)}
    IN  {b \in blocks : \A c \in blocks : b.height <= c.height}
most_common_blocks(got) ==
    LET blocks == {m.block : m \in Range(got)}
        windows == {w \in SUBSET blocks :
                      /\ Cardinality(w) = IF Cardinality(blocks) > LatestWindow
                                          THEN LatestWindow ELSE Cardinality(blocks)
                      /\ \A b \in w, c \in blocks \ w : Occurrences(got, b) <= Occurrences(got, c)}
    IN  UNION {{b \in w : \A c \in w :
                  \/ b.height > c.height
                  \/ b.height = c.height /\ Occurrences(got, b) >= Occurrences(got, c)} :
                w \in windows}

(* The end of the collection: the peers with that block are trusted if it   *)
(* is above the last one, and one of them is asked for its last block.  The *)
(* limit is the height of the first answer.                                 *)
FilterPeers ==
    /\ al.pc = "collect"
    /\ IF al.got = <<>> \/ last = NoBlock
       THEN TimeOut({}) /\ reset
       ELSE \E b \in most_common_blocks(al.got) :
              LET trusts(m) == m.block = b /\ b.height >= last.height + 1
                  trusted == SelectSeq(al.got, trusts)
              IN  IF trusted = <<>> THEN TimeOut({}) /\ reset
                  ELSE \E m \in Range(trusted) :
                         /\ TimeOut(BlockOf(m.origin, -1, TRUE))
                         /\ al' = [al EXCEPT !.pc = "local", !.trusted = trusted,
                                             !.max = al.got[1].block.height,
                                             !.peer = m.origin]
                         /\ UNCHANGED aligned
    /\ UNCHANGED <<chan, rounds, rest>>

(* The last block is read once more, for as long as blocks are collected. *)
LoadLast ==
    /\ al.pc = "local"
    /\ al' = [al EXCEPT !.pc = "blocks", !.local = last.height]
    /\ UNCHANGED <<aligned, chan, net, plan, rounds, rest>>

Trusted == {m.origin : m \in Range(al.trusted)}

\* mutant: one block above the first that is missing
gathered_above(b) == b.height <= al.local + 2
gathered(b) == b.height <= al.local + 1

(* try_to_retrieve_a_block: a block above the limit is kept apart, once;    *)
(* any other is one of those that are missing, and the one before it is     *)
(* asked for, until the one after the last block is there.  A block that    *)
(* nobody asked for is taken like an answer.                                *)
RetrieveBlock ==
    /\ al.pc = "blocks" /\ chan # <<>>
    /\ chan' = Tail(chan)
    /\ LET m == Head(chan)
           wanted == [al EXCEPT !.missing = Append(@, m), !.attempt = 0,
                                !.want = IF m.block \in txs \ named THEN @
                                         ELSE Append(@, m.block)]
       IN  IF m.type # "block" \/ ~m.txs THEN UNCHANGED <<al, net, plan>>
           ELSE IF m.block.height > al.max /\ ~Among(al.unexpected, m)
           THEN al' = [al EXCEPT !.unexpected = Append(@, m)] /\ UNCHANGED <<net, plan>>
           ELSE IF gathered(m.block)
           THEN al' = [wanted EXCEPT !.pc = "ask_tx"] /\ UNCHANGED <<net, plan>>
           ELSE /\ al' = wanted
                /\ \E p \in Trusted : Sent(BlockOf(p, m.block.height - 1, TRUE))
    /\ UNCHANGED <<aligned, rounds, rest>>

(* The first request is made again, to any of the peers; after the last     *)
(* attempt the round ends.                                                  *)
BlockTimeOut ==
    /\ al.pc = "blocks"
    /\ IF al.attempt + 1 < MaxAttempts
       THEN /\ al' = [al EXCEPT !.attempt = @ + 1]
            /\ \E p \in Trusted : TimeOut(BlockOf(p, -1, TRUE))
            /\ UNCHANGED aligned
       ELSE TimeOut({}) /\ reset
    /\ UNCHANGED <<chan, rounds, rest>>

(* collect_missing_txs: one transaction after the other.  The message that  *)
(* logs the answer unwraps its origin: a transaction that comes by gossip   *)
(* has none, and the thread of the aligner panics.                          *)
AskTx ==
    /\ al.pc = "ask_tx"
    /\ IF al.want = <<>> THEN al' = [al EXCEPT !.pc = "update"] /\ UNCHANGED <<net, plan>>
       ELSE al' = [al EXCEPT !.pc = "txs"] /\ Sent(TxOf(al.peer, Head(al.want)))
    /\ UNCHANGED <<aligned, chan, rounds, rest>>

CollectTx ==
    /\ al.pc = "txs" /\ chan # <<>>
    /\ chan' = Tail(chan)
    /\ LET m == Head(chan) IN
       IF m.type = "tx" /\ m.block = Head(al.want) /\ m.origin = "none" /\ plan.debug
       THEN al' = [al EXCEPT !.pc = "panic"]
       ELSE IF m.type = "tx" /\ m.block = Head(al.want)
       THEN \E p \in Trusted :
              al' = [al EXCEPT !.want = Tail(@), !.attempt = 0, !.peer = p, !.pc = "ask_tx"]
       ELSE al' = IF m.type = "block" /\ m.txs /\ m.block.height > al.max
                  THEN [al EXCEPT !.unexpected = Append(@, m)] ELSE al
    /\ UNCHANGED <<aligned, net, plan, rounds, rest>>

TxTimeOut ==
    /\ al.pc = "txs"
    /\ TimeOut({})
    /\ IF al.attempt + 1 < MaxAttempts
       THEN /\ \E p \in Trusted :
                 al' = [al EXCEPT !.attempt = @ + 1, !.peer = p, !.pc = "ask_tx"]
            /\ UNCHANGED aligned
       ELSE reset
    /\ UNCHANGED <<chan, rounds, rest>>

(* update_pool: the slots of the missing blocks, the last one first, and    *)
(* of the unexpected ones that go on from the trusted block, the first of   *)
(* each height.                                                             *)
Target == al.trusted[1].block.height
unexpected_from(h) ==
    LET heights == {m.block.height : m \in Range(al.unexpected)}
        reached == {i \in heights : i >= h /\ h .. i \subseteq heights}
        first(i) == SelectInSeq(al.unexpected, LAMBDA m : m.block.height = i)
    IN  {al.unexpected[first(i)].block : i \in reached}

UpdatePool ==
    /\ al.pc = "update"
    /\ LET missing == FoldRight(LAMBDA m, slots : Placed(slots, m.block), al.missing, confirmed)
           above == unexpected_from(Target + 1)
       IN  /\ confirmed' = above \cup {b \in missing : \A c \in above : b.height # c.height}
           /\ named' = named \cup {m.block : m \in Range(al.missing)} \cup above
    /\ al' = [al EXCEPT !.pc = "wait"]
    /\ UNCHANGED <<last, aligned, txs, chan, task, net, plan, rounds>>

(* The loop that waits until the blocks are executed; the channel is not    *)
(* read meanwhile.                                                          *)
\* mutant: for a block more
executed_beyond == last.height > Target
executed == last.height >= Target
WaitExecuted ==
    /\ al.pc = "wait" /\ executed
    /\ reset
    /\ UNCHANGED <<chan, net, plan, rounds, rest>>

Aligner ==
    \/ Wake \/ Collect \/ FilterPeers \/ LoadLast \/ RetrieveBlock \/ BlockTimeOut \/ AskTx
    \/ CollectTx \/ TxTimeOut \/ UpdatePool \/ WaitExecuted
Dispatch(k) == Receive(k) \/ PutTx(k) \/ AckTx(k) \/ CheckBlock(k) \/ InsertBlock(k)
               \/ LaunchOrSend(k) \/ Launch(k) \/ Send(k)

Next == Aligner \/ Execute \/ \E k \in 1 .. Threads : Dispatch(k)
Spec == Init /\ [][Next]_vars

(* The aligner has a thread of its own, the tasks and the executor are      *)
(* scheduled on theirs.                                                     *)
FairSpec ==
    /\ Spec /\ WF_vars(Aligner) /\ WF_vars(Execute)
    /\ \A k \in 1 .. Threads : WF_vars(Dispatch(k))

-----------------------------------------------------------------------------
(* The state has its type; the channel is bounded, and so are the attempts. *)
TypeOK ==
    /\ Len(chan) <= ChanMax /\ al.attempt < MaxAttempts
    /\ \A k \in 1 .. Threads : task[k].pc \in
                                      {"idle", "put", "ack", "check", "insert", "align", "launch", "send"}
    /\ al.pc \in {"sleep", "collect", "local", "blocks", "ask_tx", "txs", "update", "wait", "panic"}
    /\ al.pc # "sleep" => ~aligned

(* What a round that does not end is waiting for: a block that is not in    *)
(* its slot, without its transaction or not linked to the one before;       *)
(* a thread for the executor; or nothing, when the aligner has panicked.    *)
Gap ==
    al.pc = "wait" /\ \E h \in last.height + 1 .. Target :
        ~\E b \in confirmed :
            b.height = h /\ b \in txs /\ \E a \in confirmed \cup {last} : Linked(a, b)
Clogged == al.pc = "wait" /\ ~executed /\ ~Room /\ \A k \in 1 .. Threads : task[k].pc = "send"
Panicked == al.pc = "panic"

(* When the aligner waits until the blocks are executed, without reading    *)
(* its channel, each of them is in its slot with its transaction, or a      *)
(* block that it took for one it had asked for was not: it was gossip, or   *)
(* the late answer to an earlier round.                                     *)
WaitIsNotInVain == Gap => \E m \in Range(al.missing) : m.asked # rounds

(* A round ends, though answers are lost or late, for a request is made     *)
(* MAX_ATTEMPTS times at most; unless the wait at its end has a gap, or all *)
(* the threads are blocked by the channel that is not read meanwhile, or a  *)
(* transaction that was gossiped has made the aligner panic.                *)
RoundsEnd == ~aligned ~> aligned \/ Gap \/ Clogged \/ Panicked

(* What the status is there for: the node is aligned again some time.  Each *)
(* of the three cases above refutes it.                                     *)
EveryRoundEnds == ~aligned ~> aligned

(* The chains of the peers are such that one round finds the highest: there *)
(* are not more last blocks than LATEST_WINDOW; and if they are not all at  *)
(* one height, fewer peers than there are attempts have the highest, for    *)
(* the limit is the height of the first answer, and a block above it is     *)
(* taken from a peer only when it comes for the second time.                *)
Findable ==
    LET tips == {Tip(p) : p \in {q \in Peer : plan.height[q] >= 0}}
        top == {p \in Peer : \A q \in Peer : plan.height[p] >= plan.height[q]}
    IN  /\ Cardinality(tips) <= LatestWindow
        /\ Cardinality({b.height : b \in tips}) > 1 => Cardinality(top) < MaxAttempts

(* When every answer arrives in time, a node that hears of a block further  *)
(* on gets to the highest of the last blocks of the others, provided that   *)
(* their chains are Findable.                                               *)
CatchesUp ==
    plan.reliable /\ Findable /\ last # NoBlock /\ rounds > 0
        ~> \A p \in Peer : last.height >= plan.height[p]

(* The same of any chains, which does not hold: the window keeps the blocks *)
(* that occur least, not the highest.                                       *)
AlwaysCatchesUp ==
    plan.reliable /\ last # NoBlock /\ rounds > 0
        ~> \A p \in Peer : last.height >= plan.height[p]
=============================================================================

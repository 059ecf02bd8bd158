-------------------------------- MODULE P2p --------------------------------
(***************************************************************************)
(* The peer to peer service of several nodes, between the blockchain       *)
(* services of these nodes and the network.  In every node one thread      *)
(* takes the events that the blockchain publishes and the events of the    *)
(* swarm, one at a time.  Many handlers send a message to the blockchain   *)
(* and block the thread until its answer, or the end of the channel.       *)
(*                                                                         *)
(* libp2p is external: gossip reaches every node that a connection leads   *)
(* to at most once, a unicast request is answered at most once or fails.   *)
(* Of the blockchain there is what its dispatcher does with the messages   *)
(* of this service; its tasks run in any order.                            *)
(***************************************************************************)
EXTENDS Integers, Sequences, FiniteSets, Functions

CONSTANTS
    Node,               \* the nodes, identified with their peer ids
    None,               \* Option::None for a peer id
    Net,                \* the network of each node
    Tx, TxNet,          \* transactions, and the network of each
    Validator,          \* the nodes that make blocks
    InitHeight,         \* the last block of each node at first, -1 for none
    Boot,               \* <<n, p>>: p is the bootstrap address of n
    MaxHeight,          \* bound on the blocks of a chain
    Plans               \* what the environment does in one run:
                        \*   nodes: those whose p2p service is started
                        \*   addrs: how many listen addresses each one tells
                        \*   lan: <<n, p>>, n discovers p with mDNS
                        \*   submit: <<n, t>>, a client submits t to n, once
                        \*   ask: <<n, m>>, the aligner of n publishes m
                        \*   blocks: how many blocks are executed
                        \*   faults: how often the network misbehaves: a loss, a
                        \*      timeout, a node that mDNS loses, one that
                        \*      identifies itself once more

ASSUME P2pAssumption ==
    /\ None \notin Node /\ Validator \subseteq Node
    /\ InitHeight \in [Node -> -1 .. MaxHeight]
    /\ Boot \subseteq Node \X Node
    /\ MaxHeight \in Nat

(* Messages.  `what` is the height of a block, Newest for u64::MAX, or a    *)
(* transaction.  `peer` is the destination of a request and the origin of   *)
(* an answer.                                                               *)
Newest == MaxHeight + 2
Message == [type : {"get_block", "block"}, what : 0 .. Newest, peer : Node \cup {None}]
           \cup [type : {"get_tx", "tx"}, what : Tx, peer : Node \cup {None}]
           \cup [type : {"ack", "exception", "nothing"}]
GetBlock(h, p) == [type |-> "get_block", what |-> h, peer |-> p]
BlockMsg(h, p) == [type |-> "block", what |-> h, peer |-> p]
GetTx(t, p) == [type |-> "get_tx", what |-> t, peer |-> p]
TxMsg(t, p) == [type |-> "tx", what |-> t, peer |-> p]
Ack == [type |-> "ack"]
Exception == [type |-> "exception"]
Nothing == [type |-> "nothing"]         \* the channel ends without answer

Plan == [nodes : SUBSET Node, addrs : Nat, lan : SUBSET (Node \X Node),
         submit : SUBSET (Node \X Tx), ask : SUBSET (Node \X Message),
         blocks : Nat, faults : Nat]

(* The aligner asks for a block or a transaction.  The block that it asks   *)
(* all the nodes for is the last one.                                       *)
ASSUME PlansAssumption ==
    /\ Plans \subseteq Plan
    /\ \A p \in Plans : \A r \in p.ask :
         /\ r[2].type \in {"get_block", "get_tx"} /\ r[2].peer # r[1]
         /\ r[2].type = "get_block" /\ r[2].peer = None => r[2].what = Newest

(* A sequence without its i-th element. *)
Without(s, i) == [j \in 1 .. Len(s) - 1 |-> IF j < i THEN s[j] ELSE s[j + 1]]

VARIABLES
    on,             \* the nodes whose p2p thread runs
    peers,          \* gossip: the explicit peers of each node
    kad,            \* the kademlia table of each node
    addrs,          \* reqres: the peers whose address each node knows
    wait,           \* what each p2p thread waits for
    events,         \* published by the blockchain and not yet taken
    bc,             \* requests to the blockchain, not yet handled; `looked`
                    \*   once the database was looked in, and had nothing
    putting,        \* <<n, t>>: the same, for what clients submit
    height,         \* the last block of each node
    pool,           \* the transactions in the pool of each node
    stored,         \* those of its blocks, in the database
    aligned,        \* the nodes whose aligner does not run
    todo            \* what of the plan has not happened yet

VARIABLES           \* the network
    conn,           \* the connections, as a symmetric relation
    ident,          \* <<n, p>>: n has not yet handled what p tells of itself
    gossip,         \* copies under way
    unicast         \* the requests sent, with what became of them

VARIABLES           \* history
    published,      \* what each node published in gossip
    got,            \* the block messages that reached each blockchain
    clients,        \* <<n, t>>: t was submitted to n
    faults          \* how often the network has misbehaved

chain == <<height, putting, pool, stored, aligned, got, clients>>
tables == <<peers, kad, addrs>>
links == <<on, conn, ident>>
fault == <<todo, faults>>
vars == <<wait, events, bc, gossip, unicast, fault, published, chain, tables, links>>

Idle == [pc |-> "idle"]
Waiting(for, peer, left) == [pc |-> "wait", for |-> for, peer |-> peer,
                             left |-> left, answer |-> Nothing]

Init ==
    /\ on = {}
    /\ peers = [n \in Node |-> {}] /\ addrs = [n \in Node |-> {}]
    /\ kad = [n \in Node |-> {p \in Node : <<n, p>> \in Boot}]
    /\ wait = [n \in Node |-> Idle]
    /\ events = [n \in Node |-> <<>>] /\ bc = [n \in Node |-> <<>>]
    /\ height = InitHeight
    /\ putting = {} /\ pool = [n \in Node |-> {}] /\ stored = [n \in Node |-> {}]
    /\ got = [n \in Node |-> {}]
    /\ aligned = Node /\ todo \in Plans
    /\ conn = {} /\ ident = {} /\ gossip = {}
    /\ unicast = [n \in Node |-> <<>>]
    /\ faults = 0 /\ published = [n \in Node |-> <<>>] /\ clients = {}

-----------------------------------------------------------------------------
(* The network. *)
Connect(n, p) ==
    /\ conn' = conn \cup {<<n, p>>, <<p, n>>}
    /\ ident' = IF <<n, p>> \in conn THEN ident
                ELSE ident \cup {<<n, p>>, <<p, n>>}

(* Gossip goes over connections, whatever network the nodes are of: there   *)
(* is one topic.                                                            *)
Reach(n) ==
    {p \in Node \ {n} : \/ <<n, p>> \in conn
                        \/ \E q \in Node : {<<n, q>>, <<q, p>>} \subseteq conn}

publish(n, m) ==
    /\ published' = [published EXCEPT ![n] = Append(@, m)]
    /\ gossip' = gossip \cup {[source |-> n, no |-> Len(published'[n]), msg |-> m,
                              to |-> p] : p \in Reach(n)}

send_request(n, p, m) ==
    unicast' = [unicast EXCEPT ![n] =
                  Append(@, [to |-> p, msg |-> m, pc |-> "sent", res |-> Nothing])]

(* A response to a request that has failed in the meantime is lost. *)
send_response(n, i, m) ==
    unicast' = [unicast EXCEPT ![n][i] =
                  IF @.pc = "taken" THEN [@ EXCEPT !.pc = "answered", !.res = m] ELSE @]

Misbehave ==
    /\ todo.faults > 0
    /\ todo' = [todo EXCEPT !.faults = @ - 1]
    /\ faults' = faults + 1

(* A channel dropped without a response makes the request fail, and so do   *)
(* a timeout and a connection that is lost.  Failures are only logged.      *)
RequestFails(n, i) ==
    /\ \/ unicast[n][i].pc = "dropped" /\ UNCHANGED fault
       \/ unicast[n][i].pc \in {"sent", "taken", "answered"} /\ Misbehave
    /\ unicast' = [unicast EXCEPT ![n][i].pc = "failed"]
    /\ UNCHANGED <<wait, events, bc, gossip, published, chain, tables, links>>

LoseGossip(g) ==
    /\ g \in gossip /\ Misbehave
    /\ gossip' = gossip \ {g}
    /\ UNCHANGED <<wait, events, bc, unicast, published, chain, tables, links>>

-----------------------------------------------------------------------------
(* The blockchain service: its dispatcher. *)

(* The heights that the database finds, at most one. *)
load_block(n, h) ==
    IF h = Newest THEN {height[n]} \ {-1} ELSE {h} \cap (0 .. height[n])

\* mutant: the origin is taken from the request
get_block_origin_requested(n, m) == m.peer
get_block_origin(n, m) == n
get_block_handler(n, m) ==
    IF load_block(n, m.what) = {} THEN Exception
    ELSE BlockMsg(CHOOSE h \in load_block(n, m.what) : TRUE, get_block_origin(n, m))

(* What a node has leaves the pool for the database. *)
Has(n) == pool[n] \cup stored[n]

(* get_transaction_handler and put_transaction_internal look in the         *)
(* database, release it, and go on to the pool when it has not this         *)
(* transaction.                                                             *)
GoesOn(n, m) ==
    \/ m.type = "get_tx" /\ m.what \notin stored[n]
    \/ m.type = "tx" /\ TxNet[m.what] = Net[n] /\ m.what \notin stored[n]

get_transaction_handler(n, m, looked) ==
    IF m.what \in (IF looked THEN pool[n] ELSE stored[n]) THEN TxMsg(m.what, n)
    ELSE Exception

\* mutant: what other nodes sent is announced once more
get_transaction_res_again(n, m) == <<TxMsg(m.what, None)>>
(* What get_transaction_res_handler publishes: nothing, gossip does it. *)
get_transaction_res_events(n, m) == <<>>

Answer(n, m, looked) ==
    CASE m.type = "get_block" -> get_block_handler(n, m)
      [] m.type = "get_tx" -> get_transaction_handler(n, m, looked)
      [] OTHER -> Nothing

(* A block two after the last one goes to the pool; another one after it    *)
(* starts the aligner.  While that runs, blocks are for the aligner.        *)
get_block_res_handler(n, m) ==
    /\ got' = [got EXCEPT ![n] = @ \cup {m}]
    /\ aligned' = IF m.what > height[n] /\ m.what # height[n] + 2
                  THEN aligned \ {n} ELSE aligned

(* The first step of a dispatcher task, where it has a second one. *)
Look(n, i) ==
    /\ ~bc[n][i].looked /\ GoesOn(n, bc[n][i].msg)
    /\ bc' = [bc EXCEPT ![n][i].looked = TRUE]
    /\ UNCHANGED <<wait, events, gossip, unicast, fault, published, chain, tables, links>>

(* A dispatcher task handles a message, and gives the answer to the thread  *)
(* that waits for it.                                                       *)
Handle(n, i) ==
    LET t == bc[n][i] IN
    /\ t.looked \/ ~GoesOn(n, t.msg)
    /\ bc' = [bc EXCEPT ![n] = Without(@, i)]
    /\ wait' = IF t.waits
               THEN [wait EXCEPT ![n].pc = "answered",
                                 ![n].answer = Answer(n, t.msg, t.looked)]
               ELSE wait
    /\ \/ t.msg.type = "block" /\ get_block_res_handler(n, t.msg)
       \/ t.msg.type # "block" /\ UNCHANGED <<got, aligned>>
    /\ \/ /\ t.msg.type = "tx" /\ t.looked
          /\ pool' = [pool EXCEPT ![n] = @ \cup {t.msg.what}]
          /\ events' = [events EXCEPT ![n] = @ \o get_transaction_res_events(n, t.msg)]
       \/ ~(t.msg.type = "tx" /\ t.looked) /\ UNCHANGED <<pool, events>>
    /\ UNCHANGED <<gossip, unicast, fault, published, height, putting, stored, clients,
                   tables, links>>

(* p2p gets an event once it has subscribed. *)
Emit(n, m) == events' = [events EXCEPT ![n] = IF n \in on THEN Append(@, m) ELSE @]
outside == <<wait, bc, gossip, unicast, faults, published, tables, links>>

(* put_transaction_handler, for a client of the node: the database, and     *)
(* then the pool.  A transaction that the pool has not got is announced.    *)
Submit(n, t) ==
    /\ <<n, t>> \in todo.submit
    /\ todo' = [todo EXCEPT !.submit = @ \ {<<n, t>>}]
    /\ clients' = clients \cup {<<n, t>>}
    /\ putting' = IF GoesOn(n, TxMsg(t, None)) THEN putting \cup {<<n, t>>} ELSE putting
    /\ UNCHANGED <<outside, events, height, pool, stored, aligned, got>>

Put(n, t) ==
    /\ <<n, t>> \in putting
    /\ putting' = putting \ {<<n, t>>}
    /\ pool' = [pool EXCEPT ![n] = @ \cup {t}]
    /\ IF t \notin pool[n] THEN Emit(n, TxMsg(t, None)) ELSE UNCHANGED events
    /\ UNCHANGED <<outside, todo, height, stored, aligned, got, clients>>

(* The executor, with a block of its own or of another node: some of the    *)
(* pool goes to the database.  Only a validator announces the block.        *)
Execute(n) ==
    /\ height[n] < MaxHeight /\ todo.blocks > 0
    /\ todo' = [todo EXCEPT !.blocks = @ - 1]
    /\ n \in Validator \/ \E m \in got[n] : m.what = height[n] + 1
    /\ height' = [height EXCEPT ![n] = @ + 1]
    /\ \E block \in SUBSET pool[n] :
         /\ stored' = [stored EXCEPT ![n] = @ \cup block]
         /\ pool' = [pool EXCEPT ![n] = @ \ block]
    /\ IF n \in Validator THEN Emit(n, BlockMsg(height[n] + 1, None))
       ELSE UNCHANGED events
    /\ UNCHANGED <<outside, putting, aligned, got, clients>>

(* The aligner publishes a request to all the nodes, or to one of them.     *)
AlignAsk(n, m) ==
    /\ n \notin aligned /\ <<n, m>> \in todo.ask
    /\ todo' = [todo EXCEPT !.ask = @ \ {<<n, m>>}]
    /\ Emit(n, m)
    /\ UNCHANGED <<outside, height, putting, pool, stored, aligned, got, clients>>

AlignEnd(n) ==
    /\ n \notin aligned
    /\ \A b \in got[n] : b.what <= height[n]
    /\ aligned' = aligned \cup {n}
    /\ UNCHANGED <<outside, todo, events, height, putting, pool, stored, got, clients>>

-----------------------------------------------------------------------------
(* The p2p thread. *)
Free(n) == n \in on /\ wait[n] = Idle

(* A message to the blockchain; `w` is what the thread then waits for. *)
Ask(n, m, w) ==
    /\ bc' = [bc EXCEPT ![n] = Append(@, [msg |-> m, waits |-> TRUE, looked |-> FALSE])]
    /\ wait' = [wait EXCEPT ![n] = w]

(* PeerService::start and run_async up to the loop: the subscription, and   *)
(* the query that makes kademlia dial the bootstrap node.                   *)
Start(n) ==
    /\ n \in todo.nodes \ on
    /\ on' = on \cup {n}
    /\ IF \E p \in on : p \in kad[n]
       THEN \E p \in on : p \in kad[n] /\ Connect(n, p)
       ELSE UNCHANGED <<conn, ident>>
    /\ UNCHANGED <<wait, events, bc, gossip, unicast, fault, published, chain, tables>>

(* Requests without destination, and answers without origin. *)
to_gossip(m) == m.peer = None

(* An event of the blockchain: published in gossip, sent to its             *)
(* destination, or dropped.                                                 *)
TakeEvent(n, i) ==
    LET m == events[n][i] IN
    /\ Free(n)
    /\ events' = [events EXCEPT ![n] = Without(@, i)]
    /\ \/ to_gossip(m) /\ publish(n, m) /\ UNCHANGED unicast
       \/ /\ ~to_gossip(m) /\ m.type \in {"get_block", "get_tx"}
          /\ send_request(n, m.peer, m)
          /\ UNCHANGED <<gossip, published>>
    /\ UNCHANGED <<wait, bc, fault, chain, tables, links>>

same_network(n, p) == Net[n] = Net[p]

(* A node of the same network goes to all the tables, and is sent the last  *)
(* block, once for each of its addresses.                                   *)
identify_event_handler(n, p) ==
    /\ Free(n) /\ <<n, p>> \in ident
    /\ ident' = ident \ {<<n, p>>}
    /\ \/ /\ ~same_network(n, p)
          /\ UNCHANGED <<tables, bc, wait>>
       \/ /\ same_network(n, p)
          /\ peers' = [peers EXCEPT ![n] = @ \cup {p}]
          /\ IF todo.addrs = 0 THEN UNCHANGED <<kad, addrs, bc, wait>>
             ELSE /\ kad' = [kad EXCEPT ![n] = @ \cup {p}]
                  /\ addrs' = [addrs EXCEPT ![n] = @ \cup {p}]
                  /\ Ask(n, GetBlock(Newest, p), Waiting("ident", p, todo.addrs))
    /\ UNCHANGED <<events, gossip, unicast, fault, published, chain, on, conn>>

(* mDNS: a node is added whatever its network; identification follows. *)
Discovered(n, p) ==
    /\ Free(n) /\ <<n, p>> \in todo.lan /\ p \in on /\ p \notin peers[n]
    /\ peers' = [peers EXCEPT ![n] = @ \cup {p}]
    /\ addrs' = [addrs EXCEPT ![n] = @ \cup {p}]
    /\ Connect(n, p)
    /\ UNCHANGED <<kad, on, wait, events, bc, gossip, unicast, fault, published, chain>>

Expired(n, p) ==
    /\ Free(n) /\ <<n, p>> \in todo.lan /\ p \in peers[n]
    /\ Misbehave
    /\ peers' = [peers EXCEPT ![n] = @ \ {p}]
    /\ addrs' = [addrs EXCEPT ![n] = @ \ {p}]
    /\ UNCHANGED <<kad, links, wait, events, bc, gossip, unicast, published, chain>>

(* kademlia has found nodes: what this node tells of itself is sent again   *)
(* to those it is connected to.                                             *)
kad_event_handler(n) ==
    /\ Free(n) /\ Misbehave
    /\ ident' = ident \cup {<<p, n>> : p \in {q \in kad[n] : <<n, q>> \in conn}}
    /\ UNCHANGED <<on, conn, wait, events, bc, gossip, unicast, published, chain, tables>>

\* mutant: only requests are passed on
gossip_event_handler_requests(n, g) ==
    /\ Free(n) /\ g \in gossip /\ g.to = n
    /\ gossip' = gossip \ {g}
    /\ IF g.msg.type = "tx" THEN UNCHANGED <<bc, wait>>
       ELSE Ask(n, g.msg, Waiting("gossip", g.source, 1))
    /\ UNCHANGED <<events, unicast, fault, published, chain, tables, links>>
(* A gossip message goes to the blockchain, in a Packed one. *)
gossip_event_handler(n, g) ==
    /\ Free(n) /\ g \in gossip /\ g.to = n
    /\ gossip' = gossip \ {g}
    /\ Ask(n, g.msg, Waiting("gossip", g.source, 1))
    /\ UNCHANGED <<events, unicast, fault, published, chain, tables, links>>

(* A unicast request, the i-th of p.  A block, from a node that has just    *)
(* met this one or that answers a request in gossip, is acknowledged        *)
(* without waiting.                                                         *)
reqres_request(n, p, i) ==
    LET r == unicast[p][i] IN
    /\ Free(n) /\ r.to = n /\ r.pc = "sent"
    /\ \/ /\ r.msg.type \in {"get_block", "get_tx"}
          /\ unicast' = [unicast EXCEPT ![p][i].pc = "taken"]
          /\ Ask(n, r.msg, Waiting("request", p, i))
       \/ /\ r.msg.type = "block"
          /\ unicast' = [unicast EXCEPT ![p][i].pc = "answered", ![p][i].res = Ack]
          /\ bc' = [bc EXCEPT ![n] = Append(@, [msg |-> r.msg, waits |-> FALSE,
                                                looked |-> FALSE])]
          /\ UNCHANGED wait
       \/ /\ r.msg.type = "tx"
          /\ unicast' = [unicast EXCEPT ![p][i].pc = "dropped"]
          /\ UNCHANGED <<bc, wait>>
    /\ UNCHANGED <<events, gossip, fault, published, chain, tables, links>>

(* A response goes to the blockchain when it is a block or a transaction. *)
reqres_response(n, i) ==
    LET r == unicast[n][i] IN
    /\ Free(n) /\ r.pc = "answered"
    /\ unicast' = [unicast EXCEPT ![n][i].pc = "done"]
    /\ IF r.res.type \in {"tx", "block"}
       THEN Ask(n, r.res, Waiting("response", r.to, i))
       ELSE UNCHANGED <<bc, wait>>
    /\ UNCHANGED <<events, gossip, fault, published, chain, tables, links>>

\* mutant: the channel is kept where there is no block to send
respond_kept(p, i, m) ==
    IF unicast[p][i].msg.type = "get_tx" \/ m.type = "block" THEN send_response(p, i, m)
    ELSE UNCHANGED unicast
(* What becomes of a request when the blockchain has answered.  A block     *)
(* that is not found is not answered: the channel is dropped.               *)
respond(p, i, m) ==
    IF unicast[p][i].msg.type = "get_tx" \/ m.type = "block" THEN send_response(p, i, m)
    ELSE unicast' = [unicast EXCEPT ![p][i].pc = IF @ = "taken" THEN "dropped" ELSE @]

(* The rest of the handler that has waited. *)
Resume(n) ==
    LET w == wait[n] m == w.answer IN
    /\ w.pc = "answered"
    /\ CASE w.for = "ident" -> /\ IF m.type = "block" THEN send_request(n, w.peer, m)
                                  ELSE UNCHANGED unicast
                               /\ IF w.left = 1
                                  THEN wait' = [wait EXCEPT ![n] = Idle] /\ UNCHANGED bc
                                  ELSE Ask(n, GetBlock(Newest, w.peer),
                                           Waiting("ident", w.peer, w.left - 1))
         [] w.for = "gossip" -> /\ IF m.type \in {"tx", "block"}
                                   THEN send_request(n, w.peer, m) ELSE UNCHANGED unicast
                                /\ wait' = [wait EXCEPT ![n] = Idle] /\ UNCHANGED bc
         [] w.for = "request" -> /\ respond(w.peer, w.left, m)
                                 /\ wait' = [wait EXCEPT ![n] = Idle] /\ UNCHANGED bc
         [] w.for = "response" -> /\ wait' = [wait EXCEPT ![n] = Idle]
                                  /\ UNCHANGED <<unicast, bc>>
    /\ UNCHANGED <<events, gossip, fault, published, chain, tables, links>>

-----------------------------------------------------------------------------
NodeStep(n) ==
    \/ \E i \in DOMAIN bc[n] : Look(n, i) \/ Handle(n, i)
    \/ \E t \in Tx : Put(n, t)
    \/ \E i \in DOMAIN events[n] : TakeEvent(n, i)
    \/ \E p \in Node : identify_event_handler(n, p)
    \/ \E g \in gossip : gossip_event_handler(n, g)
    \/ \E p \in Node : \E i \in DOMAIN unicast[p] : reqres_request(n, p, i)
    \/ \E i \in DOMAIN unicast[n] : reqres_response(n, i)
    \/ Resume(n)
Dropped(n) == \E i \in DOMAIN unicast[n] :
                 unicast[n][i].pc = "dropped" /\ RequestFails(n, i)

Next ==
    \/ \E n \in Node : NodeStep(n) \/ Start(n) \/ Execute(n) \/ AlignEnd(n)
                       \/ kad_event_handler(n)
    \/ \E n, p \in Node : Discovered(n, p) \/ Expired(n, p)
    \/ \E n \in Node, t \in Tx : Submit(n, t)
    \/ \E r \in todo.ask : AlignAsk(r[1], r[2])
    \/ \E n \in Node : \E i \in DOMAIN unicast[n] : RequestFails(n, i)
    \/ \E g \in gossip : LoseGossip(g)

Spec == Init /\ [][Next]_vars

(* The thread of a node and the tasks of its blockchain keep running, and   *)
(* libp2p reports the requests whose channel was dropped.                   *)
FairSpec == Spec /\ \A n \in Node : WF_vars(NodeStep(n)) /\ WF_vars(Dropped(n))

-----------------------------------------------------------------------------
(* The state has its type, and a p2p thread waits exactly while one request *)
(* of its own is with the blockchain.                                       *)
TypeOK ==
    /\ on \subseteq Node /\ aligned \subseteq Node
    /\ {peers, kad, addrs} \subseteq [Node -> SUBSET Node]
    /\ conn \subseteq Node \X Node /\ ident \subseteq conn
    /\ height \in [Node -> -1 .. MaxHeight]
    /\ {pool, stored} \subseteq [Node -> SUBSET Tx] /\ putting \subseteq clients
    /\ \A n \in Node :
         /\ wait[n] # Idle <=>
               wait[n].pc = "answered" \/ \E i \in DOMAIN bc[n] : bc[n][i].waits
         /\ Cardinality({i \in DOMAIN bc[n] : bc[n][i].waits}) <= 1
    /\ \A n \in Node : \A i \in DOMAIN unicast[n] :
         unicast[n][i].pc \in {"sent", "taken", "answered", "dropped", "done", "failed"}

Delivered(n) == got[n] \cup {bc[n][i].msg : i \in DOMAIN bc[n]}

(* A block or a transaction that comes with an origin is one that the node  *)
(* of that name has: the aligner counts what nodes claim to have, and asks  *)
(* them by this name.                                                       *)
OriginHasIt ==
    \A n \in Node : \A m \in Delivered(n) :
        /\ m.type = "block" /\ m.peer # None => m.what <= height[m.peer]
        /\ m.type = "tx" /\ m.peer # None => m.what \in Has(m.peer)

(* A transaction is announced at most once for each time that a client      *)
(* submits it, and only by the node that it was submitted to, though other  *)
(* nodes and the executor change the pool between the two steps of the      *)
(* intake: "response is not needed to be propagated (gossip will do it!)".  *)
NoEcho ==
    \A n \in Node : \A i, j \in DOMAIN published[n] :
        published[n][i].type = "tx" =>
            /\ <<n, published[n][i].what>> \in clients
            /\ published[n][i] = published[n][j] => i = j

Open(n) == \E i \in DOMAIN unicast[n] : unicast[n][i].pc \notin {"done", "failed"}

(* The unicast requests of a node end, with a response or with a failure:   *)
(* the p2p thread of the other node blocks on its blockchain, and never for *)
(* good as long as the tasks of the dispatcher end (Align has those that do *)
(* not).                                                                    *)
EveryUnicastEnds == \A n \in Node : Open(n) ~> ~Open(n)

(* A transaction that a node announces gets to every node of its network    *)
(* that a connection leads to, unless the network loses it.                 *)
TxSpreads ==
    \A p \in Node, t \in Tx :
        (/\ Net[p] = TxNet[t]
         /\ \E n \in Node : TxMsg(t, None) \in Range(events[n]) /\ p \in Reach(n))
        ~> (t \in Has(p) \/ faults > 0)
=============================================================================

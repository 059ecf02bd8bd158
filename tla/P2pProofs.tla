------------------------------ MODULE P2pProofs ------------------------------
(***************************************************************************)
(* What the nodes send one another, for any number of nodes, networks,     *)
(* transactions and blocks, whatever is lost and however the threads of    *)
(* the nodes and the tasks of their blockchains interleave.                *)
(*                                                                         *)
(* A message is on its way in many places: an event, a request to the      *)
(* blockchain, the answer a thread waits for, gossip, unicast.  Carried(S) *)
(* says that all of these are messages of S.  S is first that of the       *)
(* messages whose origin has what they are about, which only grows.        *)
(*                                                                         *)
(* NoEcho needs to know what a node will announce as well: EchoInv adds    *)
(* the events the node has not yet taken, and that what was announced is   *)
(* not one of the submissions still to come or between their two steps.    *)
(***************************************************************************)
EXTENDS P2p, TLAPS

AskedOf(S) == [msg : S, waits : BOOLEAN, looked : BOOLEAN]
Requests(S) ==
    [to : Node, msg : S, pc : {"sent", "taken", "answered", "dropped", "done", "failed"},
     res : S]
Copies(S) == [source : Node, no : Nat, msg : S, to : Node]
Waits(S) ==
    {Idle} \cup [pc : {"wait", "answered"}, for : {"ident", "gossip", "request", "response"},
                 peer : Node, left : Int, answer : S]

Carried(S) ==
    /\ events \in [Node -> Seq(S)] /\ published \in [Node -> Seq(S)]
    /\ bc \in [Node -> Seq(AskedOf(S))]
    /\ wait \in [Node -> Waits(S)]
    /\ gossip \subseteq Copies(S)
    /\ unicast \in [Node -> Seq(Requests(S))]
    /\ got \in [Node -> SUBSET S]

Chains ==
    /\ height \in [Node -> -1 .. MaxHeight]
    /\ pool \in [Node -> SUBSET Tx] /\ stored \in [Node -> SUBSET Tx]
    /\ putting \subseteq clients /\ putting \cap todo.submit = {}
    /\ todo \in Plan /\ clients \subseteq Node \X Tx
    /\ \A r \in todo.ask :
         /\ r[2].type \in {"get_block", "get_tx"}
         /\ r[2].type = "get_block" /\ r[2].peer = None => r[2].what = Newest

(* The messages whose origin, if they have one, has what they are about. *)
Genuine ==
    {m \in Message :
        /\ m.type = "block" /\ m.peer # None => m.what <= height[m.peer]
        /\ m.type = "tx" /\ m.peer # None => m.what \in Has(m.peer)}

(* The messages that every thread may make. *)
Common == {Ack, Exception, Nothing} \cup {GetBlock(Newest, p) : p \in Node}

(* A thread waits while one request of its own is with the blockchain. *)
Asking ==
    \A n \in Node :
        /\ \A i \in DOMAIN bc[n] : bc[n][i].waits => wait[n].pc = "wait"
        /\ \A i, j \in DOMAIN bc[n] : bc[n][i].waits /\ bc[n][j].waits => i = j

OriginInv == Chains /\ Asking /\ Carried(Genuine)

-----------------------------------------------------------------------------
(* A sequence without its i-th element. *)
LEMMA WithoutSeq ==
    ASSUME NEW S, NEW s \in Seq(S), NEW k \in DOMAIN s
    PROVE  /\ Without(s, k) \in Seq(S)
           /\ Len(Without(s, k)) = Len(s) - 1
           /\ \A i \in 1 .. Len(s) - 1 :
                  Without(s, k)[i] = IF i < k THEN s[i] ELSE s[i + 1]
  BY DEF Without

(* A sequence with one more element. *)
LEMMA AppendAt ==
    ASSUME NEW S, NEW s \in Seq(S), NEW v
    PROVE  \A i \in DOMAIN Append(s, v) :
               \/ i \in DOMAIN s /\ Append(s, v)[i] = s[i]
               \/ i = Len(s) + 1 /\ Append(s, v)[i] = v /\ i \notin DOMAIN s
  <1>1. /\ Len(s) \in Nat /\ DOMAIN s = 1 .. Len(s)
        /\ DOMAIN Append(s, v) = 1 .. Len(s) + 1
    OBVIOUS
  <1> TAKE i \in DOMAIN Append(s, v)
  <1>2. CASE i \in 1 .. Len(s)
    BY <1>1, <1>2
  <1>3. CASE i = Len(s) + 1
    BY <1>1, <1>3
  <1> QED BY <1>1, <1>2, <1>3

(* Its elements are elements of the sequence, none of them the i-th. *)
LEMMA WithoutFrom ==
    ASSUME NEW S, NEW s \in Seq(S), NEW k \in DOMAIN s
    PROVE  \A i \in DOMAIN Without(s, k) :
               \E j \in DOMAIN s : Without(s, k)[i] = s[j] /\ j # k
  <1> DEFINE f(j) == IF j < k THEN j ELSE j + 1
  <1>1. k \in 1 .. Len(s) /\ Len(s) \in Nat /\ DOMAIN s = 1 .. Len(s)
    OBVIOUS
  <1>2. /\ DOMAIN Without(s, k) = 1 .. Len(s) - 1
        /\ \A j \in 1 .. Len(s) - 1 : Without(s, k)[j] = s[f(j)]
    BY Zenon DEF Without
  <1>3. \A j \in 1 .. Len(s) - 1 : f(j) \in DOMAIN s /\ f(j) # k
    BY <1>1
  <1> QED BY <1>2, <1>3, Zenon

(* One request of a node is replaced. *)
LEMMA PutRequest ==
    ASSUME NEW R, NEW u \in [Node -> Seq(R)], NEW p \in Node, NEW i, NEW r,
           i \in DOMAIN u[p] => r \in R
    PROVE  [u EXCEPT ![p] = [u[p] EXCEPT ![i] = r]] \in [Node -> Seq(R)]
  <1> DEFINE s == [u[p] EXCEPT ![i] = r]
  <1>1. u[p] \in Seq(R) /\ Len(u[p]) \in Nat /\ DOMAIN u[p] = 1 .. Len(u[p])
    OBVIOUS
  <1>2. s \in Seq(R)
    <2>1. CASE i \in DOMAIN u[p]
      <3>1. r \in R
        BY <2>1, Zenon
      <3>2. u[p] \in [1 .. Len(u[p]) -> R]
        BY <1>1
      <3>3. s \in [1 .. Len(u[p]) -> R]
        BY <3>1, <3>2, Zenon
      <3> HIDE DEF s
      <3> QED BY <1>1, <3>3
    <2>2. CASE i \notin DOMAIN u[p]
      <3>1. s = u[p]
        BY <1>1, <2>2
      <3> QED BY <1>1, <3>1, Zenon
    <2> QED BY <2>1, <2>2, Zenon
  <1> QED BY <1>2, Zenon

(* A message of S is one of a larger set. *)
LEMMA CarriedMore ==
    ASSUME NEW S, NEW T, S \subseteq T, Carried(S)
    PROVE  Carried(T)
  <1>1. AskedOf(S) \subseteq AskedOf(T) /\ Copies(S) \subseteq Copies(T)
    BY Zenon DEF AskedOf, Copies
  <1>2. Requests(S) \subseteq Requests(T)
    BY Zenon DEF Requests
  <1>3. Waits(S) \subseteq Waits(T)
    BY Zenon DEF Waits
  <1>4. ASSUME NEW A, NEW B, A \subseteq B
        PROVE  Seq(A) \subseteq Seq(B)
    BY <1>4
  <1>5. Seq(S) \subseteq Seq(T) /\ Seq(AskedOf(S)) \subseteq Seq(AskedOf(T))
        /\ Seq(Requests(S)) \subseteq Seq(Requests(T))
    BY <1>1, <1>2, <1>4, Zenon
  <1>6. events \in [Node -> Seq(T)] /\ published \in [Node -> Seq(T)]
    BY <1>5, Zenon DEF Carried
  <1>7. bc \in [Node -> Seq(AskedOf(T))]
    BY <1>5, Zenon DEF Carried
  <1>8. unicast \in [Node -> Seq(Requests(T))]
    BY <1>5, Zenon DEF Carried
  <1>9. wait \in [Node -> Waits(T)]
    BY <1>3, Zenon DEF Carried
  <1> QED BY <1>1, <1>6, <1>7, <1>8, <1>9, Zenon DEF Carried

(* A sender puts one more message of S somewhere, or takes one away. *)
LEMMA CarriedAsk ==
    ASSUME NEW S, Carried(S), NEW n \in Node, NEW m \in S, NEW w \in Waits(S), Ask(n, m, w)
    PROVE  bc' \in [Node -> Seq(AskedOf(S))] /\ wait' \in [Node -> Waits(S)]
  <1>1. [msg |-> m, waits |-> TRUE, looked |-> FALSE] \in AskedOf(S)
    BY Zenon DEF AskedOf
  <1>2. bc[n] \in Seq(AskedOf(S)) /\ bc \in [Node -> Seq(AskedOf(S))]
    BY Zenon DEF Carried
  <1>3. Append(bc[n], [msg |-> m, waits |-> TRUE, looked |-> FALSE]) \in Seq(AskedOf(S))
    BY <1>1, <1>2
  <1>4. bc' = [bc EXCEPT ![n] = Append(bc[n], [msg |-> m, waits |-> TRUE, looked |-> FALSE])]
    BY Zenon DEF Ask
  <1>5. bc' \in [Node -> Seq(AskedOf(S))]
    BY <1>2, <1>3, <1>4, Zenon
  <1>6. wait' \in [Node -> Waits(S)]
    BY Zenon DEF Ask, Carried
  <1> QED BY <1>5, <1>6, Zenon

(* send_request adds a request with a message of S. *)
LEMMA CarriedRequest ==
    ASSUME NEW S, Carried(S), NEW n \in Node, NEW p \in Node, NEW m \in S, Nothing \in S,
           send_request(n, p, m)
    PROVE  unicast' \in [Node -> Seq(Requests(S))]
  <1> DEFINE r == [to |-> p, msg |-> m, pc |-> "sent", res |-> Nothing]
  <1>1. r \in Requests(S)
    BY Zenon DEF Requests
  <1>2. unicast[n] \in Seq(Requests(S)) /\ unicast \in [Node -> Seq(Requests(S))]
    BY Zenon DEF Carried
  <1>3. unicast' = [unicast EXCEPT ![n] = Append(unicast[n], r)]
    BY Zenon DEF send_request
  <1> HIDE DEF r
  <1>4. Append(unicast[n], r) \in Seq(Requests(S))
    BY <1>1, <1>2
  <1> QED BY <1>2, <1>3, <1>4, Zenon

(* What becomes of a request. *)
LEMMA CarriedMark ==
    ASSUME NEW S, Carried(S), NEW n \in Node, NEW i, NEW r,
           i \in DOMAIN unicast[n] => r \in Requests(S),
           unicast' = [unicast EXCEPT ![n] = [unicast[n] EXCEPT ![i] = r]]
    PROVE  unicast' \in [Node -> Seq(Requests(S))]
  <1>1. unicast \in [Node -> Seq(Requests(S))]
    BY Zenon DEF Carried
  <1>2. [unicast EXCEPT ![n] = [unicast[n] EXCEPT ![i] = r]] \in [Node -> Seq(Requests(S))]
    BY <1>1, PutRequest, Zenon
  <1> QED BY <1>2, Zenon

(* The parts of a request, of which one changes. *)
LEMMA RequestParts ==
    ASSUME NEW S, Carried(S), NEW n \in Node, NEW i \in DOMAIN unicast[n]
    PROVE  /\ unicast[n][i] \in Requests(S)
           /\ unicast[n][i].to \in Node /\ unicast[n][i].msg \in S /\ unicast[n][i].res \in S
           /\ \A c \in {"sent", "taken", "answered", "dropped", "done", "failed"} :
                  [unicast[n][i] EXCEPT !.pc = c] \in Requests(S)
           /\ \A c \in {"sent", "taken", "answered", "dropped", "done", "failed"}, m \in S :
                  [unicast[n][i] EXCEPT !.pc = c, !.res = m] \in Requests(S)
  <1>1. unicast[n] \in Seq(Requests(S))
    BY Zenon DEF Carried
  <1>2. unicast[n][i] \in Requests(S)
    BY <1>1
  <1> QED BY <1>2, Zenon DEF Requests

(* The steps that send nothing. *)
LEMMA CarriedKept ==
    ASSUME NEW S, Carried(S), UNCHANGED <<events, published, bc, wait, unicast, got>>,
           gossip' \subseteq gossip
    PROVE  Carried(S)'
  BY Zenon DEF Carried

(* A request that fails carries what it carried. *)
LEMMA CarriedFails ==
    ASSUME NEW S, Carried(S), NEW n \in Node, NEW i \in DOMAIN unicast[n], RequestFails(n, i)
    PROVE  Carried(S)'
  <1>1. [unicast[n][i] EXCEPT !.pc = "failed"] \in Requests(S)
    BY RequestParts, Zenon
  <1>2. unicast' = [unicast EXCEPT ![n] =
                       [unicast[n] EXCEPT ![i] = [unicast[n][i] EXCEPT !.pc = "failed"]]]
    BY Zenon DEF RequestFails
  <1>3. unicast' \in [Node -> Seq(Requests(S))]
    BY <1>1, <1>2, CarriedMark, Zenon
  <1>4. UNCHANGED <<events, published, bc, wait, gossip, got>>
    BY Zenon DEF RequestFails, chain
  <1> QED BY <1>3, <1>4, Zenon DEF Carried

(* An event with a message of S. *)
LEMMA CarriedEmit ==
    ASSUME NEW S, Carried(S), NEW n \in Node, NEW m \in S, Emit(n, m)
    PROVE  events' \in [Node -> Seq(S)]
  <1>1. events \in [Node -> Seq(S)] /\ events[n] \in Seq(S) /\ Append(events[n], m) \in Seq(S)
    BY DEF Carried
  <1> QED BY <1>1, Zenon DEF Emit

(* The steps of the blockchain other than its tasks. *)
LEMMA CarriedChain ==
    ASSUME NEW S, Carried(S), UNCHANGED outside, UNCHANGED got,
           NEW n \in Node, NEW m \in S, Emit(n, m) \/ UNCHANGED events
    PROVE  Carried(S)'
  <1>1. events' \in [Node -> Seq(S)]
    BY CarriedEmit, Zenon DEF Carried
  <1> QED BY <1>1, Zenon DEF Carried, outside

(* What a task of the blockchain answers. *)
LEMMA CarriedHandle ==
    ASSUME NEW S, Carried(S), NEW n \in Node, NEW i \in DOMAIN bc[n], Handle(n, i),
           bc[n][i].waits =>
               wait[n].pc = "wait" /\ Answer(n, bc[n][i].msg, bc[n][i].looked) \in S
    PROVE  Carried(S)'
  <1>1. bc[n] \in Seq(AskedOf(S)) /\ bc \in [Node -> Seq(AskedOf(S))]
    BY Zenon DEF Carried
  <1>2. bc' \in [Node -> Seq(AskedOf(S))]
    <2>1. Without(bc[n], i) \in Seq(AskedOf(S))
      BY <1>1, WithoutSeq, Zenon
    <2> QED BY <1>1, <2>1, Zenon DEF Handle
  <1>3. bc[n][i] \in AskedOf(S)
    BY <1>1
  <1>4. bc[n][i].msg \in S
    BY <1>3, Zenon DEF AskedOf
  <1>5. wait' \in [Node -> Waits(S)]
    <2>1. wait \in [Node -> Waits(S)]
      BY Zenon DEF Carried
    <2>2. CASE bc[n][i].waits
      <3> DEFINE a == Answer(n, bc[n][i].msg, bc[n][i].looked)
                 w == [wait[n] EXCEPT !.pc = "answered", !.answer = a]
      <3>1. wait[n] \in Waits(S) /\ wait[n].pc = "wait" /\ a \in S
        BY <2>1, <2>2, Zenon
      <3>2. w \in Waits(S)
        <4>1. wait[n] \in [pc : {"wait", "answered"},
                           for : {"ident", "gossip", "request", "response"},
                           peer : Node, left : Int, answer : S]
          BY <3>1 DEF Waits, Idle
        <4>2. a \in S
          BY <3>1, Zenon
        <4> HIDE DEF a
        <4>3. [wait[n] EXCEPT !.pc = "answered", !.answer = a] \in
                  [pc : {"wait", "answered"},
                   for : {"ident", "gossip", "request", "response"},
                   peer : Node, left : Int, answer : S]
          BY <4>1, <4>2, Zenon
        <4> QED BY <4>3, Zenon DEF Waits, a
      <3>3. wait' = [wait EXCEPT ![n] = w]
        BY <2>2, Zenon DEF Handle
      <3> QED BY <2>1, <3>2, <3>3, Zenon
    <2>3. CASE ~bc[n][i].waits
      BY <2>1, <2>3, Zenon DEF Handle
    <2> QED BY <2>2, <2>3, Zenon
  <1>6. got' \in [Node -> SUBSET S]
    <2>1. got \in [Node -> SUBSET S]
      BY Zenon DEF Carried
    <2>2. got' = [got EXCEPT ![n] = got[n] \cup {bc[n][i].msg}] \/ got' = got
      BY Zenon DEF Handle, get_block_res_handler
    <2> QED BY <1>4, <2>1, <2>2
  <1>7. events' \in [Node -> Seq(S)]
    <2>1. events \in [Node -> Seq(S)] /\ events[n] \in Seq(S)
      BY Zenon DEF Carried
    <2>2. events[n] \o <<>> = events[n]
      BY <2>1
    <2> QED BY <2>1, <2>2, Zenon DEF Handle, get_transaction_res_events
  <1>8. UNCHANGED <<published, gossip, unicast>>
    BY Zenon DEF Handle
  <1> QED BY <1>2, <1>5, <1>6, <1>7, <1>8, Zenon DEF Carried

(* A task of the blockchain has looked in the database. *)
LEMMA LookKeeps ==
    ASSUME NEW S, Carried(S), NEW n \in Node, NEW i \in DOMAIN bc[n], Look(n, i)
    PROVE  /\ bc' \in [Node -> Seq(AskedOf(S))]
           /\ \A p \in Node : /\ DOMAIN bc'[p] = DOMAIN bc[p]
                              /\ \A j \in DOMAIN bc[p] : bc'[p][j].waits = bc[p][j].waits
  <1>1. bc \in [Node -> Seq(AskedOf(S))] /\ bc[n] \in Seq(AskedOf(S))
    BY Zenon DEF Carried
  <1>2. bc[n][i] \in AskedOf(S)
    BY <1>1
  <1>3. PICK r : r = [bc[n][i] EXCEPT !.looked = TRUE]
    BY Zenon
  <1>4. r \in AskedOf(S) /\ r.waits = bc[n][i].waits
    BY <1>2, <1>3, Zenon DEF AskedOf
  <1>5. bc' = [bc EXCEPT ![n] = [bc[n] EXCEPT ![i] = r]]
    BY <1>3, Zenon DEF Look
  <1>6. bc' \in [Node -> Seq(AskedOf(S))]
    <2>1. [bc EXCEPT ![n] = [bc[n] EXCEPT ![i] = r]] \in [Node -> Seq(AskedOf(S))]
      BY <1>1, <1>4, PutRequest, Zenon
    <2> QED BY <1>5, <2>1, Zenon
  <1>7. bc'[n] = [bc[n] EXCEPT ![i] = r] /\ \A p \in Node : p # n => bc'[p] = bc[p]
    BY <1>1, <1>5, Zenon
  <1>8. /\ DOMAIN bc'[n] = DOMAIN bc[n]
        /\ \A j \in DOMAIN bc[n] : bc'[n][j] = IF j = i THEN r ELSE bc[n][j]
    BY <1>7, Zenon
  <1> QED BY <1>4, <1>6, <1>7, <1>8, Zenon

(* An event becomes gossip or a request. *)
LEMMA CarriedEvent ==
    ASSUME NEW S, Carried(S), S \subseteq Message, Nothing \in S,
           NEW n \in Node, NEW i \in DOMAIN events[n], TakeEvent(n, i)
    PROVE  Carried(S)'
  <1> DEFINE m == events[n][i]
  <1>1. events[n] \in Seq(S) /\ events \in [Node -> Seq(S)] /\ m \in S
    BY DEF Carried
  <1>2. events' \in [Node -> Seq(S)]
    <2>1. Without(events[n], i) \in Seq(S)
      BY <1>1, WithoutSeq, Zenon
    <2> QED BY <1>1, <2>1, Zenon DEF TakeEvent
  <1>3. /\ published' \in [Node -> Seq(S)] /\ gossip' \subseteq Copies(S)
        /\ unicast' \in [Node -> Seq(Requests(S))]
    <2>1. CASE to_gossip(m) /\ publish(n, m) /\ UNCHANGED unicast
      <3>1. published[n] \in Seq(S) /\ published \in [Node -> Seq(S)]
        BY Zenon DEF Carried
      <3>2. Append(published[n], m) \in Seq(S)
        BY <1>1, <3>1
      <3>3. published' = [published EXCEPT ![n] = Append(published[n], m)]
        BY <2>1, Zenon DEF publish
      <3>4. published' \in [Node -> Seq(S)] /\ Len(published'[n]) \in Nat
        BY <3>1, <3>2, <3>3
      <3>5. \A p \in Reach(n) : p \in Node
        BY Zenon DEF Reach
      <3>6. gossip' \subseteq Copies(S)
        BY <1>1, <2>1, <3>4, <3>5 DEF publish, Copies, Carried
      <3> QED BY <2>1, <3>4, <3>6, Zenon DEF Carried
    <2>2. CASE /\ ~to_gossip(m) /\ m.type \in {"get_block", "get_tx"}
               /\ send_request(n, m.peer, m)
               /\ UNCHANGED <<gossip, published>>
      <3>1. m.peer \in Node
        BY <1>1, <2>2, Zenon DEF Message, to_gossip
      <3>2. unicast' \in [Node -> Seq(Requests(S))]
        BY <1>1, <2>2, <3>1, CarriedRequest, Zenon
      <3> QED BY <2>2, <3>2, Zenon DEF Carried
    <2> QED BY <2>1, <2>2, Zenon DEF TakeEvent
  <1>4. UNCHANGED <<wait, bc, got>>
    BY Zenon DEF TakeEvent, chain
  <1> QED BY <1>2, <1>3, <1>4, Zenon DEF Carried

(* What a thread waits for when it has just asked. *)
LEMMA WaitingType ==
    ASSUME NEW S, Nothing \in S, NEW p \in Node, NEW l \in Int,
           NEW for \in {"ident", "gossip", "request", "response"}
    PROVE  Waiting(for, p, l) \in Waits(S)
  BY Zenon DEF Waiting, Waits

(* identify_event_handler asks for the newest block, a message of Common. *)
LEMMA CarriedIdentify ==
    ASSUME NEW S, Carried(S), Common \subseteq S, todo \in Plan,
           NEW n \in Node, NEW p \in Node, identify_event_handler(n, p)
    PROVE  Carried(S)'
  <1>1. /\ bc' \in [Node -> Seq(AskedOf(S))]
        /\ wait' \in [Node -> Waits(S)]
    <2>1. CASE UNCHANGED <<bc, wait>>
      BY <2>1, Zenon DEF Carried
    <2>2. CASE Ask(n, GetBlock(Newest, p), Waiting("ident", p, todo.addrs))
      <3>1. GetBlock(Newest, p) \in S /\ Nothing \in S
        BY Zenon DEF Common
      <3>2. todo.addrs \in Int
        BY DEF Plan
      <3>3. Waiting("ident", p, todo.addrs) \in Waits(S)
        BY <3>1, <3>2, WaitingType, Zenon
      <3> HIDE DEF Waits
      <3> QED BY <2>2, <3>1, <3>3, CarriedAsk, Zenon
    <2> QED BY <2>1, <2>2, Zenon DEF identify_event_handler
  <1>2. UNCHANGED <<events, published, gossip, unicast, got>>
    BY Zenon DEF identify_event_handler, chain
  <1> QED BY <1>1, <1>2, Zenon DEF Carried

(* gossip_event_handler takes the message of a copy to the blockchain. *)
LEMMA CarriedGossip ==
    ASSUME NEW S, Carried(S), Nothing \in S,
           NEW n \in Node, NEW g \in gossip, gossip_event_handler(n, g)
    PROVE  Carried(S)'
  <1>1. g.msg \in S /\ g.source \in Node
    BY Zenon DEF Carried, Copies
  <1>2. Waiting("gossip", g.source, 1) \in Waits(S)
    BY <1>1, WaitingType
  <1>3. /\ bc' \in [Node -> Seq(AskedOf(S))]
        /\ wait' \in [Node -> Waits(S)]
    BY <1>1, <1>2, CarriedAsk, Zenon DEF gossip_event_handler
  <1>4. UNCHANGED <<events, published, unicast, got>> /\ gossip' \subseteq gossip
    BY Zenon DEF gossip_event_handler, chain
  <1> QED BY <1>3, <1>4, Zenon DEF Carried

(* A request of another node. *)
LEMMA CarriedTaken ==
    ASSUME NEW S, Carried(S), Common \subseteq S,
           NEW n \in Node, NEW p \in Node, NEW i \in DOMAIN unicast[p], reqres_request(n, p, i)
    PROVE  Carried(S)'
  <1> DEFINE r == unicast[p][i]
  <1>0. Nothing \in S /\ Ack \in S
    BY Zenon DEF Common
  <1>1. r \in Requests(S) /\ r.msg \in S
    BY RequestParts, Zenon
  <1>2. i \in Int
    BY DEF Carried
  <1>3. /\ bc' \in [Node -> Seq(AskedOf(S))]
        /\ wait' \in [Node -> Waits(S)]
        /\ unicast' \in [Node -> Seq(Requests(S))]
    <2>1. CASE /\ unicast' = [unicast EXCEPT ![p][i].pc = "taken"]
               /\ Ask(n, r.msg, Waiting("request", p, i))
      <3>1. Waiting("request", p, i) \in Waits(S)
        BY <1>0, <1>2, WaitingType, Zenon
      <3>2. bc' \in [Node -> Seq(AskedOf(S))] /\ wait' \in [Node -> Waits(S)]
        BY <1>1, <2>1, <3>1, CarriedAsk, Zenon
      <3>3. [unicast[p][i] EXCEPT !.pc = "taken"] \in Requests(S)
        BY RequestParts, Zenon
      <3>4. unicast' = [unicast EXCEPT ![p] =
                           [unicast[p] EXCEPT ![i] = [unicast[p][i] EXCEPT !.pc = "taken"]]]
        BY <2>1, Zenon
      <3>5. unicast' \in [Node -> Seq(Requests(S))]
        BY <3>3, <3>4, CarriedMark, Zenon
      <3> QED BY <3>2, <3>5, Zenon
    <2>2. CASE /\ unicast' = [unicast EXCEPT ![p][i].pc = "answered", ![p][i].res = Ack]
               /\ bc' = [bc EXCEPT ![n] = Append(@, [msg |-> r.msg, waits |-> FALSE, looked |-> FALSE])]
               /\ UNCHANGED wait
      <3> DEFINE a == [msg |-> r.msg, waits |-> FALSE, looked |-> FALSE]
                 q == [unicast[p][i] EXCEPT !.pc = "answered", !.res = Ack]
      <3>1. a \in AskedOf(S)
        BY <1>1, Zenon DEF AskedOf
      <3>2. bc[n] \in Seq(AskedOf(S)) /\ bc \in [Node -> Seq(AskedOf(S))]
        BY Zenon DEF Carried
      <3>3. q \in Requests(S)
        BY <1>0, RequestParts, Zenon
      <3>4. unicast' = [unicast EXCEPT ![p] = [unicast[p] EXCEPT ![i] = q]]
        <4>1. unicast \in [Node -> Seq(Requests(S))] /\ unicast[p] \in Seq(Requests(S))
          BY Zenon DEF Carried
        <4> QED BY <2>2, <4>1, <1>1, Zenon DEF Requests
      <3>5. bc' = [bc EXCEPT ![n] = Append(bc[n], a)]
        BY <2>2, Zenon
      <3> HIDE DEF a, q
      <3>6. Append(bc[n], a) \in Seq(AskedOf(S))
        BY <3>1, <3>2
      <3>7. bc' \in [Node -> Seq(AskedOf(S))]
        BY <3>2, <3>5, <3>6, Zenon
      <3>8. unicast' \in [Node -> Seq(Requests(S))]
        BY <3>3, <3>4, CarriedMark, Zenon
      <3> QED BY <2>2, <3>7, <3>8, Zenon DEF Carried
    <2>3. CASE /\ unicast' = [unicast EXCEPT ![p][i].pc = "dropped"]
               /\ UNCHANGED <<bc, wait>>
      <3>1. [unicast[p][i] EXCEPT !.pc = "dropped"] \in Requests(S)
        BY RequestParts, Zenon
      <3>2. unicast' = [unicast EXCEPT ![p] =
                           [unicast[p] EXCEPT ![i] = [unicast[p][i] EXCEPT !.pc = "dropped"]]]
        BY <2>3, Zenon
      <3>3. unicast' \in [Node -> Seq(Requests(S))]
        BY <3>1, <3>2, CarriedMark, Zenon
      <3> QED BY <2>3, <3>3, Zenon DEF Carried
    <2> QED BY <2>1, <2>2, <2>3, Zenon DEF reqres_request
  <1>4. UNCHANGED <<events, published, gossip, got>>
    BY Zenon DEF reqres_request, chain
  <1> QED BY <1>3, <1>4, Zenon DEF Carried

(* The response to a request of this node. *)
LEMMA CarriedResponse ==
    ASSUME NEW S, Carried(S), Nothing \in S,
           NEW n \in Node, NEW i \in DOMAIN unicast[n], reqres_response(n, i)
    PROVE  Carried(S)'
  <1> DEFINE r == unicast[n][i]
  <1>1. r.res \in S /\ r.to \in Node /\ [unicast[n][i] EXCEPT !.pc = "done"] \in Requests(S)
    BY RequestParts, Zenon
  <1>2. i \in Int
    BY DEF Carried
  <1>3. unicast' = [unicast EXCEPT ![n] =
                       [unicast[n] EXCEPT ![i] = [unicast[n][i] EXCEPT !.pc = "done"]]]
    BY Zenon DEF reqres_response
  <1>4. unicast' \in [Node -> Seq(Requests(S))]
    BY <1>1, <1>3, CarriedMark, Zenon
  <1>5. bc' \in [Node -> Seq(AskedOf(S))] /\ wait' \in [Node -> Waits(S)]
    <2>1. CASE Ask(n, r.res, Waiting("response", r.to, i))
      <3>1. Waiting("response", r.to, i) \in Waits(S)
        BY <1>1, <1>2, WaitingType, Zenon
      <3> QED BY <1>1, <2>1, <3>1, CarriedAsk, Zenon
    <2>2. CASE UNCHANGED <<bc, wait>>
      BY <2>2, Zenon DEF Carried
    <2> QED BY <2>1, <2>2, Zenon DEF reqres_response
  <1>6. UNCHANGED <<events, published, gossip, got>>
    BY Zenon DEF reqres_response, chain
  <1> QED BY <1>4, <1>5, <1>6, Zenon DEF Carried

(* The parts of what a thread waits for. *)
LEMMA WaitParts ==
    ASSUME NEW S, Carried(S), NEW n \in Node, wait[n].pc # "idle"
    PROVE  /\ wait[n].peer \in Node /\ wait[n].left \in Int /\ wait[n].answer \in S
           /\ wait[n].for \in {"ident", "gossip", "request", "response"}
  <1>1. wait[n] \in Waits(S)
    BY Zenon DEF Carried
  <1> QED BY <1>1 DEF Waits, Idle

(* The four ways in which a handler that has waited goes on. *)
LEMMA ResumeCases ==
    ASSUME NEW S, Carried(S), NEW n \in Node, Resume(n)
    PROVE  LET w == wait[n] m == w.answer IN
           /\ w.pc = "answered" /\ w.peer \in Node /\ w.left \in Int /\ m \in S
           /\ \/ w.for = "ident" /\ m.type = "block" /\ send_request(n, w.peer, m)
              \/ w.for = "gossip" /\ m.type \in {"tx", "block"} /\ send_request(n, w.peer, m)
              \/ w.for = "request" /\ respond(w.peer, w.left, m)
              \/ UNCHANGED unicast
           /\ \/ wait' = [wait EXCEPT ![n] = Idle] /\ UNCHANGED bc
              \/ /\ w.for = "ident"
                 /\ Ask(n, GetBlock(Newest, w.peer), Waiting("ident", w.peer, w.left - 1))
           /\ UNCHANGED <<events, gossip, published, chain>>
  <1>1. wait[n].pc = "answered"
    BY Zenon DEF Resume
  <1>2. /\ wait[n].peer \in Node /\ wait[n].left \in Int /\ wait[n].answer \in S
        /\ wait[n].for \in {"ident", "gossip", "request", "response"}
    BY <1>1, WaitParts, Zenon
  <1>3. CASE wait[n].for = "ident"
    BY <1>1, <1>2, <1>3, Zenon DEF Resume
  <1>4. CASE wait[n].for = "gossip"
    BY <1>1, <1>2, <1>4, Zenon DEF Resume
  <1>5. CASE wait[n].for = "request"
    BY <1>1, <1>2, <1>5, Zenon DEF Resume
  <1>6. CASE wait[n].for = "response"
    BY <1>1, <1>2, <1>6, Zenon DEF Resume
  <1> QED BY <1>2, <1>3, <1>4, <1>5, <1>6, Zenon

(* A response changes what became of a request, if that still waits. *)
LEMMA RespondMarks ==
    ASSUME NEW S, Carried(S), NEW p \in Node, NEW i \in Int, NEW m \in S, respond(p, i, m)
    PROVE  \E r : /\ unicast' = [unicast EXCEPT ![p] = [unicast[p] EXCEPT ![i] = r]]
                  /\ i \in DOMAIN unicast[p] =>
                         /\ r \in Requests(S)
                         /\ r.to = unicast[p][i].to /\ r.msg = unicast[p][i].msg
  <1> DEFINE r0 == unicast[p][i]
             r1 == IF r0.pc = "taken" THEN [r0 EXCEPT !.pc = "answered", !.res = m] ELSE r0
             r2 == [r0 EXCEPT !.pc = IF r0.pc = "taken" THEN "dropped" ELSE r0.pc]
  <1>1. \/ unicast' = [unicast EXCEPT ![p] = [unicast[p] EXCEPT ![i] = r1]]
        \/ unicast' = [unicast EXCEPT ![p] = [unicast[p] EXCEPT ![i] = r2]]
    BY Zenon DEF respond, send_response
  <1>2. ASSUME i \in DOMAIN unicast[p]
        PROVE  /\ r1 \in Requests(S) /\ r1.to = r0.to /\ r1.msg = r0.msg
               /\ r2 \in Requests(S) /\ r2.to = r0.to /\ r2.msg = r0.msg
    <2>1. r0 \in Requests(S)
      BY <1>2, RequestParts, Zenon
    <2> QED BY <2>1, Zenon DEF Requests
  <1> HIDE DEF r1, r2
  <1> QED BY <1>1, <1>2, Zenon

(* A thread that has its answer sends that, or what Common holds. *)
LEMMA CarriedResume ==
    ASSUME NEW S, Carried(S), Common \subseteq S, NEW n \in Node, Resume(n)
    PROVE  Carried(S)'
  <1> DEFINE w == wait[n]
             m == w.answer
  <1>0. Nothing \in S
    BY Zenon DEF Common
  <1>1. w.pc = "answered" /\ w.peer \in Node /\ w.left \in Int /\ m \in S
    BY ResumeCases, Zenon
  <1>2. unicast' \in [Node -> Seq(Requests(S))]
    <2>1. CASE send_request(n, w.peer, m)
      BY <1>0, <1>1, <2>1, CarriedRequest, Zenon
    <2>2. CASE respond(w.peer, w.left, m)
      <3>1. PICK r : /\ unicast' = [unicast EXCEPT ![w.peer] =
                                       [unicast[w.peer] EXCEPT ![w.left] = r]]
                     /\ w.left \in DOMAIN unicast[w.peer] => r \in Requests(S)
        BY <1>1, <2>2, RespondMarks
      <3> QED BY <1>1, <3>1, CarriedMark, Zenon
    <2>3. CASE UNCHANGED unicast
      BY <2>3, Zenon DEF Carried
    <2> QED BY <2>1, <2>2, <2>3, ResumeCases, Zenon
  <1>3. bc' \in [Node -> Seq(AskedOf(S))] /\ wait' \in [Node -> Waits(S)]
    <2>1. CASE wait' = [wait EXCEPT ![n] = Idle] /\ UNCHANGED bc
      <3>1. Idle \in Waits(S)
        BY Zenon DEF Waits
      <3> QED BY <2>1, <3>1, Zenon DEF Carried
    <2>2. CASE Ask(n, GetBlock(Newest, w.peer), Waiting("ident", w.peer, w.left - 1))
      <3>1. Waiting("ident", w.peer, w.left - 1) \in Waits(S)
        BY <1>0, <1>1, WaitingType
      <3>2. GetBlock(Newest, w.peer) \in S
        BY <1>1, Zenon DEF Common
      <3> QED BY <2>2, <3>1, <3>2, CarriedAsk, Zenon
    <2> QED BY <2>1, <2>2, ResumeCases, Zenon
  <1>4. UNCHANGED <<events, gossip, published, got>>
    BY ResumeCases, Zenon DEF chain
  <1> QED BY <1>2, <1>3, <1>4, Zenon DEF Carried

-----------------------------------------------------------------------------
(* The transaction of a message, and the height of a block. *)
LEMMA MessageParts ==
    ASSUME NEW m \in Message
    PROVE  /\ m.type \in {"tx", "get_tx"} => m.what \in Tx /\ m.peer \in Node \cup {None}
           /\ m.type \in {"block", "get_block"} => /\ m.what \in 0 .. Newest
                                                 /\ m.peer \in Node \cup {None}
  BY Zenon DEF Message

(* The submissions that are still to come, or between their two steps. *)
Left == todo.submit \cup putting
held == <<height, putting, pool, stored, clients>>

(* The steps, by what they do to the blocks and transactions of the nodes. *)
LEMMA ChainsKept ==
    ASSUME Chains, UNCHANGED held,
           \/ UNCHANGED todo
           \/ Misbehave
           \/ \E r \in todo.ask : todo' = [todo EXCEPT !.ask = @ \ {r}]
    PROVE  Chains' /\ Left' = Left
  <1>1. todo' \in Plan /\ todo'.ask \subseteq todo.ask /\ todo'.submit = todo.submit
    BY DEF Chains, Misbehave, Plan
  <1> QED BY <1>1, Zenon DEF Chains, Left, held

(* Chains and what a node has only grow, and what is left of the plan only  *)
(* shrinks.                                                                 *)
LEMMA ChainsStep ==
    ASSUME Chains, Carried(Message), [Next]_vars
    PROVE  /\ Chains' /\ Left' \subseteq Left
           /\ \A n \in Node : height[n] <= height'[n] /\ Has(n) \subseteq Has(n)'
  <1> DEFINE More == /\ Chains' /\ Left' \subseteq Left
                     /\ \A q \in Node : height[q] <= height'[q] /\ Has(q) \subseteq Has(q)'
  <1>0. \A n \in Node : height[n] \in Int /\ height[n] <= height[n]
    BY DEF Chains
  <1>1. ASSUME UNCHANGED held,
               \/ UNCHANGED todo
               \/ Misbehave
               \/ \E r \in todo.ask : todo' = [todo EXCEPT !.ask = @ \ {r}]
        PROVE  More
    <2>1. \A q \in Node : height[q] <= height'[q] /\ Has(q) \subseteq Has(q)'
      BY <1>0, <1>1, Zenon DEF held, Has
    <2> QED BY <1>1, <2>1, ChainsKept, Zenon
  <1>2. ASSUME NEW n \in Node, NEW i \in DOMAIN bc[n], Handle(n, i)
        PROVE  More
    <2>1. bc[n][i] \in AskedOf(Message)
      BY <1>2 DEF Carried
    <2>2. bc[n][i].msg \in Message
      BY <2>1, Zenon DEF AskedOf
    <2>3. bc[n][i].msg.type = "tx" => bc[n][i].msg.what \in Tx
      BY <2>2, MessageParts, Zenon
    <2>4. \/ pool' = pool
          \/ /\ bc[n][i].msg.type = "tx"
             /\ pool' = [pool EXCEPT ![n] = pool[n] \cup {bc[n][i].msg.what}]
      BY <1>2, Zenon DEF Handle
    <2>5. pool' \in [Node -> SUBSET Tx] /\ \A q \in Node : pool[q] \subseteq pool'[q]
      BY <2>3, <2>4 DEF Chains
    <2>6. UNCHANGED <<height, putting, stored, clients, todo>>
      BY <1>2, Zenon DEF Handle, fault
    <2>7. Chains' /\ Left' = Left
      BY <2>5, <2>6, Zenon DEF Chains, Left
    <2> QED BY <1>0, <2>5, <2>6, <2>7, Zenon DEF Has
  <1>3. ASSUME NEW n \in Node, NEW t \in Tx, Submit(n, t)
        PROVE  More
    <2>1. /\ todo' \in Plan /\ todo'.ask = todo.ask
          /\ todo'.submit = todo.submit \ {<<n, t>>}
      BY <1>3, Zenon DEF Submit, Chains, Plan
    <2>2. /\ UNCHANGED <<height, pool, stored>> /\ clients' = clients \cup {<<n, t>>}
          /\ putting' \in {putting, putting \cup {<<n, t>>}} /\ <<n, t>> \in todo.submit
      BY <1>3, Zenon DEF Submit
    <2>3. <<n, t>> \in Node \X Tx
      OBVIOUS
    <2>4. /\ clients' \subseteq Node \X Tx /\ putting' \subseteq clients'
          /\ putting' \cap todo'.submit = {} /\ Left' \subseteq Left
      BY <2>1, <2>2, <2>3 DEF Chains, Left
    <2>5. Chains'
      BY <2>1, <2>2, <2>4, Zenon DEF Chains
    <2> QED BY <1>0, <2>2, <2>4, <2>5, Zenon DEF Has
  <1>4. ASSUME NEW n \in Node, Execute(n)
        PROVE  More
    <2>1. /\ height' \in [Node -> -1 .. MaxHeight]
          /\ \A q \in Node : height[q] <= height'[q]
      BY <1>4, P2pAssumption DEF Execute, Chains
    <2>2. todo' \in Plan /\ todo'.ask = todo.ask /\ todo'.submit = todo.submit
      BY <1>4 DEF Execute, Chains, Plan
    <2>3. UNCHANGED <<putting, clients>>
      BY <1>4, Zenon DEF Execute
    <2>4. PICK block \in SUBSET pool[n] :
              /\ stored' = [stored EXCEPT ![n] = stored[n] \cup block]
              /\ pool' = [pool EXCEPT ![n] = pool[n] \ block]
      BY <1>4, Zenon DEF Execute
    <2>5. pool' \in [Node -> SUBSET Tx] /\ stored' \in [Node -> SUBSET Tx]
      BY <2>4 DEF Chains
    <2>6. \A q \in Node : Has(q) \subseteq Has(q)'
      BY <2>4 DEF Chains, Has
    <2>7. Chains' /\ Left' = Left
      BY <2>1, <2>2, <2>3, <2>5, Zenon DEF Chains, Left
    <2> QED BY <2>1, <2>6, <2>7, Zenon
  <1>13. ASSUME NEW n \in Node, NEW t \in Tx, Put(n, t)
         PROVE  More
    <2>1. /\ UNCHANGED <<height, todo, stored, clients>> /\ putting' = putting \ {<<n, t>>}
          /\ pool' = [pool EXCEPT ![n] = pool[n] \cup {t}]
      BY <1>13, Zenon DEF Put
    <2>2. pool' \in [Node -> SUBSET Tx] /\ \A q \in Node : pool[q] \subseteq pool'[q]
      BY <2>1 DEF Chains
    <2>3. Chains' /\ Left' \subseteq Left
      BY <2>1, <2>2, Zenon DEF Chains, Left
    <2> QED BY <1>0, <2>1, <2>2, <2>3, Zenon DEF Has
  <1>5. ASSUME UNCHANGED vars
        PROVE  More
    <2>1. UNCHANGED held /\ UNCHANGED todo
      BY <1>5, Zenon DEF vars, chain, fault, held
    <2> QED BY <1>1, <2>1, Zenon
  <1>6. ASSUME NEW n \in Node, NodeStep(n), \A i \in DOMAIN bc[n] : ~Handle(n, i),
               \A t \in Tx : ~Put(n, t)
        PROVE  UNCHANGED held /\ UNCHANGED todo
    BY <1>6, Zenon DEF NodeStep, Look, TakeEvent, identify_event_handler, gossip_event_handler,
                reqres_request, reqres_response, Resume, chain, fault, held
  <1>7. ASSUME NEW n \in Node, Start(n) \/ AlignEnd(n) \/ kad_event_handler(n)
        PROVE  UNCHANGED held /\ (UNCHANGED todo \/ Misbehave)
    BY <1>7, Zenon DEF Start, AlignEnd, kad_event_handler, chain, fault, held
  <1>8. ASSUME NEW n \in Node, NEW p \in Node, Discovered(n, p) \/ Expired(n, p)
        PROVE  UNCHANGED held /\ (UNCHANGED todo \/ Misbehave)
    BY <1>8, Zenon DEF Discovered, Expired, chain, fault, held
  <1>9. ASSUME NEW r \in todo.ask, AlignAsk(r[1], r[2])
        PROVE  /\ UNCHANGED held
               /\ todo' = [todo EXCEPT !.ask = @ \ {r}]
    <2>1. r = <<r[1], r[2]>>
      BY <1>9 DEF Chains, Plan
    <2> QED BY <1>9, <2>1, Zenon DEF AlignAsk, held
  <1>10. ASSUME NEW n \in Node, NEW i \in DOMAIN unicast[n], RequestFails(n, i)
         PROVE  UNCHANGED held /\ (UNCHANGED todo \/ Misbehave)
    BY <1>10, Zenon DEF RequestFails, chain, fault, held
  <1>11. ASSUME NEW g \in gossip, LoseGossip(g)
         PROVE  UNCHANGED held /\ (UNCHANGED todo \/ Misbehave)
    BY <1>11, Zenon DEF LoseGossip, chain, fault, held
  <1> HIDE DEF More
  <1>12. ASSUME NEW n \in Node, NodeStep(n)
         PROVE  More
    <2>1. CASE \E i \in DOMAIN bc[n] : Handle(n, i)
      BY <2>1, <1>2, Zenon
    <2>2. CASE \E t \in Tx : Put(n, t)
      BY <2>2, <1>13, Zenon
    <2>3. CASE (\A i \in DOMAIN bc[n] : ~Handle(n, i)) /\ (\A t \in Tx : ~Put(n, t))
      BY <2>3, <1>12, <1>1, <1>6, Zenon
    <2> QED BY <2>1, <2>2, <2>3, Zenon
  <1>15. ASSUME NEW n \in Node, Start(n) \/ AlignEnd(n) \/ kad_event_handler(n)
         PROVE  More
    BY <1>15, <1>1, <1>7, Zenon
  <1>16. ASSUME NEW r \in todo.ask, AlignAsk(r[1], r[2])
         PROVE  More
    BY <1>16, <1>1, <1>9, Zenon
  <1>17. CASE \E n, p \in Node : Discovered(n, p) \/ Expired(n, p)
    BY <1>17, <1>1, <1>8, Zenon DEF More
  <1>18. CASE \E n \in Node : \E i \in DOMAIN unicast[n] : RequestFails(n, i)
    BY <1>18, <1>1, <1>10, Zenon DEF More
  <1>19. CASE \E g \in gossip : LoseGossip(g)
    BY <1>19, <1>1, <1>11, Zenon DEF More
  <1>20. CASE \E r \in todo.ask : AlignAsk(r[1], r[2])
    BY <1>20, <1>16, Zenon DEF More
  <1>21. CASE \E n \in Node, t \in Tx : Submit(n, t)
    BY <1>21, <1>3, Zenon DEF More
  <1>22. CASE \E n \in Node : NodeStep(n) \/ Start(n) \/ Execute(n) \/ AlignEnd(n)
                               \/ kad_event_handler(n)
    BY <1>22, <1>12, <1>15, <1>4, Zenon DEF More
  <1>23. CASE UNCHANGED vars
    BY <1>23, <1>5, Zenon DEF More
  <1> QED BY <1>17, <1>18, <1>19, <1>20, <1>21, <1>22, <1>23, Zenon DEF Next


-----------------------------------------------------------------------------
(* What is genuine stays so, for blocks and transactions are never lost. *)
LEMMA GenuineKept ==
    ASSUME Chains, Chains',
           \A n \in Node : height[n] <= height'[n] /\ Has(n) \subseteq Has(n)'
    PROVE  Genuine \subseteq Genuine'
  <1> SUFFICES ASSUME NEW m \in Genuine
               PROVE  m \in Genuine'
    BY Zenon
  <1>1. m \in Message
    BY Zenon DEF Genuine
  <1>2. m.type = "block" /\ m.peer # None => m.what <= height'[m.peer]
    <2>1. SUFFICES ASSUME m.type = "block", m.peer # None
                   PROVE  m.what <= height'[m.peer]
      BY Zenon
    <2>2. m.peer \in Node /\ m.what \in Int
      BY <1>1, <2>1, MessageParts DEF Newest
    <2>3. height[m.peer] \in Int /\ height'[m.peer] \in Int
      BY <2>2 DEF Chains
    <2>4. m.what <= height[m.peer] /\ height[m.peer] <= height'[m.peer]
      BY <2>1, <2>2, Zenon DEF Genuine
    <2> QED BY <2>2, <2>3, <2>4
  <1>3. m.type = "tx" /\ m.peer # None => m.what \in Has(m.peer)'
    <2>1. SUFFICES ASSUME m.type = "tx", m.peer # None
                   PROVE  m.what \in Has(m.peer)'
      BY Zenon
    <2>2. m.peer \in Node
      BY <1>1, <2>1, MessageParts, Zenon
    <2> QED BY <2>1, <2>2, Zenon DEF Genuine
  <1> QED BY <1>1, <1>2, <1>3, Zenon DEF Genuine

(* Messages without an origin, and those of any thread, are genuine. *)
LEMMA GenuineFacts ==
    /\ Common \subseteq Genuine /\ Genuine \subseteq Message
    /\ \A m \in Message : m.type \in {"get_block", "get_tx"} => m \in Genuine
    /\ \A t \in Tx : TxMsg(t, None) \in Genuine
    /\ \A h \in 0 .. Newest : BlockMsg(h, None) \in Genuine
  <1>1. Common \subseteq Message
    BY P2pAssumption DEF Common, Message, Ack, Exception, Nothing, GetBlock, Newest
  <1>2. \A t \in Tx : TxMsg(t, None) \in Message
    BY Zenon DEF TxMsg, Message
  <1>3. \A h \in 0 .. Newest : BlockMsg(h, None) \in Message
    BY Zenon DEF BlockMsg, Message
  <1>4. Common \subseteq Genuine
    BY <1>1 DEF Genuine, Common, Ack, Exception, Nothing, GetBlock
  <1>5. \A t \in Tx : TxMsg(t, None) \in Genuine
    BY <1>2, Zenon DEF Genuine, TxMsg
  <1>6. \A h \in 0 .. Newest : BlockMsg(h, None) \in Genuine
    BY <1>3, Zenon DEF Genuine, BlockMsg
  <1>7. \A m \in Message : m.type \in {"get_block", "get_tx"} => m \in Genuine
    BY Zenon DEF Genuine
  <1> QED BY <1>4, <1>5, <1>6, <1>7, Zenon DEF Genuine

(* What a node answers it has, and it says so in its own name. *)
LEMMA AnswerGenuine ==
    ASSUME Chains, NEW n \in Node, NEW m \in Message, NEW l \in BOOLEAN
    PROVE  Answer(n, m, l) \in Genuine
  <1>1. CASE m.type = "get_block"
    <2>1. load_block(n, m.what) \subseteq 0 .. height[n] /\ height[n] \in -1 .. MaxHeight
      BY DEF load_block, Chains
    <2>2. CASE load_block(n, m.what) = {}
      BY <1>1, <2>2, GenuineFacts, Zenon DEF Answer, get_block_handler, Common
    <2>3. CASE load_block(n, m.what) # {}
      <3> DEFINE h == CHOOSE x \in load_block(n, m.what) : TRUE
      <3>1. h \in load_block(n, m.what)
        BY <2>3, Zenon
      <3>2. h \in 0 .. Newest /\ h <= height[n]
        BY <2>1, <3>1, P2pAssumption DEF Newest
      <3>3. Answer(n, m, l) = BlockMsg(h, n)
        BY <1>1, <2>3, Zenon DEF Answer, get_block_handler, get_block_origin
      <3> HIDE DEF h
      <3>4. BlockMsg(h, n) \in Message
        BY <3>2, Zenon DEF BlockMsg, Message
      <3> QED BY <3>2, <3>3, <3>4 DEF Genuine, BlockMsg
    <2> QED BY <2>2, <2>3, Zenon
  <1>2. CASE m.type = "get_tx"
    <2> DEFINE from == IF l THEN pool[n] ELSE stored[n]
    <2>0. Answer(n, m, l) = IF m.what \in from THEN TxMsg(m.what, n) ELSE Exception
      BY <1>2, Zenon DEF Answer, get_transaction_handler
    <2>1. CASE m.what \in from
      <3>1. Answer(n, m, l) = TxMsg(m.what, n) /\ m.what \in Has(n)
        BY <2>0, <2>1, Zenon DEF Has
      <3>2. TxMsg(m.what, n) \in Message
        BY <1>2, MessageParts, Zenon DEF TxMsg, Message
      <3>3. TxMsg(m.what, n).type = "tx" /\ TxMsg(m.what, n).what = m.what
            /\ TxMsg(m.what, n).peer = n
        BY Zenon DEF TxMsg
      <3> QED BY <3>1, <3>2, <3>3, Zenon DEF Genuine
    <2>2. CASE m.what \notin from
      BY <2>0, <2>2, GenuineFacts, Zenon DEF Common
    <2> QED BY <2>1, <2>2, Zenon
  <1>3. CASE m.type \notin {"get_block", "get_tx"}
    BY <1>3, GenuineFacts, Zenon DEF Answer, Common
  <1> QED BY <1>1, <1>2, <1>3, Zenon

-----------------------------------------------------------------------------
(* A thread that does not wait asks. *)
LEMMA AskingAsk ==
    ASSUME NEW S, Carried(S), Asking, NEW n \in Node, NEW m, NEW w, Ask(n, m, w),
           wait[n].pc # "wait", w.pc = "wait"
    PROVE  Asking'
  <1> DEFINE a == [msg |-> m, waits |-> TRUE, looked |-> FALSE]
  <1>1. bc[n] \in Seq(AskedOf(S)) /\ bc \in [Node -> Seq(AskedOf(S))] /\ DOMAIN wait = Node
    BY Zenon DEF Carried
  <1>2. bc' = [bc EXCEPT ![n] = Append(bc[n], a)] /\ wait' = [wait EXCEPT ![n] = w]
    BY Zenon DEF Ask
  <1>3. \A i \in DOMAIN bc[n] : ~bc[n][i].waits
    BY Zenon DEF Asking
  <1> HIDE DEF a
  <1>4. /\ bc'[n] = Append(bc[n], a) /\ wait'[n] = w
        /\ \A p \in Node : p # n => bc'[p] = bc[p] /\ wait'[p] = wait[p]
    BY <1>1, <1>2, Zenon
  <1>5. /\ DOMAIN bc'[n] = 1 .. Len(bc[n]) + 1
        /\ \A i \in 1 .. Len(bc[n]) : bc'[n][i] = bc[n][i] /\ i \in DOMAIN bc[n]
    BY <1>1, <1>4
  <1>6. \A i \in DOMAIN bc'[n] : bc'[n][i].waits => i = Len(bc[n]) + 1
    BY <1>1, <1>3, <1>5
  <1> QED BY <1>4, <1>6, Zenon DEF Asking

(* A message that nobody waits for. *)
LEMMA AskingTell ==
    ASSUME NEW S, Carried(S), Asking, NEW n \in Node, NEW m,
           bc' = [bc EXCEPT ![n] = Append(@, [msg |-> m, waits |-> FALSE, looked |-> FALSE])], UNCHANGED wait
    PROVE  Asking'
  <1> DEFINE a == [msg |-> m, waits |-> FALSE, looked |-> FALSE]
  <1>1. bc[n] \in Seq(AskedOf(S)) /\ bc \in [Node -> Seq(AskedOf(S))]
    BY Zenon DEF Carried
  <1>2. bc' = [bc EXCEPT ![n] = Append(bc[n], a)] /\ ~a.waits
    BY Zenon
  <1> HIDE DEF a
  <1>3. bc'[n] = Append(bc[n], a) /\ \A p \in Node : p # n => bc'[p] = bc[p]
    BY <1>1, <1>2, Zenon
  <1>4. /\ DOMAIN bc'[n] = 1 .. Len(bc[n]) + 1 /\ bc'[n][Len(bc[n]) + 1] = a
        /\ \A i \in 1 .. Len(bc[n]) : bc'[n][i] = bc[n][i] /\ i \in DOMAIN bc[n]
    BY <1>1, <1>3
  <1>5. \A i \in DOMAIN bc'[n] : bc'[n][i].waits => i \in DOMAIN bc[n] /\ bc'[n][i] = bc[n][i]
    BY <1>1, <1>2, <1>4
  <1> QED BY <1>3, <1>5 DEF Asking

(* The request is handled that the thread waits for, or another one. *)
LEMMA AskingHandle ==
    ASSUME NEW S, Carried(S), Asking, NEW n \in Node, NEW i \in DOMAIN bc[n], Handle(n, i)
    PROVE  Asking'
  <1> DEFINE b == bc[n]
             f(j) == IF j < i THEN j ELSE j + 1
  <1>1. b \in Seq(AskedOf(S)) /\ bc \in [Node -> Seq(AskedOf(S))] /\ DOMAIN wait = Node
    BY Zenon DEF Carried
  <1>2. bc' = [bc EXCEPT ![n] = Without(b, i)]
    BY Zenon DEF Handle
  <1>3. bc'[n] = Without(b, i) /\ \A p \in Node : p # n => bc'[p] = bc[p]
    BY <1>1, <1>2, Zenon
  <1>4. i \in 1 .. Len(b) /\ Len(b) \in Nat /\ DOMAIN b = 1 .. Len(b)
    BY <1>1
  <1>5. /\ DOMAIN bc'[n] = 1 .. Len(b) - 1
        /\ \A j \in 1 .. Len(b) - 1 : bc'[n][j] = b[f(j)]
    BY <1>3, Zenon DEF Without
  <1>6. \A j \in 1 .. Len(b) - 1 : f(j) \in DOMAIN b /\ f(j) # i
    BY <1>4
  <1>7. \A j, k \in 1 .. Len(b) - 1 : f(j) = f(k) => j = k
    BY <1>4
  <1>8. \A p \in Node : p # n => wait'[p] = wait[p]
    BY <1>1, Zenon DEF Handle
  <1>9. \A j, k \in DOMAIN bc'[n] : bc'[n][j].waits /\ bc'[n][k].waits => j = k
    <2>1. \A j, k \in DOMAIN b : b[j].waits /\ b[k].waits => j = k
      BY Zenon DEF Asking
    <2> HIDE DEF b, f
    <2>2. QED
      BY <1>5, <1>6, <1>7, <2>1, Zenon
  <1>10. \A j \in DOMAIN bc'[n] : bc'[n][j].waits => wait'[n].pc = "wait"
    <2>1. CASE b[i].waits
      BY <2>1, <1>5, <1>6, Zenon DEF Asking
    <2>2. CASE ~b[i].waits
      <3>1. wait' = wait
        BY <2>2, Zenon DEF Handle
      <3> QED BY <3>1, <1>5, <1>6, Zenon DEF Asking
    <2> QED BY <2>1, <2>2, Zenon
  <1> QED BY <1>3, <1>8, <1>9, <1>10, Zenon DEF Asking

(* A thread asks the blockchain only when it waits for nothing. *)
LEMMA AskingStep ==
    ASSUME Carried(Message), Asking, [Next]_vars
    PROVE  Asking'
  <1>1. CASE UNCHANGED <<bc, wait>>
    BY <1>1, Zenon DEF Asking
  <1>2. \A for, p, l : Waiting(for, p, l).pc = "wait"
    BY Zenon DEF Waiting
  <1>3. ASSUME NEW n \in Node, NodeStep(n)
        PROVE  Asking'
    <2>1. Free(n) => wait[n].pc # "wait"
      BY DEF Free, Idle
    <2>2. ASSUME NEW i \in DOMAIN bc[n], Handle(n, i)
          PROVE  Asking'
      BY <2>2, AskingHandle, Zenon
    <2>9. ASSUME NEW i \in DOMAIN bc[n], Look(n, i)
          PROVE  Asking'
      <3>1. \A p \in Node : /\ DOMAIN bc'[p] = DOMAIN bc[p]
                            /\ \A j \in DOMAIN bc[p] : bc'[p][j].waits = bc[p][j].waits
        BY <2>9, LookKeeps, Zenon
      <3>2. UNCHANGED wait
        BY <2>9, Zenon DEF Look
      <3> QED BY <3>1, <3>2, Zenon DEF Asking
    <2>10. CASE \E t \in Tx : Put(n, t)
      BY <1>1, <2>10, Zenon DEF Put, outside
    <2>3. ASSUME NEW i \in DOMAIN events[n], TakeEvent(n, i)
          PROVE  Asking'
      BY <1>1, <2>3, Zenon DEF TakeEvent
    <2>4. ASSUME NEW p \in Node, identify_event_handler(n, p)
          PROVE  Asking'
      <3>1. CASE Ask(n, GetBlock(Newest, p), Waiting("ident", p, todo.addrs))
        <4>1. wait[n].pc # "wait"
          BY <2>1, <2>4, Zenon DEF identify_event_handler
        <4>2. QED
          BY <1>2, <3>1, <4>1, AskingAsk, Zenon
      <3> QED BY <1>1, <2>4, <3>1, Zenon DEF identify_event_handler
    <2>5. ASSUME NEW g \in gossip, gossip_event_handler(n, g)
          PROVE  Asking'
      BY <1>2, <2>1, <2>5, AskingAsk DEF gossip_event_handler
    <2>6. ASSUME NEW p \in Node, NEW i \in DOMAIN unicast[p], reqres_request(n, p, i)
          PROVE  Asking'
      <3>1. CASE Ask(n, unicast[p][i].msg, Waiting("request", p, i))
        <4>1. wait[n].pc # "wait"
          BY <2>1, <2>6, Zenon DEF reqres_request
        <4>2. QED
          BY <1>2, <3>1, <4>1, AskingAsk, Zenon
      <3>2. CASE /\ bc' = [bc EXCEPT ![n] =
                             Append(@, [msg |-> unicast[p][i].msg, waits |-> FALSE, looked |-> FALSE])]
                 /\ UNCHANGED wait
        BY <3>2, AskingTell, Zenon
      <3> QED BY <1>1, <2>6, <3>1, <3>2, Zenon DEF reqres_request
    <2>7. ASSUME NEW i \in DOMAIN unicast[n], reqres_response(n, i)
          PROVE  Asking'
      <3>1. CASE Ask(n, unicast[n][i].res, Waiting("response", unicast[n][i].to, i))
        BY <1>2, <2>1, <2>7, <3>1, AskingAsk, Zenon DEF reqres_response
      <3> QED BY <1>1, <2>7, <3>1, Zenon DEF reqres_response
    <2>8. CASE Resume(n)
      <3>1. wait[n].pc = "answered"
        BY <2>8, Zenon DEF Resume
      <3>2. CASE wait' = [wait EXCEPT ![n] = Idle] /\ UNCHANGED bc
        <4>1. \A i \in DOMAIN bc[n] : ~bc[n][i].waits
          BY <3>1, Zenon DEF Asking
        <4>2. \A p \in Node : p # n => wait'[p] = wait[p]
          BY <3>2, Zenon DEF Carried
        <4> QED BY <3>2, <4>1, <4>2, Zenon DEF Asking
      <3>3. CASE Ask(n, GetBlock(Newest, wait[n].peer),
                     Waiting("ident", wait[n].peer, wait[n].left - 1))
        BY <1>2, <3>1, <3>3, AskingAsk, Zenon
      <3> QED BY <2>8, <3>2, <3>3, ResumeCases, Zenon
    <2> QED BY <1>3, <2>2, <2>3, <2>4, <2>5, <2>6, <2>7, <2>8, <2>9, <2>10, Zenon DEF NodeStep
  <1>4. CASE UNCHANGED vars
    BY <1>1, <1>4, Zenon DEF vars
  <1>5. ASSUME NEW n \in Node, \/ Start(n) \/ AlignEnd(n) \/ kad_event_handler(n) \/ Execute(n)
                               \/ \E t \in Tx : Submit(n, t)
                               \/ \E p \in Node : Discovered(n, p) \/ Expired(n, p)
                               \/ \E i \in DOMAIN unicast[n] : RequestFails(n, i)
        PROVE  UNCHANGED <<bc, wait>>
    BY <1>5, Zenon DEF Start, AlignEnd, kad_event_handler, Execute, Submit, Discovered, Expired,
                RequestFails, outside
  <1>6. CASE \E r \in todo.ask : AlignAsk(r[1], r[2])
    BY <1>1, <1>6, Zenon DEF AlignAsk, outside
  <1>7. CASE \E g \in gossip : LoseGossip(g)
    BY <1>1, <1>7, Zenon DEF LoseGossip
  <1> QED BY <1>1, <1>3, <1>4, <1>5, <1>6, <1>7, Zenon DEF Next

-----------------------------------------------------------------------------
(* The sets that have all the messages which the nodes make. *)
Closed(S) ==
    /\ Common \subseteq S /\ S \subseteq Message
    /\ \A n \in Node, m \in Message, l \in BOOLEAN : Answer(n, m, l) \in S
    /\ \A t \in Tx : TxMsg(t, None) \in S
    /\ \A h \in 0 .. Newest : BlockMsg(h, None) \in S
    /\ \A r \in todo.ask : r[2] \in S

(* The messages of such a set are the only ones on their way. *)
LEMMA CarriedStep ==
    ASSUME NEW S, Carried(S), Closed(S), Chains, Asking, [Next]_vars
    PROVE  Carried(S)'
  <1>0. Nothing \in S /\ Common \subseteq S /\ S \subseteq Message /\ todo \in Plan
    BY Zenon DEF Closed, Common, Chains
  <1>1. ASSUME NEW n \in Node, NodeStep(n)
        PROVE  Carried(S)'
    <2>1. ASSUME NEW i \in DOMAIN bc[n], Handle(n, i)
          PROVE  Carried(S)'
      <3>1. bc[n][i] \in AskedOf(S)
        BY DEF Carried
      <3>2. bc[n][i].msg \in Message /\ bc[n][i].looked \in BOOLEAN
        BY <1>0, <3>1, Zenon DEF AskedOf
      <3>3. Answer(n, bc[n][i].msg, bc[n][i].looked) \in S
        BY <3>2, Zenon DEF Closed
      <3>4. bc[n][i].waits => wait[n].pc = "wait"
        BY Zenon DEF Asking
      <3> QED BY <2>1, <3>3, <3>4, CarriedHandle, Zenon
    <2>2. ASSUME NEW i \in DOMAIN events[n], TakeEvent(n, i)
          PROVE  Carried(S)'
      BY <1>0, <2>2, CarriedEvent, Zenon
    <2>3. ASSUME NEW p \in Node, identify_event_handler(n, p)
          PROVE  Carried(S)'
      BY <1>0, <2>3, CarriedIdentify, Zenon
    <2>4. ASSUME NEW g \in gossip, gossip_event_handler(n, g)
          PROVE  Carried(S)'
      BY <1>0, <2>4, CarriedGossip, Zenon
    <2>5. ASSUME NEW p \in Node, NEW i \in DOMAIN unicast[p], reqres_request(n, p, i)
          PROVE  Carried(S)'
      BY <1>0, <2>5, CarriedTaken, Zenon
    <2>6. ASSUME NEW i \in DOMAIN unicast[n], reqres_response(n, i)
          PROVE  Carried(S)'
      BY <1>0, <2>6, CarriedResponse, Zenon
    <2>7. CASE Resume(n)
      BY <1>0, <2>7, CarriedResume, Zenon
    <2>8. ASSUME NEW i \in DOMAIN bc[n], Look(n, i)
          PROVE  Carried(S)'
      <3>1. bc' \in [Node -> Seq(AskedOf(S))]
        BY <2>8, LookKeeps, Zenon
      <3>2. UNCHANGED <<events, published, wait, gossip, unicast, got>>
        BY <2>8, Zenon DEF Look, chain
      <3> QED BY <3>1, <3>2, Zenon DEF Carried
    <2>9. ASSUME NEW t \in Tx, Put(n, t)
          PROVE  Carried(S)'
      <3>1. TxMsg(t, None) \in S
        BY Zenon DEF Closed
      <3>2. Emit(n, TxMsg(t, None)) \/ UNCHANGED events
        BY <2>9, Zenon DEF Put
      <3> QED BY <2>9, <3>1, <3>2, CarriedChain, Zenon DEF Put
    <2> QED BY <1>1, <2>1, <2>2, <2>3, <2>4, <2>5, <2>6, <2>7, <2>8, <2>9, Zenon DEF NodeStep
  <1>2. ASSUME NEW n \in Node, Start(n) \/ kad_event_handler(n)
        PROVE  Carried(S)'
    BY <1>2, CarriedKept, Zenon DEF Start, kad_event_handler, chain
  <1>3. ASSUME NEW n \in Node, NEW p \in Node, Discovered(n, p) \/ Expired(n, p)
        PROVE  Carried(S)'
    BY <1>3, CarriedKept, Zenon DEF Discovered, Expired, chain
  <1>4. ASSUME NEW n \in Node, AlignEnd(n)
        PROVE  Carried(S)'
    BY <1>4, CarriedKept, Zenon DEF AlignEnd, outside
  <1>5. ASSUME NEW n \in Node, Execute(n)
        PROVE  Carried(S)'
    <2>1. height[n] + 1 \in 0 .. Newest
      BY <1>5, P2pAssumption DEF Execute, Chains, Newest
    <2>2. BlockMsg(height[n] + 1, None) \in S
      BY <2>1, Zenon DEF Closed
    <2>3. Emit(n, BlockMsg(height[n] + 1, None)) \/ UNCHANGED events
      BY <1>5, Zenon DEF Execute
    <2> QED BY <1>5, <2>2, <2>3, CarriedChain, Zenon DEF Execute
  <1>6. ASSUME NEW n \in Node, NEW t \in Tx, Submit(n, t)
        PROVE  Carried(S)'
    <2>1. UNCHANGED <<events, published, bc, wait, unicast, got, gossip>>
      BY <1>6, Zenon DEF Submit, outside
    <2> QED BY <2>1, CarriedKept, Zenon
  <1>7. ASSUME NEW r \in todo.ask, AlignAsk(r[1], r[2])
        PROVE  Carried(S)'
    <2>1. r[1] \in Node /\ r[2] \in S
      BY <1>0, Zenon DEF Closed, Plan
    <2> QED BY <1>7, <2>1, CarriedChain, Zenon DEF AlignAsk
  <1>8. ASSUME NEW n \in Node, NEW i \in DOMAIN unicast[n], RequestFails(n, i)
        PROVE  Carried(S)'
    BY <1>8, CarriedFails, Zenon
  <1>9. ASSUME NEW g \in gossip, LoseGossip(g)
        PROVE  Carried(S)'
    BY <1>9, CarriedKept, Zenon DEF LoseGossip, chain
  <1>10. CASE UNCHANGED vars
    BY <1>10, CarriedKept, Zenon DEF vars, chain
  <1> QED BY <1>1, <1>2, <1>3, <1>4, <1>5, <1>6, <1>7, <1>8, <1>9, <1>10, Zenon DEF Next

(* Initially nothing is on its way. *)
LEMMA OriginInit == Init => OriginInv
  <1> SUFFICES ASSUME Init
               PROVE  OriginInv
    BY Zenon
  <1>1. Chains
    BY P2pAssumption, PlansAssumption, Zenon DEF Init, Chains
  <1>2. Asking
    BY DEF Init, Asking
  <1>3. PICK G : G = Genuine
    BY Zenon
  <1>4. Carried(G)
    <2>1. Idle \in Waits(G)
      BY Zenon DEF Waits
    <2> QED BY <2>1 DEF Init, Carried
  <1> QED BY <1>1, <1>2, <1>3, <1>4, Zenon DEF OriginInv

(* Every step keeps OriginInv: a message of Genuine stays one as chains and *)
(* pools grow, and an answer is made from what the node has.                *)
LEMMA OriginStep ==
    ASSUME OriginInv, [Next]_vars
    PROVE  OriginInv'
  <1>1. Chains /\ Asking /\ Carried(Genuine) /\ Genuine \subseteq Message
    BY Zenon DEF OriginInv, Genuine
  <1>2. PICK G : G = Genuine
    BY Zenon
  <1>3. PICK H : H = Genuine'
    BY Zenon
  <1>4. Carried(G) /\ G \subseteq Message
    BY <1>1, <1>2, Zenon
  <1>5. Carried(Message)
    BY <1>4, CarriedMore, Zenon
  <1>6. Chains' /\ \A n \in Node : height[n] <= height'[n] /\ Has(n) \subseteq Has(n)'
    BY <1>1, <1>5, ChainsStep, Zenon
  <1>7. G \subseteq H
    BY <1>1, <1>2, <1>3, <1>6, GenuineKept, Zenon
  <1>8. H \subseteq Message
    BY <1>3, Zenon DEF Genuine
  <1>9. Closed(G)
    <2>1. \A r \in todo.ask : r[2] \in Genuine
      <3>1. \A r \in todo.ask : r[2] \in Message /\ r[2].type \in {"get_block", "get_tx"}
        BY <1>1, Zenon DEF Chains, Plan
      <3> QED BY <3>1, GenuineFacts, Zenon
    <2>2. \A n \in Node, m \in Message, l \in BOOLEAN : Answer(n, m, l) \in Genuine
      BY <1>1, AnswerGenuine, Zenon
    <2> QED BY <1>2, <2>1, <2>2, GenuineFacts, Zenon DEF Closed
  <1>10. Closed(H)
    BY <1>7, <1>8, <1>9, Zenon DEF Closed
  <1>11. Carried(H)
    BY <1>4, <1>7, CarriedMore, Zenon
  <1>12. Carried(H)'
    BY <1>1, <1>10, <1>11, CarriedStep, Zenon
  <1>13. Carried(Genuine)'
    BY <1>3, <1>12, Zenon DEF Carried
  <1>14. Asking'
    BY <1>1, <1>5, AskingStep, Zenon
  <1> QED BY <1>6, <1>13, <1>14, Zenon DEF OriginInv

(* The inductive invariant: whatever a message says that its origin has, the *)
(* origin has, wherever the message is on its way.                           *)
THEOREM OriginInvariant == Spec => []OriginInv
  <1>1. OriginInv /\ [Next]_vars => OriginInv'
    BY OriginStep, Zenon
  <1> QED BY <1>1, OriginInit, PTL DEF Spec

(* A block or a transaction that comes in the name of a node is one that the *)
(* node has, however late it comes and by whatever way.                      *)
THEOREM OriginAlwaysHasIt == Spec => []OriginHasIt
  <1>1. OriginInv => OriginHasIt
    <2> SUFFICES ASSUME OriginInv, NEW n \in Node, NEW m \in Delivered(n)
                 PROVE  m \in Genuine
      BY Zenon DEF OriginHasIt, Genuine
    <2>1. CASE m \in got[n]
      BY <2>1, Zenon DEF OriginInv, Carried
    <2>2. ASSUME NEW i \in DOMAIN bc[n], m = bc[n][i].msg
          PROVE  m \in Genuine
      <3>1. bc[n][i] \in AskedOf(Genuine)
        BY SMTT(30) DEF OriginInv, Carried
      <3> QED BY <2>2, <3>1, Zenon DEF AskedOf
    <2> QED BY <2>1, <2>2, Zenon DEF Delivered
  <1> QED BY <1>1, OriginInvariant, PTL

-----------------------------------------------------------------------------
(* A transaction that is about to be announced, or was, is one that a client *)
(* submitted, and whose submission is over; and it is there once.            *)
Announced(n, m) ==
    m.type = "tx" => /\ <<n, m.what>> \in clients /\ <<n, m.what>> \notin Left
                     /\ m = TxMsg(m.what, None)
Once(s) == \A i, j \in DOMAIN s : s[i].type = "tx" /\ s[i] = s[j] => i = j
EchoAt(n) ==
    /\ \A i \in DOMAIN events[n] : Announced(n, events[n][i])
    /\ \A i \in DOMAIN published[n] : Announced(n, published[n][i])
    /\ Once(events[n]) /\ Once(published[n])
    /\ \A i \in DOMAIN events[n], j \in DOMAIN published[n] :
           events[n][i].type = "tx" => events[n][i] # published[n][j]
EchoInv == \A n \in Node : EchoAt(n)

(* A node that announces nothing, and loses nothing. *)
LEMMA EchoKept ==
    ASSUME NEW n \in Node, EchoAt(n), events'[n] = events[n], published'[n] = published[n],
           clients \subseteq clients', Left' \subseteq Left
    PROVE  EchoAt(n)'
  <1>1. (\A i \in DOMAIN events[n] : Announced(n, events[n][i]))'
    BY Zenon DEF EchoAt, Announced
  <1>2. (\A i \in DOMAIN published[n] : Announced(n, published[n][i]))'
    BY Zenon DEF EchoAt, Announced
  <1>3. Once(events'[n]) /\ Once(published'[n])
    BY Zenon DEF EchoAt
  <1>4. \A i \in DOMAIN events'[n], j \in DOMAIN published'[n] :
            events'[n][i].type = "tx" => events'[n][i] # published'[n][j]
    BY Zenon DEF EchoAt
  <1> QED BY <1>1, <1>2, <1>3, <1>4, Zenon DEF EchoAt

(* One more event, that is no transaction or a new one. *)
LEMMA EchoEmit ==
    ASSUME NEW n \in Node, EchoAt(n), NEW m, events[n] \in Seq(Message),
           events'[n] = Append(events[n], m), published'[n] = published[n],
           clients \subseteq clients', Left' \subseteq Left,
           m.type = "tx" => <<n, m.what>> \in Left /\ Announced(n, m)'
    PROVE  EchoAt(n)'
  <1>1. /\ DOMAIN events'[n] = 1 .. Len(events[n]) + 1 /\ DOMAIN events[n] = 1 .. Len(events[n])
        /\ events'[n][Len(events[n]) + 1] = m /\ Len(events[n]) \in Nat
        /\ \A i \in DOMAIN events[n] : events'[n][i] = events[n][i]
    OBVIOUS
  <1>2. \A i \in DOMAIN events'[n] : i \in DOMAIN events[n] \/ i = Len(events[n]) + 1
    BY <1>1
  <1>3. (\A i \in DOMAIN events[n] : Announced(n, events[n][i]))'
    BY <1>1, <1>2, Zenon DEF EchoAt, Announced
  <1>4. \A i \in DOMAIN published[n] : Announced(n, published[n][i])'
    BY Zenon DEF EchoAt, Announced
  <1>5. m.type = "tx" => \A i \in DOMAIN events[n] : events[n][i] # m
    BY Zenon DEF EchoAt, Announced
  <1>6. m.type = "tx" => \A i \in DOMAIN published[n] : published[n][i] # m
    BY Zenon DEF EchoAt, Announced
  <1>7. Once(events'[n])
    BY <1>1, <1>2, <1>5, ZenonT(60) DEF EchoAt, Once
  <1>8. \A i \in DOMAIN events'[n], j \in DOMAIN published[n] :
            events'[n][i].type = "tx" => events'[n][i] # published[n][j]
    BY <1>1, <1>2, <1>6, Zenon DEF EchoAt
  <1> QED BY <1>3, <1>4, <1>7, <1>8, Zenon DEF EchoAt

(* An event is taken, and announced or not. *)
LEMMA EchoTake ==
    ASSUME NEW n \in Node, EchoAt(n), NEW k \in DOMAIN events[n],
           events[n] \in Seq(Message), published[n] \in Seq(Message),
           events'[n] = Without(events[n], k),
           \/ published'[n] = Append(published[n], events[n][k])
           \/ published'[n] = published[n],
           UNCHANGED clients, Left' \subseteq Left
    PROVE  EchoAt(n)'
  <1> DEFINE s == events[n]
             f(j) == IF j < k THEN j ELSE j + 1
             p == published[n]
  <1>1. k \in 1 .. Len(s) /\ Len(s) \in Nat /\ DOMAIN s = 1 .. Len(s)
    BY SMTT(30)
  <1>2. /\ DOMAIN events'[n] = 1 .. Len(s) - 1
        /\ \A j \in 1 .. Len(s) - 1 : events'[n][j] = s[f(j)]
    BY Zenon DEF Without
  <1>3. /\ \A j \in 1 .. Len(s) - 1 : f(j) \in DOMAIN s /\ f(j) # k
        /\ \A i, j \in 1 .. Len(s) - 1 : f(i) = f(j) => i = j
    BY <1>1
  <1>11. \A i \in DOMAIN events'[n] : \E j \in DOMAIN s : events'[n][i] = s[j]
    BY <1>2, <1>3, Zenon
  <1>4. (\A i \in DOMAIN events[n] : Announced(n, events[n][i]))'
    BY <1>11, ZenonT(60) DEF EchoAt, Announced
  <1>5. Once(events'[n])
    <2>1. Once(s)
      BY Zenon DEF EchoAt
    <2> SUFFICES ASSUME NEW i \in DOMAIN events'[n], NEW j \in DOMAIN events'[n],
                        events'[n][i].type = "tx", events'[n][i] = events'[n][j]
                 PROVE  i = j
      BY Zenon DEF Once
    <2> HIDE DEF s, f
    <2>2. /\ i \in 1 .. Len(s) - 1 /\ f(i) \in DOMAIN s /\ events'[n][i] = s[f(i)]
          /\ j \in 1 .. Len(s) - 1 /\ f(j) \in DOMAIN s /\ events'[n][j] = s[f(j)]
      BY <1>2, <1>3, Zenon
    <2>3. s[f(i)].type = "tx" /\ s[f(i)] = s[f(j)]
      BY <2>2, Zenon
    <2>4. f(i) = f(j)
      BY <2>1, <2>2, <2>3, Zenon DEF Once
    <2>5. QED
      BY <1>3, <2>2, <2>4, Zenon
  <1>6. \A i \in DOMAIN events'[n] : events'[n][i].type = "tx" =>
            events'[n][i] # s[k] /\ \A j \in DOMAIN p : events'[n][i] # p[j]
    <2>1. /\ Once(s) /\ \A i \in DOMAIN s, j \in DOMAIN p : s[i].type = "tx" => s[i] # p[j]
      BY Zenon DEF EchoAt
    <2> SUFFICES ASSUME NEW i \in DOMAIN events'[n], events'[n][i].type = "tx"
                 PROVE  /\ events'[n][i] # s[k]
                        /\ \A j \in DOMAIN p : events'[n][i] # p[j]
      BY Zenon
    <2>2. k \in DOMAIN s
      BY Zenon
    <2> HIDE DEF s, f, p
    <2>3. f(i) \in DOMAIN s /\ f(i) # k /\ events'[n][i] = s[f(i)]
      BY <1>2, <1>3, Zenon
    <2>4. s[f(i)] # s[k] /\ \A j \in DOMAIN p : s[f(i)] # p[j]
      BY <2>1, <2>2, <2>3, Zenon DEF Once
    <2>5. QED
      BY <2>3, <2>4, Zenon
  <1>7. \A i \in DOMAIN published'[n] :
            \/ i \in DOMAIN p /\ published'[n][i] = p[i]
            \/ i = Len(p) + 1 /\ published'[n][i] = s[k] /\ i \notin DOMAIN p
    <2>1. p \in Seq(Message)
      BY Zenon
    <2> HIDE DEF p, s
    <2>2. CASE published'[n] = Append(p, s[k])
      <3>1. \A i \in DOMAIN Append(p, s[k]) :
                \/ i \in DOMAIN p /\ Append(p, s[k])[i] = p[i]
                \/ i = Len(p) + 1 /\ Append(p, s[k])[i] = s[k] /\ i \notin DOMAIN p
        BY <2>1, AppendAt, Zenon
      <3>2. QED
        BY <2>2, <3>1, Zenon
    <2>3. CASE published'[n] = p
      BY <2>3, Zenon
    <2>4. QED
      BY <2>2, <2>3, Zenon DEF p, s
  <1>8. (\A i \in DOMAIN published[n] : Announced(n, published[n][i]))'
    BY <1>7, Zenon DEF EchoAt, Announced
  <1>9. Once(published'[n])
    BY <1>7 DEF EchoAt, Once
  <1>10. \A i \in DOMAIN events'[n], j \in DOMAIN published'[n] :
            events'[n][i].type = "tx" => events'[n][i] # published'[n][j]
    BY <1>6, <1>7, Zenon
  <1> QED BY <1>4, <1>5, <1>8, <1>9, <1>10, Zenon DEF EchoAt

(* The events of a node other than n are as they were. *)
LEMMA EchoOfEmit ==
    ASSUME EchoInv, Carried(Message), NEW n \in Node, NEW m, Emit(n, m), UNCHANGED published,
           clients \subseteq clients', Left' \subseteq Left,
           m.type = "tx" => <<n, m.what>> \in Left /\ Announced(n, m)'
    PROVE  EchoInv'
  <1>1. events \in [Node -> Seq(Message)]
    BY Zenon DEF Carried
  <1>2. ASSUME NEW p \in Node
        PROVE  EchoAt(p)'
    <2>1. CASE p = n /\ n \in on
      <3>1. events'[n] = Append(events[n], m) /\ published'[n] = published[n]
        BY <1>1, <2>1, Zenon DEF Emit
      <3>2. EchoAt(n) /\ events[n] \in Seq(Message)
        BY <1>1, Zenon DEF EchoInv
      <3>3. EchoAt(n)'
        BY <3>1, <3>2, EchoEmit, Zenon
      <3> QED BY <2>1, <3>3, Zenon
    <2>2. CASE ~(p = n /\ n \in on)
      <3>1. events'[p] = events[p] /\ published'[p] = published[p]
        BY <1>1, <2>2, Zenon DEF Emit
      <3> QED BY <3>1, EchoKept, Zenon DEF EchoInv
    <2> QED BY <2>1, <2>2, Zenon
  <1> QED BY <1>2, Zenon DEF EchoInv

(* The announcements of a node wherever the node takes no event. *)
LEMMA EchoStill ==
    ASSUME EchoInv, UNCHANGED <<events, published>>, clients \subseteq clients',
           Left' \subseteq Left
    PROVE  EchoInv'
  BY EchoKept, Zenon DEF EchoInv

(* The steps of a node announce what they should. *)
LEMMA EchoStep ==
    ASSUME EchoInv, Carried(Message), Chains, [Next]_vars
    PROVE  EchoInv'
  <1>0. Left' \subseteq Left
    BY ChainsStep, Zenon
  <1>1. CASE UNCHANGED <<events, published>> /\ clients \subseteq clients'
    BY <1>0, <1>1, EchoStill, Zenon
  <1>2. events \in [Node -> Seq(Message)] /\ published \in [Node -> Seq(Message)]
    BY Zenon DEF Carried
  <1>3. ASSUME NEW n \in Node, NEW i \in DOMAIN bc[n], Handle(n, i)
        PROVE  UNCHANGED <<events, published, clients>>
    <2>1. events[n] \in Seq(Message)
      BY <1>2, Zenon
    <2>2. events[n] \o <<>> = events[n]
      BY <2>1
    <2> QED BY <1>2, <1>3, <2>2, Zenon DEF Handle, get_transaction_res_events
  <1>4. ASSUME NEW n \in Node, NEW k \in DOMAIN events[n], TakeEvent(n, k)
        PROVE  EchoInv'
    <2>1. /\ events' = [events EXCEPT ![n] = Without(events[n], k)]
          /\ UNCHANGED clients
          /\ \/ published' = [published EXCEPT ![n] = Append(published[n], events[n][k])]
             \/ published' = published
      BY <1>4, Zenon DEF TakeEvent, publish, chain
    <2>2. /\ events'[n] = Without(events[n], k)
          /\ \/ published'[n] = Append(published[n], events[n][k])
             \/ published'[n] = published[n]
          /\ \A p \in Node : p # n => events'[p] = events[p] /\ published'[p] = published[p]
      BY <1>2, <2>1, Zenon
    <2>3. events[n] \in Seq(Message) /\ published[n] \in Seq(Message) /\ EchoAt(n)
      BY <1>2, Zenon DEF EchoInv
    <2>4. EchoAt(n)'
      BY <1>0, <2>1, <2>2, <2>3, EchoTake, Zenon
    <2>5. ASSUME NEW p \in Node, p # n
          PROVE  EchoAt(p)'
      <3>1. /\ EchoAt(p) /\ events'[p] = events[p] /\ published'[p] = published[p]
            /\ clients \subseteq clients'
        BY <2>1, <2>2, <2>5, Zenon DEF EchoInv
      <3> QED BY <1>0, <3>1, EchoKept, Zenon
    <2> QED BY <2>4, <2>5, Zenon DEF EchoInv
  <1>5. ASSUME NEW n \in Node, NodeStep(n)
        PROVE  EchoInv'
    <2>1. CASE \E i \in DOMAIN events[n] : TakeEvent(n, i)
      BY <2>1, <1>4, Zenon
    <2>2. CASE \E i \in DOMAIN bc[n] : Handle(n, i)
      BY <2>2, <1>1, <1>3, Zenon
    <2>9. CASE \E i \in DOMAIN bc[n] : Look(n, i)
      BY <2>9, <1>1, Zenon DEF Look, chain
    <2>10. ASSUME NEW t \in Tx, Put(n, t)
           PROVE  EchoInv'
      <3>1. UNCHANGED <<clients, published>>
        BY <2>10, Zenon DEF Put, outside
      <3>2. CASE UNCHANGED events
        BY <1>1, <3>1, <3>2, Zenon
      <3>3. CASE Emit(n, TxMsg(t, None))
        <4>1. TxMsg(t, None).what = t /\ <<n, t>> \in Left
          BY <2>10, Zenon DEF Put, TxMsg, Left
        <4>2. <<n, t>> \in clients /\ <<n, t>> \notin Left'
          <5>1. <<n, t>> \in putting /\ putting' = putting \ {<<n, t>>} /\ todo' = todo
            BY <2>10, Zenon DEF Put
          <5>2. <<n, t>> \in clients /\ <<n, t>> \notin todo.submit
            BY <5>1, Zenon DEF Chains
          <5> QED BY <5>1, <5>2, Zenon DEF Left
        <4>3. Announced(n, TxMsg(t, None))'
          BY <3>1, <4>1, <4>2, Zenon DEF Announced
        <4> QED BY <1>0, <3>1, <3>3, <4>1, <4>3, EchoOfEmit, Zenon
      <3> QED BY <2>10, <3>2, <3>3, Zenon DEF Put
    <2>3. ASSUME NEW p \in Node, identify_event_handler(n, p)
          PROVE  UNCHANGED <<events, published, clients>>
      BY <2>3, Zenon DEF identify_event_handler, chain
    <2>4. ASSUME NEW g \in gossip, gossip_event_handler(n, g)
          PROVE  UNCHANGED <<events, published, clients>>
      BY <2>4, Zenon DEF gossip_event_handler, chain
    <2>5. ASSUME NEW p \in Node, NEW i \in DOMAIN unicast[p], reqres_request(n, p, i)
          PROVE  UNCHANGED <<events, published, clients>>
      BY <2>5, Zenon DEF reqres_request, chain
    <2>6. ASSUME NEW i \in DOMAIN unicast[n], reqres_response(n, i)
          PROVE  UNCHANGED <<events, published, clients>>
      BY <2>6, Zenon DEF reqres_response, chain
    <2>7. ASSUME Resume(n)
          PROVE  UNCHANGED <<events, published, clients>>
      BY <2>7, Zenon DEF Resume, chain
    <2>8. CASE UNCHANGED <<events, published, clients>>
      BY <2>8, <1>1, Zenon
    <2> QED BY <1>5, <2>1, <2>2, <2>3, <2>4, <2>5, <2>6, <2>7, <2>8, <2>9, <2>10, Zenon
        DEF NodeStep
  <1>6. ASSUME NEW n \in Node, NEW t \in Tx, Submit(n, t)
        PROVE  EchoInv'
    <2>1. clients \subseteq clients' /\ UNCHANGED <<events, published>>
      BY <1>6, Zenon DEF Submit, outside
    <2> QED BY <1>1, <2>1, Zenon
  <1>7. ASSUME NEW n \in Node, Execute(n)
        PROVE  EchoInv'
    <2>1. UNCHANGED <<published, clients>>
      BY <1>7, Zenon DEF Execute, outside
    <2>2. CASE UNCHANGED events
      BY <1>1, <2>1, <2>2, Zenon
    <2>3. CASE Emit(n, BlockMsg(height[n] + 1, None))
      <3>1. BlockMsg(height[n] + 1, None).type # "tx"
        BY Zenon DEF BlockMsg
      <3> QED BY <1>0, <2>1, <2>3, <3>1, EchoOfEmit, Zenon
    <2> QED BY <1>7, <2>2, <2>3, Zenon DEF Execute
  <1>8. ASSUME NEW r \in todo.ask, AlignAsk(r[1], r[2])
        PROVE  EchoInv'
    <2>1. r[1] \in Node /\ r[2].type # "tx"
      BY Zenon DEF Chains, Plan
    <2>2. UNCHANGED <<published, clients>> /\ Emit(r[1], r[2])
      BY <1>8, Zenon DEF AlignAsk, outside
    <2> QED BY <1>0, <2>1, <2>2, EchoOfEmit, Zenon
  <1>9. CASE UNCHANGED vars
    BY <1>1, <1>9, Zenon DEF vars, chain
  <1>10. ASSUME NEW n \in Node, \/ Start(n) \/ AlignEnd(n) \/ kad_event_handler(n)
                                \/ \E p \in Node : Discovered(n, p) \/ Expired(n, p)
                                \/ \E i \in DOMAIN unicast[n] : RequestFails(n, i)
         PROVE  UNCHANGED <<events, published, clients>>
    BY <1>10, Zenon DEF Start, AlignEnd, kad_event_handler, Discovered, Expired,
                 RequestFails, outside, chain
  <1>11. CASE \E g \in gossip : LoseGossip(g)
    BY <1>1, <1>11, Zenon DEF LoseGossip, chain
  <1> QED BY <1>1, <1>5, <1>6, <1>7, <1>8, <1>9, <1>10, <1>11, Zenon DEF Next

(* A transaction that comes from another node is not announced once more,    *)
(* and one that a client submits is announced once: NoEcho, for every        *)
(* network.                                                                  *)
THEOREM NeverAnEcho == Spec => []NoEcho
  <1>1. Init => EchoInv
    BY DEF Init, EchoInv, EchoAt, Once
  <1>2. OriginInv /\ EchoInv /\ [Next]_vars => EchoInv'
    <2> SUFFICES ASSUME OriginInv, EchoInv, [Next]_vars
                 PROVE  EchoInv'
      BY Zenon
    <2>1. PICK G : G = Genuine
      BY Zenon
    <2>2. Carried(G) /\ G \subseteq Message /\ Chains
      BY <2>1, Zenon DEF OriginInv, Genuine
    <2>3. Carried(Message)
      BY <2>2, CarriedMore, Zenon
    <2> QED BY <2>2, <2>3, EchoStep, Zenon
  <1>3. EchoInv => NoEcho
    BY Zenon DEF EchoInv, EchoAt, Announced, Once, NoEcho
  <1> QED BY <1>1, <1>2, <1>3, OriginInvariant, PTL DEF Spec

=============================================================================

------------------------------ MODULE Service ------------------------------
(***************************************************************************)
(* The messages around the blockchain service: the bounded channel of its  *)
(* requests, the dispatcher tasks that answer them, the publish/subscribe  *)
(* subsystem, and the components that talk to it:                          *)
(*                                                                         *)
(*   Rest     HTTP handlers, that send one request and take one answer     *)
(*   Bridge   TCP connections, that send one request after the other and   *)
(*            forward the events of the subscriptions among them           *)
(*   Local    components of the process that subscribe once and for all    *)
(*            (p2p with packed messages, kafka with plain ones)            *)
(*                                                                         *)
(* Every request creates a response channel of its own, so that a channel  *)
(* is identified with the request <<client, number>> it was created for.   *)
(* What the handlers read or write in database and pool is left out: that  *)
(* is in Node and in Store.                                                *)
(***************************************************************************)
EXTENDS Naturals, Sequences, FiniteSets, SequencesExt

CONSTANTS
    Rest, Bridge, Local,    \* the clients, three disjoint sets
    Event,                  \* kinds of events
    Id,                     \* identifiers of subscribers
    RestReq, BridgeReq,     \* the requests that these clients may send
    LocalReq,               \* the one that each of these sends
    ChannelBound,           \* CHANNEL_BOUND
    MaxPackLevel,           \* MAX_PACK_LEVEL
    Transaction             \* Event::TRANSACTION

CONSTANTS                   \* bounds on what the environment does
    Owner,                  \* who starts and stops the service
    Plans,                  \* how many requests the clients send, and how
                            \* often the owner stops the service
    MaxRequests,            \* the most that one of them sends
    MaxEvents               \* events that are published

(***************************************************************************)
(* Requests.  A message without answer (a GetBlockResponse, an unexpected  *)
(* one) is "silent", one that is always answered is "ask".  `level` counts *)
(* the Packed envelopes around the request.  The innermost one has a       *)
(* single message, a sequence of them, or bytes that do not decode: those  *)
(* with a wrong first byte ("tag") and the others ("garbage").             *)
(***************************************************************************)
Plain == [type : {"ask", "silent", "put", "put_confirm"}]
Subscription == [type : {"sub", "unsub"}, id : Id, events : SUBSET Event]
Request == [level : Nat, form : {"simple", "sequence", "tag", "garbage"},
            body  : Seq(Plain \cup Subscription)]

Client == Rest \cup Bridge \cup Local
Chan == {c \in Client \X (1 .. MaxRequests) : c[1] \notin Bridge => c[2] = 1}
NoChan == <<>>
NoReq == [level |-> 0, form |-> "simple", body |-> <<>>]

ASSUME ServiceAssumption ==
    /\ Rest \cap Bridge = {} /\ Rest \cap Local = {} /\ Bridge \cap Local = {}
    /\ Transaction \in Event
    /\ RestReq \cup BridgeReq \subseteq Request
    /\ LocalReq \in [Local -> Request]
    /\ \A q \in RestReq \cup BridgeReq \cup Range(LocalReq) :
          /\ q.form # "simple" => q.level > 0
          /\ q.form = "simple" => Len(q.body) = 1
    /\ \A q \in BridgeReq : q.level > 0
    /\ \A k \in Local : LocalReq[k].body[1].type = "sub"
    /\ ChannelBound \in Nat \ {0} /\ MaxPackLevel \in Nat \ {0}
    /\ MaxRequests \in Nat \ {0} /\ Owner \notin Client
    /\ Plans \subseteq [Client \cup {Owner} -> 0 .. MaxRequests]
    /\ MaxEvents \in Nat

VARIABLES
    thread,         \* whether the worker thread of the service runs
    inbox,          \* the channel of requests, Stop is <<>>
    req,            \* what was requested on each channel
    task,           \* the dispatcher task of each channel
    subs,           \* events_sub: by event and id, channel and pack level
    publishing,     \* the tasks that publish spawned and have not ended
    buf,            \* the contents of the response channels
    rx,             \* whether the receiver of a channel exists
    client,         \* what the clients are doing
    listener,       \* the bridge's subscription handlers
    connected,      \* the connections that the other side has not closed
    stream          \* what was written to each connection

VARIABLES           \* history
    answer,         \* the first message taken from each channel
    got,            \* the events taken from each channel, in order
    interest,       \* for each event and id, the channel it was subscribed on
    owed,           \* for each event published, the channels of interest
    stops           \* how often the service will yet be stopped

history == <<answer, got, interest, owed>>
clients == <<req, client, listener, connected, stream>>
server == <<thread, stops>>
vars == <<server, inbox, task, subs, publishing, buf, rx, clients, history>>

Stop == <<>>
NoTask == [pc |-> "none", todo |-> <<>>, out |-> <<>>]
NoSub == [chan |-> NoChan, level |-> 0]
Silence == [kind |-> "none", level |-> 0, body |-> <<>>, n |-> 0]
Reply(level, body) ==
    [kind |-> "reply", level |-> level, body |-> body, n |-> 0]
EventMsg(level, n) ==
    [kind |-> "event", level |-> level, body |-> <<>>, n |-> n]
Quiet == [pc |-> "none", msg |-> Silence]

Init ==
    /\ thread = TRUE
    /\ inbox = <<>>
    /\ req = [c \in Chan |-> NoReq]
    /\ task = [c \in Chan |-> NoTask]
    /\ subs = [k \in Event \X Id |-> NoSub]
    /\ publishing = {}
    /\ buf = [c \in Chan |-> <<>>]
    /\ rx = [c \in Chan |-> FALSE]
    /\ \E p \in Plans :
          /\ client = [k \in Client |-> [pc |-> "start", n |-> 0, left |-> p[k],
                                        msg |-> Silence]]
          /\ stops = p[Owner]
    /\ listener = [c \in Chan |-> Quiet]
    /\ connected = {}
    /\ stream = [b \in Bridge |-> <<>>]
    /\ answer = [c \in Chan |-> Silence]
    /\ got = [c \in Chan |-> <<>>]
    /\ interest = [k \in Event \X Id |-> NoChan]
    /\ owed = <<>>

-----------------------------------------------------------------------------
(* Channels.  A channel is closed when its receiver, or the last of its     *)
(* senders, is dropped.  The senders are in the request, in the task that   *)
(* answers it, in the subscriptions and in the tasks that publish.          *)
\* mutant: the worker keeps the sender that it clones for the task
HasSender_kept(c) == req[c] # NoReq
HasSender(c) ==
    \/ c \in Range(inbox)
    \/ task[c].pc # "none"
    \/ \E k \in DOMAIN subs : subs[k].chan = c
    \/ \E p \in publishing : p.chan = c
Closed(c) == ~rx[c] \/ ~HasSender(c)

Room(c) == Len(buf[c]) < ChannelBound

(* RequestSender::send: waits for room, then the request is in the inbox    *)
(* and the client has the receiver of a new channel.                        *)
SendRequest(c, q) ==
    /\ Len(inbox) < ChannelBound
    /\ inbox' = Append(inbox, c)
    /\ req' = [req EXCEPT ![c] = q]
    /\ rx' = [rx EXCEPT ![c] = TRUE]

(* The head of a channel is taken, and `keep` tells whether the receiver    *)
(* lives on.  The first message is what a client takes for the answer.      *)
Take(c, keep) ==
    /\ buf[c] # <<>>
    /\ buf' = [buf EXCEPT ![c] = Tail(@)]
    /\ rx' = [rx EXCEPT ![c] = keep]
    /\ answer' = [answer EXCEPT ![c] = IF @ = Silence THEN Head(buf[c]) ELSE @]
    /\ got' = [got EXCEPT ![c] = IF Head(buf[c]).kind = "event"
                                 THEN Append(@, Head(buf[c]).n) ELSE @]

(* recv fails: nothing is left to receive and nobody is left to send. *)
RecvError(c) == rx[c] /\ buf[c] = <<>> /\ Closed(c)

IsPacked(m) == m.level > 0 \/ m.body = <<"sub">>

-----------------------------------------------------------------------------
(* Publish/subscribe, under its mutex. *)
has_subscribers(e) == \E id \in Id : subs[<<e, id>>] # NoSub

\* mutant: events are packed once less than the request was
subscribe_level_less(level) == IF level = 0 THEN 0 ELSE level - 1
subscribe_level(level) == level

subscribe(id, events, level, c) ==
    /\ subs' = [k \in DOMAIN subs |->
                  IF k[1] \in events /\ k[2] = id
                  THEN [chan |-> c, level |-> subscribe_level(level)]
                  ELSE subs[k]]
    /\ interest' = [k \in DOMAIN subs |->
                      IF k[1] \in events /\ k[2] = id THEN c ELSE interest[k]]

unsubscribe(id, events) ==
    /\ subs' = [k \in DOMAIN subs |->
                  IF k[1] \in events /\ k[2] = id THEN NoSub ELSE subs[k]]
    /\ interest' = [k \in DOMAIN subs |->
                      IF k[1] \in events /\ k[2] = id THEN NoChan
                      ELSE interest[k]]

\* mutant: a channel that is merely full is taken for a closed one
closed_chans_full(e) == {k \in DOMAIN subs : k[1] = e /\ subs[k] # NoSub
                                             /\ (Closed(subs[k].chan)
                                                 \/ ~Room(subs[k].chan))}
(* Those of event e that publish finds closed, and removes. *)
closed_chans(e) == {k \in DOMAIN subs : k[1] = e /\ subs[k] # NoSub
                                        /\ Closed(subs[k].chan)}

(* History: what an event owes to those who have subscribed to it. *)
Owe(e) ==
    LET to == {<<id, interest[<<e, id>>]>> : id \in Id} \ (Id \X {NoChan})
    IN  owed' = IF to = {} THEN owed ELSE Append(owed, to)

(* publish: a task for every channel that is open, and the others removed.  *)
(* Where there is no subscriber nothing happens, and callers test that.     *)
publish(e) ==
    LET to == {k \in DOMAIN subs : k[1] = e /\ subs[k] # NoSub}
                 \ closed_chans(e)
    IN  /\ publishing' = publishing \cup
             {[chan |-> subs[k].chan, id |-> k[2],
               msg |-> EventMsg(subs[k].level, Len(owed) + 1)] : k \in to}
        /\ subs' = [k \in DOMAIN subs |->
                      IF k \in closed_chans(e) THEN NoSub ELSE subs[k]]
        /\ Owe(e)
announce(e) == IF has_subscribers(e) THEN publish(e)
               ELSE Owe(e) /\ UNCHANGED <<publishing, subs>>

(* An event of the executor (BLOCK, BLOCK_EXEC, a contract event) or of the *)
(* aligner (a request to the other nodes).                                  *)
Publish(e) ==
    /\ Len(owed) < MaxEvents
    /\ announce(e)
    /\ UNCHANGED <<server, inbox, task, buf, rx, clients, answer, got, interest>>

(* The end of a task of publish: the event is in the channel, if it is open. *)
Notify(p) ==
    /\ p \in publishing
    /\ publishing' = publishing \ {p}
    /\ \/ Closed(p.chan) /\ UNCHANGED buf
       \/ /\ ~Closed(p.chan) /\ Room(p.chan)
          /\ buf' = [buf EXCEPT ![p.chan] = Append(@, p.msg)]
    /\ UNCHANGED <<server, inbox, task, subs, rx, clients, history>>

-----------------------------------------------------------------------------
(* BlockService::start and stop, of a service that was started at first.    *)
(* stop waits for the end of the thread: the worker that takes the Stop     *)
(* ends it, and only then the service can be started again.                 *)
Start ==
    /\ ~thread
    /\ thread' = TRUE
    /\ UNCHANGED <<stops, inbox, task, subs, publishing, buf, rx, clients, history>>

Stopping == Stop \in Range(inbox)

StopSend ==
    /\ thread /\ ~Stopping /\ stops > 0
    /\ Len(inbox) < ChannelBound
    /\ inbox' = Append(inbox, Stop)
    /\ stops' = stops - 1
    /\ UNCHANGED <<thread, task, subs, publishing, buf, rx, clients, history>>

(* The messages that a request makes message_handler handle: none when it   *)
(* is packed too often or does not decode.                                  *)
Handled(q) ==
    IF q.level >= MaxPackLevel \/ q.form \in {"tag", "garbage"} THEN <<>>
    ELSE q.body

(* The loop of the worker takes the requests in order, and spawns a task    *)
(* for each of them.                                                        *)
Receive ==
    /\ thread /\ inbox # <<>>
    /\ inbox' = Tail(inbox)
    /\ IF Head(inbox) = Stop
       THEN thread' = FALSE /\ UNCHANGED task
       ELSE /\ task' = [task EXCEPT ![Head(inbox)] =
                          [pc |-> "run", todo |-> Handled(req[Head(inbox)]),
                           out |-> <<>>]]
            /\ UNCHANGED thread
    /\ UNCHANGED <<stops, subs, publishing, buf, rx, clients, history>>

(* The answers a message may get, at most one.  A transaction may be        *)
(* refused: that is an exception.                                           *)
response(m) ==
    CASE m.type = "ask" -> {<<"ask">>}
      [] m.type = "put_confirm" -> {<<"put">>, <<"exception">>}
      [] m.type = "sub" -> {<<"sub">>}
      [] OTHER -> {<<>>}

(* message_handler for the next message of a task. *)
Handle(c) ==
    /\ task[c].pc = "run" /\ task[c].todo # <<>>
    /\ LET m == Head(task[c].todo)
       IN  /\ \E r \in response(m) :
                 task' = [task EXCEPT ![c].todo = Tail(@), ![c].out = @ \o r]
           /\ \/ /\ m.type = "sub"
                 /\ subscribe(m.id, m.events, req[c].level, c)
                 /\ UNCHANGED <<publishing, owed>>
              \/ /\ m.type = "unsub"
                 /\ unsubscribe(m.id, m.events)
                 /\ UNCHANGED <<publishing, owed>>
              \/ /\ m.type \in {"put", "put_confirm"}
                 /\ m.type = "put_confirm" => Last(task'[c].out) = "put"
                 /\ announce(Transaction)
                 /\ UNCHANGED interest
              \/ /\ \/ m.type \in {"ask", "silent", "put"}
                    \/ m.type = "put_confirm" /\ Last(task'[c].out) = "exception"
                 /\ UNCHANGED <<subs, publishing, owed, interest>>
    /\ UNCHANGED <<server, inbox, buf, rx, clients, answer, got>>

\* mutant: a sequence is answered only when each of its messages is
reply_all_or_none(q, out) ==
    IF q.level >= MaxPackLevel \/ Len(out) < Len(q.body) THEN Silence
    ELSE CASE q.form = "tag" -> Reply(q.level - 1, <<"exception">>)
           [] q.form = "garbage" -> Reply(q.level, <<"exception">>)
           [] OTHER -> Reply(q.level, out)
(* The reply to a request: the answers in as many envelopes as the request  *)
(* had, or an exception.  A wrong first byte is answered one level further  *)
(* out, without an envelope of its own.  No answer, no reply.               *)
reply(q, out) ==
    IF q.level >= MaxPackLevel THEN Silence
    ELSE CASE q.form = "tag" -> Reply(q.level - 1, <<"exception">>)
           [] q.form = "garbage" -> Reply(q.level, <<"exception">>)
           [] OTHER -> IF out = <<>> THEN Silence ELSE Reply(q.level, out)

(* The task sends the reply.  Its sender is dropped when it ends. *)
Respond(c) ==
    /\ task[c].pc = "run" /\ task[c].todo = <<>>
    /\ LET m == reply(req[c], task[c].out)
       IN  \/ /\ m = Silence \/ Closed(c)
              /\ UNCHANGED buf
           \/ /\ m # Silence /\ ~Closed(c) /\ Room(c)
              /\ buf' = [buf EXCEPT ![c] = Append(@, m)]
    /\ task' = [task EXCEPT ![c].pc = "sent"]
    /\ UNCHANGED <<server, inbox, subs, publishing, rx, clients, history>>

EndTask(c) ==
    /\ task[c].pc = "sent"
    /\ task' = [task EXCEPT ![c] = NoTask]
    /\ UNCHANGED <<server, inbox, subs, publishing, buf, rx, clients, history>>

-----------------------------------------------------------------------------
(* The clients. *)
Now(k) == <<k, client[k].n>>
At(k, pc) == [client EXCEPT ![k].pc = pc]

(* A REST handler: one request, one answer, and the receiver is dropped. *)
RestSend(r) ==
    /\ client[r].pc = "start" /\ client[r].left > 0
    /\ \E q \in RestReq : SendRequest(<<r, 1>>, q)
    /\ client' = [client EXCEPT ![r].pc = "waiting", ![r].n = 1]
    /\ UNCHANGED <<server, task, subs, publishing, buf, listener, connected, stream,
                   history>>

(* What the handler expects: a packed answer to what was posted packed, and *)
(* otherwise the response to the request or an exception.                   *)
RestStatus(q, m) ==
    IF q.level > 0
    THEN IF IsPacked(m) THEN "ok" ELSE "error"
    ELSE IF m.kind = "reply" /\ m.level = 0 /\ m.body # <<"exception">>
         THEN "ok" ELSE "error"

RestRecv(r) ==
    /\ client[r].pc = "waiting"
    /\ Take(Now(r), FALSE)
    /\ client' = At(r, RestStatus(req[Now(r)], Head(buf[Now(r)])))
    /\ UNCHANGED <<server, inbox, task, subs, publishing, req, listener, connected,
                   stream, interest, owed>>

RestDown(r) ==
    /\ client[r].pc = "waiting"
    /\ RecvError(Now(r))
    /\ client' = At(r, "failed")
    /\ rx' = [rx EXCEPT ![Now(r)] = FALSE]
    /\ UNCHANGED <<server, inbox, task, subs, publishing, buf, req, listener,
                   connected, stream, history>>

(* A component that subscribes and then takes whatever is sent. *)
LocalSend(k) ==
    /\ client[k].pc = "start" /\ client[k].left > 0
    /\ SendRequest(<<k, 1>>, LocalReq[k])
    /\ client' = [client EXCEPT ![k].pc = "polling", ![k].n = 1]
    /\ UNCHANGED <<server, task, subs, publishing, buf, listener, connected, stream,
                   history>>

LocalRecv(k) ==
    /\ client[k].pc = "polling"
    /\ Take(Now(k), TRUE)
    /\ UNCHANGED <<server, inbox, task, subs, publishing, clients, interest, owed>>

(* "blockchain channel has been closed, exiting" *)
LocalDown(k) ==
    /\ client[k].pc = "polling"
    /\ RecvError(Now(k))
    /\ client' = At(k, "exited")
    /\ rx' = [rx EXCEPT ![Now(k)] = FALSE]
    /\ UNCHANGED <<server, inbox, task, subs, publishing, buf, req, listener,
                   connected, stream, history>>

(* The bridge accepts a connection, whose other side may close it. *)
Connect(b) ==
    /\ client[b].pc = "start" /\ client[b].left > 0
    /\ client' = At(b, "reading")
    /\ connected' = connected \cup {b}
    /\ UNCHANGED <<server, inbox, task, subs, publishing, buf, rx, req, listener,
                   stream, history>>

Disconnect(b) ==
    /\ b \in connected
    /\ connected' = connected \ {b}
    /\ UNCHANGED <<server, inbox, task, subs, publishing, buf, rx, req, client,
                   listener, stream, history>>

(* connection_handler reads a datagram and sends it, or ends. *)
BridgeSend(b) ==
    /\ client[b].pc = "reading" /\ b \in connected
    /\ client[b].left > 0
    /\ \E q \in BridgeReq : SendRequest(<<b, client[b].n + 1>>, q)
    /\ client' = [client EXCEPT ![b].pc = "waiting", ![b].n = @ + 1,
                              ![b].left = @ - 1]
    /\ UNCHANGED <<server, task, subs, publishing, buf, listener, connected, stream,
                   history>>

BridgeEnd(b) ==
    /\ client[b].pc = "reading" /\ b \notin connected
    /\ client' = At(b, "closed")
    /\ UNCHANGED <<server, inbox, task, subs, publishing, buf, rx, req, listener,
                   connected, stream, history>>

(* A channel that is not closed after its answer may be a subscription. *)
maybe_subscription(c) == ~Closed(c)

(* send_recv, up to the write of an answer that is packed. *)
BridgeRecv(b) ==
    LET c == Now(b)
        m == Head(buf[c])
    IN  /\ client[b].pc = "waiting"
        /\ Take(c, maybe_subscription(c))
        /\ listener' = [listener EXCEPT ![c].pc = IF maybe_subscription(c)
                                                  THEN "listening" ELSE @]
        /\ client' = [client EXCEPT ![b].pc = IF IsPacked(m) THEN "head"
                                              ELSE "reading",
                                    ![b].msg = m]
        /\ UNCHANGED <<server, inbox, task, subs, publishing, req, connected, stream,
                       interest, owed>>

(* Without an answer the connection ends: "blockchain service seems down 2" *)
BridgeDown(b) ==
    /\ client[b].pc = "waiting"
    /\ RecvError(Now(b))
    /\ client' = At(b, "failed")
    /\ rx' = [rx EXCEPT ![Now(b)] = FALSE]
    /\ UNCHANGED <<server, inbox, task, subs, publishing, buf, req, listener,
                   connected, stream, history>>

(* write_datagram: head and body are written one after the other, and the   *)
(* stream is not locked meanwhile.                                          *)
Chunk(c, part, m) == [chan |-> c, part |-> part, msg |-> m]

BridgeWrite(b) ==
    /\ client[b].pc \in {"head", "body"}
    /\ IF b \in connected
       THEN /\ stream' = [stream EXCEPT ![b] =
                            Append(@, Chunk(Now(b), client[b].pc, client[b].msg))]
            /\ client' = At(b, IF client[b].pc = "head" THEN "body" ELSE "reading")
       ELSE client' = At(b, "closed") /\ UNCHANGED stream
    /\ UNCHANGED <<server, inbox, task, subs, publishing, buf, rx, req, listener,
                   connected, history>>

(* subscription_handler: ends on a message that is not packed, on a closed  *)
(* channel, and when it cannot write.                                       *)
ListenRecv(c) ==
    /\ listener[c].pc = "listening"
    /\ Take(c, IsPacked(Head(buf[c])))
    /\ listener' = [listener EXCEPT ![c] =
                      IF IsPacked(Head(buf[c]))
                      THEN [pc |-> "head", msg |-> Head(buf[c])] ELSE Quiet]
    /\ UNCHANGED <<server, inbox, task, subs, publishing, req, client, connected,
                   stream, interest, owed>>

ListenEnd(c) ==
    /\ \/ listener[c].pc = "listening" /\ RecvError(c)
       \/ listener[c].pc \in {"head", "body"} /\ c[1] \notin connected
    /\ listener' = [listener EXCEPT ![c] = Quiet]
    /\ rx' = [rx EXCEPT ![c] = FALSE]
    /\ UNCHANGED <<server, inbox, task, subs, publishing, buf, req, client, connected,
                   stream, history>>

ListenWrite(c) ==
    /\ listener[c].pc \in {"head", "body"} /\ c[1] \in connected
    /\ stream' = [stream EXCEPT ![c[1]] =
                    Append(@, Chunk(c, listener[c].pc, listener[c].msg))]
    /\ listener' = [listener EXCEPT ![c].pc =
                      IF @ = "head" THEN "body" ELSE "listening"]
    /\ UNCHANGED <<server, inbox, task, subs, publishing, buf, rx, req, client,
                   connected, history>>

-----------------------------------------------------------------------------
Task(c) == Handle(c) \/ Respond(c) \/ EndTask(c)
Listener(c) == ListenRecv(c) \/ ListenEnd(c) \/ ListenWrite(c)
RestStep(r) == RestRecv(r) \/ RestDown(r)
LocalStep(k) == LocalRecv(k) \/ LocalDown(k)
BridgeStep(b) == BridgeRecv(b) \/ BridgeDown(b) \/ BridgeWrite(b) \/ BridgeEnd(b)

(* What tasks and threads do once they can. *)
Progress ==
    \/ Receive
    \/ \E p \in publishing : Notify(p)
    \/ \E c \in Chan : Task(c) \/ Listener(c)
    \/ \E r \in Rest : RestStep(r)
    \/ \E k \in Local : LocalStep(k)
    \/ \E b \in Bridge : BridgeStep(b)

(* What the owner of the service, the executor, and the users do. *)
Environment ==
    \/ Start \/ StopSend
    \/ \E e \in Event : Publish(e)
    \/ \E r \in Rest : RestSend(r)
    \/ \E k \in Local : LocalSend(k)
    \/ \E b \in Bridge : Connect(b) \/ Disconnect(b) \/ BridgeSend(b)

Next == Progress \/ Environment

Spec == Init /\ [][Next]_vars

(* The scheduler goes on as long as a task or a thread can.  Nothing is     *)
(* assumed of the environment.  That no task starves need not be assumed    *)
(* either: each of them comes to an end.                                    *)
FairSpec == Spec /\ WF_vars(Progress)

-----------------------------------------------------------------------------
Msg == [kind : {"none", "reply", "event"}, level : 0 .. MaxPackLevel,
        body : Seq({"ask", "put", "sub", "exception"}), n : Nat]

(* Type invariant: in particular, no channel is ever longer than its bound  *)
(* and every subscription belongs to a channel that was requested.          *)
TypeOK ==
    /\ thread \in BOOLEAN /\ (~thread => ~Stopping)
    /\ Len(inbox) <= ChannelBound /\ Range(inbox) \subseteq Chan \cup {Stop}
    /\ \A c \in Chan : Len(buf[c]) <= ChannelBound /\ Range(buf[c]) \subseteq Msg
    /\ \A k \in DOMAIN subs : subs[k] # NoSub => req[subs[k].chan] # NoReq
    /\ \A p \in publishing : p.chan \in Chan /\ p.msg \in Msg
    /\ \A k \in Client : client[k].pc \in {"start", "reading", "waiting", "polling",
                             "head", "body", "ok", "error", "failed", "closed", "exited"}
    /\ \A c \in Chan : task[c].pc \in {"none", "run", "sent"}

Subscribes(q) == \E i \in DOMAIN q.body : q.body[i].type = "sub"
Occurs(n, c) ==
    Cardinality({i \in DOMAIN got[c] : got[c][i] = n})
      + Cardinality({i \in DOMAIN buf[c] : buf[c][i].kind = "event"
                                           /\ buf[c][i].n = n})
      + Cardinality({p \in publishing : p.chan = c /\ p.msg.n = n})

(* An event reaches every subscriber exactly once, unless the subscriber    *)
(* has dropped the receiver: whatever other tasks publish, subscribe or     *)
(* unsubscribe, it has been received, or is in the channel, or in a task    *)
(* that will send it.  What is due depends only on who has subscribed and   *)
(* not unsubscribed since, not on the table that publish goes through.      *)
NoEventLost ==
    \A n \in 1 .. Len(owed) : \A c \in Chan :
        rx[c] => Occurs(n, c) = Cardinality({x \in owed[n] : x[2] = c})

(* The bridge does not drop a subscription of a connection that is open:    *)
(* after the answer, "Possible subscription" is told by the channel not     *)
(* being closed, and the handler goes on as long as messages are packed.    *)
BridgeKeepsListening ==
    \A c \in Chan :
        c[1] \in connected /\ answer[c] # Silence /\ c \in Range(interest)
          => rx[c]

(* A request that does not subscribe is answered by one message, with one   *)
(* answer for each of its messages that has any, in their order, and in as  *)
(* many envelopes; a client is told that the "blockchain service seems      *)
(* down" only after a request that has no answer.                           *)
Answering(q) == SelectSeq(q.body, LAMBDA m : response(m) # {<<>>})
AnsweredAsAsked ==
    \A c \in Chan :
        LET q == req[c]
            a == answer[c]
        IN  /\ a # Silence /\ ~Subscribes(q) =>
                  /\ a.kind = "reply"
                  /\ q.level - a.level = (IF q.form = "tag" THEN 1 ELSE 0)
                  /\ q.form \in {"simple", "sequence"} =>
                        /\ Len(a.body) = Len(Answering(q))
                        /\ \A i \in DOMAIN a.body :
                              <<a.body[i]>> \in response(Answering(q)[i])
            /\ c = Now(c[1]) /\ client[c[1]].pc = "failed" =>
                  /\ q.level >= MaxPackLevel \/ Answering(q) = <<>>
                  /\ q.form \in {"tag", "garbage"} => q.level >= MaxPackLevel

(* "A missing reply from the blockchain is going to block the receiver      *)
(* forever": every request is answered or refused, because the sender of a  *)
(* request without reply is dropped, unless it is in the queue of a service *)
(* that is not running.  A request sent before the service was told to stop *)
(* is still taken.                                                          *)
EveryRequestEnds ==
    \A c \in Chan :
        (client[c[1]].pc = "waiting" /\ c = Now(c[1])) ~>
            \/ ~(client[c[1]].pc = "waiting" /\ c = Now(c[1]))
            \/ ~thread /\ c \in Range(inbox)

(* The documentation of the dispatcher: "one incoming Packed message        *)
(* generates one outgoing Packed message, this behaviour is performed **for *)
(* all** message types, even for the ones that normally do not send out a   *)
(* response".  Not so: there is no reply without an answer, nor at the      *)
(* limit of the envelopes, and a wrong first byte at level 1 gets a plain   *)
(* one.                                                                     *)
PackedGetsPacked ==
    \A c \in Chan :
        req[c].level > 0 =>
            /\ c = Now(c[1]) => client[c[1]].pc # "failed"
            /\ answer[c] # Silence => answer[c].level > 0

(* What is written to a connection is datagrams, each a head with its body, *)
(* as read_datagram expects them.  Not so once there is a subscription: its *)
(* handler writes to the same stream as write_datagram, and neither waits   *)
(* for the other between head and body.                                     *)
FramesIntact ==
    \A b \in Bridge : \A i \in DOMAIN stream[b] :
        LET x == stream[b][i] IN
        IF i % 2 = 1 THEN x.part = "head"
        ELSE x.part = "body" /\ [x EXCEPT !.part = "head"] = stream[b][i - 1]
=============================================================================

----------------------------- MODULE MCService -----------------------------
(* Instances of Service for TLC: the requests that clients send. *)
EXTENDS Service

CONSTANTS tx, blk, i1, i2, r1, b1, k1

Simple(level, m) == [level |-> level, form |-> "simple", body |-> <<m>>]
Sequence(level, ms) == [level |-> level, form |-> "sequence", body |-> ms]
Bad(level, form) == [level |-> level, form |-> form, body |-> <<>>]
M(type) == [type |-> type]
Sub(id, events) == [type |-> "sub", id |-> id, events |-> events]
Unsub(id, events) == [type |-> "unsub", id |-> id, events |-> events]

(* A confirmed transaction, bytes that do not decode, and a request that is *)
(* packed at the limit.                                                     *)
MCRestReq == {Simple(0, M("put_confirm")), Bad(1, "tag"), Simple(2, M("ask"))}

(* A subscription, the end of a part of it with a transaction, and the end  *)
(* of that of another client, which is not answered.                        *)
MCBridgeReq ==
    {Simple(1, Sub(i1, {tx, blk})),
     Sequence(1, <<Unsub(i1, {blk}), M("put_confirm")>>),
     Simple(1, Unsub(i2, {blk}))}

(* The component in the process, like kafka, subscribes with plain messages. *)
MCLocalReq == [k \in {k1} |-> Simple(0, Sub(i2, {blk}))]

(* A connection with two requests; one with one request, and an HTTP client *)
(* or a component of the process; and the service stopped meanwhile.        *)
Plan(r, b, k, o) == r1 :> r @@ b1 :> b @@ k1 :> k @@ Owner :> o
MCPlans == {Plan(0, 2, 0, 0), Plan(1, 1, 0, 0), Plan(0, 1, 1, 0),
            Plan(0, 1, 0, 1), Plan(1, 0, 1, 1)}
=============================================================================

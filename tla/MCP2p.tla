------------------------------- MODULE MCP2p -------------------------------
(* An instance of P2p for TLC: two nodes of a network, and one of another   *)
(* network beside them.                                                     *)
EXTENDS P2p, TLC

CONSTANTS a, b, c, t1

MCNet == a :> "x" @@ b :> "x" @@ c :> "y"
MCTxNet == t1 :> "x"
MCInitHeight == a :> 1 @@ b :> 0 @@ c :> -1
MCBoot == {<<b, a>>}
MCPlan(nodes, addresses, submit, ask, k, f) ==
    [nodes |-> nodes, addrs |-> addresses, lan |-> {<<c, b>>}, submit |-> submit,
     ask |-> ask, blocks |-> k, faults |-> f]
MCPlans ==
    {MCPlan({a, b}, 2, {<<b, t1>>}, {}, 0, 0),
     MCPlan({a, b}, 1, {<<a, t1>>}, {}, 0, 1),
     MCPlan({b, c}, 1, {<<c, t1>>, <<b, t1>>}, {}, 0, 1),
     MCPlan({a, b, c}, 1, {<<a, t1>>}, {}, 0, 0),
     MCPlan({a, b}, 1, {}, {<<b, GetBlock(Newest, None)>>, <<b, GetBlock(2, a)>>}, 1, 0),
     MCPlan({a, b}, 0, {<<a, t1>>, <<b, t1>>}, {}, 1, 0),
     MCPlan({a, b}, 1, {<<a, t1>>}, {<<b, GetTx(t1, a)>>}, 0, 0),
     MCPlan({a, b}, 1, {<<a, t1>>}, {<<b, GetTx(t1, None)>>}, 1, 0)}
=============================================================================

----------------------------- MODULE MCGateway -----------------------------
(***************************************************************************)
(* The node towards the outside: the failover of the API's Bitcoin RPC     *)
(* calls, the submission of transactions over HTTP, the messages of peers  *)
(* and the signals that end the process.  They share no state, so TLC      *)
(* explores them one at a time: gateway says which of them takes steps.    *)
(***************************************************************************)
EXTENDS RpcFailover, ApiTransactions, MessageGate, NodeLifecycle

CONSTANTS q1, h1, i1, i2, i3, g1, g2, v1, tp, m1, m2, m3

VARIABLE gateway

\* i1 and i2 have the same hash.
MCHash == [r \in Requests |-> IF r = i3 THEN 2 ELSE 1]

MCBaseLimit == [t \in Topics |-> 1]

GatewayInit ==
  /\ FailoverInit /\ ApiInit /\ GateInit /\ NodeInit
  /\ gateway \in {"failover", "api", "gate", "node"}

entryVars == <<failoverVars, apiVars, gateVars>>

GatewayNext ==
  /\ UNCHANGED gateway
  /\ \/ gateway = "failover" /\ FailoverNext /\ UNCHANGED <<apiVars, gateVars, nodeVars>>
     \/ gateway = "api" /\ ApiNext /\ UNCHANGED <<failoverVars, gateVars, nodeVars>>
     \/ gateway = "gate" /\ GateNext /\ UNCHANGED <<failoverVars, apiVars, nodeVars>>
     \/ gateway = "node" /\ NodeNext /\ UNCHANGED entryVars

\* Until it takes its first step no part has a step that fairness asks for.
GatewaySpec ==
  /\ GatewayInit
  /\ [][GatewayNext]_<<entryVars, nodeVars, gateway>>
  /\ FailoverFairness /\ NodeFairness

\* Every variable of the parts has its type.
GatewayTypeOK == FailoverTypeOK /\ ApiTypeOK /\ GateTypeOK /\ NodeTypeOK

\* Endpoints recover and calls return (FailoverProgress), and a signal ends the node
\* (SignalEndsNode).
GatewayProgress == FailoverProgress /\ SignalEndsNode

=============================================================================

------------------------- MODULE MCAgentConnections -------------------------
(* Instances of AgentConnections.  The two servers share nothing but the     *)
(* streams, so that each is looked at alone; each budget asks for a          *)
(* different kind of trouble.                                                *)
EXTENDS AgentConnections

Budgets2(backends, agents, streams, losses, calls, faults, deletes) ==
    {[agents |-> agents, servers |-> {v}, backend |-> b, streams |-> streams,
      losses |-> losses, calls |-> calls, faults |-> faults, deletes |-> deletes] :
        v \in Servers, b \in backends}

\* Without faults and deletions the backends behave alike.
MCBudgets == UNION
    {Budgets2({"etcd"}, {"a1"}, 3, 2, 0, 0, 0),              \* reconnects
     Budgets2({"etcd"}, {"a1"}, 2, 1, 2, 0, 0),              \* two calls, and a reconnect
     Budgets2({"etcd", "jetstream"}, {"a1"}, 2, 1, 1, 1, 1), \* the cluster is deleted,
                                                             \* something fails
     Budgets2({"etcd"}, {"a1", "a2"}, 2, 1, 1, 0, 0)}        \* a broadcast to two agents
=============================================================================

------------------------------ MODULE MCHealth ------------------------------
(* Instances of Health.  Each budget asks for a different kind of trouble.  *)
EXTENDS Health

Budget(plugins, ready, changes, faults, streams, closes, watches, stops) ==
    [plugins |-> plugins, ready |-> ready, changes |-> changes, faults |-> faults,
     streams |-> streams, closes |-> closes, watches |-> watches, stops |-> stops]

NeverReported == [health |-> NoHealth, status |-> "none"]

MCBudgets ==
    LET metrics == {"metrics"}  logging == {"logging"} IN
    {Budget(metrics, TRUE, 1, 0, 1, 0, 0, 0),   \* updates race polls
     Budget(metrics, FALSE, 0, 0, 2, 0, 0, 0),  \* a reconnect
     Budget(logging, TRUE, 2, 1, 1, 0, 0, 0),   \* a plugin or a call fails
     Budget(logging, TRUE, 0, 0, 2, 1, 0, 0),   \* a reconnect, and Close
     Budget(logging, TRUE, 1, 0, 1, 0, 1, 0),   \* a watch
     Budget(logging, TRUE, 0, 0, 1, 0, 1, 1),   \* a watch, and the gateway stops
     Budget(metrics \cup logging, FALSE, 1, 0, 1, 0, 0, 0)}
=============================================================================

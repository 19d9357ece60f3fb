SPECIFICATION Spec
CONSTANTS
    Agents <- OneAgent
    MadeFor <- NoneJoins
    MaxCalls = 2
    MaxFaults = 0
    MaxDeletes = 1
    Operator = {}
CHECK_DEADLOCK FALSE
INVARIANT KeyringGoesWithCluster

SPECIFICATION FairSpec
CONSTANTS
    Agents <- SameTokenAndV2
    MadeFor <- NoneJoins
    MaxCalls = 4
    MaxFaults = 0
    MaxDeletes = 1
    Operator = {"rebootstrap"}
CHECK_DEADLOCK FALSE
INVARIANTS
    DeniedOnce
    CreatorKeyKept
PROPERTY EveryAgentConnects

SPECIFICATION Spec
CONSTANTS
    Agents <- MixedTokens
    MadeFor <- SecondJoins
    MaxCalls = 4
    MaxFaults = 1
    MaxDeletes = 0
    Operator = {"expire"}
CHECK_DEADLOCK FALSE
INVARIANTS
    TypeOK
    KeysAgree
    JoinsWithLeave
    ClusterHasKeyring

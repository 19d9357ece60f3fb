CONSTANTS
    Agents = {"a1", "a2"}
    Streams = {1, 2, 3}
    Calls = {1, 2}
    Budgets <- MCBudgets
SPECIFICATION FairSpec
INVARIANTS TypeOK EntryHasHandler ConnectedIsReachable
PROPERTIES CallsReturn StreamsCleanUp
CHECK_DEADLOCK FALSE

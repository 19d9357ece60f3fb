SPECIFICATION FairSpec
CONSTANTS
    Agents = {"a1"}
    Ids = {"a1"}
    Unreported <- NeverReported
    Plugins = {"metrics", "logging"}
    Pusher = "metrics"
    Keys = {"config Sync"}
    Streams = {1, 2}
    Pushes = {1, 2}
    Watchers = {"w1"}
    Budgets <- MCBudgets
    MaxConnections = 2
    QueueCap = 2
    IncomingCap = 1
    ListenerCap = 1
    OutCap = 1
CHECK_DEADLOCK FALSE
INVARIANTS
    TypeOK
    StatusAlternates
    LastHealthRight
    NoSendAfterClose
    WatchFollows
PROPERTIES
    HandlersLeave
    HealthArrives
    RunGoesOn

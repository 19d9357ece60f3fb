SPECIFICATION FairSpec
CONSTANTS
    c1 = c1
    c2 = c2
    Clusters = {k1}
    Clients = {c1, c2}
    k1 = k1
    Backends = {"etcd", "jetstream"}
    Watchers = {"stream", "list"}
    Initial <- Nothing
    Mutate <- AppendClient
    Steps = 2
    MaxCalls = 4
    MaxFaults = 1
    EventBuf = 2
CHECK_DEADLOCK FALSE
INVARIANTS
    TypeOK
    MirrorFollows
    RetriesPaid
PROPERTIES
    ImplementsStoreAPI
    DeletionEndsStream

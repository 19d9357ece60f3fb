SPECIFICATION Spec
CONSTANTS
    c1 = c1
    c2 = c2
    Clusters = {k1}
    Clients = {c1, c2}
    k1 = k1
    Backends = {"etcd"}
    Watchers = {"stream"}
    Initial <- Nothing
    Mutate <- AppendClient
    Steps = 2
    MaxCalls = 4
    MaxFaults = 0
    EventBuf = 2
CHECK_DEADLOCK FALSE
INVARIANT PrevKvAlwaysSet

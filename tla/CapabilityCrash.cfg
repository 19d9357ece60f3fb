SPECIFICATION UFairSpec
CONSTANTS
    i1 = i1
    keep = keep
    purge = purge
    c1 = c1
    c2 = c2
    Ids = {i1}
    Metadata = {keep, purge}
    Purge = {purge}
    Clients = {c1}
    MaxMachines = 2
    MaxProgress = 0
    MaxCrashes = 2
    MaxFaults = 1
INVARIANTS TimestampHasTask
PROPERTIES UninstallSettles
CHECK_DEADLOCK FALSE

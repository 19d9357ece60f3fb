SPECIFICATION UFairSpec
CONSTANTS
    i1 = i1
    keep = keep
    purge = purge
    c1 = c1
    c2 = c2
    Ids = {i1}
    Metadata = {keep, purge}
    Purge = {purge}
    Clients = {c1, c2}
    MaxMachines = 3
    MaxProgress = 0
    MaxCrashes = 0
    MaxFaults = 0
INVARIANTS UTypeOK TimestampHasTask
PROPERTIES UninstallSettles
CHECK_DEADLOCK FALSE

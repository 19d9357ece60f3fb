SPECIFICATION USpec
CONSTANTS
    i1 = i1
    keep = keep
    purge = purge
    c1 = c1
    c2 = c2
    Ids = {i1}
    Metadata = {keep, purge}
    Purge = {purge}
    Clients = {c1}
    MaxMachines = 2
    MaxProgress = 0
    MaxCrashes = 1
    MaxFaults = 0
PROPERTIES NotFoundOkToReset
CHECK_DEADLOCK FALSE

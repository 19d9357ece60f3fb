SPECIFICATION Spec
CONSTANTS
  Ids = {i1}
  i1 = i1
  Metadata = {d1}
  d1 = d1
  MaxMachines = 1
  MaxProgress = 1
  MaxCrashes = 0
  MaxFaults = 0
INVARIANTS
  PendingErrorFailsTask
CHECK_DEADLOCK FALSE

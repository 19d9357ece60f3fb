SPECIFICATION FairSpec
CONSTANTS
  Ids = {i1}
  i1 = i1
  Metadata = {d1, d2}
  d1 = d1
  d2 = d2
  MaxMachines = 2
  MaxProgress = 1
  MaxCrashes = 2
  MaxFaults = 1
INVARIANTS
  TypeOK
  CancelReachesLiveTask
  NoOrphanedTask
PROPERTIES
  ResumeKeepsMetadata
  ResumeKeepsProgress
  TasksFinish
CHECK_DEADLOCK FALSE

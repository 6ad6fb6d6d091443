\* Three ports, seven places in the array, two ports per job.
CONSTANTS
  m = m
  a = a
  b = b
  off = off
  none = none
  NbPorts = 3
  NoLcore = none
  Lcores <- MCLcores
  StatLcore = m
  Entries <- MCEntries
  Masks <- MCMasks
  MaxParams = 7
  MaxPortPerJob = 2
  MaxVaried = 3
SPECIFICATION Spec
INVARIANTS
  TypeOK
  FirstWins
  WithinArrays
  QueueOwnership
  JobControlReady
  QueuesReady
  PoolBacked
  NothingLeft
CHECK_DEADLOCK FALSE

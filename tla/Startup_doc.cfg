\* A port that receives only.
CONSTANTS
  m = m
  a = a
  b = b
  off = off
  none = none
  NbPorts = 3
  NoLcore = none
  Lcores <- MCLcores
  StatLcore = m
  Entries <- MCEntries
  Masks <- MCMasks
  MaxParams = 7
  MaxPortPerJob = 2
  MaxVaried = 3
SPECIFICATION Spec
INVARIANTS
  ProbeQueueReady
CHECK_DEADLOCK FALSE

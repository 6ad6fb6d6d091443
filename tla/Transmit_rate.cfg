\* Three mbufs, bursts of two, a queue of three; a burst costs 1.5 cycles.
CONSTANTS
  x = x
  y = y
  z = z
  Mbufs <- MCMbufs
  BurstSize = 2
  TxDesc = 3
  RefWrap = 7
  PktLen = 1
  FrameExtra = 1
  CpuHz = 3
  TxRate = 64
  DefaultBps = 8
  Horizon = 8
SPECIFICATION FairSpec
INVARIANTS
  TypeOK
  PoolConserved
  HandedOver
PROPERTIES
  RateKept
  BurstReturns
CHECK_DEADLOCK FALSE

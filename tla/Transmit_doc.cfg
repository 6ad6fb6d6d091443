\* The assertion in __pktmbuf_alloc_bulk.
CONSTANTS
  x = x
  y = y
  z = z
  Mbufs <- MCMbufs
  BurstSize = 2
  TxDesc = 3
  RefWrap = 65536
  PktLen = 1
  FrameExtra = 1
  CpuHz = 3
  TxRate = 64
  DefaultBps = 8
  Horizon = 8
SPECIFICATION Spec
INVARIANTS
  AllocatedUnused
CHECK_DEADLOCK FALSE

\* The stat lcore and a slave, two ports, four Ctrl-C, the counter wrapping.
CONSTANTS
  m = m
  a = a
  Lcores <- MCLcores
  StatLcore = m
  NbRx <- MCNbRx
  NbTx <- MCNbTx
  SigWrap = 3
  MaxSignals = 4
SPECIFICATION FairSpec
INVARIANTS
  TypeOK
  GracefulStop
  TxOverrunBounded
  RxLoopKeepsRunning
  LoopsOnOpenPorts
PROPERTIES
  JobsOnlyStop
  SecondSignalExits
CHECK_DEADLOCK FALSE

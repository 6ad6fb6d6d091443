\* The comment on pktsender_sig_handler, with nothing assumed of the signals.
CONSTANTS
  m = m
  a = a
  Lcores <- MCLcores
  StatLcore = m
  NbRx <- MCOneRx
  NbTx <- MCOneTx
  SigWrap = 256
  MaxSignals = 2
SPECIFICATION Spec
INVARIANTS
  SecondSignalStops
CHECK_DEADLOCK FALSE

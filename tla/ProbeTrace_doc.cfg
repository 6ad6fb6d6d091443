\* The comment in trace_hw_tx_prepare.
CONSTANTS
  NbProbe = 1
  Enabled <- Single
  MaxWait = 1
  MaxProbes = 2
SPECIFICATION Spec
PROPERTIES
  NoOldValue
CHECK_DEADLOCK FALSE

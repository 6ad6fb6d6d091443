\* Two enabled ports and a disabled one, a timestamp read up to three times.
CONSTANTS
  NbProbe = 3
  Enabled <- Outer
  MaxWait = 2
  MaxProbes = 3
SPECIFICATION FairSpec
INVARIANTS
  TypeOK
  ProbesInSequence
  OwnTimestamps
  StampsNeverAhead
PROPERTIES
  CallbackReturns
CHECK_DEADLOCK FALSE

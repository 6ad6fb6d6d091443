\* Two writers and one reader: lost compare-and-swaps, publishing in turn.
CONSTANTS
  u = u
  v = v
  Writers <- Two
  Size = 4
  PutLens <- FitLens
  GetLens <- ByteLens
  MaxPuts = 4
SPECIFICATION FairSpec
INVARIANTS
  TypeOK
  NoRace
  NeverFull
  InOrder
PROPERTIES
  ImplementsFifo
  PutsReturn
CHECK_DEADLOCK FALSE

\* Four buckets of two slots, five entries, five keys.
CONSTANTS
  Keys <- MCKeys
  Data = {0, 1}
  Pairs <- MCPairs
  NbEntries = 5
  NbBuckets = 4
  NbSlots = 2
  MaxCalls = 7
  Sigs <- MCSigs
  Hash <- MCHash
  Alt <- MCAlt
SPECIFICATION FairSpec
INVARIANTS
  TypeOK
  EntriesInPlace
  IndicesConserved
PROPERTIES
  ImplementsMap
  AddReturns
CHECK_DEADLOCK FALSE

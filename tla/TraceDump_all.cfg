\* Three probes whose keys may differ in their padding, two indices to be had, three
\* threads with two records each, a location that has a place in the rows and one
\* that has none.
CONSTANTS
  Probes = {p, q, r}
  Plain = plain
  Roles <- MCRoles
  Locations = {3, 4}
  CacheSize = 2
  MaxBatch = 2
  MaxRecords = 2
  TraceMax = 3
  LocMax = 4
  Paddings = {y, z}
SYMMETRY MCSymmetry
SPECIFICATION Spec
INVARIANTS
  TypeOK
  CapturedKept
  RowsHold
  DumpFaithful
CHECK_DEADLOCK FALSE

\* A thread whose records hold cycles of the CPU.
CONSTANTS
  Probes = {p, q}
  Plain = plain
  Roles <- MCPairRoles
  Locations = {3}
  CacheSize = 2
  MaxBatch = 2
  MaxRecords = 2
  TraceMax = 3
  LocMax = 4
  Paddings = {z}
SPECIFICATION Spec
INVARIANT TimesConverted
CHECK_DEADLOCK FALSE

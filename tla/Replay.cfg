SPECIFICATION ReplaySpec
CONSTANTS
  c1 = c1
  c2 = c2
  h1 = h1
  h2 = h2
  d = d
  Chunk = {c1, c2}
  Hash = {h1, h2}
  DocOf <- OneDocument
  Absent = Absent
  MaxBatch = 2
  MaxLog = 3
  MaxCrashes = 0
  MaxFaults = 0
CHECK_DEADLOCK FALSE
INVARIANTS
  ReplayRestores

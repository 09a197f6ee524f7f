SPECIFICATION FairSpec
CONSTANTS
  alias = alias
  page = page
  v1 = v1
  v2 = v2
  headings = headings
  stub = stub
  a = a
  b = b
  c = c
  Title = {alias, page}
  Canonical <- AliasFolds
  Canary = {alias}
  Tolerance = 30
  Version = {v1, v2, headings, stub}
  Hash = {a, b, c}
  Chars <- Length
  MinBody = 5
  ChunksOf <- Cut
  LostChunks <- Past
  Absent = Absent
  MaxChunks = 2
  MaxBatch = 2
  MaxRaw = 3
  MaxCrashes = 1
  MaxFaults = 1
CHECK_DEADLOCK FALSE
INVARIANTS
  CommittedIsStored
  ReadyMatchesRows
  CanaryIsCurrent
PROPERTIES
  DocumentIsWhole
  RawDrains

SPECIFICATION FairApartSpec
CONSTANTS
  c1 = c1
  c2 = c2
  h1 = h1
  h2 = h2
  Chunk = {c1, c2}
  Hash = {h1, h2}
  Absent = Absent
  MaxBatch = 2
  MaxLog = 4
  MaxCrashes = 1
  MaxFaults = 1
  MaxRounds = 2
  MaxOutages = 1
CHECK_DEADLOCK FALSE
INVARIANTS
  EmbeddedIsCurrent
  DrainedHasNoOrphan
PROPERTIES
  IndexSpec
  FinishedIsIndexed
  JobFinishes

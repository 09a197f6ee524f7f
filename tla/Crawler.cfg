SPECIFICATION FairSpec
CONSTANTS
  home = home
  other = other
  v1 = v1
  v2 = v2
  Title = {home, other}
  Seed = {home}
  Version = {v1, v2}
  Links <- HomeLinks
  Webs <- AtFirst
  Gone = Gone
  Failed = Failed
  Skipped = Skipped
  Absent = Absent
  MaxBatch = 2
  MaxRequests = 3
  MaxEdits = 2
  MaxCrashes = 1
  MaxFaults = 1
  MaxOpen = 1
CHECK_DEADLOCK FALSE
INVARIANTS
  BreakerLossBounded
  PublishedIsFound
  BlobIsPublished
  LinksAreKnown
PROPERTIES
  RequestsDrain

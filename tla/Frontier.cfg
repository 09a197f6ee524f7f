SPECIFICATION FairSpec
CONSTANTS
  p = p
  Title = {p}
  FailLimit = 2
  InflightLimit = 1
  MaxBacklog = 2
  MaxEdits = 2
  MaxFaults = 2
  MaxErrors = 1
  MaxDrops = 1
  MaxCrashes = 1
INVARIANTS
  ReportedIsPursued
PROPERTIES
  EditsCaught

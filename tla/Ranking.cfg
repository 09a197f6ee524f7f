SPECIFICATION RankSpec
CONSTANTS
  Title = {1, 2, 3}
  Chrome = {3}
  MaxEdges = 4
  MaxWrites = 2
  Graphs     <- AllLinks
  Tiers      <- TwoTiers
  Floor      = 220
  Edited     = 10
  Found      = 200
  Priorities <- AtFirst
CHECK_DEADLOCK FALSE
INVARIANTS
  RowsComplete
  DocsAreThemselves
  HighestTierWins
PROPERTIES
  EditsStayFirst
  CentralComeFirst

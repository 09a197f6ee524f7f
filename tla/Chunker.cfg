SPECIFICATION ChunkSpec
CONSTANTS
  Gap          = Gap
  Char        <- Letter
  Blank       <- White
  Documents   <- Texts
  TargetChars  = 9
  OverlapChars = 2
  MinChars     = 5
CHECK_DEADLOCK FALSE
INVARIANTS
  TextIsWhole
  RepeatIsOverlap
  SizeBounded

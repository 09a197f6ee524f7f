SPECIFICATION Spec
CONSTANTS
  Doc        <- Docs
  Chunk      <- Chunks
  DocOf      <- Belongs
  InCategory <- Tagged
  Score      <- Scores
  Graphs     <- FewGraphs
  Ranks      <- FewRanks
  Candidates = 2
  Extra      = 2
  TopK       = 1
  SeedPoints = 1
  MaxNear    = 1
  MaxChanges = 1
CHECK_DEADLOCK FALSE
INVARIANTS
  CategoryNarrows

SPECIFICATION ApiSpec
CONSTANTS
  Doc        <- Docs
  Chunk      <- Chunks
  DocOf      <- Belongs
  InCategory <- Tagged
  Score      <- Scores
  Graphs     <- FewGraphs
  Ranks      <- FewRanks
  Candidates = 2
  Extra      = 2
  TopK       = 1
  SeedPoints = 1
  MaxNear    = 1
  MaxChanges = 1
  s = s
  t = t
  a = a
  b = b
  c = c
  d = d
  year = year
  Node = {s, t, a, b, c, d, year}
  source = s
  target = t
  LinkGraphs <- AllGraphs
  Hidden = {year}
  MaxHops = 5
  FrontierCap = 2
SYMMETRY Symmetry
CHECK_DEADLOCK FALSE
INVARIANTS
  NoHitTwice
  ScoreDecides
  CentralFirst
  PathIsShortest
  NearIsFound

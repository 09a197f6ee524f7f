SPECIFICATION Spec
CONSTANTS
  Title    <- TwoTitles
  Alias    <- OneAlias
  Page     <- PagesOf
  OldCats  <- Shortened
  Calendar <- YearOnly
  ParentOf <- Parents
  NotAnObject   <- Lunar
  OwnCategories = 6
  InfoboxLimit  = 2
  Batch    = 1
  FactLimit = 2
  NoPage   = NoPage
  MaxEdits = 1
INVARIANTS
  RelationsFollowPages
  TypesFollowPages
  PersonFactsAreServed

SPECIFICATION Spec
CONSTANTS
  BatchSize = 4
  Concurrency = 2
  Interval = 1
  Threshold = 2
  Cooldown = 3
  Window = 3
  Nap = 1
  MaxTime = 6
  MaxBatches = 2
CHECK_DEADLOCK FALSE
INVARIANTS
  SlotsSpaced
  
  
PROPERTIES
  OpensOnOutage

\* One CPU at a time, nothing evicted: does knocking let a source in?
SPECIFICATION TrailSpec
CONSTANTS
  Src = {"s"}
  Port = {1, 2, 3}
  Config <- DistinctSteps
  Cpu = {"c"}
  MaxTime = 3
  MaxSyns = 6
  MayEvict = FALSE
INVARIANTS KnockerGetsIn
CHECK_DEADLOCK FALSE

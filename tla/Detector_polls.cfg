\* One source, polls that fail or read while packets are counted.
SPECIFICATION Spec
CONSTANTS
  Src = {"s"}
  Cpus = 1
  MinPackets = 2
  Multiplier = 2
  SynPercent = 50
  Consecutive = 2
  AutoBlock = TRUE
  MaxPackets = 9
INVARIANTS TypeOK AlertsPaidFor FloodFlagged SteadyNotFlagged
CHECK_DEADLOCK FALSE

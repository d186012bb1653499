\* Two CPUs race on the knocks of one source.
SPECIFICATION Spec
CONSTANTS
  Src = {"s"}
  Port = {1, 2, 9}
  Config <- TwoSteps
  Cpu = {c1, c2}
  MaxTime = 3
  MaxSyns = 4
  MayEvict = TRUE
SYMMETRY Cpus
INVARIANTS TypeOK UnlockEarned
PROPERTIES GateSpec
CHECK_DEADLOCK FALSE

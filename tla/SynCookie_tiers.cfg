\* Two CPUs run the program on the SYNs and ACKs of one source.
SPECIFICATION Spec
CONSTANTS
  Src = {"s"}
  Flow = {f1, f2}
  SrcOf <- Owner
  f1 = f1
  f2 = f2
  Cpu = {c1, c2}
  Config <- OnOff
  Quantum = 1
  Epochs = 3
  Rotate = 2
  VerifiedTtl = 2
  MaxTime = 3
  MaxLag = 1
  MaxSyns = 3
  MayEvict = TRUE
SYMMETRY Alike
INVARIANTS TypeOK AnswerAccepted TrustEarned
CHECK_DEADLOCK FALSE

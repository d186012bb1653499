\* Two goroutines on one address, or on two ranges; a ring of two events.
SPECIFICATION BackendSpec
CONSTANTS
  Ip = {"a"}
  Cidr = {"10/8", "11/8"}
  Scopes = {{"a"}, {"10/8", "11/8"}}
  Caller = {g1, g2}
  MaxCopies = 2
  Ring = 2
  Backfill = 1
  MaxSeq = 4
SYMMETRY Callers
INVARIANTS QuietAgrees StreamComplete
CHECK_DEADLOCK FALSE

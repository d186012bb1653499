\* Two daemons that name each other, crashes, operators, saved tables.
SPECIFICATION FairSpec
CONSTANTS
  Node = {"a", "b"}
  Addr = {"v"}
  Peers <- MeshPeers
  Ttl <- ShortTtl
  DefaultTTL = 2
  MaxTime = 4
  MaxReports = 2
  MayUnblock = TRUE
INVARIANTS TypeOK SharedHasOrigin SharedTracked FirstReportEnforced
PROPERTIES SharedExpires
CHECK_DEADLOCK FALSE

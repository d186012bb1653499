\* Two CPUs, one IPv4 and one IPv6 source, one range that covers the first.
SPECIFICATION Spec
CONSTANTS
  Cpu = {c1, c2}
  Src = {"10.0.0.1", "six"}
  V6 = {"six"}
  Kind = {"pps", "kbps"}
  PacketLen = {3}
  MaxLimit = 1
  BytesPerKbit = 3
  Unit = 2
  Word = 32
  WallClock = {22}
  MaxClock = 2
  MaxBuckets = 1
  Prefix = {"10/8"}
  Covers <- MCCovers
  KeyCovers <- MCCovers
  KeyOf <- BigEndian
  Reason = {"manual"}
  MaxPackets = 3
  MaxReasons = 1
SYMMETRY Cpus
INVARIANTS TypeOK MeterBound BlockedStops DropsExplained
CHECK_DEADLOCK FALSE

\* One CPU of a little-endian host, an IPv4 address and its reverse.
SPECIFICATION Spec
CONSTANTS
  Cpu = {c1}
  Src = {"10.0.0.1", "1.0.0.10"}
  V6 = {}
  Kind = {"pps", "kbps"}
  PacketLen = {3}
  MaxLimit = 1
  BytesPerKbit = 3
  Unit = 2
  Word = 32
  WallClock = {22}
  MaxClock = 2
  MaxBuckets = 1
  Prefix = {"10/8"}
  Covers <- MCCovers
  KeyCovers <- LECovers
  KeyOf <- LittleEndian
  Reason = {"manual"}
  MaxPackets = 1
  MaxReasons = 1
INVARIANTS BlockInForce
CHECK_DEADLOCK FALSE

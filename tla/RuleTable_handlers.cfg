\* Two handlers whose calls interleave, maps with room for one entry, saves
\* and loads that may fail.
SPECIFICATION Spec
CONSTANTS
  Name = {"v", "x"}
  Addr = {"v", "x"}
  AddrOf <- CanonicalAddr
  V6 = {}
  Kind = {"kbps"}
  MaxLimit = 1
  AutoReason = {"anomaly"}
  Policy <- PolicyV
  Handler = {h1, h2}
  MaxRules = 1
  SaveMayFail = TRUE
  LoadMayFail = TRUE
SYMMETRY Handlers
INVARIANTS TypeOK MirrorAgrees ListedLimitsEnforced AckedSurvives
PROPERTIES RestoreFaithful

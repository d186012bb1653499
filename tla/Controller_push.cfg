\* Files of up to five lines, pushed to a fleet of two nodes.
SPECIFICATION ControlSpec
CONSTANTS
  Line <- MCLine
  Number <- MCNumber
  Unquoted <- MCUnquoted
  Max16 = 2
  Max32 = 2
  MaxPorts = 1
  MaxLines = 5
  Host = {"h1", "h2"}
  NodeLists <- MCNodeLists
  TokenOf <- MCTokenOf
  Address = {"a"}
  Attempts = 2
  Parallel = {0, 1}
  MaxEntries = 2
  MaxLate = 1
INVARIANTS ParsedAsWritten ReportHonest
PROPERTY CommandEnds
CHECK_DEADLOCK FALSE

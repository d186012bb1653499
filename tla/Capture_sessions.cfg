\* Three sessions, two callers of Stop, timers that race with them.
SPECIFICATION FairSpec
CONSTANTS
  Caller = {h1, h2}
  MaxSessions = 3
  MaxPackets = 1
INVARIANTS TypeOK SwitchTracked ReaderOpen SwitchOnForSession
PROPERTIES DataKept TimedEnds
CHECK_DEADLOCK FALSE

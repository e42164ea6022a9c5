SPECIFICATION Spec
CONSTANTS
  a = a
  b = b
  NoConn = NoConn
  Gone = Gone
  Nodes = {a, b}
  Order <- TwoOrder
  Links <- AheadDials
  Heads <- TwoHeads
  Lag = 2
  Span = 2
  MaxBlock = 6
  MaxFaults = 3
INVARIANTS CountedBlocksHeld SourceOpen MuteEndDialled
PROPERTIES TimerKept
CHECK_DEADLOCK FALSE

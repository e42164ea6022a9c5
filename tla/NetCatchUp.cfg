SPECIFICATION FairSpec
CONSTANTS
  a = a
  b = b
  NoConn = NoConn
  Gone = Gone
  Nodes = {a, b}
  Order <- TwoOrder
  Links <- BehindDials
  Heads <- TwoHeads
  Lag = 2
  Span = 2
  MaxBlock = 6
  MaxFaults = 1
PROPERTIES IrreversibleSpreads HeadSpreads
CHECK_DEADLOCK FALSE

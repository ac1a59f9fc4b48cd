SPECIFICATION Spec
CONSTANTS
  s1 = s1  s2 = s2  s3 = s3  s4 = s4  h1 = h1  h2 = h2  fw = fw
  None = None
  Switches = {s1, s2, s3, s4}
  Order <- RingOrder
  MaxPort = 3
  Links <- RingLinks
  Hosts = {}
  Packets = {}
  MaxPaths = 0
  WaitingLimit = 2
  MaxLosses = 1
INVARIANTS AdjacencySound PathsShortest
CHECK_DEADLOCK FALSE

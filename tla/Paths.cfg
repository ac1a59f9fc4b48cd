SPECIFICATION Spec
CONSTANTS
  s1 = s1  s2 = s2  s3 = s3  s4 = s4  h1 = h1  h2 = h2  fw = fw
  None = None
  Switches = {s1, s2}
  Order <- PairOrder
  MaxPort = 3
  Links <- PairLinks
  Hosts = {h1, h2, fw}
  Packets <- Firewalled
  MaxPaths = 3
  WaitingLimit = 1
  MaxLosses = 2
INVARIANTS TypeOK PathsCurrent NoStaleRule ReleasedConfirmed NoLateRelease
CHECK_DEADLOCK FALSE

SPECIFICATION Spec
CONSTANTS
  m1 = m1
  m2 = m2
  m3 = m3
  s1 = s1
  s2 = s2
  s3 = s3
  Chain <- TwoElements
  Machines = {m1, m2, m3}
  Switches = {s1, s2, s3}
  HopCount <- Hops
  Partition <- Parts
  Early = {s1, s2, s3}
  Home <- At
  Seen <- Roams
  Flows <- TwoFlows
  Congestible <- FirstLink
  Affine = {"Logger"}
  OneWay = {"Drop"}
  MaxDesc = 3
  None = None
INVARIANT OneFromEachSet
CHECK_DEADLOCK FALSE

SPECIFICATION Spec
CONSTANTS
  None = None
  p53 = p53  p80 = p80  udp = udp  here = here  there = there
  Values = {p53, p80, udp}
  Addrs = {here, there}
  MbIp = here
  FlowSpaces <- AppFlows
  Packets <- Traffic
  MaxDesc = 3
  MaxStarts = 2
INVARIANTS TypeOK OnlyItsTraffic ChainOrder FoundOrOvertaken
PROPERTIES ChainWhole

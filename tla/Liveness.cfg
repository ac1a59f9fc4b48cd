SPECIFICATION FairSpec
CONSTANTS
  m1 = m1
  m2 = m2
  strkey = strkey
  dns = dns
  web = web
  Logger = Logger
  Drop = Drop
  StrKey = strkey
  Flows = {dns, web}
  Names = {Logger, Drop}
  NApps = 1
  Machines = {m1}
  Requests <- TwoRequests
  TriggerRequest <- NoTrigger
  Configuring = {}
  Removers = {}
  ByCentrality = FALSE
  Capacity = 1
  Overloadable = {}
  Leaving = {}
  HostsMove = FALSE
  SshFails = FALSE
  DataPlaneFirst = TRUE
  MaxDesc = 3
  MaxSock = 2
  MaxQueue = 2
CHECK_DEADLOCK FALSE
PROPERTIES AppInstalled InstallReachesShim

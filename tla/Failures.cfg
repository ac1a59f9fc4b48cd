SPECIFICATION Spec
CONSTANTS
  m1 = m1
  m2 = m2
  strkey = strkey
  dns = dns
  web = web
  Logger = Logger
  Drop = Drop
  StrKey = strkey
  Flows = {dns, web}
  Names = {Logger, Drop}
  NApps = 1
  Machines = {m1, m2}
  Requests <- MixedRequests
  TriggerRequest <- NoTrigger
  Configuring = {}
  Removers = {}
  ByCentrality = TRUE
  Capacity = 2
  Overloadable = {}
  Leaving = {m1, m2}
  HostsMove = TRUE
  SshFails = TRUE
  DataPlaneFirst = FALSE
  MaxDesc = 5
  MaxSock = 2
  MaxQueue = 1
SYMMETRY Symmetry
CHECK_DEADLOCK FALSE
INVARIANTS OwnersAgree NamesListed InstalledComplete

SPECIFICATION FairSpec
CONSTANTS
  m1 = m1
  m2 = m2
  strkey = strkey
  dns = dns
  web = web
  Logger = Logger
  Drop = Drop
  StrKey = strkey
  Flows = {dns, web}
  Names = {Logger, Drop}
  NApps = 1
  Machines = {m1}
  Requests <- OneRequest
  TriggerRequest <- NoTrigger
  Configuring = {}
  Removers = {}
  ByCentrality = FALSE
  Capacity = 1
  Overloadable = {}
  Leaving = {}
  HostsMove = FALSE
  SshFails = FALSE
  DataPlaneFirst = FALSE
  MaxDesc = 3
  MaxSock = 1
  MaxQueue = 2
CHECK_DEADLOCK FALSE
PROPERTIES KeepsRetrying

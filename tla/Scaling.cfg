SPECIFICATION Spec
CONSTANTS
  m1 = m1
  m2 = m2
  strkey = strkey
  dns = dns
  web = web
  Logger = Logger
  Drop = Drop
  StrKey = strkey
  Flows = {dns, web}
  Names = {Logger, Drop}
  NApps = 1
  Machines = {m1, m2}
  Requests <- OneRequest
  TriggerRequest <- ChainOnTrigger
  Configuring = {}
  Removers = {1}
  ByCentrality = TRUE
  Capacity = 1
  Overloadable = {m1, m2}
  Leaving = {}
  HostsMove = FALSE
  SshFails = FALSE
  DataPlaneFirst = TRUE
  MaxDesc = 4
  MaxSock = 2
  MaxQueue = 1
SYMMETRY Symmetry
CHECK_DEADLOCK FALSE
INVARIANTS MigrationTracked CapacityRespected
PROPERTIES FreshDescriptor

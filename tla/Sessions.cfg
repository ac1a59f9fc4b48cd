SPECIFICATION Spec
CONSTANTS
  m1 = m1
  m2 = m2
  strkey = strkey
  dns = dns
  web = web
  Logger = Logger
  Drop = Drop
  StrKey = strkey
  Flows = {dns, web}
  Names = {Logger, Drop}
  NApps = 1
  Machines = {m1, m2}
  Requests <- OneRequest
  TriggerRequest <- DropOnTrigger
  Configuring = {1}
  Removers = {}
  ByCentrality = FALSE
  Capacity = 1
  Overloadable = {}
  Leaving = {}
  HostsMove = FALSE
  SshFails = FALSE
  DataPlaneFirst = TRUE
  MaxDesc = 3
  MaxSock = 3
  MaxQueue = 2
SYMMETRY Symmetry
CHECK_DEADLOCK FALSE
INVARIANTS TypeOK SessionExact BeliefBacked ConfigureFindsElement InstalledOnce NoSilentOrphan

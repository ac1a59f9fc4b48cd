SPECIFICATION FairSpec
CONSTANTS
  connection = connection
  timer = timer
  switches = switches
  None = None
  Tasks = {connection, timer, switches}
  Reads = {connection, switches}
  Timed = {timer, switches}
  Spawned = {connection}
INVARIANTS TypeOK OnePlace NeverAsleep
PROPERTIES TasksInTurn DueRuns
CHECK_DEADLOCK FALSE

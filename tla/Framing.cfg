SPECIFICATION FairSpec
CONSTANTS
  Conns = {1, 2}
  Cap = 4
  BufSize = 4
  Backlog = 1
  MaxMsgs = 3
  MaxDown <- DownBound
  MaxUp <- UpBound
INVARIANTS TypeOK NothingLostUnnoticed
PROPERTIES ImplementsChannels SendReturns ConnectedRegisters SentIsHandled
CHECK_DEADLOCK FALSE

SPECIFICATION FairSpec
CONSTANTS
  NumEN = 2
  NumPN = 2
  StartPort = 1
  ControllerPort = 3
  ServerOffset = 2
  CtrlSize = 1024
  MaxRounds = 2
\* The run ends: every process exits, or the controller waits for ever.
CHECK_DEADLOCK FALSE
INVARIANTS
  TypeOK
  StartBarrier
  BarrierInv
  NoProtocolError
  BufferExclusive
  RepliesIntact
  KeysIntact
  TxQueueClean
  RowsComplete
PROPERTIES
  ImplementsSession
  EveryoneBegins
  HostsLeave
  RunEnds

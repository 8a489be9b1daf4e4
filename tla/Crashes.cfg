SPECIFICATION FairCrashSpec
CONSTANTS
  NumEN = 1
  NumPN = 1
  StartPort = 1
  ControllerPort = 3
  ServerOffset = 2
  CtrlSize = 1024
  MaxRounds = 1
  Mortal = {0, 1, 2}
  MaxCrashes = 2
\* The run ends, or a process waits for ever for one that is gone.
CHECK_DEADLOCK FALSE
INVARIANTS
  CountsConnections
  EveryoneWasConnected
  NoPartialRows
PROPERTIES
  DeadHostEndsRun

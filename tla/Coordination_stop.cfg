SPECIFICATION FairSpec
CONSTANTS
  NumEN = 1
  NumPN = 1
  StartPort = 1
  ControllerPort = 3
  ServerOffset = 2
  CtrlSize = 1024
  MaxRounds = 1
\* The run ends: every process exits, or the controller waits for ever.
CHECK_DEADLOCK FALSE
PROPERTIES
  StopCompletes

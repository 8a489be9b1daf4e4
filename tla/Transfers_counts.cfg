SPECIFICATION Spec
CONSTANTS
  NumPN = 2
  Ids = {1, 2}
  QueueSize = 2
  Depth = 3
  MaxWrites = 2
  MaxCuts = 2
\* The loop ends with "stop", and the bounds end the run.
CHECK_DEADLOCK FALSE
INVARIANTS
  CountsPerEndpoint

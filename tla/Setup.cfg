SPECIFICATION Spec
CONSTANTS
  NumEp = 2
  MaxFailures = 3
\* The process ends or goes on to its work.
CHECK_DEADLOCK FALSE
INVARIANTS
  NodeComplete
  NoSilentFailure

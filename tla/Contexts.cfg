SPECIFICATION Spec
CONSTANTS
  NumEp = 3
  Roles = {"controller", "client", "server"}
  Rounds = 3
  Others = 2
\* The process ends.
CHECK_DEADLOCK FALSE
INVARIANTS
  Identified
  FreedOnce
  HeapBounded
  LinksFollowed

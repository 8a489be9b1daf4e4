SPECIFICATION FairSpec
CONSTANTS
  MaxDuration = 5
  Interval = 2
  Leftover = {0, 40}
  Tails = {none, x}
  NoTail = none
  Slow = 4
  MaxReal = 20
  MaxJumps = 2
  DiskFails = TRUE
\* The controller ends.
CHECK_DEADLOCK FALSE
INVARIANTS
  RoundsBounded
  FullCourse
  EveryRoundOnce
PROPERTIES
  Ends

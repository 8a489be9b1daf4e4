SPECIFICATION Spec
CONSTANTS
  MaxDuration = 5
  Interval = 2
  Leftover = {0, 12}
  Tails = {none}
  NoTail = none
  Slow = 6
  MaxReal = 18
  MaxJumps = 0
  DiskFails = FALSE
\* The controller ends.
CHECK_DEADLOCK FALSE
INVARIANTS
  FullDuration

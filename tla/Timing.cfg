SPECIFICATION Spec
CONSTANTS
  Second = 2
  Jumps = {1, 3}
  MaxRows = 3
  MaxReal = 8
  MaxJumps = 2
\* The client ends.
CHECK_DEADLOCK FALSE
INVARIANTS
  TimesAreReal
  DeltasMakeTime

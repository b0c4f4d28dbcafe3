SPECIFICATION MCSpec
CONSTANTS
  nil = nil
  Nil = nil
  Minute = 3
  CatchUpLimit = 3
  MaxPeriod = 4
  MaxTime = 26
CHECK_DEADLOCK FALSE
INVARIANTS
  CatchUpSettles
  FiresWithinBound

SPECIFICATION LiveSpec
CONSTANTS
  MaxVersion = 2
  Bad = {2}
  Nil = Nil
  MaxWork = 2
  MaxFaults = 3
  MaxCrashes = 3
CHECK_DEADLOCK FALSE
INVARIANTS
  RunsOnItsOwnData
  KnownGoodOrProvisional
  TriedOnce
PROPERTIES
  RuntimeComesBack

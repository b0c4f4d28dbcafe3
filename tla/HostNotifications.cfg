SPECIFICATION LiveSpec
CONSTANTS
  n1 = n1
  n2 = n2
  n3 = n3
  Nil = Nil
  Request = {n1, n2, n3}
  Scheduled = {n1}
  MaxPending = 2
  MaxRemembered = 1
  MaxActive = 1
  MaxFaults = 1
  MaxRestarts = 1
CHECK_DEADLOCK FALSE
INVARIANTS
  ShownOnce
  AnswersMatchTheScreen
PROPERTIES
  RequestsAnswered

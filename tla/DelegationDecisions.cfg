SPECIFICATION LiveSpec
CONSTANTS
  t1 = t1
  f1 = f1
  r1 = r1
  h1 = h1
  h2 = h2
  Nil = Nil
  Task = {t1}
  FollowUp = {}
  Request = {r1}
  Handler = {h1, h2}
  MaxFaults = 0
  Overtaken = {"look"}
  MaxRestarts = 0
CHECK_DEADLOCK FALSE
INVARIANTS
  EffectAtMostOnce
  EffectOnRecord
PROPERTIES
  DelegationsSettle

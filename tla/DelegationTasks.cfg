SPECIFICATION Spec
CONSTANTS
  t1 = t1
  f1 = f1
  r1 = r1
  h1 = h1
  h2 = h2
  Nil = Nil
  Task = {t1}
  FollowUp = {f1}
  Request = {r1}
  Handler = {h1}
  MaxFaults = 1
  Overtaken = {"start", "decide"}
  MaxRestarts = 1
CHECK_DEADLOCK FALSE
INVARIANTS
  SubmittedOnce
PROPERTIES
  FinalStaysFinal
  InterruptedEffectStaysUnknown
  CancelledIsFinal
  AnswerOfItsTurn

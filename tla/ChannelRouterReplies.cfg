SPECIFICATION LiveSpec
CONSTANTS
  t1 = t1
  c1 = c1
  u1 = u1
  g1 = g1
  Text = {t1}
  Cancel = {c1}
  Unsupported = {u1}
  CancelTarget <- CancelOne
  Target = {g1}
  MaxOpenings = 2
  MaxRestarts = 1
CHECK_DEADLOCK FALSE
INVARIANTS
  ReplyAtMostOnce
  NothingForgotten
PROPERTIES
  DecidedIsFinal
  StoppedIsQuiet
  RepliesSettle

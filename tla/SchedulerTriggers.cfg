SPECIFICATION Spec
CONSTANTS
  s1 = s1
  nil = nil
  Nil = nil
  Schedule = {s1}
  Minute = 2
  Definition <- TriggerDefinition
  MaxTime = 4
  MaxRevision = 2
  MaxRestarts = 1
  CatchUpLimit = 1
  MaximumDeliveryAttempts = 2
  wecom = wecom
  keyed = keyed
  Channel = {wecom, keyed}
  IdempotentChannel = {keyed}
CHECK_DEADLOCK FALSE
INVARIANTS
  NoOverlap
  ScheduleAdvances

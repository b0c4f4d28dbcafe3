SPECIFICATION LiveSpec
CONSTANTS
  s1 = s1
  nil = nil
  Nil = nil
  Schedule = {s1}
  Minute = 1
  Definition <- DeliveryDefinition
  MaxTime = 2
  MaxRevision = 1
  MaxRestarts = 1
  CatchUpLimit = 1
  MaximumDeliveryAttempts = 2
  wecom = wecom
  keyed = keyed
  Channel = {wecom, keyed}
  IdempotentChannel = {keyed}
CHECK_DEADLOCK FALSE
INVARIANTS
  DeliveryCounted
PROPERTIES
  NoSendAfterClose
  DeliveryProgresses

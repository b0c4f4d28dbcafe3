SPECIFICATION LiveSpec
CONSTANTS
  c1 = c1
  c2 = c2
  ws1 = ws1
  ws2 = ws2
  k1 = k1
  k2 = k2
  k3 = k3
  a1 = a1
  a2 = a2
  nil = nil
  Nil = nil
  Conversation <- MCConversation
  ImConversation <- MCImConversation
  Workspace <- MCWorkspace
  Key <- MCKey
  Request <- MCRequest
  Approver = {a1, a2}
  Client = {1}
  MaxRuns = 2
  MaxRestarts = 0
  MaximumConcurrentRuns = 1
  MaximumQueuedRuns = 2
CHECK_DEADLOCK FALSE
INVARIANTS
  SingleDecision
  SlotDiscipline
PROPERTIES
  RunsEnd
  CloseCompletes

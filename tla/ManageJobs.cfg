SPECIFICATION MCSpec
CONSTANTS
  Listing = {l1, l2}
  Slot = {c1, c2}
  BatchSize = 2
  MaxFree = 1
  MaxRequests = 2
  MaxFaults = 0
  Source = {"added", "removed", "created", "refreshed", "agent", "limits"}
  Kind = {"create", "update", "delete"}
  AgentFault = {"pulse", "token", "crash"}
  MaxAgentRequests = 3
CHECK_DEADLOCK FALSE
INVARIANTS
  TypeOK
  NoLostWakeup
  Scheduled
SYMMETRY Symmetry

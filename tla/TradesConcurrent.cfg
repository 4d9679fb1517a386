SPECIFICATION Spec
CONSTANTS
  Type = {"CREATE", "COUNTER", "ACCEPT", "CONFIRM", "DELETE", "REFRESH"}
  Made = {1, 2}
  Slot = {1, 2}
  MaxAttempts = 3
  MaxFaults = 2
  Fault = {"publish", "request", "steam", "refused", "glitched", "cut create", "cut counter", "restart"}
CHECK_DEADLOCK FALSE
INVARIANT NoConcurrentUse

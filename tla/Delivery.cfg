SPECIFICATION MCSpec
CONSTANTS
  Type = {"CREATE", "COUNTER", "ACCEPT", "CONFIRM", "DELETE", "REFRESH"}
  Made = {1, 2}
  Slot = {1}
  MaxAttempts = 3
  Fault = {"publish", "request", "steam", "refused", "glitched", "cut counter", "restart"}
  MaxFaults = 2
CHECK_DEADLOCK FALSE
INVARIANTS
  OneOffer
  DoneMeansDone
PROPERTIES
  ToldInTheEnd
  StoppedInTheEnd
  QueueMoves

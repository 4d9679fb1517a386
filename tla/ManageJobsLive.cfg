SPECIFICATION MCSpec
CONSTANTS
  Item = {"i", "j"}
  Asset = {"a"}
  Owner = {"o"}
  Nothing = "nothing"
  MaxRequests = 2
  MaxFaults = 1
CHECK_DEADLOCK FALSE
INVARIANT Found
PROPERTIES
  DeletesDrain
  CreatesDrain
  Resolves

SPECIFICATION MCSpec
CONSTANTS
  Fault = {"status", "request", "schedule", "decision", "cancel"}
  MaxRequests = 2
  MaxFaults = 1
  MaxTime = 2
  Listing = {1, 2}
  Refresh = {"r"}
  Part = {"active", "archived"}
  PageSize = 1
  Operation = {"create", "delete", "deleteArchived", "external"}
  Problem = {"page", "race", "done"}
  MaxChanges = 2
VIEW View
CHECK_DEADLOCK FALSE
INVARIANT PointServed
PROPERTIES
  RefreshedAfter
  Convergence

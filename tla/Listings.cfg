SPECIFICATION MCSpec
CONSTANTS
  Hash = {h1}
  Twin = {}
  Recreate = TRUE
  MaxVersion = 2
  MaxChanges = 2
  Worker = {"w"}
  LastPage = 2
  LastVersion = 2
  MaxTime = 8
  MaxExtra = 0
  MaxDeletes = 1
  MaxFaults = 1
  Fault = {"check", "job"}
INVARIANTS
  TypesOK
  Whole
PROPERTIES
  PlanComplete
  PlanSpares
  Convergence
  CaughtUp
CHECK_DEADLOCK FALSE

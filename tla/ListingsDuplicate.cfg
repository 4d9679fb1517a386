SPECIFICATION Spec
CONSTANTS
  Hash = {h1, h2}
  Twin = {h1, h2}
  Recreate = FALSE
  MaxVersion = 1
  MaxChanges = 3
PROPERTY PlanComplete

SPECIFICATION Spec
CONSTANTS
  Hash = {h1}
  Twin = {}
  Recreate = FALSE
  MaxVersion = 2
  MaxChanges = 3
PROPERTY UpdatesPickedUp

SPECIFICATION MCSpec
CONSTANTS
  Instance = {"i", "j"}
  None = "none"
  MaxEvents = 3
  MaxFaults = 3
CHECK_DEADLOCK FALSE
PROPERTIES
  Implements
  GoneIsNoticed
  BeatsOn

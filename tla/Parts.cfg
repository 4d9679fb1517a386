SPECIFICATION MCSpec
CONSTANTS
  Host = {h1, h2}
  Beat = {b1, b2}
  Nobody = Nobody
  MaxSeen = 2
  Attempts = 2
  MaxFaults = 0
  HoldCall = {"c", "d"}
  HoldToken = {"c"}
  HoldBot = {"a", "b"}
  MaxHoldAttempts = 3
  MaxHoldFaults = 2
  Hash = {"h", "i"}
  Twin = {"h", "i"}
  Recreate = FALSE
  MaxVersion = 1
  MaxChanges = 2
  Offer = {"o"}
  Request = {1, 2}
  Kind = {"poll", "send", "accept", "refresh"}
  TellFault = {"answer"}
  MaxQueue = 1
  MaxTellFaults = 1
INVARIANTS
  TypesOK
  AlwaysWatched
  NoStaleRefusal
  NoRepeat
  CacheNotBehind
PROPERTIES
  NewerWins
  OneOwner
CHECK_DEADLOCK FALSE
SYMMETRY Symmetry

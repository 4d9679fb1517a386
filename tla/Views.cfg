SPECIFICATION MCSpec
CONSTANTS
  Account = {"bot", "partner"}
  Wanted = {"bot"}
  Item = {"i"}
  MaxMoves = 2
  MaxFaults = 1
  Offer = {1, 2}
  Partner = {"p"}
  PartnerOf <- OnePartner
  Poll = {"i"}
  Life = 1
  MaxOfferFaults = 1
INVARIANTS
  TypesOK
  ViewsAgree
  FollowersAgree
  NeverPartial
PROPERTIES
  Repaired
  RightInTheEnd
CHECK_DEADLOCK FALSE

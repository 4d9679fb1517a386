-------------------------------- MODULE MCViews --------------------------------
(***************************************************************************)
(* What the bot-manager shows of offers and items: cached inventories and  *)
(* pending offers (the configuration gives the constants of both their     *)
(* values, small ones).  A behaviour is one of one of them, which is       *)
(* chosen at the start, and the other stays as it begins.  The proofs are  *)
(* of this composition, for all values of the constants.                   *)
(***************************************************************************)
EXTENDS InventoryCache

CONSTANTS Offer, Partner, PartnerOf, Poll, Life, MaxOfferFaults   \* of Pending

VARIABLES
  component,   \* the one that was chosen
  state, offerEvents, polled, poll, locked, ours, theirs, ttl, lapsed, offerFaults

offers == <<state, offerEvents, polled, poll, locked, ours, theirs, ttl, lapsed, offerFaults>>

Offers == INSTANCE Pending WITH
  events <- offerEvents, faults <- offerFaults, MaxFaults <- MaxOfferFaults

\* where there is one partner, all offers are with it
OnePartner == [o \in Offer |-> CHOOSE p \in Partner : TRUE]

\* of the one that is not chosen, one initial state is enough
MCInit ==
  /\ component \in {"offers", "inventories"}
  /\ Offers!Init /\ Init
  /\ component = "offers" => forever
  /\ component = "offers" \/ forever => owner = [i \in Item |-> "bot"]

\* a step of one of them
OfOffers(A) == component = "offers" /\ A /\ UNCHANGED <<component, vars>>
OfInventories(A) == component = "inventories" /\ A /\ UNCHANGED <<component, offers>>

MCNext == OfOffers(Offers!Next) \/ OfInventories(Next)

\* The fairness of Pending and of InventoryCache; a behaviour is of one of them, so
\* that what is fair in one can be stated together with what is in the other.
MCFairness ==
  LET all == <<component, offers, vars>> IN
  /\ SF_all(OfOffers(polled = "fresh" /\ Offers!SomePollIsHandled))
  /\ WF_all(\/ OfOffers(\E e \in offerEvents : Offers!Handled(e))
            \/ OfInventories(\E e \in events : UpdateInventory(e)))
  /\ WF_all(\/ OfOffers(Offers!SomePollIsHandled)
            \/ OfInventories(\E i \in Item : HandleTradeChanged(i)))
  /\ WF_all(\/ OfOffers(Offers!Polled)
            \/ OfInventories(ReadMatches("bot") \/ WriteUpdate("bot")))
  /\ WF_all(\/ OfOffers(Offers!SomePollGoesOn)
            \/ OfInventories(ReadMatches("partner") \/ WriteUpdate("partner")))
  /\ \A a \in Account :
       /\ WF_all(OfInventories(SaveInventory(a)))
       /\ WF_all(OfInventories(Expire(a)))

MCSpec == MCInit /\ [][MCNext]_<<component, offers, vars>> /\ MCFairness

\* The types of both
TypesOK == Offers!TypeOK /\ TypeOK

\* Events and polls that write at the same time leave what a bot and its partners are
\* shown the same (Pending)
ViewsAgree == Offers!ViewsAgree

\* Polls repair what events in the wrong order have done (Pending)
Repaired == Offers!Repaired
===============================================================================

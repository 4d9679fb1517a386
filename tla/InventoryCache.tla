------------------------------ MODULE InventoryCache ------------------------------
(***************************************************************************)
(* The inventories that the bot-manager caches.  A job loads an inventory  *)
(* through a bot and saves it; events of trades and of the game change     *)
(* what is cached, each inventory under its lock, and expiry takes no      *)
(* lock at all.  Whoever follows the events that are published with the    *)
(* changes can keep a copy.                                                *)
(*                                                                         *)
(* An item that changes hands becomes a new asset, which is the item and   *)
(* how often it has moved.  Events reach the handlers in any order, and    *)
(* more than once.                                                         *)
(***************************************************************************)
EXTENDS Integers

CONSTANTS
  Account,
  Wanted,      \* the accounts whose inventories are ever asked for
  Item,
  MaxMoves,    \* bound on how often an item moves
  MaxFaults    \* bound on events that are handled again and on loads that fail

ASSUME MaxMovesAssumption == MaxMoves \in Nat

VARIABLES
  owner,       \* who has the item
  moves,       \* how often it has moved, the last part of its current asset
  trade,       \* the last trade of each item: from whom to whom, or rolled back
  events,      \* changes to be made to inventories, by the events that ask for them
  update,      \* the change in hand of each inventory
  load,        \* the job that loads each inventory
  cache,       \* the hash of each inventory
  forever,     \* whether loads ask that the inventory does not expire
  follower,    \* history: the inventories as the published events tell them
  whole,       \* history: whether what is in the hash began with a whole inventory
  faults

vars == <<owner, moves, trade, events, update, load, cache, forever, follower, whole, faults>>
world == <<owner, moves, trade>>
told == <<follower, whole>>

None == "none"
Asset == Item \X (0..MaxMoves)
Owned(a) == {<<i, moves[i]>> : i \in {j \in Item : owner[j] = a}}

NoTrade == [from |-> None, to |-> None, details |-> FALSE, back |-> FALSE]
NoCache == [there |-> FALSE, stamped |-> FALSE, error |-> FALSE, expires |-> FALSE, items |-> {}]
NoUpdate == [pc |-> "idle", lost |-> {}, gained |-> {}, event |-> None, found |-> {}]
NoLoad == [pc |-> "idle", items |-> {}]
Change == [account : Account, lost : SUBSET Asset, gained : SUBSET Asset, reason : {"trade", "details", "tf2"}]

Init ==
  /\ owner \in [Item -> Account]
  /\ moves = [i \in Item |-> 0]
  /\ trade = [i \in Item |-> NoTrade]
  /\ events = {}
  /\ update = [a \in Account |-> NoUpdate]
  /\ load = [a \in Account |-> NoLoad]
  /\ cache = [a \in Account |-> NoCache]
  /\ forever \in BOOLEAN
  /\ follower = [a \in Account |-> {}]
  /\ whole = [a \in Account |-> FALSE]
  /\ faults = 0

Fault == faults < MaxFaults /\ faults' = faults + 1

TypeOK ==
  /\ owner \in [Item -> Account \cup {None}]
  /\ moves \in [Item -> 0..MaxMoves]
  /\ events \subseteq Change
  /\ \A a \in Account :
       /\ cache[a].items \subseteq Asset
       /\ ~cache[a].there => cache[a] = NoCache
       /\ update[a].pc \in {"idle", "found", "write"}
       /\ load[a].pc \in {"idle", "save", "fail"}
       /\ load[a].items \subseteq Asset
       /\ follower[a] \subseteq Asset

-------------------------------------------------------------------------------
(* What happens to items, and the events that tell of it *)

\* one change for each inventory that loses or gains something
UpdateInventories(lost, gained, reason) ==
  {[account |-> a, lost |-> lost[a], gained |-> gained[a], reason |-> reason] :
     a \in {b \in Account : lost[b] \cup gained[b] # {}}}

Nothing == [a \in Account |-> {}]

\* an offer is accepted: its items leave
HandleOfferChanged(a, asset) == UpdateInventories([Nothing EXCEPT ![a] = {asset}], Nothing, "trade")

HandleItemLost(a, asset) == UpdateInventories([Nothing EXCEPT ![a] = {asset}], Nothing, "tf2")

\* the details of a trade: the item has new ids at the receiver or, rolled back, newer
\* ones at the sender
HandleAddInventoryItems(i, t) ==
  LET now == <<i, moves[i]>>
      was(n) == <<i, moves[i] - n>>
  IN IF t.back
     THEN UpdateInventories([Nothing EXCEPT ![t.to] = {was(1)}, ![t.from] = {was(2)}],
                            [Nothing EXCEPT ![t.from] = {now}], "details")
     ELSE UpdateInventories([Nothing EXCEPT ![t.from] = {was(1)}],
                            [Nothing EXCEPT ![t.to] = {now}], "details")

\* (an event can wait for its handler, so that trades wait for the details of the last
\* one to be asked for excludes nothing)
Trade(i, to) ==
  /\ owner[i] \notin {None, to}
  /\ moves[i] < MaxMoves
  /\ ~trade[i].details
  /\ owner' = [owner EXCEPT ![i] = to]
  /\ moves' = [moves EXCEPT ![i] = @ + 1]
  /\ trade' = [trade EXCEPT ![i] = [from |-> owner[i], to |-> to, details |-> TRUE, back |-> FALSE]]
  /\ events' = events \cup HandleOfferChanged(owner[i], <<i, moves[i]>>)
  /\ UNCHANGED <<update, load, cache, forever, told, faults>>

\* a trade is rolled back, which is one more change of the offer
Rollback(i) ==
  /\ trade[i].to = owner[i] /\ owner[i] # None /\ ~trade[i].back
  /\ moves[i] < MaxMoves
  /\ owner' = [owner EXCEPT ![i] = trade[i].from]
  /\ moves' = [moves EXCEPT ![i] = @ + 1]
  /\ trade' = [trade EXCEPT ![i].details = TRUE, ![i].back = TRUE]
  /\ UNCHANGED <<events, update, load, cache, forever, told, faults>>

\* the bot is asked for the details of a trade as it is by now, and they are published
HandleTradeChanged(i) ==
  /\ trade[i].details
  /\ events' = events \cup HandleAddInventoryItems(i, trade[i])
  /\ trade' = [trade EXCEPT ![i].details = FALSE]
  /\ UNCHANGED <<owner, moves, update, load, cache, forever, told, faults>>

\* an item is used up in the game
Used(i) ==
  /\ owner[i] # None /\ ~trade[i].details
  /\ owner' = [owner EXCEPT ![i] = None]
  /\ events' = events \cup HandleItemLost(owner[i], <<i, moves[i]>>)
  /\ UNCHANGED <<moves, trade, update, load, cache, forever, told, faults>>

-------------------------------------------------------------------------------
(* Events change what is cached; the change in hand holds the lock *)

Locked(a) == update[a] # NoUpdate

\* an event that is not acknowledged will be handled again
Acknowledge(e) ==
  \/ events' = events \ {e} /\ UNCHANGED faults
  \/ UNCHANGED events /\ Fault

\* takes the lock; an inventory that is not cached is not changed
UpdateInventory(e) ==
  /\ e \in events
  /\ ~Locked(e.account)
  /\ IF cache[e.account].there
     THEN /\ update' = [update EXCEPT ![e.account] =
                          [pc |-> "found", lost |-> e.lost, gained |-> e.gained, event |-> e, found |-> {}]]
          /\ UNCHANGED events
     ELSE events' = events \ {e} /\ UNCHANGED update
  /\ UNCHANGED <<world, load, cache, forever, told, faults>>

\* reads which of the assets are cached
ReadMatches(a) ==
  /\ update[a].pc = "found"
  /\ update' = [update EXCEPT ![a].pc = "write",
                              ![a].found = cache[a].items \cap (update[a].lost \cup update[a].gained)]
  /\ UNCHANGED <<world, events, load, cache, forever, told, faults>>

\* the items the transaction leaves: gained ones are set, then lost ones are removed
Changed(items, u) == (items \cup u.gained) \ u.lost
NewlyLost(u) == u.lost \cap u.found
\* Mutation: what was there already is told, and not what is new
NewlyGainedSwapped(u) == u.gained \cap u.found

NewlyGained(u) == u.gained \ u.found

WriteUpdate(a) ==
  LET u == update[a]
      items == Changed(cache[a].items, u)
  IN /\ u.pc = "write"
     /\ cache' = [cache EXCEPT ![a] =
                    IF @.there THEN [@ EXCEPT !.items = items]
                    \* it expired: only what is gained makes a hash, and nothing ends it
                    ELSE IF u.gained = {} THEN NoCache
                    ELSE [NoCache EXCEPT !.there = TRUE, !.items = items]]
     /\ follower' = [follower EXCEPT ![a] = (@ \cup NewlyGained(u)) \ NewlyLost(u)]
     /\ update' = [update EXCEPT ![a] = NoUpdate]
     /\ Acknowledge(u.event)
     /\ UNCHANGED <<world, load, forever, whole>>

\* the lock is lost or a command fails, and the event is handled again
UpdateFails(a) ==
  /\ Locked(a)
  /\ Fault
  /\ update' = [update EXCEPT ![a] = NoUpdate]
  /\ UNCHANGED <<world, events, load, cache, forever, told>>

-------------------------------------------------------------------------------
(* Jobs load an inventory through a bot *)

GetInventoryFromBot(a) ==
  /\ a \in Wanted /\ load[a].pc = "idle"
  /\ load' = [load EXCEPT ![a] = [pc |-> "save", items |-> Owned(a)]]
  /\ UNCHANGED <<world, events, update, cache, forever, told, faults>>

\* the bot refuses in a way that is not retried
LoadFails(a) ==
  /\ a \in Wanted /\ load[a].pc = "idle"
  /\ Fault
  /\ load' = [load EXCEPT ![a].pc = "fail"]
  /\ UNCHANGED <<world, events, update, cache, forever, told>>

\* Mutation: saved without a lifetime
SavedForever(items, error) ==
  [there |-> TRUE, stamped |-> TRUE, error |-> error, expires |-> FALSE, items |-> items]

Saved(items, error) ==
  [there |-> TRUE, stamped |-> TRUE, error |-> error, expires |-> ~forever, items |-> items]

SaveInventory(a) ==
  LET error == load[a].pc = "fail" IN
  /\ load[a].pc # "idle"
  /\ ~Locked(a)
  /\ cache' = [cache EXCEPT ![a] = Saved(load[a].items, error)]
  /\ follower' = IF error THEN follower ELSE [follower EXCEPT ![a] = load[a].items]
  /\ whole' = [whole EXCEPT ![a] = ~error]
  /\ load' = [load EXCEPT ![a] = NoLoad]
  /\ UNCHANGED <<world, events, update, forever, faults>>

-------------------------------------------------------------------------------
(* What ends an inventory *)

Gone(a) ==
  /\ cache[a].there
  /\ cache' = [cache EXCEPT ![a] = NoCache]
  /\ whole' = [whole EXCEPT ![a] = FALSE]
  /\ UNCHANGED <<world, events, update, load, forever, follower, faults>>

DeleteInventory(a) == ~Locked(a) /\ Gone(a)

Expire(a) == cache[a].expires /\ Gone(a)

Next ==
  \/ \E i \in Item : \E a \in Account : Trade(i, a)
  \/ \E i \in Item : Rollback(i) \/ HandleTradeChanged(i) \/ Used(i)
  \/ \E e \in events : UpdateInventory(e)
  \/ \E a \in Account :
       \/ ReadMatches(a) \/ WriteUpdate(a) \/ UpdateFails(a)
       \/ GetInventoryFromBot(a) \/ LoadFails(a) \/ SaveInventory(a)
       \/ DeleteInventory(a) \/ Expire(a)

Spec == Init /\ [][Next]_vars

\* Jobs and handlers run on, and what has a lifetime ends
FairSpec ==
  /\ Spec
  /\ WF_vars(\E i \in Item : HandleTradeChanged(i))
  /\ WF_vars(\E e \in events : UpdateInventory(e))
  /\ \A a \in Account :
       WF_vars(ReadMatches(a) \/ WriteUpdate(a)) /\ WF_vars(SaveInventory(a)) /\ WF_vars(Expire(a))

-------------------------------------------------------------------------------
(* Who asks *)

\* Mutation: the time of the load is not looked at
FetchWithoutTime(a) == cache[a].there /\ ~cache[a].error

\* what the cache answers with, and not with an error or that there is no inventory
FetchInventoryFromCache(a) == cache[a].there /\ ~cache[a].error /\ cache[a].stamped

-------------------------------------------------------------------------------
(* Properties *)

\* Whoever keeps a copy of an inventory from the events, starting with what was loaded,
\* has what the cache answers with: no change is left out of an event or told in vain,
\* also when events are handled again, and when the inventory expires under a change.
FollowersAgree ==
  \A a \in Account : FetchInventoryFromCache(a) => follower[a] = cache[a].items

\* What is answered is a whole inventory with its changes, never the few items that a
\* change wrote to an inventory that had just expired or that was never there.
NeverPartial == \A a \in Account : FetchInventoryFromCache(a) => whole[a]

\* A load that was overtaken by a trade, and details of trades that come in the wrong
\* order, leave an inventory wrong until it expires and no longer: when items do not
\* move any more, what is answered is in the end what the account has.
Right == \A a \in Account : FetchInventoryFromCache(a) => cache[a].items = Owned(a)

RightInTheEnd == <>[](forever \/ Right)

===============================================================================

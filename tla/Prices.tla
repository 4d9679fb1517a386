-------------------------------- MODULE Prices --------------------------------
(***************************************************************************)
(* Prices of items and of assets (PricesService of the item service), and  *)
(* what it reads of inventories.  A price is stored under an id that is    *)
(* made of its item or of its asset.  A price of an asset gets its item    *)
(* from the inventory of the owner: when it is saved, or, if the inventory *)
(* is not in the cache then, when that has been loaded.  Indexes from      *)
(* names, SKUs and items, and from owners, to ids are kept in step with    *)
(* the prices: everything a change does is one transaction.                *)
(*                                                                         *)
(* Saving a price, and all other changes of it, take locks of their own,   *)
(* so that one of each may run at the same time.                           *)
(***************************************************************************)
EXTENDS Naturals

CONSTANTS
  Item,         \* items, and the ids of their prices
  Asset,        \* assets, and the ids of their prices
  Owner,        \* accounts
  Nothing,      \* is none of these
  MaxRequests,  \* bound on what is asked for
  MaxFaults     \* bound on loads that fail, and on inventories that expire

Id == Item \cup Asset
Index == {"name", "sku", "item"}

VARIABLES
  prices,     \* the hash of prices
  index,      \* the sets of ids by name, SKU and item
  owned,      \* price-index-asset: the sets of ids by owner
  inventory,  \* inv:<steamid>: what is cached of an inventory
  loaded,     \* the accounts of inventories.loaded events that are to be handled
  save,       \* savePrice, of every id
  change,     \* deletePrices, or handleInventoryLoadedEvent
  requests, faults

vars == <<prices, index, owned, inventory, loaded, save, change, requests, faults>>

Absent == [item |-> Nothing, owner |-> Nothing]   \* no price is of no item and of no asset
Price == [item : Item \cup {Nothing}, owner : Owner \cup {Nothing}]

\* Of an inventory: it is not cached, it was loaded, or it could not be loaded, in which
\* case the error is cached, and no items.
Missing == [state |-> "missing", items |-> [a \in Asset |-> Nothing]]
Inventory == [state : {"missing", "loaded", "error"}, items : [Asset -> Item \cup {Nothing}]]

NoSave == [step |-> "idle", owner |-> Nothing, current |-> Absent, item |-> Nothing]
NoChange == [step |-> "idle", owner |-> Nothing, ids |-> {}, read |-> << >>, found |-> Missing]

TypeOK ==
  /\ prices \in [Id -> Price] /\ index \in [Index -> SUBSET (Item \X Id)] /\ owned \subseteq Owner \X Asset
  /\ inventory \in [Owner -> Inventory] /\ loaded \subseteq Owner
  /\ save \in [Id -> [step : {"idle", "read", "asset", "write", "delete"}, owner : Owner \cup {Nothing},
                      current : Price, item : Item \cup {Nothing}]]
  /\ change.step \in {"idle", "lock", "inventory", "write", "delete"} /\ change.ids \subseteq Id
  /\ requests \in 0..MaxRequests /\ faults \in 0..MaxFaults

Init ==
  /\ prices = [k \in Id |-> Absent] /\ index = [x \in Index |-> {}] /\ owned = {}
  /\ inventory = [o \in Owner |-> Missing] /\ loaded = {}
  /\ save = [k \in Id |-> NoSave] /\ change = NoChange
  /\ requests = 0 /\ faults = 0

Exists(k) == prices[k] # Absent

----
(* Transactions: what they do to the price with an id, and to the indexes  *)

\* Mutation: the entry of the old item is removed last
ReindexedLate(x, k, price, old) == (index[x] \cup ({<<price.item, k>>} \cap (Item \X Id))) \ {<<old.item, k>>}

\* savePriceMulti: the indexes of the old price, of which only the item matters, are replaced
Reindexed(x, k, price, old) == (index[x] \ {<<old.item, k>>}) \cup ({<<price.item, k>>} \cap (Item \X Id))

\* Mutation: the price of an asset is not recorded with its owner
StoredNot(k, price) == {}

Stored(k, price) == {<<price.owner, k>>} \cap (Owner \X Asset)

\* deletePriceMulti: of the indexes, only that of SKUs is cleaned up (the key of the
\* one of names is made without the separator)
Unindexed(x, k, old) == IF x = "sku" THEN index[x] \ {<<old.item, k>>} ELSE index[x]

SavePriceMulti(k, price, old) ==
  /\ prices' = [prices EXCEPT ![k] = price]
  /\ index' = [x \in Index |-> Reindexed(x, k, price, old)]
  /\ owned' = owned \cup Stored(k, price)

DeletePriceMulti(k, old) ==
  /\ prices' = [prices EXCEPT ![k] = Absent]
  /\ index' = [x \in Index |-> Unindexed(x, k, old)]
  /\ owned' = owned \ Stored(k, old)

----
(* savePrice, under a lock of its own *)

Request == requests < MaxRequests /\ requests' = requests + 1

\* a price for an item (o is Nothing) or for an asset of o
SavePrice(k, o) ==
  /\ save[k].step = "idle" /\ (k \in Asset <=> o \in Owner) /\ Request
  /\ save' = [save EXCEPT ![k] = [NoSave EXCEPT !.step = "read", !.owner = o]]
  /\ UNCHANGED <<prices, index, owned, inventory, loaded, change, faults>>

ReadCurrent(k) ==
  /\ save[k].step = "read"
  /\ save' = [save EXCEPT ![k] = [@ EXCEPT !.step = IF k \in Asset THEN "asset" ELSE "write",
                                           !.current = prices[k],
                                           !.item = IF k \in Item THEN k ELSE prices[k].item]]
  /\ UNCHANGED <<prices, index, owned, inventory, loaded, change, requests, faults>>

(* getItemByAsset: nothing is known of an inventory that is not cached,    *)
(* and it is loaded; an asset that is not in one that is cached cannot be  *)
(* priced, and its price is deleted.                                       *)
GetItemByAsset(k) ==
  LET inv == inventory[save[k].owner]
  IN /\ save[k].step = "asset"
     /\ save' = [save EXCEPT ![k] =
          IF inv.state = "missing" THEN [@ EXCEPT !.step = "write"]
          ELSE IF inv.items[k] # Nothing THEN [@ EXCEPT !.step = "write", !.item = inv.items[k]]
          ELSE IF save[k].current # Absent THEN [@ EXCEPT !.step = "delete"]
          ELSE NoSave]
     /\ UNCHANGED <<prices, index, owned, inventory, loaded, change, requests, faults>>

StorePrice(k) ==
  /\ save[k].step = "write"
  /\ SavePriceMulti(k, [item |-> save[k].item, owner |-> save[k].owner], save[k].current)
  /\ save' = [save EXCEPT ![k] = NoSave]
  /\ UNCHANGED <<inventory, loaded, change, requests, faults>>

ForgetPrice(k) ==
  /\ save[k].step = "delete"
  /\ DeletePriceMulti(k, save[k].current)
  /\ save' = [save EXCEPT ![k] = NoSave]
  /\ UNCHANGED <<inventory, loaded, change, requests, faults>>

----
(* deletePrices, of one price *)

DeletePrice(k) ==
  /\ change.step = "idle" /\ Exists(k) /\ Request
  /\ change' = [NoChange EXCEPT !.step = "delete", !.ids = {k}, !.read = [i \in {k} |-> prices[i]]]
  /\ UNCHANGED <<prices, index, owned, inventory, loaded, save, faults>>

DeletePrices ==
  /\ change.step = "delete"
  /\ \E k \in change.ids : DeletePriceMulti(k, change.read[k])
  /\ change' = NoChange
  /\ UNCHANGED <<inventory, loaded, save, requests, faults>>

----
(* handleInventoryLoadedEvent *)

Retry(o) == loaded' = loaded \cup {o}   \* an event that cannot be handled comes again

\* the ids by owner are read, and then locked
HandleLoaded(o) ==
  /\ change.step = "idle" /\ o \in loaded
  /\ loaded' = loaded \ {o}
  /\ LET ids == {k \in Asset : <<o, k>> \in owned}
     IN change' = IF ids = {} THEN NoChange ELSE [NoChange EXCEPT !.step = "lock", !.owner = o, !.ids = ids]
  /\ UNCHANGED <<prices, index, owned, inventory, save, requests, faults>>

ReadPrices ==
  /\ change.step = "lock"
  /\ change' = [change EXCEPT !.step = "inventory", !.read = [k \in change.ids |-> prices[k]]]
  /\ UNCHANGED <<prices, index, owned, inventory, loaded, save, requests, faults>>

ReadInventory ==
  LET inv == inventory[change.owner]
  IN /\ change.step = "inventory"
     /\ IF inv.state = "loaded"
        THEN change' = [change EXCEPT !.step = "write", !.found = inv] /\ UNCHANGED loaded
        ELSE /\ change' = NoChange
             /\ IF inv.state = "error" THEN Retry(change.owner) ELSE UNCHANGED loaded
     /\ UNCHANGED <<prices, index, owned, inventory, save, requests, faults>>

\* prices that were read without an item get the one of the inventory, or are deleted
Unresolved(k) == change.read[k] # Absent /\ change.read[k].item = Nothing
Resolved(k) == [change.read[k] EXCEPT !.item = change.found.items[k]]
Lost(k) == change.found.items[k] = Nothing

UpdatePrices ==
  LET ids == {k \in change.ids : Unresolved(k)}
  IN /\ change.step = "write"
     /\ prices' = [k \in Id |-> IF k \notin ids THEN prices[k] ELSE IF Lost(k) THEN Absent ELSE Resolved(k)]
     /\ index' = [x \in Index |-> index[x] \cup {<<Resolved(k).item, k>> : k \in {i \in ids : ~Lost(i)}}]
     /\ owned' = (owned \ UNION {Stored(k, change.read[k]) : k \in {i \in ids : Lost(i)}})
                 \cup UNION {Stored(k, Resolved(k)) : k \in {i \in ids : ~Lost(i)}}
     /\ change' = NoChange
     /\ UNCHANGED <<inventory, loaded, save, requests, faults>>

----
(* InventoriesService: an inventory is loaded, by a job or because its     *)
(* owner is a bot that sends heartbeats, cannot be loaded, expires, or is  *)
(* deleted.                                                                *)
Load(o) ==
  /\ \E items \in [Asset -> Item \cup {Nothing}] : inventory' = [inventory EXCEPT ![o] = [state |-> "loaded", items |-> items]]
  /\ loaded' = loaded \cup {o}
  /\ UNCHANGED <<prices, index, owned, save, change, requests, faults>>

Unloaded(o, state) ==
  /\ faults < MaxFaults /\ faults' = faults + 1
  /\ inventory' = [inventory EXCEPT ![o] = [Missing EXCEPT !.state = state]]
  /\ UNCHANGED <<prices, index, owned, loaded, save, change, requests>>

----
Saves(k) == ReadCurrent(k) \/ GetItemByAsset(k) \/ StorePrice(k) \/ ForgetPrice(k)
Changes == DeletePrices \/ ReadPrices \/ ReadInventory \/ UpdatePrices

Next ==
  \/ \E k \in Id : \/ \E o \in Owner \cup {Nothing} : SavePrice(k, o)
                   \/ Saves(k) \/ DeletePrice(k)
  \/ Changes
  \/ \E o \in Owner : HandleLoaded(o) \/ Load(o) \/ \E state \in {"missing", "error"} : Unloaded(o, state)

Spec == Init /\ [][Next]_vars

(* Requests and events are handled, and the inventories of bots are loaded *)
(* again with every heartbeat (handleBotHeartbeatEvent).                   *)
Fairness ==
  /\ WF_vars(Changes) /\ \A k \in Id : WF_vars(Saves(k))
  /\ \A o \in Owner : WF_vars(Load(o)) /\ WF_vars(HandleLoaded(o))

FairSpec == Spec /\ Fairness

----
(* Whatever runs at the same time, every price is found: by what it is     *)
(* stored under in the indexes of its item, and among the prices of its    *)
(* owner, where an inventory that is loaded looks for it.                  *)
Found ==
  \A k \in Id :
    /\ prices[k].item # Nothing => \A x \in Index : <<prices[k].item, k>> \in index[x]
    /\ prices[k].owner # Nothing => <<prices[k].owner, k>> \in owned

(* The price of an asset does not stay without an item for ever: if the    *)
(* event of one load came too early for it, another load will find it.     *)
Resolves == \A a \in Asset : (Exists(a) /\ prices[a].item = Nothing) ~> ~(Exists(a) /\ prices[a].item = Nothing)
=============================================================================

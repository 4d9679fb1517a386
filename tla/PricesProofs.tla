----------------------------- MODULE PricesProofs -----------------------------
(***************************************************************************)
(* Every price is found through the indexes of its item and of its owner,  *)
(* for any items, assets and accounts, while prices of all of them are     *)
(* saved and others are changed; and the outbox that the events of prices, *)
(* heartbeats and inventories go through loses nothing and is delivered in *)
(* order, for any number of relays that take themselves for the leader,    *)
(* any number of events and any faults.                                    *)
(***************************************************************************)
EXTENDS Prices, TLAPS

\* What a price may be: only that of an asset has an owner.
Proper(k, price) == price \in Price /\ (price.owner # Nothing => k \in Asset)

PricesProper == prices \in [Id -> Price] /\ \A k \in Id : Proper(k, prices[k])

\* What saving a price was asked for, or has read.
Saving == [step : {"idle", "read", "asset", "write", "delete"}, owner : Owner \cup {Nothing},
           current : Price, item : Item \cup {Nothing}]

SavingProper(k, s) ==
  /\ s \in Saving
  /\ s.owner # Nothing => k \in Asset
  /\ s.step # "idle" /\ k \in Asset => s.owner \in Owner
  /\ s.step = "asset" => k \in Asset

SaveInv == save \in [Id -> Saving] /\ \A k \in Id : SavingProper(k, save[k])

\* What the handler of an event has read: prices of assets, and an inventory.
ChangeInv ==
  /\ DOMAIN change = {"step", "owner", "ids", "read", "found"}
  /\ change.step \in {"lock", "inventory", "write"} => change.ids \subseteq Asset /\ change.owner \in Owner
  /\ change.step \in {"inventory", "write"} => \A k \in change.ids : change.read[k] \in Price
  /\ change.step = "write" => change.found \in Inventory
  /\ change.step = "delete" => change.ids \subseteq Id

\* Found by itself is not inductive: what is stored was read before.
PricesInv == PricesProper /\ SaveInv /\ inventory \in [Owner -> Inventory] /\ ChangeInv /\ Found

-------------------------------------------------------------------------------
(* The transactions *)

LEMMA AbsentProper == \A k : Proper(k, Absent) /\ Absent.item = Nothing /\ Absent.owner = Nothing
  BY DEF Proper, Absent, Price

\* A price that is stored, and every other, is found.
LEMMA SavedFound ==
  ASSUME PricesProper, Found, NEW k \in Id, NEW price, Proper(k, price), NEW old,
         SavePriceMulti(k, price, old)
  PROVE  PricesProper' /\ Found'
<1>1. prices' = [prices EXCEPT ![k] = price] /\ PricesProper'
  BY DEF SavePriceMulti, PricesProper, Proper
<1>2. ASSUME NEW i \in Id, prices'[i].item # Nothing, NEW x \in Index
      PROVE  <<prices'[i].item, i>> \in index'[x]
  <2>1. index'[x] = (index[x] \ {<<old.item, k>>}) \cup ({<<price.item, k>>} \cap (Item \X Id))
    BY DEF SavePriceMulti, Reindexed
  <2>2. CASE i = k
    <3>1. prices'[i] = price BY <1>1, <2>2 DEF PricesProper
    <3>2. price.item \in Item BY <1>2, <3>1 DEF Proper, Price
    <3> QED BY <2>1, <2>2, <3>1, <3>2
  <2>3. CASE i # k
    <3>1. prices'[i] = prices[i] BY <1>1, <2>3 DEF PricesProper
    <3>2. <<prices[i].item, i>> \in index[x] BY <1>2, <3>1 DEF Found
    <3> QED BY <2>1, <2>3, <3>1, <3>2
  <2> QED BY <2>2, <2>3
<1>3. ASSUME NEW i \in Id, prices'[i].owner # Nothing
      PROVE  <<prices'[i].owner, i>> \in owned'
  <2>1. owned' = owned \cup ({<<price.owner, k>>} \cap (Owner \X Asset))
    BY DEF SavePriceMulti, Stored
  <2>2. CASE i = k
    <3>1. prices'[i] = price BY <1>1, <2>2 DEF PricesProper
    <3>2. price.owner \in Owner /\ k \in Asset BY <1>3, <3>1 DEF Proper, Price
    <3> QED BY <2>1, <2>2, <3>1, <3>2
  <2>3. CASE i # k
    <3>1. prices'[i] = prices[i] BY <1>1, <2>3 DEF PricesProper
    <3> QED BY <1>3, <2>1, <3>1 DEF Found
  <2> QED BY <2>2, <2>3
<1> QED BY <1>1, <1>2, <1>3 DEF Found

\* When a price is deleted every other is still found.
LEMMA DeletedFound ==
  ASSUME PricesProper, Found, NEW k \in Id, NEW old, DeletePriceMulti(k, old)
  PROVE  PricesProper' /\ Found'
<1>1. prices' = [prices EXCEPT ![k] = Absent] /\ PricesProper'
  BY AbsentProper DEF DeletePriceMulti, PricesProper, Proper
<1>2. ASSUME NEW i \in Id, prices'[i].item # Nothing, NEW x \in Index
      PROVE  <<prices'[i].item, i>> \in index'[x]
  <2>1. i # k /\ prices'[i] = prices[i] BY <1>1, <1>2, AbsentProper DEF PricesProper
  <2>2. <<prices[i].item, i>> \in index[x] BY <1>2, <2>1 DEF Found
  <2>3. index'[x] = IF x = "sku" THEN index[x] \ {<<old.item, k>>} ELSE index[x]
    BY DEF DeletePriceMulti, Unindexed
  <2> QED BY <2>1, <2>2, <2>3
<1>3. ASSUME NEW i \in Id, prices'[i].owner # Nothing
      PROVE  <<prices'[i].owner, i>> \in owned'
  <2>1. i # k /\ prices'[i] = prices[i] BY <1>1, <1>3, AbsentProper DEF PricesProper
  <2>2. <<prices[i].owner, i>> \in owned BY <1>3, <2>1 DEF Found
  <2> QED BY <2>1, <2>2 DEF DeletePriceMulti, Stored
<1> QED BY <1>1, <1>2, <1>3 DEF Found

\* The handler of an event deletes prices and completes others in one transaction.
LEMMA UpdatedFound ==
  ASSUME PricesInv, UpdatePrices
  PROVE  PricesProper' /\ Found'
<1> DEFINE ids == {k \in change.ids : Unresolved(k)}
<1>1. /\ prices' = [k \in Id |-> IF k \notin ids THEN prices[k] ELSE IF Lost(k) THEN Absent ELSE Resolved(k)]
      /\ index' = [x \in Index |-> index[x] \cup {<<Resolved(k).item, k>> : k \in {i \in ids : ~Lost(i)}}]
      /\ owned' = (owned \ UNION {Stored(k, change.read[k]) : k \in {i \in ids : Lost(i)}})
                  \cup UNION {Stored(k, Resolved(k)) : k \in {i \in ids : ~Lost(i)}}
  BY DEF UpdatePrices
<1>2. change.ids \subseteq Asset /\ change.found \in Inventory /\ \A k \in change.ids : change.read[k] \in Price
  BY DEF UpdatePrices, PricesInv, ChangeInv
<1>3. ASSUME NEW k \in ids, ~Lost(k)
      PROVE  /\ Proper(k, Resolved(k)) /\ Resolved(k).owner = change.read[k].owner
             /\ k \in Asset
  <2>1. k \in change.ids OBVIOUS
  <2>2. k \in Asset /\ change.read[k] \in Price BY <1>2, <2>1
  <2>3. change.found.items[k] \in Item \cup {Nothing} BY <1>2, <2>2 DEF Inventory
  <2> QED BY <2>2, <2>3 DEF Proper, Resolved, Price
<1>4. PricesProper'
  <2>1. ASSUME NEW k \in Id PROVE Proper(k, prices'[k])
    <3>1. Proper(k, prices[k]) BY DEF PricesInv, PricesProper
    <3>2. prices'[k] = IF k \notin ids THEN prices[k] ELSE IF Lost(k) THEN Absent ELSE Resolved(k)
      BY <1>1
    <3>3. CASE k \notin ids BY <3>1, <3>2, <3>3
    <3>4. CASE k \in ids /\ Lost(k) BY <3>2, <3>4, AbsentProper
    <3>5. CASE k \in ids /\ ~Lost(k) BY <1>3, <3>2, <3>5
    <3> QED BY <3>3, <3>4, <3>5
  <2> QED BY <1>1, <2>1 DEF PricesProper, Proper
<1>5. ASSUME NEW i \in Id, prices'[i].item # Nothing, NEW x \in Index
      PROVE  <<prices'[i].item, i>> \in index'[x]
  <2>1. index'[x] = index[x] \cup {<<Resolved(k).item, k>> : k \in {j \in ids : ~Lost(j)}} BY <1>1
  <2>2. prices'[i] = IF i \notin ids THEN prices[i] ELSE IF Lost(i) THEN Absent ELSE Resolved(i)
    BY <1>1
  <2>3. CASE i \notin ids
    <3>1. prices'[i] = prices[i] BY <2>2, <2>3
    <3>2. <<prices[i].item, i>> \in index[x] BY <1>5, <3>1 DEF PricesInv, Found
    <3> QED BY <2>1, <3>1, <3>2
  <2>4. CASE i \in ids /\ Lost(i) BY <1>5, <2>2, <2>4, AbsentProper
  <2>5. CASE i \in ids /\ ~Lost(i)
    <3>1. prices'[i] = Resolved(i) BY <2>2, <2>5
    <3> HIDE DEF ids
    <3> QED BY <2>1, <2>5, <3>1
  <2> QED BY <2>3, <2>4, <2>5
<1>6. ASSUME NEW i \in Id, prices'[i].owner # Nothing
      PROVE  <<prices'[i].owner, i>> \in owned'
  <2>1. prices'[i] = IF i \notin ids THEN prices[i] ELSE IF Lost(i) THEN Absent ELSE Resolved(i)
    BY <1>1
  <2>2. CASE i \notin ids
    <3>1. prices'[i] = prices[i] BY <2>1, <2>2
    <3>2. <<prices[i].owner, i>> \in owned BY <1>6, <3>1 DEF PricesInv, Found
    <3>3. \A k \in ids : <<prices[i].owner, i>> \notin Stored(k, change.read[k]) BY <2>2 DEF Stored
    <3> HIDE DEF ids
    <3> QED BY <1>1, <3>1, <3>2, <3>3
  <2>3. CASE i \in ids /\ Lost(i) BY <1>6, <2>1, <2>3, AbsentProper
  <2>4. CASE i \in ids /\ ~Lost(i)
    <3>1. prices'[i] = Resolved(i) BY <2>1, <2>4
    <3>2. Proper(i, Resolved(i)) /\ i \in Asset BY <1>3, <2>4
    <3>3. <<prices'[i].owner, i>> \in Stored(i, Resolved(i))
      BY <1>6, <3>1, <3>2 DEF Stored, Proper, Price
    <3> HIDE DEF ids
    <3> QED BY <1>1, <2>4, <3>3
  <2> QED BY <2>2, <2>3, <2>4
<1> QED BY <1>4, <1>5, <1>6 DEF Found

-------------------------------------------------------------------------------
(* The steps *)

LEMMA NoSaveProper == \A k : SavingProper(k, NoSave)
  BY AbsentProper DEF SavingProper, Saving, NoSave, Proper

LEMMA Initially == Init => PricesInv
<1> SUFFICES ASSUME Init PROVE PricesInv
  OBVIOUS
<1>1. PricesProper /\ Found BY AbsentProper DEF Init, PricesProper, Proper, Found
<1>2. SaveInv BY NoSaveProper DEF Init, SaveInv, SavingProper
<1>3. inventory \in [Owner -> Inventory] BY DEF Init, Missing, Inventory
<1>4. ChangeInv BY DEF Init, ChangeInv, NoChange
<1> QED BY <1>1, <1>2, <1>3, <1>4 DEF PricesInv

\* Steps that change no price leave every price found.
LEMMA StillFound ==
  PricesProper /\ Found /\ UNCHANGED <<prices, index, owned>> => PricesProper' /\ Found'
  BY DEF PricesProper, Proper, Found

LEMMA SaveOne ==
  ASSUME SaveInv, NEW k \in Id, NEW s, SavingProper(k, s), save' = [save EXCEPT ![k] = s]
  PROVE  SaveInv'
  BY DEF SaveInv, SavingProper

LEMMA SaveStep ==
  ASSUME PricesInv, NEW k \in Id,
         (\E o \in Owner \cup {Nothing} : SavePrice(k, o)) \/ Saves(k)
  PROVE  PricesInv'
<1> USE DEF PricesInv
<1>0. prices[k] \in Price /\ SavingProper(k, save[k]) BY DEF PricesProper, Proper, SaveInv
<1>1. ASSUME NEW o \in Owner \cup {Nothing}, SavePrice(k, o) PROVE PricesInv'
  <2> DEFINE s == [NoSave EXCEPT !.step = "read", !.owner = o]
  <2>1. save' = [save EXCEPT ![k] = s] BY <1>1 DEF SavePrice
  <2>2. SavingProper(k, s) BY <1>1, NoSaveProper DEF SavePrice, SavingProper, Saving
  <2>3. SaveInv' BY <2>1, <2>2, SaveOne
  <2> QED BY <1>1, <2>3, StillFound DEF SavePrice, ChangeInv
<1>2. ASSUME ReadCurrent(k) PROVE PricesInv'
  <2> DEFINE s == [save[k] EXCEPT !.step = IF k \in Asset THEN "asset" ELSE "write", !.current = prices[k],
                                  !.item = IF k \in Item THEN k ELSE prices[k].item]
  <2>1. save' = [save EXCEPT ![k] = s] BY <1>2 DEF ReadCurrent, SaveInv
  <2>2. SavingProper(k, s) BY <1>0, <1>2 DEF ReadCurrent, SavingProper, Saving, Price
  <2>3. SaveInv' BY <2>1, <2>2, SaveOne
  <2> QED BY <1>2, <2>3, StillFound DEF ReadCurrent, ChangeInv
<1>3. ASSUME GetItemByAsset(k) PROVE PricesInv'
  <2> DEFINE inv == inventory[save[k].owner]
             s == IF inv.state = "missing" THEN [save[k] EXCEPT !.step = "write"]
                  ELSE IF inv.items[k] # Nothing THEN [save[k] EXCEPT !.step = "write", !.item = inv.items[k]]
                  ELSE IF save[k].current # Absent THEN [save[k] EXCEPT !.step = "delete"]
                  ELSE NoSave
  <2>1. save' = [save EXCEPT ![k] = s] BY <1>3 DEF GetItemByAsset, SaveInv
  <2>2. k \in Asset /\ inv \in Inventory BY <1>0, <1>3 DEF GetItemByAsset, SavingProper
  <2>3. inv.items[k] \in Item \cup {Nothing} BY <2>2 DEF Inventory
  <2>4. SavingProper(k, s)
    <3> HIDE DEF inv
    <3>1. CASE inv.state = "missing"
      <4>1. s = [save[k] EXCEPT !.step = "write"] BY <3>1
      <4> QED BY <1>0, <1>3, <4>1 DEF GetItemByAsset, SavingProper, Saving
    <3>2. CASE inv.state # "missing" /\ inv.items[k] # Nothing
      <4>1. s = [save[k] EXCEPT !.step = "write", !.item = inv.items[k]] BY <3>2
      <4> HIDE DEF s
      <4> QED BY <1>0, <1>3, <2>3, <4>1 DEF GetItemByAsset, SavingProper, Saving
    <3>3. CASE inv.state # "missing" /\ inv.items[k] = Nothing
      <4>1. s = [save[k] EXCEPT !.step = "delete"] \/ s = NoSave BY <3>3
      <4> QED BY <1>0, <1>3, <4>1, NoSaveProper DEF GetItemByAsset, SavingProper, Saving
    <3> QED BY <3>1, <3>2, <3>3
  <2>5. SaveInv' BY <2>1, <2>4, SaveOne
  <2> QED BY <1>3, <2>5, StillFound DEF GetItemByAsset, ChangeInv
<1>4. ASSUME StorePrice(k) PROVE PricesInv'
  <2>1. Proper(k, [item |-> save[k].item, owner |-> save[k].owner])
    BY <1>0 DEF SavingProper, Saving, Proper, Price
  <2>2. PricesProper' /\ Found' BY <1>4, <2>1, SavedFound DEF StorePrice
  <2>3. SaveInv' BY <1>4, NoSaveProper, SaveOne DEF StorePrice
  <2> QED BY <1>4, <2>2, <2>3 DEF StorePrice, ChangeInv
<1>5. ASSUME ForgetPrice(k) PROVE PricesInv'
  <2>1. PricesProper' /\ Found' BY <1>5, DeletedFound DEF ForgetPrice
  <2>2. SaveInv' BY <1>5, NoSaveProper, SaveOne DEF ForgetPrice
  <2> QED BY <1>5, <2>1, <2>2 DEF ForgetPrice, ChangeInv
<1> QED BY <1>1, <1>2, <1>3, <1>4, <1>5 DEF Saves

LEMMA ChangeStep ==
  ASSUME PricesInv,
         \/ \E k \in Id : DeletePrice(k)
         \/ Changes
         \/ \E o \in Owner : HandleLoaded(o)
  PROVE  PricesInv'
<1> USE DEF PricesInv
<1>1. ASSUME NEW k \in Id, DeletePrice(k) PROVE PricesInv'
  <2>1. ChangeInv' BY <1>1 DEF DeletePrice, ChangeInv, NoChange
  <2> QED BY <1>1, <2>1, StillFound DEF DeletePrice, SaveInv
<1>2. ASSUME DeletePrices PROVE PricesInv'
  <2>1. PICK k \in change.ids : DeletePriceMulti(k, change.read[k]) BY <1>2 DEF DeletePrices
  <2>2. k \in Id BY <1>2, <2>1 DEF DeletePrices, ChangeInv
  <2>3. PricesProper' /\ Found' BY <2>1, <2>2, DeletedFound
  <2>4. ChangeInv' BY <1>2 DEF DeletePrices, ChangeInv, NoChange
  <2> QED BY <1>2, <2>3, <2>4 DEF DeletePrices, SaveInv
<1>3. ASSUME NEW o \in Owner, HandleLoaded(o) PROVE PricesInv'
  <2>1. ChangeInv' BY <1>3 DEF HandleLoaded, ChangeInv, NoChange
  <2> QED BY <1>3, <2>1, StillFound DEF HandleLoaded, SaveInv
<1>4. ASSUME ReadPrices PROVE PricesInv'
  <2>1. change.ids \subseteq Asset /\ change.owner \in Owner BY <1>4 DEF ReadPrices, ChangeInv
  <2>2. \A k \in change.ids : prices[k] \in Price BY <2>1 DEF PricesProper, Id
  <2>3. ChangeInv' BY <1>4, <2>1, <2>2 DEF ReadPrices, ChangeInv
  <2> QED BY <1>4, <2>3, StillFound DEF ReadPrices, SaveInv
<1>5. ASSUME ReadInventory PROVE PricesInv'
  <2>1. change.step = "inventory" /\ inventory[change.owner] \in Inventory BY <1>5 DEF ReadInventory, ChangeInv
  <2>2. ChangeInv'
    <3>1. CASE inventory[change.owner].state = "loaded"
      <4>1. change' = [change EXCEPT !.step = "write", !.found = inventory[change.owner]]
        BY <1>5, <3>1 DEF ReadInventory
      <4>2. /\ DOMAIN change' = DOMAIN change /\ change'.step = "write"
            /\ change'.found = inventory[change.owner] /\ change'.ids = change.ids
            /\ change'.owner = change.owner /\ change'.read = change.read
        BY <4>1 DEF ChangeInv
      <4> QED BY <2>1, <4>2 DEF ChangeInv
    <3>2. CASE inventory[change.owner].state # "loaded"
      <4>1. change' = NoChange BY <1>5, <3>2 DEF ReadInventory
      <4> QED BY <4>1 DEF ChangeInv, NoChange
    <3> QED BY <3>1, <3>2
  <2> QED BY <1>5, <2>2, StillFound DEF ReadInventory, SaveInv
<1>6. ASSUME UpdatePrices PROVE PricesInv'
  <2>1. PricesProper' /\ Found' BY <1>6, UpdatedFound
  <2>2. ChangeInv' BY <1>6 DEF UpdatePrices, ChangeInv, NoChange
  <2> QED BY <1>6, <2>1, <2>2 DEF UpdatePrices, SaveInv
<1> QED BY <1>1, <1>2, <1>3, <1>4, <1>5, <1>6 DEF Changes

LEMMA InventoryStep ==
  ASSUME PricesInv, NEW o \in Owner,
         Load(o) \/ \E state \in {"missing", "error"} : Unloaded(o, state)
  PROVE  PricesInv'
<1> USE DEF PricesInv
<1>1. inventory' \in [Owner -> Inventory] BY DEF Load, Unloaded, Missing, Inventory
<1>2. UNCHANGED <<prices, index, owned, save, change>> BY DEF Load, Unloaded
<1> QED BY <1>1, <1>2, StillFound DEF SaveInv, ChangeInv

LEMMA InvStep == PricesInv /\ [Next]_vars => PricesInv'
<1> SUFFICES ASSUME PricesInv, [Next]_vars PROVE PricesInv'
  OBVIOUS
<1>1. CASE UNCHANGED vars
  BY <1>1, StillFound DEF vars, PricesInv, SaveInv, ChangeInv
<1>2. CASE Next
  BY <1>2, SaveStep, ChangeStep, InventoryStep DEF Next
<1> QED BY <1>1, <1>2

\* Whatever is saved, deleted and completed from inventories at the same time, under
\* locks that exclude only some of it, every price is found: by its item in all
\* indexes and among the prices of its owner.
THEOREM PricesFound == Spec => []Found
<1>1. PricesInv => Found BY DEF PricesInv
<1> QED BY <1>1, Initially, InvStep, PTL DEF Spec
-------------------------------------------------------------------------------
(* The outbox *)

CONSTANTS Instance, None, MaxEvents
VARIABLES written, outbox, published, lease, elected, isLeader, step, message, timer

Outbox == INSTANCE Relay

\* Relay assumes no more of these
Bounds == MaxEvents \in Nat /\ MaxFaults \in Nat

Step == {"idle", "check", "read", "publish", "remove"}

\* After an attempt of the loop a relay is idle or checks again.
LEMMA AfterType ==
  ASSUME step \in [Instance -> Step], timer \subseteq Instance, NEW i \in Instance
  PROVE  /\ Outbox!Again(i) => step' \in [Instance -> Step] /\ timer' \subseteq Instance
         /\ Outbox!Later(i) => step' \in [Instance -> Step] /\ timer' \subseteq Instance
         /\ \A leads : Outbox!Loop(i, leads) => step' \in [Instance -> Step]
  BY DEF Outbox!Again, Outbox!Later, Outbox!Loop, Step

LEMMA FaultType == Bounds /\ Outbox!TypeOK /\ Outbox!Fault => faults' \in 0..MaxFaults
<1> SUFFICES ASSUME Bounds, Outbox!TypeOK, Outbox!Fault PROVE faults' \in 0..MaxFaults
  OBVIOUS
<1>1. faults \in 0..MaxFaults /\ faults < MaxFaults /\ faults' = faults + 1
  BY DEF Outbox!TypeOK, Outbox!Fault
<1> QED BY <1>1 DEF Bounds

\* The variables keep their types: only events that were written are waiting,
\* in the hands of a relay, or published.
LEMMA OutboxTypeStep ==
  Bounds /\ Outbox!TypeOK /\ Outbox!RelayInv /\ [Outbox!Next]_(Outbox!vars) => Outbox!TypeOK'
<1> SUFFICES ASSUME Bounds, Outbox!TypeOK, Outbox!RelayInv, [Outbox!Next]_(Outbox!vars)
             PROVE  Outbox!TypeOK'
  OBVIOUS
<1>0. step \in [Instance -> Step] /\ written \in Nat
  BY DEF Bounds, Outbox!TypeOK, Step
<1> USE DEF Outbox!TypeOK
<1>1. ASSUME Outbox!Write PROVE Outbox!TypeOK'
  <2>1. written' = written + 1 /\ written < MaxEvents /\ outbox' = outbox \cup {written + 1}
    BY <1>1 DEF Outbox!Write
  <2>2. written' \in 0..MaxEvents /\ 1..written \subseteq 1..written' /\ 0..written \subseteq 0..written'
    BY <2>1, <1>0 DEF Bounds
  <2>3. written + 1 \in 1..written'
    BY <2>1, <1>0
  <2>4. outbox' \subseteq 1..written'
    BY <2>1, <2>2, <2>3
  <2> QED BY <1>1, <2>2, <2>4 DEF Outbox!Write, Outbox!leadership
<1>2. ASSUME Outbox!LeaseExpires \/ Outbox!LeaseLost PROVE Outbox!TypeOK'
  BY <1>2, FaultType DEF Outbox!LeaseExpires, Outbox!LeaseLost
<1>3. ASSUME NEW i \in Instance, Outbox!Elected(i) \/ Outbox!Demoted(i) PROVE Outbox!TypeOK'
  <2>1. step' \in [Instance -> Step] BY <1>3, <1>0, AfterType DEF Outbox!Elected, Outbox!Demoted
  <2> QED BY <1>3, <2>1 DEF Outbox!Elected, Outbox!Demoted, Step
<1>4. ASSUME NEW i \in Instance, Outbox!Timer(i) \/ Outbox!CheckLeader(i) PROVE Outbox!TypeOK'
  <2>1. step' \in [Instance -> Step] /\ timer' \subseteq Instance
    BY <1>4, <1>0, AfterType DEF Outbox!Timer, Outbox!CheckLeader, Step
  <2> QED BY <1>4, <2>1 DEF Outbox!Timer, Outbox!CheckLeader, Outbox!leadership, Step
<1>5. ASSUME NEW i \in Instance, Outbox!ReadMessage(i) PROVE Outbox!TypeOK'
  <2>1. step' \in [Instance -> Step] /\ timer' \subseteq Instance
    BY <1>5, <1>0, AfterType DEF Outbox!ReadMessage, Step
  <2>2. message' \in [Instance -> 0..written]
    <3>1. CASE outbox = {} BY <1>5, <3>1 DEF Outbox!ReadMessage
    <3>2. CASE outbox # {}
      <4> PICK e \in outbox : message' = [message EXCEPT ![i] = e] BY <1>5, <3>2 DEF Outbox!ReadMessage
      <4>1. e \in 0..written BY <1>0
      <4> QED BY <4>1
    <3> QED BY <3>1, <3>2
  <2> QED BY <1>5, <2>1, <2>2 DEF Outbox!ReadMessage, Outbox!leadership, Step
<1>6. ASSUME NEW i \in Instance, Outbox!PublishMessage(i) PROVE Outbox!TypeOK'
  <2>1. message[i] \in 1..written BY <1>6 DEF Outbox!PublishMessage, Outbox!RelayInv
  <2> QED BY <1>6, <2>1 DEF Outbox!PublishMessage, Outbox!leadership
<1>7. ASSUME NEW i \in Instance, Outbox!RemoveMessage(i) PROVE Outbox!TypeOK'
  <2>1. step' \in [Instance -> Step] /\ timer' \subseteq Instance
    BY <1>7, <1>0, AfterType DEF Outbox!RemoveMessage
  <2>2. message' \in [Instance -> 0..written] BY <1>7, <1>0 DEF Outbox!RemoveMessage
  <2> QED BY <1>7, <2>1, <2>2 DEF Outbox!RemoveMessage, Outbox!leadership, Step
<1>8. ASSUME NEW i \in Instance, Outbox!CallFails(i) PROVE Outbox!TypeOK'
  <2>1. step' \in [Instance -> Step] /\ timer' \subseteq Instance
    BY <1>8, <1>0, AfterType DEF Outbox!CallFails
  <2>2. message' \in [Instance -> 0..written] BY <1>8, <1>0 DEF Outbox!CallFails
  <2>3. published' \subseteq 1..written /\ outbox' \subseteq 1..written
    BY <1>8 DEF Outbox!CallFails, Outbox!RelayInv
  <2> QED BY <1>8, <2>1, <2>2, <2>3, FaultType DEF Outbox!CallFails, Outbox!leadership, Step
<1>9. ASSUME NEW i \in Instance, Outbox!Stop(i) PROVE Outbox!TypeOK'
  <2>1. message' \in [Instance -> 0..written] BY <1>9, <1>0 DEF Outbox!Stop
  <2> QED BY <1>9, <2>1, FaultType DEF Outbox!Stop
<1>10. ASSUME UNCHANGED Outbox!vars PROVE Outbox!TypeOK'
  BY <1>10 DEF Outbox!vars
<1> QED BY <1>1, <1>2, <1>3, <1>4, <1>5, <1>6, <1>7, <1>8, <1>9, <1>10 DEF Outbox!Next, Outbox!Work

-------------------------------------------------------------------------------
\* What is published is a beginning of what was written, and stays one when the
\* event published next has nothing unpublished before it.
LEMMA PublishNext ==
  ASSUME NEW p \in SUBSET Nat, NEW e \in Nat \ {0},
         \A o \in p : 1..o \subseteq p, 1..(e - 1) \subseteq p
  PROVE  \A o \in p \cup {e} : 1..o \subseteq p \cup {e}
<1> SUFFICES ASSUME NEW o \in p \cup {e}, NEW k \in 1..o PROVE k \in p \cup {e}
  OBVIOUS
<1>1. CASE o \in p BY <1>1
<1>2. CASE o = e
  <2>1. k = e \/ k \in 1..(e - 1) BY <1>2
  <2> QED BY <2>1
<1> QED BY <1>1, <1>2

\* An event that is the oldest in the outbox has only published events before it.
LEMMA OldestNext ==
  ASSUME Outbox!TypeOK, Outbox!NothingLost, written \in Nat, NEW e \in outbox, Outbox!Oldest(e)
  PROVE  1..(e - 1) \subseteq published
<1> SUFFICES ASSUME NEW k \in 1..(e - 1) PROVE k \in published
  OBVIOUS
<1>1. e \in 1..written BY DEF Outbox!TypeOK
<1>2. k \in 1..written /\ ~(e <= k) BY <1>1
<1>3. k \notin outbox BY <1>2 DEF Outbox!Oldest
<1> QED BY <1>2, <1>3 DEF Outbox!NothingLost

\* The parts of RelayInv that concern one relay.
InHand(i) ==
  /\ step[i] \in {"publish", "remove"} => message[i] \in 1..written
  /\ step[i] = "publish" => 1..(message[i] - 1) \subseteq published
  /\ step[i] = "remove" => message[i] \in published

InOrder == \A e \in published : 1..e \subseteq published

LEMMA InvParts == Outbox!RelayInv <=> Outbox!NothingLost /\ InOrder /\ \A i \in Instance : InHand(i)
  BY DEF Outbox!RelayInv, InOrder, InHand

\* A step that leaves the events alone, and puts none into anyone's hands, keeps
\* the invariant.
LEMMA QuietStep ==
  ASSUME Outbox!RelayInv, UNCHANGED <<written, published, outbox>>,
         \A i \in Instance :
           step'[i] \in {"publish", "remove"} => step'[i] = step[i] /\ message'[i] = message[i]
  PROVE  Outbox!RelayInv'
  BY DEF Outbox!RelayInv, Outbox!NothingLost

\* Every step preserves that nothing is lost or ahead of its turn.
LEMMA RelayStep ==
  Bounds /\ Outbox!TypeOK /\ Outbox!RelayInv /\ [Outbox!Next]_(Outbox!vars) => Outbox!RelayInv'
<1> SUFFICES ASSUME Bounds, Outbox!TypeOK, Outbox!RelayInv, [Outbox!Next]_(Outbox!vars)
             PROVE  Outbox!RelayInv'
  OBVIOUS
<1>0. /\ step \in [Instance -> Step] /\ written \in Nat
      /\ published \in SUBSET Nat /\ message \in [Instance -> Nat]
  BY DEF Bounds, Outbox!TypeOK, Step
<1>1. ASSUME Outbox!Write PROVE Outbox!RelayInv'
  <2>1. written' = written + 1 /\ outbox' = outbox \cup {written + 1} /\ UNCHANGED <<published, step, message>>
    BY <1>1 DEF Outbox!Write
  <2>2. Outbox!NothingLost'
    <3> SUFFICES ASSUME NEW e \in (1..(written + 1)) \ outbox' PROVE e \in published
      BY <2>1 DEF Outbox!NothingLost
    <3>1. e \in 1..written /\ e \notin outbox BY <2>1, <1>0
    <3> QED BY <3>1 DEF Outbox!RelayInv, Outbox!NothingLost
  <2>3. InOrder' BY <2>1 DEF Outbox!RelayInv, InOrder
  <2>4. ASSUME NEW i \in Instance PROVE InHand(i)'
    <3>1. 1..written \subseteq 1..written' BY <2>1, <1>0
    <3> QED BY <2>1, <3>1 DEF Outbox!RelayInv, InHand
  <2> QED BY <2>2, <2>3, <2>4, InvParts DEF Outbox!RelayInv, InOrder, InHand, Outbox!NothingLost
<1>2. ASSUME Outbox!LeaseExpires \/ Outbox!LeaseLost PROVE Outbox!RelayInv'
  BY <1>2, QuietStep DEF Outbox!LeaseExpires, Outbox!LeaseLost
<1>3. ASSUME NEW i \in Instance, Outbox!Elected(i) \/ Outbox!Demoted(i) PROVE Outbox!RelayInv'
  BY <1>3, <1>0, QuietStep DEF Outbox!Elected, Outbox!Demoted, Outbox!Loop
<1>4. ASSUME NEW i \in Instance, Outbox!Timer(i) \/ Outbox!CheckLeader(i) PROVE Outbox!RelayInv'
  BY <1>4, <1>0, QuietStep DEF Outbox!Timer, Outbox!CheckLeader, Outbox!Loop, Outbox!Later
<1>5. ASSUME NEW i \in Instance, Outbox!ReadMessage(i) PROVE Outbox!RelayInv'
  <2>1. CASE outbox = {}
    BY <1>5, <2>1, <1>0, QuietStep DEF Outbox!ReadMessage, Outbox!Later
  <2>2. CASE outbox # {}
    <3> PICK e \in outbox : Outbox!Oldest(e) /\ message' = [message EXCEPT ![i] = e]
      BY <1>5, <2>2 DEF Outbox!ReadMessage
    <3>1. step' = [step EXCEPT ![i] = "publish"] /\ UNCHANGED <<written, outbox, published>>
      BY <1>5, <2>2 DEF Outbox!ReadMessage
    <3>2. 1..(e - 1) \subseteq published BY <1>0, OldestNext DEF Outbox!RelayInv
    <3>3. e \in 1..written BY DEF Outbox!TypeOK
    <3>4. ASSUME NEW j \in Instance PROVE InHand(j)'
      BY <3>1, <3>2, <3>3, <1>0 DEF InHand, Outbox!RelayInv
    <3> QED BY <3>1, <3>4 DEF Outbox!RelayInv, InHand, Outbox!NothingLost
  <2> QED BY <2>1, <2>2
<1>6. ASSUME NEW i \in Instance, Outbox!PublishMessage(i) PROVE Outbox!RelayInv'
  <2>1. /\ published' = published \cup {message[i]} /\ UNCHANGED <<written, outbox, message>>
        /\ step[i] = "publish" /\ step' = [step EXCEPT ![i] = "remove"]
    BY <1>6 DEF Outbox!PublishMessage
  <2>2. message[i] \in Nat \ {0} /\ message[i] \in 1..written /\ 1..(message[i] - 1) \subseteq published
    BY <2>1, <1>0 DEF Outbox!RelayInv
  <2>3. InOrder' BY <2>1, <2>2, <1>0, PublishNext DEF Outbox!RelayInv, InOrder
  <2>4. ASSUME NEW j \in Instance PROVE InHand(j)'
    BY <2>1, <2>2, <1>0 DEF InHand, Outbox!RelayInv
  <2>5. Outbox!NothingLost' BY <2>1 DEF Outbox!RelayInv, Outbox!NothingLost
  <2> QED BY <2>3, <2>4, <2>5 DEF Outbox!RelayInv, InOrder, InHand
<1>7. ASSUME NEW i \in Instance, Outbox!RemoveMessage(i) PROVE Outbox!RelayInv'
  <2>1. /\ outbox' = outbox \ {message[i]} /\ UNCHANGED <<written, published>>
        /\ message[i] \in published
    BY <1>7 DEF Outbox!RemoveMessage, Outbox!RelayInv
  <2>2. Outbox!NothingLost' BY <2>1 DEF Outbox!RelayInv, Outbox!NothingLost
  <2>3. ASSUME NEW j \in Instance PROVE InHand(j)'
    BY <1>7, <2>1, <1>0 DEF Outbox!RemoveMessage, Outbox!Again, InHand, Outbox!RelayInv
  <2> QED BY <2>1, <2>2, <2>3 DEF Outbox!RelayInv, InHand
<1>8. ASSUME NEW i \in Instance, Outbox!CallFails(i) PROVE Outbox!RelayInv'
  <2>1. /\ step' = [step EXCEPT ![i] = "idle"] /\ message' = [message EXCEPT ![i] = 0]
        /\ UNCHANGED written
    BY <1>8 DEF Outbox!CallFails, Outbox!Later
  <2>2. CASE UNCHANGED <<published, outbox>>
    BY <2>1, <2>2, <1>0, QuietStep
  <2>3. CASE step[i] = "publish" /\ published' = published \cup {message[i]} /\ UNCHANGED outbox
    <3>1. message[i] \in Nat \ {0} /\ 1..(message[i] - 1) \subseteq published
      BY <2>3, <1>0 DEF Outbox!RelayInv
    <3>2. InOrder' BY <2>3, <3>1, <1>0, PublishNext DEF Outbox!RelayInv, InOrder
    <3>3. ASSUME NEW j \in Instance PROVE InHand(j)'
      BY <2>1, <2>3, <1>0 DEF InHand, Outbox!RelayInv
    <3>4. Outbox!NothingLost' BY <2>1, <2>3 DEF Outbox!RelayInv, Outbox!NothingLost
    <3> QED BY <3>2, <3>3, <3>4 DEF Outbox!RelayInv, InOrder, InHand
  <2>4. CASE step[i] = "remove" /\ outbox' = outbox \ {message[i]} /\ UNCHANGED published
    <3>1. message[i] \in published BY <2>4 DEF Outbox!RelayInv
    <3>2. Outbox!NothingLost' BY <2>1, <2>4, <3>1 DEF Outbox!RelayInv, Outbox!NothingLost
    <3>3. ASSUME NEW j \in Instance PROVE InHand(j)'
      BY <2>1, <2>4, <1>0 DEF InHand, Outbox!RelayInv
    <3> QED BY <2>1, <2>4, <3>2, <3>3 DEF Outbox!RelayInv, InHand
  <2> QED BY <1>8, <2>2, <2>3, <2>4 DEF Outbox!CallFails
<1>9. ASSUME NEW i \in Instance, Outbox!Stop(i) PROVE Outbox!RelayInv'
  BY <1>9, <1>0, QuietStep DEF Outbox!Stop
<1>10. ASSUME UNCHANGED Outbox!vars PROVE Outbox!RelayInv'
  BY <1>10, QuietStep DEF Outbox!vars
<1> QED BY <1>1, <1>2, <1>3, <1>4, <1>5, <1>6, <1>7, <1>8, <1>9, <1>10 DEF Outbox!Next, Outbox!Work

LEMMA OutboxInit == Bounds /\ Outbox!Init => Outbox!TypeOK /\ Outbox!RelayInv
  BY DEF Bounds, Outbox!Init, Outbox!TypeOK, Outbox!RelayInv, Outbox!NothingLost

\* The types of the outbox and its relays hold for any number of them.
THEOREM OutboxTypeCorrect ==
  ASSUME Bounds
  PROVE  Outbox!Spec => []Outbox!TypeOK
<1>1. Outbox!Init => Outbox!TypeOK /\ Outbox!RelayInv BY OutboxInit
<1>2. Outbox!TypeOK /\ Outbox!RelayInv /\ [Outbox!Next]_(Outbox!vars) =>
        (Outbox!TypeOK /\ Outbox!RelayInv)'
  BY OutboxTypeStep, RelayStep
<1> QED BY <1>1, <1>2, PTL DEF Outbox!Spec

\* An event that was written with the state waits in the outbox until it has been
\* published, whoever leads and whatever fails.
THEOREM NoEventIsLost ==
  ASSUME Bounds
  PROVE  Outbox!Spec => []Outbox!RelayInv
<1>1. Outbox!Init => Outbox!TypeOK /\ Outbox!RelayInv BY OutboxInit
<1>2. Outbox!TypeOK /\ Outbox!RelayInv /\ [Outbox!Next]_(Outbox!vars) =>
        (Outbox!TypeOK /\ Outbox!RelayInv)'
  BY OutboxTypeStep, RelayStep
<1> QED BY <1>1, <1>2, PTL DEF Outbox!Spec

-------------------------------------------------------------------------------
\* Publishing, or a call that fails after it, delivers an event, or delivers it again.
LEMMA PublishDelivers ==
  ASSUME Outbox!TypeOK, Outbox!RelayInv, NEW i \in Instance, step[i] = "publish",
         published' = published \cup {message[i]}, UNCHANGED written
  PROVE  [Outbox!Log!Next]_(Outbox!Log!vars)
<1>1. message[i] \in 1..written /\ 1..(message[i] - 1) \subseteq published BY DEF Outbox!RelayInv
<1>2. CASE message[i] \in published
  <2>1. UNCHANGED <<written, published>> BY <1>2
  <2> QED BY <2>1 DEF Outbox!Log!vars
<1>3. CASE message[i] \notin published
  BY <1>1, <1>3 DEF Outbox!Log!Next, Outbox!Log!Deliver
<1> QED BY <1>2, <1>3

\* Every step of the relays is a step of the log, or none.
LEMMA StepImplements ==
  Outbox!TypeOK /\ Outbox!RelayInv /\ [Outbox!Next]_(Outbox!vars) =>
    [Outbox!Log!Next]_(Outbox!Log!vars)
<1> SUFFICES ASSUME Outbox!TypeOK, Outbox!RelayInv, [Outbox!Next]_(Outbox!vars)
             PROVE  [Outbox!Log!Next]_(Outbox!Log!vars)
  OBVIOUS
<1>1. ASSUME Outbox!Write PROVE Outbox!Log!Next
  BY <1>1 DEF Outbox!Write, Outbox!Log!Next, Outbox!Log!Write
<1>2. ASSUME NEW i \in Instance, Outbox!PublishMessage(i) PROVE [Outbox!Log!Next]_(Outbox!Log!vars)
  BY <1>2, PublishDelivers DEF Outbox!PublishMessage
<1>3. ASSUME NEW i \in Instance, Outbox!CallFails(i) PROVE [Outbox!Log!Next]_(Outbox!Log!vars)
  <2>1. UNCHANGED written BY <1>3 DEF Outbox!CallFails
  <2>2. CASE UNCHANGED published BY <2>1, <2>2 DEF Outbox!Log!vars
  <2>3. CASE step[i] = "publish" /\ published' = published \cup {message[i]}
    BY <2>1, <2>3, PublishDelivers
  <2> QED BY <1>3, <2>2, <2>3 DEF Outbox!CallFails
<1>4. ASSUME \/ Outbox!LeaseExpires \/ Outbox!LeaseLost
             \/ \E i \in Instance : \/ Outbox!Elected(i) \/ Outbox!Demoted(i) \/ Outbox!Timer(i)
                                    \/ Outbox!CheckLeader(i) \/ Outbox!ReadMessage(i)
                                    \/ Outbox!RemoveMessage(i) \/ Outbox!Stop(i)
             \/ UNCHANGED Outbox!vars
      PROVE UNCHANGED (Outbox!Log!vars)
  BY <1>4 DEF Outbox!LeaseExpires, Outbox!LeaseLost, Outbox!Elected, Outbox!Demoted, Outbox!Timer,
              Outbox!CheckLeader, Outbox!ReadMessage,
              Outbox!RemoveMessage, Outbox!Stop, Outbox!vars, Outbox!Log!vars
<1> QED BY <1>1, <1>2, <1>3, <1>4 DEF Outbox!Next, Outbox!Work

\* The relays implement the log: events are delivered, for the first time, in the
\* order they were written in.  (That they are delivered at all is liveness.)
THEOREM RelayImplementsLog ==
  ASSUME Bounds
  PROVE  Outbox!Spec => Outbox!Log!Spec
<1>1. Outbox!Init => Outbox!Log!Init BY DEF Outbox!Init, Outbox!Log!Init
<1>2. Outbox!TypeOK /\ Outbox!RelayInv /\ [Outbox!Next]_(Outbox!vars) =>
        [Outbox!Log!Next]_(Outbox!Log!vars)
  BY StepImplements
<1> QED BY <1>1, <1>2, OutboxTypeCorrect, NoEventIsLost, PTL DEF Outbox!Spec, Outbox!Log!Spec
=============================================================================

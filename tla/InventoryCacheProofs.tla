------------------------- MODULE InventoryCacheProofs -------------------------
(***************************************************************************)
(* A copy of an inventory that is kept from the published events is what   *)
(* the cache answers with, and what it answers with began as a whole       *)
(* inventory: for any accounts, items, moves, and faults.                  *)
(*                                                                         *)
(* The argument: what is told of a change is worked out from the assets    *)
(* that were found under the lock.  Until they are written nobody else     *)
(* writes; expiry takes no lock, but then what is written has no time and  *)
(* is not answered with.  No change has an asset that is lost and gained.  *)
(***************************************************************************)
EXTENDS MCViews, TLAPS

CacheType == [there : BOOLEAN, stamped : BOOLEAN, error : BOOLEAN, expires : BOOLEAN, items : SUBSET Asset]

UpdateType == [pc : {"idle", "found", "write"}, lost : SUBSET Asset, gained : SUBSET Asset,
               event : Change \cup {None}, found : SUBSET Asset]

TradeType == [from : Account \cup {None}, to : Account \cup {None}, details : BOOLEAN, back : BOOLEAN]

Types ==
  /\ owner \in [Item -> Account \cup {None}]
  /\ moves \in [Item -> 0..MaxMoves]
  /\ trade \in [Item -> TradeType]
  /\ events \subseteq Change
  /\ update \in [Account -> UpdateType]
  /\ load \in [Account -> [pc : {"idle", "save", "fail"}, items : SUBSET Asset]]
  /\ cache \in [Account -> CacheType]
  /\ \A a \in Account : ~cache[a].there => cache[a] = NoCache
  /\ follower \in [Account -> SUBSET Asset]
  /\ whole \in [Account -> BOOLEAN]

\* A trade has moved its item, and one that is rolled back has moved it twice.
Moved ==
  \A i \in Item :
    trade[i] # NoTrade =>
      /\ trade[i].from \in Account /\ trade[i].to \in Account /\ trade[i].from # trade[i].to
      /\ moves[i] >= 1
      /\ trade[i].back => moves[i] >= 2

\* Nothing is both lost and gained.
Disjoint ==
  /\ \A e \in events : e.lost \cap e.gained = {}
  /\ \A a \in Account : update[a].lost \cap update[a].gained = {}

\* What was found is still what is cached.
FoundInv ==
  \A a \in Account :
    update[a].pc = "write" /\ cache[a].there =>
      update[a].found = cache[a].items \cap (update[a].lost \cup update[a].gained)

CacheInv == Types /\ Moved /\ Disjoint /\ FoundInv /\ FollowersAgree /\ NeverPartial

-------------------------------------------------------------------------------
(* Changes *)

LEMMA Nones ==
  /\ NoTrade \in TradeType /\ NoCache \in CacheType /\ NoUpdate \in UpdateType
  /\ NoLoad \in [pc : {"idle", "save", "fail"}, items : SUBSET Asset]
BY DEF NoTrade, NoCache, NoUpdate, NoLoad, TradeType, CacheType, UpdateType

\* Good changes are such as may be asked for.
Good(e) == e \in Change /\ e.lost \cap e.gained = {}

LEMMA UpdatesAreGood ==
  ASSUME NEW lost \in [Account -> SUBSET Asset], NEW gained \in [Account -> SUBSET Asset],
         NEW reason \in {"trade", "details", "tf2"},
         \A a \in Account : lost[a] \cap gained[a] = {}
  PROVE  \A e \in UpdateInventories(lost, gained, reason) : Good(e)
<1> SUFFICES ASSUME NEW e \in UpdateInventories(lost, gained, reason) PROVE Good(e)
  OBVIOUS
<1>1. PICK a \in Account : e = [account |-> a, lost |-> lost[a], gained |-> gained[a], reason |-> reason]
  BY DEF UpdateInventories
<1> QED BY <1>1 DEF Good, Change

LEMMA LostIsGood ==
  ASSUME NEW a \in Account, NEW asset \in Asset
  PROVE  \A e \in HandleOfferChanged(a, asset) \cup HandleItemLost(a, asset) : Good(e)
<1>1. [Nothing EXCEPT ![a] = {asset}] \in [Account -> SUBSET Asset] /\ Nothing \in [Account -> SUBSET Asset]
  BY DEF Nothing
<1>2. \A b \in Account : [Nothing EXCEPT ![a] = {asset}][b] \cap Nothing[b] = {}
  BY DEF Nothing
<1> QED BY <1>1, <1>2, UpdatesAreGood DEF HandleOfferChanged, HandleItemLost

\* Assets of an item that have moved a different number of times are different.
LEMMA DetailsAreGood ==
  ASSUME MaxMoves \in Nat, Types, Moved, NEW i \in Item, trade[i] # NoTrade
  PROVE  \A e \in HandleAddInventoryItems(i, trade[i]) : Good(e)
<1> DEFINE t == trade[i]
           now == <<i, moves[i]>>
           was(n) == <<i, moves[i] - n>>
<1>1. /\ t.from \in Account /\ t.to \in Account /\ t.from # t.to
      /\ moves[i] \in 0..MaxMoves /\ moves[i] >= 1 /\ (t.back => moves[i] >= 2)
  BY DEF Types, Moved
<1>2. /\ now \in Asset /\ was(1) \in Asset /\ (t.back => was(2) \in Asset)
      /\ now # was(1) /\ now # was(2)
  BY <1>1 DEF Asset
<1> HIDE DEF t, now, was
<1>3. CASE t.back
  <2> DEFINE lost == [Nothing EXCEPT ![t.to] = {was(1)}, ![t.from] = {was(2)}]
             gained == [Nothing EXCEPT ![t.from] = {now}]
  <2>1. lost \in [Account -> SUBSET Asset] /\ gained \in [Account -> SUBSET Asset]
    BY <1>1, <1>2, <1>3 DEF Nothing
  <2>2. \A a \in Account : lost[a] \cap gained[a] = {}
    BY <1>1, <1>2 DEF Nothing
  <2>3. HandleAddInventoryItems(i, trade[i]) = UpdateInventories(lost, gained, "details")
    BY <1>3 DEF HandleAddInventoryItems, t, now, was
  <2> HIDE DEF lost, gained
  <2> QED BY <2>1, <2>2, <2>3, UpdatesAreGood
<1>4. CASE ~t.back
  <2> DEFINE lost == [Nothing EXCEPT ![t.from] = {was(1)}]
             gained == [Nothing EXCEPT ![t.to] = {now}]
  <2>1. lost \in [Account -> SUBSET Asset] /\ gained \in [Account -> SUBSET Asset]
    BY <1>1, <1>2, <1>4 DEF Nothing
  <2>2. \A a \in Account : lost[a] \cap gained[a] = {}
    BY <1>1, <1>2 DEF Nothing
  <2>3. HandleAddInventoryItems(i, trade[i]) = UpdateInventories(lost, gained, "details")
    BY <1>4 DEF HandleAddInventoryItems, t, now, was
  <2> HIDE DEF lost, gained
  <2> QED BY <2>1, <2>2, <2>3, UpdatesAreGood
<1> QED BY <1>3, <1>4

LEMMA OwnedAssets ==
  ASSUME MaxMoves \in Nat, Types, NEW a \in Account
  PROVE  Owned(a) \in SUBSET Asset
BY DEF Types, Owned, Asset

LEMMA Initially == MaxMoves \in Nat /\ Init => CacheInv
<1> SUFFICES ASSUME MaxMoves \in Nat, Init PROVE CacheInv
  OBVIOUS
<1>1. Types BY Nones DEF Init, Types
<1>2. Moved BY DEF Init, Moved
<1>3. Disjoint /\ FoundInv BY DEF Init, Disjoint, FoundInv, NoUpdate
<1>4. FollowersAgree /\ NeverPartial
  BY DEF Init, FollowersAgree, NeverPartial, FetchInventoryFromCache, NoCache
<1> QED BY <1>1, <1>2, <1>3, <1>4 DEF CacheInv

-------------------------------------------------------------------------------
(* Steps *)

\* What happens to items, and the events that tell of it
LEMMA WorldStep ==
  ASSUME MaxMoves \in Nat, CacheInv, NEW i \in Item,
         (\E a \in Account : Trade(i, a)) \/ Rollback(i) \/ HandleTradeChanged(i) \/ Used(i)
  PROVE  CacheInv'
<1> USE DEF CacheInv
<1>1. UNCHANGED <<update, load, cache, told>>
  BY DEF Trade, Rollback, HandleTradeChanged, Used
\* what is to be shown: the types of what is changed, and that changes are good
<1>2. ASSUME owner' \in [Item -> Account \cup {None}], moves' \in [Item -> 0..MaxMoves],
             trade' \in [Item -> TradeType], \A e \in events' \ events : Good(e), Moved'
      PROVE  CacheInv'
  <2>1. Types' /\ Disjoint' BY <1>1, <1>2 DEF Types, Disjoint, Good, told
  <2>2. FoundInv' /\ FollowersAgree' /\ NeverPartial'
    BY <1>1 DEF FoundInv, FollowersAgree, NeverPartial, FetchInventoryFromCache, told
  <2> QED BY <1>2, <2>1, <2>2
<1>3. /\ owner[i] \in Account \cup {None} /\ moves[i] \in 0..MaxMoves /\ trade[i] \in TradeType
      /\ <<i, moves[i]>> \in Asset
  BY DEF Types, Asset
<1>4. ASSUME NEW a \in Account, Trade(i, a) PROVE CacheInv'
  <2> DEFINE t == [from |-> owner[i], to |-> a, details |-> TRUE, back |-> FALSE]
  <2>1. /\ owner[i] \in Account /\ owner[i] # a /\ moves[i] < MaxMoves
        /\ owner' = [owner EXCEPT ![i] = a] /\ moves' = [moves EXCEPT ![i] = @ + 1]
        /\ trade' = [trade EXCEPT ![i] = t]
        /\ events' = events \cup HandleOfferChanged(owner[i], <<i, moves[i]>>)
    BY <1>3, <1>4 DEF Trade
  <2>2. t \in TradeType /\ t.from = owner[i] /\ t.to = a /\ ~t.back BY <2>1 DEF TradeType
  <2> HIDE DEF t
  <2>3. owner' \in [Item -> Account \cup {None}] /\ moves' \in [Item -> 0..MaxMoves]
    BY <1>3, <2>1 DEF Types
  <2>4. trade' \in [Item -> TradeType] BY <2>1, <2>2 DEF Types
  <2>5. \A e \in events' \ events : Good(e) BY <1>3, <2>1, LostIsGood
  <2>6. Moved'
    <3> SUFFICES ASSUME NEW j \in Item, trade'[j] # NoTrade
                 PROVE  /\ trade'[j].from \in Account /\ trade'[j].to \in Account
                        /\ trade'[j].from # trade'[j].to /\ moves'[j] >= 1
                        /\ trade'[j].back => moves'[j] >= 2
      BY DEF Moved
    <3>1. CASE j = i
      <4>1. trade'[j] = t /\ moves'[j] = moves[i] + 1 BY <2>1, <3>1 DEF Types
      <4> QED BY <1>3, <2>1, <2>2, <4>1
    <3>2. CASE j # i
      <4>1. trade'[j] = trade[j] /\ moves'[j] = moves[j] BY <2>1, <3>2 DEF Types
      <4> QED BY <4>1 DEF Moved
    <3> QED BY <3>1, <3>2
  <2> QED BY <1>2, <2>3, <2>4, <2>5, <2>6
<1>5. ASSUME Rollback(i) PROVE CacheInv'
  <2> DEFINE t == [trade[i] EXCEPT !.details = TRUE, !.back = TRUE]
  <2>1. /\ trade[i] # NoTrade /\ moves[i] < MaxMoves /\ events' = events
        /\ owner' = [owner EXCEPT ![i] = trade[i].from] /\ moves' = [moves EXCEPT ![i] = @ + 1]
    BY <1>5 DEF Rollback, NoTrade
  <2>2. trade' = [trade EXCEPT ![i] = t] BY <1>5 DEF Rollback, Types
  <2>3. trade[i].from \in Account /\ trade[i].to \in Account /\ trade[i].from # trade[i].to /\ moves[i] >= 1
    BY <2>1 DEF Moved
  <2>4. t \in TradeType /\ t.from = trade[i].from /\ t.to = trade[i].to BY <1>3 DEF TradeType
  <2> HIDE DEF t
  <2>5. owner' \in [Item -> Account \cup {None}] /\ moves' \in [Item -> 0..MaxMoves]
    BY <1>3, <2>1, <2>3 DEF Types
  <2>6. trade' \in [Item -> TradeType] BY <2>2, <2>4 DEF Types
  <2>7. Moved'
    <3> SUFFICES ASSUME NEW j \in Item, trade'[j] # NoTrade
                 PROVE  /\ trade'[j].from \in Account /\ trade'[j].to \in Account
                        /\ trade'[j].from # trade'[j].to /\ moves'[j] >= 1
                        /\ trade'[j].back => moves'[j] >= 2
      BY DEF Moved
    <3>1. CASE j = i
      <4>1. trade'[j] = t /\ moves'[j] = moves[i] + 1 BY <2>1, <2>2, <3>1 DEF Types
      <4> QED BY <1>3, <2>3, <2>4, <4>1
    <3>2. CASE j # i
      <4>1. trade'[j] = trade[j] /\ moves'[j] = moves[j] BY <2>1, <2>2, <3>2 DEF Types
      <4> QED BY <4>1 DEF Moved
    <3> QED BY <3>1, <3>2
  <2> QED BY <1>2, <2>1, <2>5, <2>6, <2>7
<1>6. ASSUME HandleTradeChanged(i) PROVE CacheInv'
  <2> DEFINE t == [trade[i] EXCEPT !.details = FALSE]
  <2>1. /\ trade[i] # NoTrade /\ UNCHANGED <<owner, moves>>
        /\ events' = events \cup HandleAddInventoryItems(i, trade[i])
    BY <1>6 DEF HandleTradeChanged, NoTrade
  <2>2. trade' = [trade EXCEPT ![i] = t] BY <1>6 DEF HandleTradeChanged, Types
  <2>3. t \in TradeType /\ t.from = trade[i].from /\ t.to = trade[i].to /\ t.back = trade[i].back
    BY <1>3 DEF TradeType
  <2> HIDE DEF t
  <2>4. trade' \in [Item -> TradeType] BY <2>2, <2>3 DEF Types
  <2>5. \A e \in events' \ events : Good(e) BY <2>1, DetailsAreGood
  <2>6. Moved'
    <3> SUFFICES ASSUME NEW j \in Item, trade'[j] # NoTrade
                 PROVE  /\ trade'[j].from \in Account /\ trade'[j].to \in Account
                        /\ trade'[j].from # trade'[j].to /\ moves[j] >= 1
                        /\ trade'[j].back => moves[j] >= 2
      BY <2>1 DEF Moved
    <3>1. CASE j = i
      <4>1. trade'[j] = t BY <2>2, <3>1 DEF Types
      <4> QED BY <2>1, <2>3, <3>1, <4>1 DEF Moved
    <3>2. CASE j # i
      <4>1. trade'[j] = trade[j] BY <2>2, <3>2 DEF Types
      <4> QED BY <4>1 DEF Moved
    <3> QED BY <3>1, <3>2
  <2> QED BY <1>2, <2>1, <2>4, <2>5, <2>6 DEF Types
<1>7. ASSUME Used(i) PROVE CacheInv'
  <2>1. /\ owner[i] \in Account /\ owner' = [owner EXCEPT ![i] = None] /\ UNCHANGED <<moves, trade>>
        /\ events' = events \cup HandleItemLost(owner[i], <<i, moves[i]>>)
    BY <1>3, <1>7 DEF Used
  <2>2. owner' \in [Item -> Account \cup {None}] BY <2>1 DEF Types
  <2>3. \A e \in events' \ events : Good(e) BY <1>3, <2>1, LostIsGood
  <2>4. Moved' BY <2>1 DEF Moved
  <2> QED BY <1>2, <2>1, <2>2, <2>3, <2>4 DEF Types
<1> QED BY <1>4, <1>5, <1>6, <1>7

\* What is told of a change is what it does to the inventory.
LEMMA ToldIsWritten ==
  ASSUME NEW items, NEW lost, NEW gained, lost \cap gained = {},
         NEW found, found = items \cap (lost \cup gained)
  PROVE  (items \cup gained) \ lost = (items \cup (gained \ found)) \ (lost \cap found)
OBVIOUS

\* What is to be shown of the inventory that a step changes; the others stay as they are.
OneInv(a) ==
  /\ ~cache[a].there => cache[a] = NoCache
  /\ update[a].lost \cap update[a].gained = {}
  /\ update[a].pc = "write" /\ cache[a].there =>
       update[a].found = cache[a].items \cap (update[a].lost \cup update[a].gained)
  /\ FetchInventoryFromCache(a) => follower[a] = cache[a].items /\ whole[a]

LEMMA EachOne == CacheInv => \A a \in Account : OneInv(a)
BY DEF CacheInv, Types, Disjoint, FoundInv, FollowersAgree, NeverPartial, OneInv

\* What is known of an inventory that a step leaves alone, or changes in part.
Unchanged(a) ==
  /\ update[a] \in UpdateType /\ cache[a] \in CacheType /\ follower[a] \in SUBSET Asset
  /\ load[a] \in [pc : {"idle", "save", "fail"}, items : SUBSET Asset] /\ whole[a] \in BOOLEAN
  /\ update = [update EXCEPT ![a] = update[a]] /\ load = [load EXCEPT ![a] = load[a]]
  /\ cache = [cache EXCEPT ![a] = cache[a]] /\ follower = [follower EXCEPT ![a] = follower[a]]
  /\ whole = [whole EXCEPT ![a] = whole[a]]
  /\ OneInv(a)

LEMMA EachUnchanged == CacheInv => \A a \in Account : Unchanged(a)
BY EachOne DEF CacheInv, Types, Unchanged

LEMMA OneStep ==
  ASSUME CacheInv, NEW a \in Account, UNCHANGED world, events' \subseteq events,
         NEW u \in UpdateType, update' = [update EXCEPT ![a] = u],
         NEW l \in [pc : {"idle", "save", "fail"}, items : SUBSET Asset], load' = [load EXCEPT ![a] = l],
         NEW c \in CacheType, cache' = [cache EXCEPT ![a] = c],
         NEW f \in SUBSET Asset, follower' = [follower EXCEPT ![a] = f],
         NEW w \in BOOLEAN, whole' = [whole EXCEPT ![a] = w],
         OneInv(a)'
  PROVE  CacheInv'
<1>1. \A b \in Account \ {a} : OneInv(b)'
  <2> SUFFICES ASSUME NEW b \in Account \ {a} PROVE OneInv(b)'
    OBVIOUS
  <2>1. /\ update'[b] = update[b] /\ cache'[b] = cache[b] /\ follower'[b] = follower[b] /\ whole'[b] = whole[b]
    BY DEF CacheInv, Types
  <2>2. OneInv(b) BY EachOne
  <2> QED BY <2>1, <2>2 DEF OneInv, FetchInventoryFromCache
<1>2. \A b \in Account : OneInv(b)' BY <1>1
<1>3. Types' BY <1>2 DEF CacheInv, Types, OneInv, world
<1>4. Moved' BY DEF CacheInv, Moved, world
<1>5. Disjoint' /\ FoundInv' /\ FollowersAgree' /\ NeverPartial'
  BY <1>2 DEF CacheInv, Disjoint, FoundInv, FollowersAgree, NeverPartial, OneInv
<1> QED BY <1>3, <1>4, <1>5 DEF CacheInv

\* Events change what is cached.
LEMMA UpdateStep ==
  ASSUME MaxMoves \in Nat, CacheInv,
         \/ \E e \in events : UpdateInventory(e)
         \/ \E a \in Account : ReadMatches(a) \/ WriteUpdate(a) \/ UpdateFails(a)
  PROVE  CacheInv'
<1> USE DEF Unchanged
<1>1. \A a \in Account : Unchanged(a) BY EachUnchanged
<1>2. ASSUME NEW e \in events, UpdateInventory(e) PROVE CacheInv'
  <2>1. e \in Change /\ e.lost \cap e.gained = {} /\ e.account \in Account
    BY DEF CacheInv, Types, Disjoint, Change
  <2> DEFINE u == [pc |-> "found", lost |-> e.lost, gained |-> e.gained, event |-> e, found |-> {}]
  <2>0. PICK a \in Account : a = e.account BY <2>1
  <2>2. /\ UNCHANGED <<world, load, cache, told>> /\ events' \subseteq events
        /\ update' = [update EXCEPT ![a] = u] \/ update' = update
    BY <1>2, <2>0 DEF UpdateInventory
  <2>3. u \in UpdateType /\ u.lost \cap u.gained = {} /\ u.pc = "found"
    BY <2>1 DEF UpdateType, Change
  <2> HIDE DEF u
  <2>4. CASE update' = [update EXCEPT ![a] = u]
    <3>1. update'[a] = u BY <2>1, <2>4 DEF CacheInv, Types
    <3>2. OneInv(a)' BY <1>1, <2>1, <2>2, <2>3, <3>1 DEF OneInv, FetchInventoryFromCache, told
    <3>3. UNCHANGED <<follower, whole>> BY <2>2 DEF told
    <3> QED BY <1>1, <2>2, <2>3, <2>4, <3>2, <3>3, OneStep
  <2>5. CASE update' = update
    <3>1. OneInv(a)' BY <1>1, <2>1, <2>2, <2>5 DEF OneInv, FetchInventoryFromCache, told
    <3> QED BY <1>1, <2>1, <2>2, <2>5, <3>1, OneStep DEF told
  <2> QED BY <2>2, <2>4, <2>5
<1>3. ASSUME NEW a \in Account, ReadMatches(a) PROVE CacheInv'
  <2> DEFINE u == [update[a] EXCEPT !.pc = "write",
                                    !.found = cache[a].items \cap (update[a].lost \cup update[a].gained)]
  <2>1. UNCHANGED <<world, events, load, cache, told>> /\ update' = [update EXCEPT ![a] = u]
    BY <1>3 DEF ReadMatches, CacheInv, Types
  <2>2. /\ u \in UpdateType /\ u.lost = update[a].lost /\ u.gained = update[a].gained
        /\ u.found = cache[a].items \cap (update[a].lost \cup update[a].gained)
    BY <1>1 DEF UpdateType, CacheType
  <2> HIDE DEF u
  <2>3. update'[a] = u BY <2>1 DEF CacheInv, Types
  <2>4. OneInv(a)' BY <1>1, <2>1, <2>2, <2>3 DEF OneInv, FetchInventoryFromCache, told
  <2> QED BY <1>1, <2>1, <2>2, <2>4, OneStep DEF told
<1>4. ASSUME NEW a \in Account, WriteUpdate(a) PROVE CacheInv'
  <2> DEFINE u == update[a]
             items == Changed(cache[a].items, u)
             c == IF cache[a].there THEN [cache[a] EXCEPT !.items = items]
                  ELSE IF u.gained = {} THEN NoCache ELSE [NoCache EXCEPT !.there = TRUE, !.items = items]
             f == (follower[a] \cup NewlyGained(u)) \ NewlyLost(u)
  <2>1. /\ u.pc = "write" /\ cache' = [cache EXCEPT ![a] = c] /\ follower' = [follower EXCEPT ![a] = f]
        /\ update' = [update EXCEPT ![a] = NoUpdate] /\ events' \subseteq events
        /\ UNCHANGED <<world, load, whole>>
    BY <1>4 DEF WriteUpdate, Acknowledge, CacheInv, Types
  <2>2. items \in SUBSET Asset /\ f \in SUBSET Asset
    BY <1>1 DEF Changed, NewlyGained, NewlyLost, UpdateType, CacheType
  <2>3. FetchInventoryFromCache(a) => f = items
    <3>1. FetchInventoryFromCache(a) =>
            /\ follower[a] = cache[a].items /\ u.lost \cap u.gained = {}
            /\ u.found = cache[a].items \cap (u.lost \cup u.gained)
      BY <1>1, <2>1 DEF OneInv, FetchInventoryFromCache
    <3> QED BY <3>1, ToldIsWritten DEF Changed, NewlyGained, NewlyLost
  <2> HIDE DEF items, f
  <2>4. /\ c \in CacheType /\ (~c.there => c = NoCache)
        /\ c.there /\ ~c.error /\ c.stamped => FetchInventoryFromCache(a) /\ c.items = items
    BY <1>1, <2>2 DEF CacheType, NoCache, FetchInventoryFromCache
  <2> HIDE DEF c
  <2>5. cache'[a] = c /\ follower'[a] = f /\ update'[a] = NoUpdate /\ whole'[a] = whole[a]
    BY <2>1 DEF CacheInv, Types
  <2>6. OneInv(a)' BY <1>1, <2>3, <2>4, <2>5 DEF OneInv, FetchInventoryFromCache, NoUpdate
  <2> QED BY <1>1, <2>1, <2>2, <2>4, <2>6, Nones, OneStep
<1>5. ASSUME NEW a \in Account, UpdateFails(a) PROVE CacheInv'
  <2>1. UNCHANGED <<world, events, load, cache, told>> /\ update' = [update EXCEPT ![a] = NoUpdate]
    BY <1>5 DEF UpdateFails
  <2>2. update'[a] = NoUpdate BY <2>1 DEF CacheInv, Types
  <2>3. OneInv(a)' BY <1>1, <2>1, <2>2 DEF OneInv, FetchInventoryFromCache, told, NoUpdate
  <2> QED BY <1>1, <2>1, <2>3, Nones, OneStep DEF told
<1> QED BY <1>2, <1>3, <1>4, <1>5

\* Jobs load inventories, and inventories end.
LEMMA LoadStep ==
  ASSUME MaxMoves \in Nat, CacheInv, NEW a \in Account,
         \/ GetInventoryFromBot(a) \/ LoadFails(a) \/ SaveInventory(a)
         \/ DeleteInventory(a) \/ Expire(a)
  PROVE  CacheInv'
<1> USE DEF Unchanged
<1>1. Unchanged(a) BY EachUnchanged
<1>2. CASE GetInventoryFromBot(a) \/ LoadFails(a)
  <2> DEFINE loaded == [pc |-> "save", items |-> Owned(a)]
             failed == [load[a] EXCEPT !.pc = "fail"]
  <2>1. /\ UNCHANGED <<world, events, update, cache, told>>
        /\ load' = [load EXCEPT ![a] = loaded] \/ load' = [load EXCEPT ![a] = failed]
    BY <1>2 DEF GetInventoryFromBot, LoadFails, CacheInv, Types
  <2>2. {loaded, failed} \subseteq [pc : {"idle", "save", "fail"}, items : SUBSET Asset]
    BY <1>1, OwnedAssets DEF CacheInv
  <2> HIDE DEF loaded, failed
  <2>3. OneInv(a)' BY <1>1, <2>1 DEF OneInv, FetchInventoryFromCache, told
  <2>4. CASE load' = [load EXCEPT ![a] = loaded] BY <1>1, <2>1, <2>2, <2>3, <2>4, OneStep DEF told
  <2>5. CASE load' = [load EXCEPT ![a] = failed] BY <1>1, <2>1, <2>2, <2>3, <2>5, OneStep DEF told
  <2> QED BY <2>1, <2>4, <2>5
<1>3. CASE SaveInventory(a)
  <2> DEFINE error == load[a].pc = "fail"
             c == Saved(load[a].items, error)
             f == IF error THEN follower[a] ELSE load[a].items
  <2>1. /\ ~Locked(a) /\ UNCHANGED <<world, events, update>>
        /\ cache' = [cache EXCEPT ![a] = c] /\ follower' = [follower EXCEPT ![a] = f]
        /\ whole' = [whole EXCEPT ![a] = ~error] /\ load' = [load EXCEPT ![a] = NoLoad]
    BY <1>1, <1>3 DEF SaveInventory
  <2>2. c \in CacheType /\ c.there /\ c.error = error /\ c.items = load[a].items
    BY <1>1 DEF Saved, CacheType
  <2>3. f \in SUBSET Asset /\ (~error => f = load[a].items) /\ error \in BOOLEAN BY <1>1
  <2> HIDE DEF c, f, error
  <2>4. cache'[a] = c /\ follower'[a] = f /\ whole'[a] = ~error /\ update'[a] = NoUpdate
    BY <2>1 DEF CacheInv, Types, Locked
  <2>5. NoUpdate.lost \cap NoUpdate.gained = {} /\ NoUpdate.pc # "write" BY DEF NoUpdate
  <2>6. OneInv(a)' BY <2>2, <2>3, <2>4, <2>5 DEF OneInv, FetchInventoryFromCache
  <2> QED BY <1>1, <2>1, <2>2, <2>3, <2>6, Nones, OneStep
<1>4. CASE DeleteInventory(a) \/ Expire(a)
  <2>1. /\ cache' = [cache EXCEPT ![a] = NoCache] /\ whole' = [whole EXCEPT ![a] = FALSE]
        /\ UNCHANGED <<world, events, update, load, follower>>
    BY <1>4 DEF DeleteInventory, Expire, Gone
  <2>2. cache'[a] = NoCache /\ ~NoCache.there BY <2>1 DEF CacheInv, Types, NoCache
  <2>3. OneInv(a)' BY <1>1, <2>1, <2>2 DEF OneInv, FetchInventoryFromCache
  <2> QED BY <1>1, <2>1, <2>3, Nones, OneStep
<1> QED BY <1>2, <1>3, <1>4

LEMMA InvStep == MaxMoves \in Nat /\ CacheInv /\ [Next]_vars => CacheInv'
<1> SUFFICES ASSUME MaxMoves \in Nat, CacheInv, [Next]_vars PROVE CacheInv'
  OBVIOUS
<1>1. CASE UNCHANGED vars
  BY <1>1 DEF vars, world, told, CacheInv, Types, Moved, Disjoint, FoundInv, FollowersAgree, NeverPartial,
              FetchInventoryFromCache
<1>2. CASE Next BY <1>2, WorldStep, UpdateStep, LoadStep DEF Next
<1> QED BY <1>1, <1>2

LEMMA Invariance == Spec => []CacheInv
<1>1. Init => CacheInv BY Initially, MaxMovesAssumption
<1>2. CacheInv /\ [Next]_vars => CacheInv' BY InvStep, MaxMovesAssumption
<1> QED BY <1>1, <1>2, PTL DEF Spec

\* The cache is type correct: an asset that an event names is one there has been.
THEOREM TypeCorrect == Spec => []TypeOK
<1>1. CacheInv => TypeOK BY DEF CacheInv, Types, TypeOK, CacheType, UpdateType
<1> QED BY <1>1, Invariance, PTL

\* Whoever keeps a copy of an inventory from the published events has what the cache answers
\* with, for any accounts and items, whatever expires and is handled again.
THEOREM CopiesAgree == Spec => []FollowersAgree
<1>1. CacheInv => FollowersAgree BY DEF CacheInv
<1> QED BY <1>1, Invariance, PTL

\* What is answered with began as a whole inventory: never the items alone that a change
\* wrote to an inventory that had expired.
THEOREM WholeInventories == Spec => []NeverPartial
<1>1. CacheInv => NeverPartial BY DEF CacheInv
<1> QED BY <1>1, Invariance, PTL

-------------------------------------------------------------------------------
(* Pending offers *)

OfferBounds ==
  /\ Life \in Nat \ {0}
  /\ PartnerOf \in [Offer -> Partner]
  /\ Offers!None \notin Poll /\ Offers!Bot \notin Partner

\* What is in a hash has not expired, and as long as the hash of a partner has not expired
\* since all offers were saved, it has every offer with the partner the bot has.
Hashes ==
  /\ ours \subseteq Offer /\ theirs \subseteq Offer
  /\ ttl \in [Partner \cup {Offers!Bot} -> 0..Life]
  /\ ours # {} => ttl[Offers!Bot] > 0
  /\ \A o \in theirs : ttl[PartnerOf[o]] > 0
  /\ lapsed \subseteq Partner
  /\ \A o \in ours : PartnerOf[o] \in lapsed \/ o \in theirs

PollType == [pc : {"idle", "fetch", "lock", "save"}, list : SUBSET Offer, existing : SUBSET Offer]

Polls ==
  /\ state \in [Offer -> {"none", "active", "done"}]
  /\ offerEvents \subseteq [offer : Offer, active : BOOLEAN]
  /\ polled \in {"none", "fresh", "old"}
  /\ poll \in [Poll -> PollType]
  /\ locked \in Poll \cup {Offers!None}
  /\ \A i \in Poll : (locked = i) <=> (poll[i].pc = "save")

LEMMA OffersInit == ASSUME OfferBounds, Offers!Init PROVE Hashes /\ Polls
<1>1. Offers!NoPoll \in PollType BY DEF Offers!NoPoll, PollType
<1> QED BY <1>1 DEF Offers!Init, OfferBounds, Hashes, Polls, Offers!NoPoll, Offers!None

\* Offers are added to both hashes
LEMMA Saving ==
  ASSUME OfferBounds, Hashes,
         NEW mine \in SUBSET ours, NEW yours \in SUBSET theirs, NEW new \in SUBSET Offer,
         Offers!SaveOffers(mine, yours, new),
         \/ mine = ours /\ yours = theirs /\ lapsed' = lapsed
         \/ mine = {} /\ lapsed' = {}
  PROVE  Hashes'
<1>1. ours' = mine \cup new /\ theirs' = yours \cup new BY DEF Offers!SaveOffers
<1>2. ours' \subseteq Offer /\ theirs' \subseteq Offer BY <1>1 DEF Hashes
<1>3. DOMAIN ttl = Partner \cup {Offers!Bot} BY DEF Hashes
<1>4. ttl' \in [Partner \cup {Offers!Bot} -> 0..Life]
  BY <1>3 DEF Offers!SaveOffers, Hashes, OfferBounds
<1>5. ours' # {} => ttl'[Offers!Bot] > 0
  BY <1>1, <1>3 DEF Offers!SaveOffers, OfferBounds
<1>6. ASSUME NEW o \in theirs' PROVE ttl'[PartnerOf[o]] > 0
  <2>1. PartnerOf[o] \in Partner /\ PartnerOf[o] # Offers!Bot BY <1>2, <1>6 DEF OfferBounds
  <2>2. CASE o \in new
    <3>1. new \cap Offers!With(PartnerOf[o]) # {} BY <2>2 DEF Offers!With
    <3> QED BY <1>3, <2>1, <3>1 DEF Offers!SaveOffers, OfferBounds
  <2>3. CASE o \in yours
    BY <1>3, <2>1, <2>3 DEF Offers!SaveOffers, OfferBounds, Hashes
  <2> QED BY <1>1, <1>6, <2>2, <2>3
<1>7. lapsed' \subseteq Partner BY DEF Hashes
<1>8. \A o \in ours' : PartnerOf[o] \in lapsed' \/ o \in theirs'
  BY <1>1 DEF Hashes
<1> QED BY <1>2, <1>4, <1>5, <1>6, <1>7, <1>8 DEF Hashes

LEMMA Ticking == ASSUME OfferBounds, Hashes, Offers!Tick PROVE Hashes'
<1> DEFINE over == {k \in DOMAIN ttl : ttl'[k] = 0}
<1>1. DOMAIN ttl = Partner \cup {Offers!Bot} BY DEF Hashes
<1>2. \A k \in Partner \cup {Offers!Bot} : ttl[k] \in 0..Life BY DEF Hashes
<1>3. \A k \in Partner \cup {Offers!Bot} : ttl'[k] = IF ttl[k] > 0 THEN ttl[k] - 1 ELSE 0
  BY <1>1 DEF Offers!Tick
<1>4. ttl' \in [Partner \cup {Offers!Bot} -> 0..Life]
  <2>1. \A n \in 0..Life : (IF n > 0 THEN n - 1 ELSE 0) \in 0..Life BY DEF OfferBounds
  <2> QED BY <1>1, <1>2, <2>1 DEF Offers!Tick
<1>5. /\ ours' = IF Offers!Bot \in over THEN {} ELSE ours
      /\ theirs' = {o \in theirs : PartnerOf[o] \notin over}
      /\ lapsed' = lapsed \cup {p \in over \ {Offers!Bot} : ttl[p] > 0}
  BY DEF Offers!Tick
<1>6. \A k \in Partner \cup {Offers!Bot} : k \notin over => ttl'[k] > 0
  BY <1>1, <1>4 DEF OfferBounds
<1>7. \A o \in Offer : PartnerOf[o] \in Partner BY DEF OfferBounds
<1>8. ours' \subseteq Offer /\ theirs' \subseteq Offer BY <1>5 DEF Hashes
<1>9. ours' # {} => ttl'[Offers!Bot] > 0 BY <1>5, <1>6
<1>10. \A o \in theirs' : ttl'[PartnerOf[o]] > 0 BY <1>5, <1>6, <1>7, <1>8
<1>11. lapsed' \subseteq Partner BY <1>1, <1>5 DEF Hashes
<1>12. ASSUME NEW o \in ours', o \notin theirs' PROVE PartnerOf[o] \in lapsed'
  <2>1. o \in ours /\ o \in Offer BY <1>5, <1>8, <1>12
  <2>2. CASE o \notin theirs BY <1>5, <2>1, <2>2 DEF Hashes
  <2>3. CASE o \in theirs
    <3>1. PartnerOf[o] \in over BY <1>5, <1>12, <2>3
    <3>2. ttl[PartnerOf[o]] > 0 BY <2>3 DEF Hashes
    <3>3. PartnerOf[o] # Offers!Bot BY <1>7, <2>1 DEF OfferBounds
    <3> QED BY <1>5, <3>1, <3>2, <3>3
  <2> QED BY <2>2, <2>3
<1>13. \A o \in ours' : PartnerOf[o] \in lapsed' \/ o \in theirs' BY <1>12
<1> HIDE DEF over
<1> QED BY <1>4, <1>8, <1>9, <1>10, <1>11, <1>13 DEF Hashes

LEMMA HashStep == ASSUME OfferBounds, Hashes, Polls, [Offers!Next]_(Offers!vars) PROVE Hashes'
<1>1. ASSUME NEW e \in offerEvents, Offers!HandleOffers(e) PROVE Hashes'
  <2>0. e.offer \in Offer BY DEF Polls
  <2>1. CASE e.active
    <3>1. Offers!SaveOffers(ours, theirs, {e.offer}) /\ lapsed' = lapsed
      BY <1>1, <2>1 DEF Offers!HandleOffers
    <3> QED BY <2>0, <3>1, Saving
  <2>2. CASE ~e.active
    <3>1. Offers!DeleteOffers({e.offer}) /\ lapsed' = lapsed BY <1>1, <2>2 DEF Offers!HandleOffers
    <3> QED BY <3>1 DEF Offers!DeleteOffers, Hashes
  <2> QED BY <2>1, <2>2
<1>2. ASSUME NEW i \in Poll, Offers!SavePolledOffers(i) PROVE Hashes'
  <2>1. poll[i].list \in SUBSET Offer BY DEF Polls, PollType
  <2>2. Offers!SaveOffers({}, theirs \ (poll[i].existing \ poll[i].list), poll[i].list) /\ lapsed' = {}
    BY <1>2 DEF Offers!SavePolledOffers, Offers!SavePolled
  <2> QED BY <2>1, <2>2, Saving
<1>3. ASSUME UNCHANGED Offers!store PROVE Hashes'
  BY <1>3 DEF Offers!store, Hashes
<1>4. \/ UNCHANGED Offers!store \/ Offers!Tick
      \/ \E e \in offerEvents : Offers!HandleOffers(e)
      \/ \E i \in Poll : Offers!SavePolledOffers(i)
  BY DEF Offers!Next, Offers!Changes, Offers!Polled, Offers!Heartbeat, Offers!Handled,
         Offers!Redelivered, Offers!HandlePoll, Offers!GetActiveOffers, Offers!ReadExisting,
         Offers!PollFails, Offers!vars, Offers!store
<1> QED BY <1>1, <1>2, <1>3, <1>4, Ticking

LEMMA PollStep == ASSUME OfferBounds, Hashes, Polls, [Offers!Next]_(Offers!vars) PROVE Polls'
<1>n. Offers!NoPoll \in PollType /\ Offers!NoPoll.pc = "idle" BY DEF Offers!NoPoll, PollType
<1>t. /\ poll \in [Poll -> PollType] /\ locked \in Poll \cup {Offers!None} /\ Offers!None \notin Poll
      /\ \A i \in Poll : (locked = i) <=> (poll[i].pc = "save")
  BY DEF Polls, OfferBounds
<1> DEFINE Locks == /\ poll' \in [Poll -> PollType] /\ locked' \in Poll \cup {Offers!None}
                    /\ \A i \in Poll : (locked' = i) <=> (poll'[i].pc = "save")
           Events == /\ state' \in [Offer -> {"none", "active", "done"}]
                     /\ offerEvents' \subseteq [offer : Offer, active : BOOLEAN]
                     /\ polled' \in {"none", "fresh", "old"}
<1>1. ASSUME NEW o \in Offer, NEW from, NEW to \in {"active", "done"}, Offers!Changes(o, from, to)
      PROVE Events
  <2>1. [offer |-> o, active |-> to = "active"] \in [offer : Offer, active : BOOLEAN] BY Zenon
  <2>2. offerEvents' \subseteq [offer : Offer, active : BOOLEAN]
    BY <1>1, <2>1 DEF Offers!Changes, Polls
  <2> QED BY <1>1, <2>2 DEF Offers!Changes, Polls
<1>2. Events
  <2>1. \/ UNCHANGED <<state, polled>> /\ offerEvents' \subseteq offerEvents
        \/ UNCHANGED Offers!steam /\ polled' \in {"none", "fresh", "old"}
        \/ \E o \in Offer : Offers!Changes(o, "none", "active") \/ Offers!Changes(o, "active", "done")
    BY DEF Offers!Next, Offers!Polled, Offers!Heartbeat, Offers!Handled, Offers!Redelivered,
           Offers!HandleOffers, Offers!HandlePoll, Offers!GetActiveOffers,
           Offers!ReadExisting, Offers!SavePolledOffers, Offers!PollFails, Offers!Tick,
           Offers!vars, Offers!steam, Polls
  <2>2. ASSUME UNCHANGED <<state, polled>> /\ offerEvents' \subseteq offerEvents PROVE Events
    BY <2>2 DEF Polls
  <2>3. ASSUME UNCHANGED Offers!steam /\ polled' \in {"none", "fresh", "old"} PROVE Events
    BY <2>3 DEF Polls, Offers!steam
  <2> HIDE DEF Events
  <2> QED BY <1>1, <2>1, <2>2, <2>3
<1>3. ASSUME NEW i \in Poll, Offers!HandlePoll(i) PROVE Locks
  <2>1. [Offers!NoPoll EXCEPT !.pc = "fetch"] \in PollType /\ [Offers!NoPoll EXCEPT !.pc = "fetch"].pc # "save"
    BY DEF Offers!NoPoll, PollType
  <2> QED BY <1>3, <1>t, <2>1 DEF Offers!HandlePoll, Offers!Set
<1>4. ASSUME NEW i \in Poll, Offers!GetActiveOffers(i) PROVE Locks
  <2>1. /\ [Offers!NoPoll EXCEPT !.pc = "lock", !.list = Offers!Active] \in PollType
        /\ [Offers!NoPoll EXCEPT !.pc = "lock", !.list = Offers!Active].pc # "save"
    BY DEF Offers!NoPoll, PollType, Offers!Active
  <2> QED BY <1>4, <1>t, <2>1 DEF Offers!GetActiveOffers, Offers!Set
<1>5. ASSUME NEW i \in Poll, Offers!ReadExisting(i) PROVE Locks
  <2>1. /\ [poll[i] EXCEPT !.pc = "save", !.existing = ours] \in PollType
        /\ [poll[i] EXCEPT !.pc = "save", !.existing = ours].pc = "save"
    BY <1>t DEF PollType, Hashes
  <2> QED BY <1>5, <1>t, <2>1 DEF Offers!ReadExisting, Offers!Set
<1>6. ASSUME NEW i \in Poll, Offers!SavePolledOffers(i) PROVE Locks
  BY <1>6, <1>n, <1>t DEF Offers!SavePolledOffers, Offers!Set
<1>7. ASSUME NEW i \in Poll, Offers!PollFails(i) PROVE Locks
  BY <1>7, <1>n, <1>t DEF Offers!PollFails, Offers!Set
<1>8. ASSUME UNCHANGED <<poll, locked>> PROVE Locks
  BY <1>8, <1>t
<1>9. \/ UNCHANGED <<poll, locked>>
      \/ \E i \in Poll : Offers!HandlePoll(i) \/ Offers!GetActiveOffers(i) \/ Offers!ReadExisting(i) \/ Offers!SavePolledOffers(i) \/ Offers!PollFails(i)
  BY DEF Offers!Next, Offers!Changes, Offers!Polled, Offers!Heartbeat, Offers!Handled,
         Offers!Redelivered, Offers!HandleOffers, Offers!Tick, Offers!vars
<1>10. Locks
  <2> HIDE DEF Locks
  <2> QED BY <1>3, <1>4, <1>5, <1>6, <1>7, <1>8, <1>9
<1> QED BY <1>2, <1>10 DEF Polls

\* What is remembered of pending offers, and who polls them, is told in type for any
\* offers, partners and polls: one poll at most has the lock, and an empty hash is none.
THEOREM OffersTypeCorrect == ASSUME OfferBounds PROVE Offers!Spec => []Offers!TypeOK
<1>1. Offers!Init => Hashes /\ Polls BY OffersInit
<1>2. Hashes /\ Polls /\ [Offers!Next]_(Offers!vars) => (Hashes /\ Polls)' BY HashStep, PollStep
<1>3. Hashes /\ Polls => Offers!TypeOK BY DEF Hashes, Polls, PollType, Offers!TypeOK
<1> QED BY <1>1, <1>2, <1>3, PTL DEF Offers!Spec

\* A partner is shown every pending offer the bot has with it, unless its hash expired
\* since all offers were saved, for any offers, partners, polls at once and lifetime.
THEOREM PartnersSeeTheirOffers == ASSUME OfferBounds PROVE Offers!Spec => []Offers!ViewsAgree
<1>1. Offers!Init => Hashes /\ Polls BY OffersInit
<1>2. Hashes /\ Polls /\ [Offers!Next]_(Offers!vars) => (Hashes /\ Polls)' BY HashStep, PollStep
<1>3. Hashes => Offers!ViewsAgree
  BY DEF Hashes, Offers!ViewsAgree, Offers!GetPendingPartnerOffers, Offers!GetPendingBotOffers,
         Offers!With
<1> QED BY <1>1, <1>2, <1>3, PTL DEF Offers!Spec

\* Together: a behaviour is of one of them, and the other stays as it begins.
LEMMA OneOfThem ==
  [MCNext]_<<component, offers, vars>> => [Next]_vars /\ [Offers!Next]_(Offers!vars)
  BY DEF MCNext, OfOffers, OfInventories, offers, Offers!vars

\* Inventories and pending offers keep their types side by side, for any values of the
\* constants of either.
THEOREM TypesCorrect == ASSUME OfferBounds PROVE MCSpec => []TypesOK
<1> DEFINE Inv == CacheInv /\ Hashes /\ Polls
<1>1. MCInit => Inv BY MaxMovesAssumption, Initially, OffersInit DEF MCInit
<1>2. Inv /\ [MCNext]_<<component, offers, vars>> => Inv'
  BY MaxMovesAssumption, OneOfThem, InvStep, HashStep, PollStep
<1>3. Inv => TypesOK
  BY DEF CacheInv, Types, TypeOK, CacheType, UpdateType, Hashes, Polls, PollType, Offers!TypeOK, TypesOK
<1> HIDE DEF Inv
<1> QED BY <1>1, <1>2, <1>3, PTL DEF MCSpec

\* And a partner is shown what the bot is shown, whatever the inventories do.
THEOREM ViewsAgreeBesideInventories == ASSUME OfferBounds PROVE MCSpec => []ViewsAgree
<1> DEFINE Inv == Hashes /\ Polls
<1>1. MCInit => Inv BY OffersInit DEF MCInit
<1>2. Inv /\ [MCNext]_<<component, offers, vars>> => Inv' BY OneOfThem, HashStep, PollStep
<1>3. Inv => ViewsAgree
  BY DEF Hashes, ViewsAgree, Offers!ViewsAgree, Offers!GetPendingPartnerOffers,
         Offers!GetPendingBotOffers, Offers!With
<1> HIDE DEF Inv
<1> QED BY <1>1, <1>2, <1>3, PTL DEF MCSpec
===============================================================================

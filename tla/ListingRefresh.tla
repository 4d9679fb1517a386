---------------------------- MODULE ListingRefresh ----------------------------
(***************************************************************************)
(* The record the bptf-manager keeps of an account's backpack.tf listings  *)
(* (the current listings), refreshed while listings are created, updated   *)
(* and deleted.                                                            *)
(*                                                                         *)
(* A refresh walks through the pages of the active and of the archived     *)
(* listings and gathers them in a temporary Redis hash, its temp key, that *)
(* replaces the current listings when both walks have ended.  Whatever is  *)
(* created or deleted meanwhile is written to every tracked temp key as    *)
(* well, first there and then to the current listings.  Deleted listings   *)
(* are remembered, since backpack.tf may still return them for a while.    *)
(*                                                                         *)
(* Every request to backpack.tf and every Redis round trip is a step of    *)
(* its own.  A listing is its id, ids are ordered as backpack.tf pages     *)
(* through them; what the listing says is left out.  A batch has one       *)
(* listing.                                                                *)
(***************************************************************************)
EXTENDS Integers, FiniteSets

CONSTANTS
  Listing,     \* ids of listings, positive integers
  Refresh,     \* refreshes that may overlap
  Part,        \* the listings a refresh walks through, of Parts
  PageSize,    \* listings per page
  Operation,   \* what an instance looks at, of Operations
  Fault,       \* what goes wrong in an instance, of Faults
  MaxChanges   \* bound on operations and faults together

Parts == {"active", "archived"}
Operations == {"create", "update", "delete", "deleteArchived", "deleteAll", "external"}

\* page, operation, done : a job fails half way, or its process does, and it
\*                         runs again
\* expire : a temp key expires while the refresh waits for a page
\* race   : a temp key expires between a look at it and a write to it
Faults == {"page", "operation", "done", "expire", "race"}

ASSUME ListingAssumption == Listing \subseteq Nat \ {0} /\ IsFiniteSet(Listing)
ASSUME PageSizeAssumption == PageSize \in Nat \ {0}
ASSUME InstanceAssumption ==
  "active" \in Part /\ Part \subseteq Parts /\ Operation \subseteq Operations /\ Fault \subseteq Faults
ASSUME MaxChangesAssumption == MaxChanges \in Nat

VARIABLES
  live,         \* the listings backpack.tf has, active and archived
  lingering,    \* deleted listings that it may still return
  current,      \* the recorded current listings
  temp,         \* the fields of the temp key of each refresh
  tempKeys,     \* the refreshes whose temp keys are tracked
  tempDeleted,  \* the deleted listings that are remembered
  phase,        \* how far each refresh is
  walk,         \* how far it is with its pages
  op,           \* the operation that runs under each rate limiter
  fate,         \* history: how the last operation on each listing ended
  changes       \* operations and faults so far

vars == <<live, lingering, current, temp, tempKeys, tempDeleted, phase, walk, op,
          fate, changes>>

Placeholder == 0   \* keeps a temp key without listings in being
Slot == {"batch", "archive", "all"}   \* limiters, each lets one request run at a time
SlotOf(kind) ==
  IF kind = "deleteArchived" THEN "archive" ELSE IF kind = "deleteAll" THEN "all" ELSE "batch"

Walk == [step : {"request", "filter", "keys", "write", "end"}, skip : Nat,
         more : BOOLEAN, page : SUBSET Listing, keys : SUBSET Refresh]
Op == [step : {"idle", "read", "script", "keys", "write", "current"},
       kind : Operations, listings : SUBSET Listing, keys : SUBSET Refresh]

FirstPage == [step |-> "request", skip |-> 0, more |-> FALSE, page |-> {}, keys |-> {}]
Ended == [FirstPage EXCEPT !.step = "end"]
Idle == [step |-> "idle", kind |-> "external", listings |-> {}, keys |-> {}]

Live == UNION {live[p] : p \in Part}

\* A Redis hash without fields is no key
Exists(r) == temp[r] # {}

Init ==
  /\ \E a \in SUBSET Listing : live = [p \in Part |-> IF p = "active" THEN a ELSE {}]
  /\ lingering = {}
  /\ current = Live
  /\ temp = [r \in Refresh |-> {}]
  /\ tempKeys = {}
  /\ tempDeleted = {}
  /\ phase = [r \in Refresh |-> "idle"]
  /\ walk = [w \in Refresh \X Part |-> Ended]
  /\ op = [s \in Slot |-> Idle]
  /\ fate = [l \in Listing |-> "other"]
  /\ changes = 0

Change == changes < MaxChanges /\ changes' = changes + 1

-------------------------------------------------------------------------------
(* History: pages that shift *)

\* A listing may be missed by refreshes that are fetching pages when listings before it go,
\* or may go, which moves it to a page that was fetched already
Shifted(gone) ==
  [l \in Listing |->
     IF \A k \in gone : l <= k THEN fate[l]
     ELSE IF fate[l] = "created" THEN "mixed"
     ELSE IF fate[l] = "other" /\ op["batch"].kind = "create" /\ l \in op["batch"].listings THEN "overlapping"
     ELSE fate[l]]

Fetching == \E w \in Refresh \X Part : walk[w].step # "end"

\* what a deletion does to the fates of the listings behind
ShiftPages(gone) == IF Fetching THEN Shifted(gone) ELSE fate

-------------------------------------------------------------------------------
(* History: pages that hold what was deleted *)

\* A page that is past the filter holds l
InPages(l) ==
  \E w \in Refresh \X Part : walk[w].step \in {"keys", "write"} /\ l \in walk[w].page

\* A page holds l and nothing keeps l out, or backpack.tf may yet put it on one
Returns(l) ==
  \/ InPages(l)
  \/ /\ l \notin tempDeleted
     /\ \/ l \in lingering
        \/ \E w \in Refresh \X Part : walk[w].step = "filter" /\ l \in walk[w].page

-------------------------------------------------------------------------------
(* Temp keys *)

\* getTempKeys: the tracked temp keys that exist
TempKeys == {r \in tempKeys : Exists(r)}

SaveTemp(keys, ls) == temp' = [r \in Refresh |-> IF r \in keys THEN temp[r] \cup ls ELSE temp[r]]
DeleteTemp(keys, ls) == temp' = [r \in Refresh |-> IF r \in keys THEN temp[r] \ ls ELSE temp[r]]

Held(r) == \/ \E w \in Refresh \X Part : r \in walk[w].keys
           \/ \E s \in Slot : r \in op[s].keys

\* History: no refresh has a temp key, or gets one from somebody who knew of it
NoTempKeys == \A r \in tempKeys : ~Exists(r) /\ ~Held(r)

\* A key lives for five minutes after the last page; what takes so long is the
\* wait for the rate limiter or for a token
ExpireTempKey(r) ==
  /\ Exists(r)
  /\ "race" \in Fault \/ ("expire" \in Fault /\ ~Held(r))
  /\ Change
  /\ temp' = [temp EXCEPT ![r] = {}]
  /\ UNCHANGED <<live, lingering, current, tempKeys, tempDeleted, phase, walk, op, fate>>

\* A deleted listing is remembered for five minutes, longer than backpack.tf
\* keeps returning it and longer than a request may take
ExpireTempDeleted ==
  /\ tempDeleted # {}
  /\ lingering = {}
  /\ \A w \in Refresh \X Part :
       walk[w].step = "filter" => walk[w].page \cap tempDeleted \subseteq Live
  /\ tempDeleted' = {}
  /\ UNCHANGED <<live, lingering, current, temp, tempKeys, phase, walk, op, fate, changes>>

-------------------------------------------------------------------------------
(* A refresh *)

\* Mutant: the temp key is tracked without a field to keep it in being
RefreshListingsEmpty(r) ==
  /\ phase[r] = "idle"
  /\ ~Held(r)
  /\ phase' = [phase EXCEPT ![r] = "running"]
  /\ temp' = [temp EXCEPT ![r] = {}]
  /\ tempKeys' = tempKeys \cup {r}
  /\ walk' = [w \in Refresh \X Part |-> IF w[1] = r THEN FirstPage ELSE walk[w]]
  /\ UNCHANGED <<live, lingering, current, tempDeleted, op, fate, changes>>

\* The temp key is new: its name has the time in it.  (A name is used again
\* when nobody holds it any longer.)  History: delete-all, and the deletion of
\* an archived listing, do not remember what they deleted, so that a refresh
\* that starts while backpack.tf still returns it, or a page holds it, records
\* it again; and pages shift when listings that linger go
RefreshListings(r) ==
  /\ phase[r] = "idle"
  /\ ~Held(r)
  /\ phase' = [phase EXCEPT ![r] = "running"]
  /\ temp' = [temp EXCEPT ![r] = {Placeholder}]
  /\ tempKeys' = tempKeys \cup {r}
  /\ walk' = [w \in Refresh \X Part |-> IF w[1] = r THEN FirstPage ELSE walk[w]]
  /\ fate' = [l \in Listing |-> IF fate[l] = "wiped" /\ Returns(l) THEN "mixed" ELSE Shifted(lingering)[l]]
  /\ UNCHANGED <<live, lingering, current, tempDeleted, op, changes>>

Rank(l, S) == Cardinality({k \in S : k <= l})
PageOf(S, skip) == {l \in S : skip < Rank(l, S) /\ Rank(l, S) <= skip + PageSize}

\* The request for a page: the listings at backpack.tf by then, and what lingers
FetchPage(r, p) ==
  /\ walk[<<r, p>>].step = "request"
  /\ \E ghosts \in SUBSET lingering :
       LET all  == live[p] \cup ghosts
           skip == walk[<<r, p>>].skip
       IN  walk' = [walk EXCEPT ![<<r, p>>] =
                      [FirstPage EXCEPT !.step = "filter", !.skip = skip,
                                        !.page = PageOf(all, skip),
                                        !.more = skip + PageSize < Cardinality(all)]]
  /\ UNCHANGED <<live, lingering, current, temp, tempKeys, tempDeleted, phase, op, fate, changes>>

AfterPage(w) ==
  IF w.more THEN [FirstPage EXCEPT !.skip = w.skip + PageSize] ELSE Ended

\* An operation on l that backpack.tf has carried out but that is not written yet
Unwritten(l, kinds) ==
  \E s \in Slot : op[s].kind \in kinds /\ op[s].step \in {"keys", "write"} /\ l \in op[s].listings

\* Listings that were just deleted are left out.  History: when this meets an
\* operation on the listing that has reached backpack.tf but not Redis, the
\* two overlap
FilterDeleted(r, p) ==
  LET page == walk[<<r, p>>].page
      kept == page \ tempDeleted
      overlap == {l \in kept : Unwritten(l, {"delete"})}
                   \cup {l \in page \ kept : Unwritten(l, {"create", "update"})}
  IN  /\ walk[<<r, p>>].step = "filter"
      /\ walk' = [walk EXCEPT ![<<r, p>>] =
                    IF kept = {} THEN AfterPage(@) ELSE [@ EXCEPT !.step = "keys", !.page = kept]]
      /\ fate' = [l \in Listing |-> IF l \in overlap THEN "overlapping" ELSE fate[l]]
      /\ UNCHANGED <<live, lingering, current, temp, tempKeys, tempDeleted, phase, op, changes>>

ReadTempKeys(r, p) ==
  /\ walk[<<r, p>>].step = "keys"
  /\ walk' = [walk EXCEPT ![<<r, p>>].step = "write", ![<<r, p>>].keys = TempKeys]
  /\ UNCHANGED <<live, lingering, current, temp, tempKeys, tempDeleted, phase, op, fate, changes>>

\* The page is added to all temp keys; its listings are not deleted (any more)
SavePage(r, p) ==
  /\ walk[<<r, p>>].step = "write"
  /\ SaveTemp(walk[<<r, p>>].keys, walk[<<r, p>>].page)
  /\ tempDeleted' = tempDeleted \ walk[<<r, p>>].page
  /\ walk' = [walk EXCEPT ![<<r, p>>] = AfterPage(@)]
  /\ UNCHANGED <<live, lingering, current, tempKeys, phase, op, fate, changes>>

\* The job fails, or is stalled by a crash, and asks for the page again
RetryPage(r, p) ==
  /\ "page" \in Fault
  /\ walk[<<r, p>>].step \in {"filter", "keys", "write"}
  /\ Change
  /\ walk' = [walk EXCEPT ![<<r, p>>] = [FirstPage EXCEPT !.skip = walk[<<r, p>>].skip]]
  /\ UNCHANGED <<live, lingering, current, temp, tempKeys, tempDeleted, phase, op, fate>>

\* handleListingsFetched: a temp key that is gone expired, or went with delete-all
CheckTempKey(r) ==
  /\ phase[r] = "running"
  /\ \A p \in Part : walk[<<r, p>>].step = "end"
  /\ phase' = [phase EXCEPT ![r] = IF Exists(r) THEN "fetched" ELSE "idle"]
  /\ tempKeys' = IF Exists(r) THEN tempKeys ELSE tempKeys \ {r}
  /\ UNCHANGED <<live, lingering, current, temp, tempDeleted, walk, op, fate, changes>>

\* Mutant: the placeholder is copied and stays
CopyPlaceholder(r) ==
  /\ phase[r] = "fetched"
  /\ phase' = [phase EXCEPT ![r] = "copied"]
  /\ current' = IF Exists(r) THEN temp[r] ELSE current
  /\ tempKeys' = tempKeys \ {r}
  /\ UNCHANGED <<live, lingering, temp, tempDeleted, walk, op, fate, changes>>

\* COPY does nothing when the key has gone meanwhile.  The temp key stays, but
\* is no longer tracked
CopyTempKey(r) ==
  /\ phase[r] = "fetched"
  /\ phase' = [phase EXCEPT ![r] = "copied"]
  /\ current' = IF Exists(r) THEN temp[r] \ {Placeholder} ELSE current
  /\ tempKeys' = tempKeys \ {r}
  /\ UNCHANGED <<live, lingering, temp, tempDeleted, walk, op, fate, changes>>

\* The refresh is announced and the job completes
Refreshed(r) ==
  /\ phase[r] = "copied"
  /\ phase' = [phase EXCEPT ![r] = "idle"]
  /\ UNCHANGED <<live, lingering, current, temp, tempKeys, tempDeleted, walk, op, fate, changes>>

\* The process stops before the job completes, and the job runs again
RetryDone(r) ==
  /\ "done" \in Fault
  /\ phase[r] \in {"fetched", "copied"}
  /\ Change
  /\ phase' = [phase EXCEPT ![r] = "running"]
  /\ UNCHANGED <<live, lingering, current, temp, tempKeys, tempDeleted, walk, op, fate>>

-------------------------------------------------------------------------------
(* Creating, updating and deleting: the request to backpack.tf *)

\* The limiter lets the operation run, or runs it again after it failed
Starts(kind, ls) ==
  LET o == op[SlotOf(kind)]
  IN  /\ kind \in Operation
      /\ \/ o.step = "idle"
         \/ "operation" \in Fault /\ o.kind = kind /\ o.listings = ls
      /\ Change

Answered(kind, ls, step) ==
  op' = [op EXCEPT ![SlotOf(kind)] = [step |-> step, kind |-> kind, listings |-> ls, keys |-> {}]]

\* backpack.tf makes the listing an active one, or archives it at once
CreateListing(l, p) ==
  /\ Starts("create", {l})
  /\ live' = [live EXCEPT ![p] = @ \cup {l}]
  /\ lingering' = lingering \ {l}
  /\ Answered("create", {l}, "keys")
  /\ fate' = [fate EXCEPT ![l] = "other"]
  /\ UNCHANGED <<current, temp, tempKeys, tempDeleted, phase, walk>>

\* Only active listings are updated
UpdateListing(l) ==
  /\ l \in live["active"]
  /\ Starts("update", {l})
  /\ Answered("update", {l}, "read")
  /\ UNCHANGED <<live, lingering, current, temp, tempKeys, tempDeleted, phase, walk, fate>>

\* Deleting an active listing; one that is archived, or gone, is taken from the
\* records all the same
DeleteListing(l) ==
  /\ Starts("delete", {l})
  /\ live' = [live EXCEPT !["active"] = @ \ {l}]
  /\ lingering' = IF l \in live["active"] THEN lingering \cup {l} ELSE lingering
  /\ Answered("delete", {l}, "keys")
  /\ fate' = [ShiftPages({l} \cap live["active"]) EXCEPT ![l] = IF InPages(l) THEN "overlapping" ELSE "other"]
  /\ UNCHANGED <<current, temp, tempKeys, tempDeleted, phase, walk>>

\* The active copy of a listing that was archived is deleted, its record is kept
DeleteActiveCopy(l) ==
  /\ "archived" \in Part
  /\ l \in live["active"] \cap live["archived"]
  /\ op["batch"].step = "idle"
  /\ Starts("delete", {l})
  /\ live' = [live EXCEPT !["active"] = @ \ {l}]
  /\ fate' = ShiftPages({l})
  /\ UNCHANGED <<lingering, current, temp, tempKeys, tempDeleted, phase, walk, op>>

DeleteArchivedListing(l) ==
  /\ "archived" \in Part
  /\ Starts("deleteArchived", {l})
  /\ live' = [live EXCEPT !["archived"] = @ \ {l}]
  /\ lingering' = IF l \in live["archived"] THEN lingering \cup {l} ELSE lingering
  /\ Answered("deleteArchived", {l}, "current")
  /\ fate' = [ShiftPages({l} \cap live["archived"]) EXCEPT ![l] = "mixed"]
  /\ UNCHANGED <<current, temp, tempKeys, tempDeleted, phase, walk>>

DeleteAllListings ==
  /\ Starts("deleteAll", Listing)
  /\ live' = [p \in Part |-> {}]
  /\ lingering' = lingering \cup Live
  /\ Answered("deleteAll", Listing, "keys")
  /\ fate' = [l \in Listing |-> "mixed"]
  /\ UNCHANGED <<current, temp, tempKeys, tempDeleted, phase, walk>>

\* backpack.tf archives a listing or drops it, or its owner does
ExternalChange(l, p) ==
  /\ "external" \in Operation
  /\ l \in live["active"]
  /\ Change
  /\ live' = [q \in Part |-> IF q = "active" THEN live[q] \ {l}
                             ELSE IF p = "archived" THEN live[q] \cup {l} ELSE live[q]]
  /\ fate' = [ShiftPages({l}) EXCEPT ![l] = "mixed"]
  /\ UNCHANGED <<lingering, current, temp, tempKeys, tempDeleted, phase, walk, op>>

Vanish(l) ==
  /\ lingering' = lingering \ {l}
  /\ l \in lingering
  /\ UNCHANGED <<live, current, temp, tempKeys, tempDeleted, phase, walk, op, fate, changes>>

-------------------------------------------------------------------------------
(* Creating, updating and deleting: what is written *)

GoTo(s, step) == op' = [op EXCEPT ![s].step = step]
Finish(s) == op' = [op EXCEPT ![s] = Idle]

\* History: how an operation ends that nothing, a page, or delete-all has met
Outcome(met, how) ==
  IF met = "other" THEN how ELSE IF met = "overlapping" THEN "overlapped" ELSE met

\* updateListings: only listings that are recorded ...
ReadCurrent ==
  /\ op["batch"].step = "read"
  /\ IF op["batch"].listings \subseteq current THEN GoTo("batch", "script") ELSE Finish("batch")
  /\ UNCHANGED <<live, lingering, current, temp, tempKeys, tempDeleted, phase, walk, fate, changes>>

\* ... and still are when they are written are updated
UpdateExisting ==
  /\ op["batch"].step = "script"
  /\ IF op["batch"].listings \subseteq current THEN GoTo("batch", "keys") ELSE Finish("batch")
  /\ UNCHANGED <<live, lingering, current, temp, tempKeys, tempDeleted, phase, walk, fate, changes>>

\* History: the key of a refresh went with delete-all, and who read the keys
\* before that will write to it, which makes a new key of it
Returning == \E r \in tempKeys : ~Exists(r) /\ Held(r)

OpReadTempKeys(s) ==
  /\ op[s].step = "keys"
  /\ op' = [op EXCEPT ![s].step = "write", ![s].keys = TempKeys]
  /\ fate' = [l \in Listing |->
                IF op[s].kind = "create" /\ l \in op[s].listings /\ Returning THEN "overlapping" ELSE fate[l]]
  /\ UNCHANGED <<live, lingering, current, temp, tempKeys, tempDeleted, phase, walk, changes>>

\* Mutant: listings that are created again stay among the deleted ones
OpSaveTempForgets ==
  LET o == op["batch"]
  IN  /\ o.kind \in {"create", "update"}
      /\ o.step = "write"
      /\ SaveTemp(o.keys, o.listings)
      /\ IF o.kind = "create" THEN GoTo("batch", "current") ELSE Finish("batch")
      /\ UNCHANGED <<live, lingering, current, tempKeys, tempDeleted, phase, walk, fate, changes>>

\* saveTempListings for created and updated listings
OpSaveTemp ==
  LET o == op["batch"]
  IN  /\ o.kind \in {"create", "update"}
      /\ o.step = "write"
      /\ SaveTemp(o.keys, o.listings)
      /\ tempDeleted' = tempDeleted \ o.listings
      /\ IF o.kind = "create" THEN GoTo("batch", "current") ELSE Finish("batch")
      /\ UNCHANGED <<live, lingering, current, tempKeys, phase, walk, fate, changes>>

\* deleteTempListings
DeleteTempListings ==
  LET o == op["batch"]
  IN  /\ o.kind = "delete"
      /\ o.step = "write"
      /\ DeleteTemp(o.keys, o.listings)
      /\ tempDeleted' = tempDeleted \cup o.listings
      /\ GoTo("batch", "current")
      /\ UNCHANGED <<live, lingering, current, tempKeys, phase, walk, fate, changes>>

\* The current listings come last
SaveCurrent ==
  /\ op["batch"].step = "current"
  /\ op["batch"].kind = "create"
  /\ current' = current \cup op["batch"].listings
  /\ Finish("batch")
  /\ fate' = [l \in Listing |->
                IF l \notin op["batch"].listings THEN fate[l]
                ELSE Outcome(fate[l], "created")]
  /\ UNCHANGED <<live, lingering, temp, tempKeys, tempDeleted, phase, walk, changes>>

\* History: an archived listing is not taken from temp keys and not remembered,
\* so that a refresh that runs meanwhile may copy it back
DeleteCurrent(s) ==
  /\ op[s].step = "current"
  /\ op[s].kind \in {"delete", "deleteArchived"}
  /\ current' = current \ op[s].listings
  /\ Finish(s)
  /\ fate' = [l \in Listing |->
                IF l \notin op[s].listings THEN fate[l]
                ELSE IF s # "archive" THEN Outcome(fate[l], "deleted")
                ELSE IF NoTempKeys /\ l \notin op["batch"].listings THEN "wiped" ELSE "mixed"]
  /\ UNCHANGED <<live, lingering, temp, tempKeys, tempDeleted, phase, walk, changes>>

\* Mutant: the refreshes that are running are left alone
DeleteAllButTemp ==
  /\ op["all"].step = "write"
  /\ current' = {}
  /\ Finish("all")
  /\ fate' = [l \in Listing |-> "wiped"]
  /\ UNCHANGED <<live, lingering, temp, tempKeys, tempDeleted, phase, walk, changes>>

\* Refreshes that are running are deprived of their temp keys, so that they do
\* not copy the listings back.  History: this may overlap with a change that is
\* being written, and a key that somebody else has read, or that is new, comes
\* back or stays
DeleteAllCurrent ==
  LET others(r) == r \in op["batch"].keys \/ \E w \in Refresh \X Part : r \in walk[w].keys
      escaped == \E r \in tempKeys : others(r) \/ (Exists(r) /\ r \notin op["all"].keys)
  IN  /\ op["all"].step = "write"
      /\ current' = {}
      /\ temp' = [r \in Refresh |-> IF r \in op["all"].keys THEN {} ELSE temp[r]]
      /\ Finish("all")
      /\ fate' = [l \in Listing |-> IF escaped \/ l \in op["batch"].listings THEN "mixed" ELSE "wiped"]
      /\ UNCHANGED <<live, lingering, tempKeys, tempDeleted, phase, walk, changes>>

-------------------------------------------------------------------------------
Page(r, p) == FetchPage(r, p) \/ FilterDeleted(r, p) \/ ReadTempKeys(r, p) \/ SavePage(r, p)
Done(r) == CheckTempKey(r) \/ CopyTempKey(r) \/ Refreshed(r)
Refreshing(r) == RefreshListings(r) \/ Done(r) \/ \E p \in Part : Page(r, p)
Write ==
  \/ ReadCurrent \/ UpdateExisting \/ OpSaveTemp \/ DeleteTempListings \/ SaveCurrent
  \/ DeleteAllCurrent
  \/ \E s \in Slot : OpReadTempKeys(s) \/ DeleteCurrent(s)

Next ==
  \/ \E r \in Refresh : RefreshListings(r) \/ Done(r) \/ RetryDone(r) \/ ExpireTempKey(r)
  \/ \E r \in Refresh, p \in Part : Page(r, p) \/ RetryPage(r, p)
  \/ \E l \in Listing, p \in Part : CreateListing(l, p) \/ ExternalChange(l, p)
  \/ \E l \in Listing :
       UpdateListing(l) \/ DeleteListing(l) \/ DeleteActiveCopy(l) \/ DeleteArchivedListing(l) \/ Vanish(l)
  \/ DeleteAllListings \/ Write \/ ExpireTempDeleted

Spec == Init /\ [][Next]_vars

\* A registered agent refreshes again and again; jobs get on with it; backpack.tf
\* settles and remembered deletions expire
Fairness ==
  /\ \A r \in Refresh : WF_vars(Refreshing(r))
  /\ WF_vars(Write)
  /\ WF_vars(\E l \in Listing : Vanish(l))
  /\ WF_vars(ExpireTempDeleted)

FairSpec == Spec /\ Fairness

-------------------------------------------------------------------------------
(* Properties *)

Fate == {"other", "created", "deleted", "overlapping", "overlapped", "wiped", "mixed"}

\* A type invariant: only listings get into the current listings, the
\* placeholder of a temp key does not.
TypeOK ==
  /\ live \in [Part -> SUBSET Listing]
  /\ lingering \subseteq Listing
  /\ current \subseteq Listing
  /\ temp \in [Refresh -> SUBSET (Listing \cup {Placeholder})]
  /\ tempKeys \subseteq Refresh
  /\ tempDeleted \subseteq Listing
  /\ phase \in [Refresh -> {"idle", "running", "fetched", "copied"}]
  /\ walk \in [Refresh \X Part -> Walk]
  /\ op \in [Slot -> Op]
  /\ fate \in [Listing -> Fate]
  /\ changes \in 0..MaxChanges

\* A listing that was created and recorded stays recorded, whatever refreshes
\* run and whatever happens to other listings, until it is changed itself: a
\* refresh that overlaps with the creation gets it from a page or is told of it.
\* (Not when listings before it go while pages are fetched, which shifts it to a
\* page that was fetched already, nor when the key of a refresh comes back that
\* went with delete-all: it is recorded again by the next refresh.)
CreatedKept == \A l \in Listing : fate[l] = "created" => l \in current

\* A listing that was deleted, alone or with all the others, does not come back
\* into the current listings while backpack.tf does not have it, whatever
\* refreshes run and however stale their pages are, if no page that held it was
\* on its way into a temp key when the deletion was written.  Deletions that are
\* not remembered (all, or archived ones) leave one way back that the code does
\* not close: a refresh that starts after them, when a page still brings the
\* listing, records it until the next refresh.  Refreshes that start when no
\* page does, and all that run during delete-all, must not.
DeletedGone ==
  \A l \in Listing : fate[l] \in {"deleted", "wiped"} /\ l \notin Live => l \notin current

\* Whatever goes wrong - stale, shifted and repeated pages, deletions brought
\* back, keys that expire, jobs that run twice - once no more changes are made
\* the recorded listings become, and stay, those that backpack.tf has.
Convergence == <>[](current = Live)
===============================================================================

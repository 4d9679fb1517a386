------------------------------- MODULE Listings -------------------------------
(***************************************************************************)
(* Keeping the listings on backpack.tf as desired, for one account with a  *)
(* registered agent: the desired listings, the queues of listings to       *)
(* create, update and delete, the requests made for them, the events these *)
(* give rise to, and the plan that compares everything now and then.       *)
(*                                                                         *)
(* Two modules say more about parts that are simple here: in ManageJobs    *)
(* queued work is sure to be taken, in ListingRefresh the recorded current *)
(* listings become those of backpack.tf.  Several instances of the program *)
(* may share one Redis, so what one instance's event handlers write can be *)
(* delayed behind what other instances do.                                 *)
(*                                                                         *)
(* A desired listing is known by its hash, and what it asks for is a       *)
(* version; the id that backpack.tf gives to a listing depends on the item *)
(* only, so some hashes may come to have the same id.  A batch has one     *)
(* listing.                                                                *)
(***************************************************************************)
EXTENDS Integers, FiniteSets

CONSTANTS
  Hash,         \* hashes of desired listings
  Twin,         \* the hashes that backpack.tf takes for the same listing
  Recreate,     \* some changes (force, quantity) mean that a listing is created again
  MaxVersion,   \* bound on the versions of a listing
  MaxChanges    \* bound on changes of the desired listings and faults

ASSUME TwinAssumption == Twin \subseteq Hash
ASSUME RecreateAssumption == Recreate \in BOOLEAN
ASSUME BoundAssumption == MaxVersion \in Nat \ {0} /\ MaxChanges \in Nat

VARIABLES
  desired,    \* the desired listings
  market,     \* the version of each listing that backpack.tf has, 0 for none
  current,    \* the version that is recorded of it
  createQ, updateQ, deleteQ,   \* the queues
  events,     \* handlers of events that have not written to the queues yet
  batch,      \* the request that runs, one at a time (maxConcurrent of the limiter)
  plan,       \* the plan that is made
  changes

vars == <<desired, market, current, createQ, updateQ, deleteQ, events, batch, plan,
          changes>>
queues == <<createQ, updateQ, deleteQ>>

IdOf(h) == IF h \in Twin THEN CHOOSE t \in Twin : TRUE ELSE h
Id == {IdOf(h) : h \in Hash}

Version == 0..MaxVersion
Error == {"none", "other", "duplicate"}   \* duplicate is never retried, others are
Desired == [version : Version, id : BOOLEAN, error : Error]
Absent == [version |-> 0, id |-> FALSE, error |-> "none"]

Queue == {"none", "create", "update", "delete"}

\* removed : removedDesired             created : createdDesired
\* compare : currentListingsUpdated, which has yet to see what is desired
\* queue   : addedDesired or currentListingsUpdated, which know the queue
Event == [type : {"removed", "created", "compare", "queue"}, hash : Hash,
          version : Version, queue : Queue]

NoBatch == [kind |-> "none", step |-> "idle", id |-> "none", version |-> 0]
NoPlan == [step |-> "idle", current |-> [i \in Id |-> 0], desired |-> [h \in Hash |-> Absent],
           ids |-> [h \in Hash |-> "stay"]]

\* What a version that differs asks for
Differing(q) == q = "update" \/ (Recreate /\ q = "create")

Init ==
  /\ desired = [h \in Hash |-> Absent]
  /\ market = [i \in Id |-> 0]
  /\ current = [i \in Id |-> 0]
  /\ createQ = {} /\ updateQ = {} /\ deleteQ = {}
  /\ events = {}
  /\ batch = NoBatch
  /\ plan = NoPlan
  /\ changes = 0

-------------------------------------------------------------------------------
(* The desired listings; every change is a locked read-modify-write *)

Emit(type, h, version, queue) ==
  [type |-> type, hash |-> h, version |-> version, queue |-> queue]

\* saveDesired: what is known of the listing is inherited.  A listing that is
\* forced, or whose quantity changes, is created again; it may be forced as it is
AddDesired(h, v, q) ==
  LET d == desired[h]
  IN  /\ changes < MaxChanges
      /\ changes' = changes + 1
      /\ d.version # v \/ (Recreate /\ q = "create")
      /\ desired' = [desired EXCEPT ![h].version = v]
      /\ events' = IF d.error = "duplicate" THEN events
                   ELSE events \cup {Emit("queue", h, 0, IF d.id THEN q ELSE "create")}
      /\ Differing(q)
      /\ UNCHANGED <<market, current, queues, batch, plan>>

\* removeDesired; saveDesired removes listings in the same way
RemoveDesired(h) ==
  LET d == desired[h]
  IN  /\ changes < MaxChanges
      /\ changes' = changes + 1
      /\ d.version # 0
      /\ desired' = [desired EXCEPT ![h] = Absent]
      /\ events' = events \cup {Emit("removed", h, 0, IF d.id THEN "delete" ELSE "none")}
      /\ UNCHANGED <<market, current, queues, batch, plan>>

-------------------------------------------------------------------------------
(* Handlers *)

Put(q, h) ==
  /\ createQ' = IF q = "create" THEN createQ \cup {h} ELSE createQ
  /\ updateQ' = IF q = "update" THEN updateQ \cup {h} ELSE updateQ
  /\ deleteQ' = IF q = "delete" THEN deleteQ \cup {IdOf(h)} ELSE deleteQ

\* addedDesired, and the end of currentListingsUpdated
QueueListing(e) ==
  /\ e.type = "queue"
  /\ Put(e.queue, e.hash)
  /\ events' = events \ {e}
  /\ UNCHANGED <<desired, market, current, batch, plan, changes>>

RemovedDesired(e) ==
  /\ e.type = "removed"
  /\ createQ' = createQ \ {e.hash}
  /\ updateQ' = updateQ \ {e.hash}
  /\ deleteQ' = IF e.queue = "delete" THEN deleteQ \cup {IdOf(e.hash)} ELSE deleteQ
  /\ events' = events \ {e}
  /\ UNCHANGED <<desired, market, current, batch, plan, changes>>

\* createdDesired: a listing that was created again may still be queued to be deleted
CreatedDesired(e) ==
  /\ e.type = "created"
  /\ deleteQ' = deleteQ \ {IdOf(e.hash)}
  /\ events' = events \ {e}
  /\ UNCHANGED <<desired, market, current, createQ, updateQ, batch, plan, changes>>

\* Where a listing goes that was created or updated for h
Compared(h, version, q) ==
  LET d == desired[h]
  IN  CASE d.version = 0                  -> q = "delete"
        [] d.version # 0 /\ ~d.id         -> q = "create"
        [] d.id /\ d.error = "duplicate"  -> q = "delete"
        [] OTHER -> IF d.version = version THEN q = "none" ELSE Differing(q)

\* currentListingsUpdated after a listing was created
CurrentListingsUpdated(e, q) ==
  /\ e.type = "compare"
  /\ Compared(e.hash, e.version, q)
  /\ events' = (events \ {e}) \cup IF q = "none" THEN {} ELSE {Emit("queue", e.hash, 0, q)}
  /\ UNCHANGED <<desired, market, current, queues, batch, plan, changes>>

-------------------------------------------------------------------------------
(* Creating a listing *)

Go(step) == batch' = [batch EXCEPT !.step = step]
Begin(kind, x, step, version) ==
  /\ batch.step = "idle"
  /\ batch' = [kind |-> kind, step |-> step, id |-> x, version |-> version]

At(kind, step) == batch.kind = kind /\ batch.step = step

StartCreate(h) ==
  /\ h \in createQ
  /\ Begin("create", h, IF desired[h].version = 0 THEN "dequeue" ELSE "request", desired[h].version)
  /\ UNCHANGED <<desired, market, current, queues, events, plan, changes>>

\* backpack.tf creates the listing, or replaces it
RequestCreate ==
  /\ At("create", "request")
  /\ market' = [market EXCEPT ![IdOf(batch.id)] = batch.version]
  /\ Go("save")
  /\ UNCHANGED <<desired, current, queues, events, plan, changes>>

RefuseCreate ==
  /\ At("create", "request")
  /\ changes < MaxChanges
  /\ changes' = changes + 1
  /\ Go("refused")
  /\ UNCHANGED <<desired, market, current, queues, events, plan>>

SaveCreated ==
  /\ At("create", "save")
  /\ current' = [current EXCEPT ![IdOf(batch.id)] = batch.version]
  /\ Go("created")
  /\ UNCHANGED <<desired, market, queues, events, plan, changes>>

\* currentListingsFailed of the listener
SaveError ==
  /\ At("create", "refused")
  /\ desired' = IF desired[batch.id].version = 0 THEN desired
                ELSE [desired EXCEPT ![batch.id].error = "other"]
  /\ Go("dequeue")
  /\ UNCHANGED <<market, current, queues, events, plan, changes>>

\* currentListingsCreated of the listener: the id is saved, then both handlers of
\* desired-listings.created run, also when the desired listing is gone
SaveId ==
  LET h == batch.id
      found == desired[h].version # 0
  IN  /\ At("create", "created")
      /\ desired' = IF found THEN [desired EXCEPT ![h].id = TRUE, ![h].error = "none"] ELSE desired
      /\ events' = events \cup {Emit("compare", h, batch.version, "none")}
                          \cup (IF found THEN {Emit("created", h, 0, "none")} ELSE {})
      /\ Go("dequeue")
      /\ UNCHANGED <<market, current, queues, plan, changes>>

DequeueCreated ==
  /\ At("create", "dequeue")
  /\ createQ' = createQ \ {batch.id}
  /\ batch' = NoBatch
  /\ UNCHANGED <<desired, market, current, updateQ, deleteQ, events, plan, changes>>

-------------------------------------------------------------------------------
(* Updating a listing *)

StartUpdate(h) ==
  /\ h \in updateQ
  /\ Begin("update", h,
           IF desired[h].version = 0 THEN "dequeue" ELSE IF desired[h].id THEN "request" ELSE "failed",
           desired[h].version)
  /\ UNCHANGED <<desired, market, current, queues, events, plan, changes>>

RequestUpdate ==
  LET i == IdOf(batch.id)
  IN  /\ At("update", "request")
      /\ market' = IF market[i] = 0 THEN market ELSE [market EXCEPT ![i] = batch.version]
      /\ Go(IF market[i] = 0 THEN "failed" ELSE "save")
      /\ UNCHANGED <<desired, current, queues, events, plan, changes>>

SaveUpdated ==
  LET i == IdOf(batch.id)
  IN  /\ At("update", "save")
      /\ current' = IF current[i] = 0 THEN current ELSE [current EXCEPT ![i] = batch.version]
      /\ Go("compare")
      /\ UNCHANGED <<desired, market, queues, events, plan, changes>>

\* currentListingsUpdated, which updateListings waits for
CompareUpdated(q) ==
  /\ At("update", "compare")
  /\ Compared(batch.id, batch.version, q)
  /\ Go(IF q = "none" THEN "dequeue" ELSE q)
  /\ UNCHANGED <<desired, market, current, queues, events, plan, changes>>

QueueUpdated ==
  /\ batch.kind = "update"
  /\ batch.step \in {"create", "update", "delete"}
  /\ Put(batch.step, batch.id)
  /\ Go("dequeue")
  /\ UNCHANGED <<desired, market, current, events, plan, changes>>

\* A listing that could not be updated is queued to be created
DequeueUpdated ==
  /\ batch.kind = "update"
  /\ batch.step \in {"dequeue", "failed"}
  /\ updateQ' = updateQ \ {batch.id}
  /\ createQ' = IF batch.step = "failed" THEN createQ \cup {batch.id} ELSE createQ
  /\ batch' = NoBatch
  /\ UNCHANGED <<desired, market, current, deleteQ, events, plan, changes>>

-------------------------------------------------------------------------------
(* Deleting a listing *)

StartDelete(i) ==
  /\ i \in deleteQ
  /\ Begin("delete", i, "save", 0)
  /\ market' = [market EXCEPT ![i] = 0]
  /\ UNCHANGED <<desired, current, queues, events, plan, changes>>

SaveDeleted ==
  /\ At("delete", "save")
  /\ current' = [current EXCEPT ![batch.id] = 0]
  /\ Go("dequeue")
  /\ UNCHANGED <<desired, market, queues, events, plan, changes>>

DequeueDeleted ==
  /\ At("delete", "dequeue")
  /\ deleteQ' = deleteQ \ {batch.id}
  /\ batch' = NoBatch
  /\ UNCHANGED <<desired, market, current, createQ, updateQ, events, plan, changes>>

-------------------------------------------------------------------------------
(* Refreshes and plans *)

\* What a refresh comes to, see ListingRefresh
RefreshCurrent ==
  /\ batch.step # "save"
  /\ current # market
  /\ current' = market
  /\ UNCHANGED <<desired, market, queues, events, batch, plan, changes>>

\* The current and the desired listings are read at the same time
ReadCurrent ==
  /\ plan.step \in {"idle", "desired"}
  /\ plan' = [plan EXCEPT !.current = current, !.step = IF @ = "idle" THEN "current" ELSE "queue"]
  /\ UNCHANGED <<desired, market, current, queues, events, batch, changes>>

ReadDesired ==
  /\ plan.step \in {"idle", "current"}
  /\ plan' = [plan EXCEPT !.desired = desired, !.step = IF @ = "idle" THEN "desired" ELSE "queue"]
  /\ UNCHANGED <<desired, market, current, queues, events, batch, changes>>

-------------------------------------------------------------------------------
(* Faults and what others do; each counts as a change *)

Failure == changes < MaxChanges /\ changes' = changes + 1

\* The request has been made, but the job fails before all of its answer is
\* written: what it took is still queued, and it runs again
RetryBatch ==
  /\ Failure
  /\ batch.step # "idle"
  /\ batch' = NoBatch
  /\ UNCHANGED <<desired, market, current, queues, events, plan>>

\* The process stops: handlers are lost, jobs run again
Crash ==
  /\ Failure
  /\ batch' = NoBatch
  /\ plan' = NoPlan
  /\ events' = {}
  /\ UNCHANGED <<desired, market, current, queues>>

\* backpack.tf drops a listing, or its owner deletes it there
MarketDrops(i) ==
  /\ Failure
  /\ market[i] # 0
  /\ market' = [market EXCEPT ![i] = 0]
  /\ UNCHANGED <<desired, current, queues, events, batch, plan>>

-------------------------------------------------------------------------------
(* What the plan has read *)

WithId == {h \in Hash : plan.desired[h].version # 0 /\ plan.desired[h].id}
Duplicate(h) == plan.desired[h].error = "duplicate"
Recorded(h) == plan.current[IdOf(h)] # 0

\* Of the desired listings that share an id the first one keeps it.  (The hashes
\* come in no particular order.)
Keepers ==
  {K \in SUBSET {h \in WithId : ~Duplicate(h)} :
     \A h \in WithId : ~Duplicate(h) => Cardinality({k \in K : IdOf(k) = IdOf(h)}) = 1}

\* Mutant: all of those that share an id are duplicates
ChangeShared(keep, h) ==
  CASE Duplicate(h) -> "clear"
    [] ~Duplicate(h) /\ (h \notin keep \/ \E o \in WithId : o # h /\ IdOf(o) = IdOf(h)) -> "duplicate"
    [] OTHER -> IF Recorded(h) THEN "stay" ELSE "clear"

\* What becomes of the id of h: it stays, it goes, or it belongs to another one
Change(keep, h) ==
  CASE Duplicate(h) -> "clear"
    [] ~Duplicate(h) /\ h \notin keep -> "duplicate"
    [] h \in keep -> IF Recorded(h) THEN "stay" ELSE "clear"

\* Mutant: listings that failed are not created again
PlannedOnce(keep, h, q) ==
  LET d == plan.desired[h]
      marked == Duplicate(h) \/ (h \in WithId /\ h \notin keep)
      stays == h \in WithId /\ ~marked /\ Recorded(h)
  IN  CASE d.version = 0 \/ marked \/ d.error # "none" -> q = "none"
        [] d.version # 0 /\ ~marked /\ d.error = "none" /\ ~stays -> q = "create"
        [] OTHER -> IF plan.current[IdOf(h)] = d.version THEN q = "none" ELSE Differing(q)

\* The queue h belongs in
Planned(keep, h, q) ==
  LET d == plan.desired[h]
      marked == Duplicate(h) \/ (h \in WithId /\ h \notin keep)
      stays == h \in WithId /\ ~marked /\ Recorded(h)
  IN  CASE d.version = 0 \/ marked -> q = "none"
        [] d.version # 0 /\ ~marked /\ (~stays \/ d.error # "none") -> q = "create"
        [] OTHER -> IF plan.current[IdOf(h)] = d.version THEN q = "none" ELSE Differing(q)

\* Mutant: no listing is found to be undesired
UndesiredNone(keep) == {}

\* Mutant: listings that have to be updated are taken for undesired ones
UndesiredDiffering(keep) ==
  {i \in Id : plan.current[i] # 0 /\
     \A h \in keep : IdOf(h) = i => plan.desired[h].version # plan.current[i]}

Undesired(keep) ==
  {i \in Id : plan.current[i] # 0 /\ \A h \in keep : IdOf(h) # i}

QueuePlanned(keep, put) ==
  /\ plan.step = "queue"
  /\ keep \in Keepers
  /\ \A h \in Hash : Planned(keep, h, put[h])
  /\ createQ' = createQ \cup {h \in Hash : put[h] = "create"}
  /\ updateQ' = updateQ \cup {h \in Hash : put[h] = "update"}
  /\ deleteQ' = deleteQ \cup Undesired(keep)
  /\ plan' = [NoPlan EXCEPT !.step = "change",
                             !.ids = [h \in Hash |-> IF h \in WithId THEN Change(keep, h) ELSE "stay"]]
  /\ UNCHANGED <<desired, market, current, events, batch, changes>>

\* The ids that are gone are removed, unless the stored listing has lost it already
ChangeDesired ==
  /\ plan.step = "change"
  /\ desired' = [h \in Hash |->
       LET c == plan.ids[h]
       IN  IF c = "stay" \/ desired[h].version = 0 \/ ~desired[h].id THEN desired[h]
           ELSE [desired[h] EXCEPT !.id = FALSE, !.error = IF c = "duplicate" THEN c ELSE @]]
  /\ plan' = NoPlan
  /\ UNCHANGED <<market, current, queues, events, batch, changes>>

-------------------------------------------------------------------------------
Handle(e) ==
  \/ QueueListing(e) \/ RemovedDesired(e) \/ CreatedDesired(e)
  \/ \E q \in Queue : CurrentListingsUpdated(e, q)

Proceed ==
  \/ RequestCreate \/ SaveCreated \/ SaveError \/ SaveId \/ DequeueCreated
  \/ RequestUpdate \/ SaveUpdated \/ QueueUpdated \/ DequeueUpdated
  \/ SaveDeleted \/ DequeueDeleted
  \/ \E q \in Queue : CompareUpdated(q)

MakePlan ==
  \/ ReadCurrent \/ ReadDesired \/ ChangeDesired
  \/ \E keep \in SUBSET Hash, put \in [Hash -> Queue] : QueuePlanned(keep, put)

Next ==
  \/ \E h \in Hash : \/ \E v \in 1..MaxVersion, q \in Queue : AddDesired(h, v, q)
                     \/ RemoveDesired(h) \/ StartCreate(h) \/ StartUpdate(h)
  \/ \E i \in Id : StartDelete(i)
  \/ \E e \in events : Handle(e)
  \/ \E i \in Id : MarketDrops(i)
  \/ Proceed \/ RefuseCreate \/ RefreshCurrent \/ MakePlan \/ RetryBatch \/ Crash

Spec == Init /\ [][Next]_vars

\* Handlers and requests get on with it, queued work is taken (see ManageJobs),
\* and a registered agent is refreshed and planned for again and again
Fairness ==
  /\ \A h \in Hash : /\ WF_vars(\E e \in events : e.hash = h /\ Handle(e))
                     /\ SF_vars(StartCreate(h)) /\ SF_vars(StartUpdate(h))
  /\ \A i \in Id : SF_vars(StartDelete(i))
  /\ WF_vars(Proceed)
  /\ WF_vars(RefreshCurrent)
  /\ WF_vars(MakePlan)

FairSpec == Spec /\ Fairness

-------------------------------------------------------------------------------
(* Properties *)

\* A type invariant.
TypeOK ==
  /\ desired \in [Hash -> Desired]
  /\ \A h \in Hash : desired[h].version = 0 => desired[h] = Absent
  /\ market \in [Id -> Version] /\ current \in [Id -> Version]
  /\ createQ \subseteq Hash /\ updateQ \subseteq Hash /\ deleteQ \subseteq Id
  /\ events \subseteq Event

Matches(i) ==
  LET wanted == {h \in Hash : IdOf(h) = i /\ desired[h].version # 0}
  IN  IF wanted = {} THEN market[i] = 0 ELSE market[i] \in {desired[h].version : h \in wanted}

\* A plan is made while a request or a handler is under way
Overlap == plan.step # "idle" /\ (batch.step # "idle" \/ events # {})

\* When the desired listings are no longer changed, backpack.tf comes to have
\* exactly the desired listings, as desired, and it stays like that - whatever
\* handlers undid each other's work and whatever requests were refused.  It may
\* go on for ever only if plans keep being made just while requests run: such a
\* plan takes a listing that is being recorded for one nobody asked for.
Convergence == <>[]~Overlap => <>[](\A i \in Id : Matches(i))

\* The plan has read what is the case
UpToDate == plan.step = "queue" /\ plan.current = market /\ plan.desired = desired

\* A plan that has read what is the case leaves nothing out: every listing that
\* is not as desired gets into a queue that can put it right.
PlanComplete ==
  [][plan'.step = "change" /\ UpToDate =>
       \A i \in Id : \/ Matches(i)
                     \/ i \in deleteQ'
                     \/ \E h \in createQ' \cup updateQ' : IdOf(h) = i]_vars

\* Such a plan has no listing deleted that a desired listing owns.
PlanSpares ==
  [][plan'.step = "change" /\ UpToDate =>
       \A i \in deleteQ' \ deleteQ, h \in Hash :
         IdOf(h) = i => ~desired[h].id \/ desired[h].error = "duplicate"]_vars

Owners(i) == {h \in Hash : desired[h].id /\ IdOf(h) = i}

\* Desired listings that backpack.tf takes for the same listing are told apart: a
\* plan that has read what is the case leaves a listing that is there, and has
\* owners, to exactly one of them, and the others lose it.
OneOwner ==
  [][plan'.step = "change" /\ UpToDate =>
       \A i \in Id :
         LET owners == {h \in Owners(i) : desired[h].error # "duplicate"}
             staying == {h \in Owners(i) : plan'.ids[h] = "stay"}
         IN  IF market[i] # 0 /\ owners # {}
               THEN staying \subseteq owners /\ Cardinality(staying) = 1
               ELSE staying = {}]_vars

\* What is queued for a listing while it is being updated is not lost: when the
\* desired listing has changed meanwhile, it is still queued afterwards.
UpdatesPickedUp ==
  [][At("update", "dequeue") /\ batch' = NoBatch =>
       LET h == batch.id
       IN  \/ desired[h].version \in {0, batch.version} \/ ~desired[h].id
           \/ h \in createQ' \cup updateQ'
           \/ \E e \in events : e.hash = h]_vars
===============================================================================

---------------------------- MODULE ListingsProofs ----------------------------
(***************************************************************************)
(* What a plan does that has read what is the case: it leaves nothing out, *)
(* it has nothing deleted that is owned, and a listing several hashes come *)
(* to is left to one of them - for any desired listings, any of which may  *)
(* come to one listing of backpack.tf, any versions and any faults.        *)
(*                                                                         *)
(* The schema that items are read with has all of its parts               *)
(* whenever one is looked up, for any pages, versions, checks, deletions   *)
(* and failures of jobs.                                                   *)
(***************************************************************************)
EXTENDS MCListings, FiniteSetTheorems, WellFoundedInduction, TLAPS

Kind == {"none", "create", "update", "delete"}
BatchStep == {"idle", "dequeue", "request", "refused", "save", "created", "failed", "compare",
              "none", "create", "update", "delete"}
PlanStep == {"idle", "current", "desired", "queue", "change"}
Fate == {"stay", "clear", "duplicate"}

\* A request is for a hash that is desired, or for the id of a listing to delete.
BatchOK ==
  /\ batch \in [kind : Kind, step : BatchStep, id : Hash \cup Id \cup {"none"}, version : Version]
  /\ batch.kind \in {"create", "update"} => batch.id \in Hash
  /\ batch.kind = "delete" => batch.id \in Id

PlanOK ==
  plan \in [step : PlanStep, current : [Id -> Version], desired : [Hash -> Desired],
            ids : [Hash -> Fate]]

\* What is read of the desired listings has to be proper for what is written to be.
ListingsInv == TypeOK /\ BatchOK /\ PlanOK

-------------------------------------------------------------------------------
(* Types *)

LEMMA IdType == \A h \in Hash : IdOf(h) \in Id
  BY DEF Id

LEMMA AbsentType == Absent \in Desired /\ Absent.version = 0 /\ ~Absent.id /\ Absent.error = "none"
  BY BoundAssumption DEF Absent, Desired, Version, Error

LEMMA EmitType ==
  ASSUME NEW type \in {"removed", "created", "compare", "queue"}, NEW h \in Hash,
         NEW v \in Version, NEW q \in Queue
  PROVE  Emit(type, h, v, q) \in Event
  BY DEF Emit, Event

LEMMA ZeroType == 0 \in Version
  BY BoundAssumption DEF Version

\* Putting a listing in a queue
LEMMA PutType ==
  ASSUME TypeOK, NEW q, NEW h \in Hash, Put(q, h)
  PROVE  createQ' \subseteq Hash /\ updateQ' \subseteq Hash /\ deleteQ' \subseteq Id
  BY IdType DEF TypeOK, Put

\* A request goes on to another step, or is over.
LEMMA GoType ==
  ASSUME BatchOK, NEW s \in BatchStep, Go(s)
  PROVE  BatchOK'
  BY DEF BatchOK, Go

LEMMA NoBatchType == batch' = NoBatch => BatchOK'
  BY ZeroType DEF BatchOK, NoBatch, Kind, BatchStep

LEMMA NoPlanType ==
  /\ NoPlan.step = "idle" /\ NoPlan.current \in [Id -> Version]
  /\ NoPlan.desired = [h \in Hash |-> Absent] /\ NoPlan.ids = [h \in Hash |-> "stay"]
  /\ NoPlan \in [step : PlanStep, current : [Id -> Version], desired : [Hash -> Desired],
                 ids : [Hash -> Fate]]
  BY ZeroType, AbsentType DEF NoPlan, PlanStep, Fate

\* A fate of an id
LEMMA ChangeType ==
  ASSUME NEW keep, NEW h \in Hash
  PROVE  Change(keep, h) \in Fate
  BY DEF Change, Fate

\* The changes of the desired listings
LEMMA DesiredStep ==
  ASSUME ListingsInv, NEW h \in Hash,
         \/ RemoveDesired(h)
         \/ \E v \in 1..MaxVersion, q \in Queue : AddDesired(h, v, q)
  PROVE  ListingsInv'
<1> USE DEF ListingsInv
<1>1. ASSUME NEW v \in 1..MaxVersion, NEW q \in Queue, AddDesired(h, v, q) PROVE ListingsInv'
  <2>1. /\ desired' = [desired EXCEPT ![h].version = v]
        /\ UNCHANGED <<market, current, createQ, updateQ, deleteQ, batch, plan>>
    BY <1>1 DEF AddDesired, queues
  <2>2. v \in Version /\ v # 0 BY BoundAssumption DEF Version
  <2>3. desired' \in [Hash -> Desired] /\ \A i \in Hash : desired'[i].version = 0 => desired'[i] = Absent
    BY <2>1, <2>2 DEF TypeOK, Desired
  <2>4. Emit("queue", h, 0, IF desired[h].id THEN q ELSE "create") \in Event
    BY EmitType, ZeroType DEF Queue
  <2>5. events' \subseteq Event BY <1>1, <2>4 DEF AddDesired, TypeOK
  <2> QED BY <2>1, <2>3, <2>5 DEF TypeOK, BatchOK, PlanOK
<1>2. ASSUME RemoveDesired(h) PROVE ListingsInv'
  <2>1. /\ desired' = [desired EXCEPT ![h] = Absent]
        /\ UNCHANGED <<market, current, createQ, updateQ, deleteQ, batch, plan>>
    BY <1>2 DEF RemoveDesired, queues
  <2>2. desired' \in [Hash -> Desired] /\ \A i \in Hash : desired'[i].version = 0 => desired'[i] = Absent
    BY <2>1, AbsentType DEF TypeOK
  <2>3. Emit("removed", h, 0, IF desired[h].id THEN "delete" ELSE "none") \in Event
    BY EmitType, ZeroType DEF Queue
  <2>4. events' \subseteq Event BY <1>2, <2>3 DEF RemoveDesired, TypeOK
  <2> QED BY <2>1, <2>2, <2>4 DEF TypeOK, BatchOK, PlanOK
<1> QED BY <1>1, <1>2

\* The handlers of events
LEMMA HandleStep ==
  ASSUME ListingsInv, NEW e \in events, Handle(e)
  PROVE  ListingsInv'
<1> USE DEF ListingsInv
<1>0. e \in Event /\ e.hash \in Hash BY DEF TypeOK, Event
<1>1. CASE QueueListing(e)
  <2>1. createQ' \subseteq Hash /\ updateQ' \subseteq Hash /\ deleteQ' \subseteq Id
    BY <1>0, <1>1, PutType DEF QueueListing
  <2> QED BY <1>1, <2>1 DEF QueueListing, TypeOK, BatchOK, PlanOK
<1>2. CASE RemovedDesired(e)
  BY <1>0, <1>2, IdType DEF RemovedDesired, TypeOK, BatchOK, PlanOK
<1>3. CASE CreatedDesired(e)
  BY <1>0, <1>3 DEF CreatedDesired, TypeOK, BatchOK, PlanOK
<1>4. ASSUME NEW q \in Queue, CurrentListingsUpdated(e, q) PROVE ListingsInv'
  <2>1. Emit("queue", e.hash, 0, q) \in Event BY <1>0, EmitType, ZeroType
  <2> QED BY <1>4, <2>1 DEF CurrentListingsUpdated, TypeOK, BatchOK, PlanOK, queues
<1> QED BY <1>1, <1>2, <1>3, <1>4 DEF Handle

\* Requests to create a listing
LEMMA CreateStep ==
  ASSUME ListingsInv,
         \/ \E h \in Hash : StartCreate(h)
         \/ RequestCreate \/ RefuseCreate \/ SaveCreated \/ SaveError \/ SaveId \/ DequeueCreated
  PROVE  ListingsInv'
<1> USE DEF ListingsInv
<1>0. batch.kind = "create" => batch.id \in Hash /\ IdOf(batch.id) \in Id /\ batch.version \in Version
  BY IdType DEF BatchOK
<1>1. ASSUME NEW h \in Hash, StartCreate(h) PROVE ListingsInv'
  <2>1. desired[h].version \in Version BY DEF TypeOK, Desired
  <2>2. BatchOK' BY <1>1, <2>1 DEF StartCreate, Begin, BatchOK, Kind, BatchStep
  <2> QED BY <1>1, <2>2 DEF StartCreate, TypeOK, PlanOK, queues
<1>2. CASE RequestCreate
  <2>1. BatchOK' BY <1>2, GoType DEF RequestCreate, BatchStep
  <2> QED BY <1>0, <1>2, <2>1 DEF RequestCreate, At, TypeOK, PlanOK, queues
<1>3. CASE RefuseCreate
  <2>1. BatchOK' BY <1>3, GoType DEF RefuseCreate, BatchStep
  <2> QED BY <1>3, <2>1 DEF RefuseCreate, TypeOK, PlanOK, queues
<1>4. CASE SaveCreated
  <2>1. BatchOK' BY <1>4, GoType DEF SaveCreated, BatchStep
  <2> QED BY <1>0, <1>4, <2>1 DEF SaveCreated, At, TypeOK, PlanOK, queues
<1>5. CASE SaveError
  <2>1. BatchOK' BY <1>5, GoType DEF SaveError, BatchStep
  <2>2. desired' \in [Hash -> Desired] /\ \A i \in Hash : desired'[i].version = 0 => desired'[i] = Absent
    BY <1>0, <1>5 DEF SaveError, At, TypeOK, Desired, Error
  <2> QED BY <1>5, <2>1, <2>2 DEF SaveError, TypeOK, PlanOK, queues
<1>6. CASE SaveId
  <2>1. BatchOK' BY <1>6, GoType DEF SaveId, BatchStep
  <2>2. desired' \in [Hash -> Desired] /\ \A i \in Hash : desired'[i].version = 0 => desired'[i] = Absent
    BY <1>0, <1>6 DEF SaveId, At, TypeOK, Desired, Error
  <2>3. /\ Emit("compare", batch.id, batch.version, "none") \in Event
        /\ Emit("created", batch.id, 0, "none") \in Event
    BY <1>0, <1>6, EmitType, ZeroType DEF SaveId, At, Queue
  <2>4. events' \subseteq Event BY <1>6, <2>3 DEF SaveId, TypeOK
  <2> QED BY <1>6, <2>1, <2>2, <2>4 DEF SaveId, TypeOK, PlanOK, queues
<1>7. CASE DequeueCreated
  BY <1>7, NoBatchType DEF DequeueCreated, TypeOK, PlanOK
<1> QED BY <1>1, <1>2, <1>3, <1>4, <1>5, <1>6, <1>7

\* Requests to update a listing
LEMMA UpdateStep ==
  ASSUME ListingsInv,
         \/ \E h \in Hash : StartUpdate(h)
         \/ RequestUpdate \/ SaveUpdated \/ QueueUpdated \/ DequeueUpdated
         \/ \E q \in Queue : CompareUpdated(q)
  PROVE  ListingsInv'
<1> USE DEF ListingsInv
<1>0. batch.kind = "update" => batch.id \in Hash /\ IdOf(batch.id) \in Id /\ batch.version \in Version
  BY IdType DEF BatchOK
<1>1. ASSUME NEW h \in Hash, StartUpdate(h) PROVE ListingsInv'
  <2>1. desired[h].version \in Version BY DEF TypeOK, Desired
  <2>2. BatchOK' BY <1>1, <2>1 DEF StartUpdate, Begin, BatchOK, Kind, BatchStep
  <2> QED BY <1>1, <2>2 DEF StartUpdate, TypeOK, PlanOK, queues
<1>2. CASE RequestUpdate
  <2>1. BatchOK' BY <1>2, GoType DEF RequestUpdate, BatchStep
  <2> QED BY <1>0, <1>2, <2>1 DEF RequestUpdate, At, TypeOK, PlanOK, queues
<1>3. CASE SaveUpdated
  <2>1. BatchOK' BY <1>3, GoType DEF SaveUpdated, BatchStep
  <2> QED BY <1>0, <1>3, <2>1 DEF SaveUpdated, At, TypeOK, PlanOK, queues
<1>4. CASE QueueUpdated
  <2>1. BatchOK' BY <1>4, GoType DEF QueueUpdated, BatchStep
  <2>2. createQ' \subseteq Hash /\ updateQ' \subseteq Hash /\ deleteQ' \subseteq Id
    BY <1>0, <1>4, PutType DEF QueueUpdated
  <2> QED BY <1>4, <2>1, <2>2 DEF QueueUpdated, TypeOK, PlanOK
<1>5. CASE DequeueUpdated
  BY <1>0, <1>5, NoBatchType DEF DequeueUpdated, TypeOK, PlanOK
<1>6. ASSUME NEW q \in Queue, CompareUpdated(q) PROVE ListingsInv'
  <2>1. BatchOK' BY <1>6, GoType DEF CompareUpdated, BatchStep, Queue
  <2> QED BY <1>6, <2>1 DEF CompareUpdated, TypeOK, PlanOK, queues
<1> QED BY <1>1, <1>2, <1>3, <1>4, <1>5, <1>6

\* Requests to delete a listing, refreshes, and what others do
LEMMA DeleteStep ==
  ASSUME ListingsInv,
         \/ \E i \in Id : StartDelete(i) \/ MarketDrops(i)
         \/ SaveDeleted \/ DequeueDeleted \/ RefreshCurrent \/ RetryBatch \/ Crash
  PROVE  ListingsInv'
<1> USE DEF ListingsInv
<1>1. ASSUME NEW i \in Id, StartDelete(i) PROVE ListingsInv'
  <2>1. BatchOK' BY <1>1, ZeroType DEF StartDelete, Begin, BatchOK, Kind, BatchStep
  <2> QED BY <1>1, <2>1, ZeroType DEF StartDelete, TypeOK, PlanOK, queues
<1>2. ASSUME NEW i \in Id, MarketDrops(i) PROVE ListingsInv'
  BY <1>2, ZeroType DEF MarketDrops, TypeOK, BatchOK, PlanOK, queues
<1>3. CASE SaveDeleted
  <2>1. BatchOK' BY <1>3, GoType DEF SaveDeleted, BatchStep
  <2> QED BY <1>3, <2>1, ZeroType DEF SaveDeleted, At, TypeOK, PlanOK, BatchOK, queues
<1>4. CASE DequeueDeleted
  BY <1>4, NoBatchType DEF DequeueDeleted, TypeOK, PlanOK
<1>5. CASE RefreshCurrent
  BY <1>5 DEF RefreshCurrent, TypeOK, BatchOK, PlanOK, queues
<1>6. CASE RetryBatch
  BY <1>6, NoBatchType DEF RetryBatch, TypeOK, PlanOK, queues
<1>7. CASE Crash
  BY <1>7, NoBatchType, NoPlanType DEF Crash, TypeOK, PlanOK, queues
<1> QED BY <1>1, <1>2, <1>3, <1>4, <1>5, <1>6, <1>7

\* What a plan comes to
LEMMA QueueType ==
  ASSUME ListingsInv, NEW keep, NEW put, QueuePlanned(keep, put)
  PROVE  ListingsInv'
<1> USE DEF ListingsInv
<1>1. plan' = [NoPlan EXCEPT !.step = "change",
                             !.ids = [h \in Hash |-> IF h \in WithId THEN Change(keep, h) ELSE "stay"]]
  BY DEF QueuePlanned
<1>2. [h \in Hash |-> IF h \in WithId THEN Change(keep, h) ELSE "stay"] \in [Hash -> Fate]
  BY ChangeType DEF Fate
<1>3. PlanOK' BY <1>1, <1>2, NoPlanType DEF PlanOK, PlanStep
<1>4. createQ' \subseteq Hash /\ updateQ' \subseteq Hash /\ deleteQ' \subseteq Id
  BY DEF QueuePlanned, TypeOK, Undesired
<1> QED BY <1>3, <1>4 DEF QueuePlanned, TypeOK, BatchOK

LEMMA PlanTypeStep ==
  ASSUME ListingsInv, MakePlan
  PROVE  ListingsInv'
<1> USE DEF ListingsInv
<1>1. CASE ReadCurrent
  <2>1. PlanOK' BY <1>1 DEF ReadCurrent, PlanOK, PlanStep, TypeOK
  <2> QED BY <1>1, <2>1 DEF ReadCurrent, TypeOK, BatchOK, queues
<1>2. CASE ReadDesired
  <2>1. PlanOK' BY <1>2 DEF ReadDesired, PlanOK, PlanStep, TypeOK
  <2> QED BY <1>2, <2>1 DEF ReadDesired, TypeOK, BatchOK, queues
<1>3. CASE ChangeDesired
  <2>1. /\ desired' = [h \in Hash |->
             LET c == plan.ids[h]
             IN  IF c = "stay" \/ desired[h].version = 0 \/ ~desired[h].id THEN desired[h]
                 ELSE [desired[h] EXCEPT !.id = FALSE, !.error = IF c = "duplicate" THEN c ELSE @]]
        /\ plan' = NoPlan
    BY <1>3 DEF ChangeDesired
  <2>2. ASSUME NEW h \in Hash
        PROVE  desired'[h] \in Desired /\ (desired'[h].version = 0 => desired'[h] = Absent)
    BY <2>1 DEF TypeOK, Desired, Error
  <2>3. desired' \in [Hash -> Desired] BY <2>1, <2>2
  <2> QED BY <1>3, <2>1, <2>2, <2>3, NoPlanType DEF ChangeDesired, TypeOK, BatchOK, PlanOK, queues
<1> QED BY <1>1, <1>2, <1>3, QueueType DEF MakePlan

LEMMA InvInit == Init => ListingsInv
  BY ZeroType, AbsentType, NoBatchType, NoPlanType
  DEF Init, ListingsInv, TypeOK, BatchOK, PlanOK, NoBatch, Kind, BatchStep

LEMMA InvStep == ListingsInv /\ [Next]_vars => ListingsInv'
<1>1. ASSUME ListingsInv, UNCHANGED vars PROVE ListingsInv'
  BY <1>1 DEF vars, ListingsInv, TypeOK, BatchOK, PlanOK
<1> QED BY <1>1, DesiredStep, HandleStep, CreateStep, UpdateStep, DeleteStep, PlanTypeStep
    DEF Next, Proceed

\* The types of what is desired, of what is there and is recorded of it, and of what
\* is queued, for any listings; a desired listing that is gone leaves nothing behind.
THEOREM TypeCorrect == Spec => []TypeOK
<1>1. ListingsInv => TypeOK BY DEF ListingsInv
<1> QED BY <1>1, InvInit, InvStep, PTL DEF Spec

-------------------------------------------------------------------------------
(* Listings that share an id *)

\* Of the desired listings that share an id one keeps it.
LEMMA OneKeeper ==
  ASSUME NEW keep \in Keepers, NEW h \in WithId, ~Duplicate(h)
  PROVE  /\ Cardinality({k \in keep : IdOf(k) = IdOf(h)}) = 1
         /\ \E k \in keep : IdOf(k) = IdOf(h)
<1>1. Cardinality({k \in keep : IdOf(k) = IdOf(h)}) = 1 BY DEF Keepers
<1>2. {k \in keep : IdOf(k) = IdOf(h)} # {} BY <1>1, FS_EmptySet
<1> QED BY <1>1, <1>2

LEMMA KeepersOwn == \A keep \in Keepers : keep \subseteq {h \in WithId : ~Duplicate(h)}
  BY DEF Keepers

\* A step to "change" is that of a plan that has read everything.
LEMMA PlanStepIs ==
  ASSUME ListingsInv, [Next]_vars, plan'.step = "change", plan.step = "queue"
  PROVE  \E keep \in Keepers, put \in [Hash -> Queue] : QueuePlanned(keep, put)
<1>1. plan' # plan BY DEF ListingsInv, PlanOK
<1>2. CASE MakePlan
  <2>1. ~ReadCurrent /\ ~ReadDesired /\ ~ChangeDesired BY DEF ReadCurrent, ReadDesired, ChangeDesired
  <2> QED BY <1>2, <2>1 DEF MakePlan, QueuePlanned
<1>3. CASE Crash BY <1>3, NoPlanType DEF Crash
<1>4. CASE ~MakePlan /\ ~Crash
  <2>1. ASSUME \/ \E h \in Hash : \/ \E v \in 1..MaxVersion, q \in Queue : AddDesired(h, v, q)
                                  \/ RemoveDesired(h) \/ StartCreate(h) \/ StartUpdate(h)
               \/ \E i \in Id : StartDelete(i) \/ MarketDrops(i)
               \/ RefuseCreate \/ RefreshCurrent \/ RetryBatch
        PROVE  plan' = plan
    BY <2>1 DEF AddDesired, RemoveDesired, StartCreate, StartUpdate, StartDelete, MarketDrops,
                RefuseCreate, RefreshCurrent, RetryBatch
  <2>2. ASSUME NEW e \in events, Handle(e) PROVE plan' = plan
    BY <2>2 DEF Handle, QueueListing, RemovedDesired, CreatedDesired, CurrentListingsUpdated
  <2>3. ASSUME Proceed PROVE plan' = plan
    BY <2>3 DEF Proceed, RequestCreate, SaveCreated, SaveError, SaveId, DequeueCreated, RequestUpdate,
                SaveUpdated, QueueUpdated, DequeueUpdated, SaveDeleted, DequeueDeleted, CompareUpdated
  <2>4. ASSUME UNCHANGED vars PROVE plan' = plan BY <2>4 DEF vars
  <2> QED BY <1>1, <1>4, <2>1, <2>2, <2>3, <2>4 DEF Next
<1> QED BY <1>2, <1>3, <1>4

\* What the plan has read is the case: then a listing with an id that is no duplicate is
\* one of those of which one keeps the id.
LEMMA OwnersWithId ==
  ASSUME ListingsInv, UpToDate, NEW h \in Hash, desired[h].id
  PROVE  h \in WithId /\ (Duplicate(h) <=> desired[h].error = "duplicate")
<1>1. desired[h].version # 0 BY AbsentType DEF ListingsInv, TypeOK
<1> QED BY <1>1 DEF UpToDate, WithId, Duplicate

\* A plan has no listing deleted that a desired listing owns.
LEMMA PlanSparesStep ==
  ASSUME ListingsInv, UpToDate, NEW keep \in Keepers, NEW put, QueuePlanned(keep, put),
         NEW i \in deleteQ' \ deleteQ, NEW h \in Hash, IdOf(h) = i
  PROVE  ~desired[h].id \/ desired[h].error = "duplicate"
<1> SUFFICES ASSUME desired[h].id, desired[h].error # "duplicate" PROVE FALSE
  OBVIOUS
<1>1. h \in WithId /\ ~Duplicate(h) BY OwnersWithId
<1>2. \E k \in keep : IdOf(k) = i BY <1>1, OneKeeper
<1>3. i \in Undesired(keep) BY DEF QueuePlanned
<1> QED BY <1>2, <1>3 DEF Undesired

\* A plan that has read what is the case spares every listing that is owned, whichever
\* desired listings come to the same one and whatever ran meanwhile.
THEOREM PlansSpare == Spec => PlanSpares
<1>1. ListingsInv /\ [Next]_vars =>
        (plan'.step = "change" /\ UpToDate =>
           \A i \in deleteQ' \ deleteQ, h \in Hash :
             IdOf(h) = i => ~desired[h].id \/ desired[h].error = "duplicate")
  <2> SUFFICES ASSUME ListingsInv, [Next]_vars, plan'.step = "change", UpToDate,
                      NEW i \in deleteQ' \ deleteQ, NEW h \in Hash, IdOf(h) = i
               PROVE  ~desired[h].id \/ desired[h].error = "duplicate"
    OBVIOUS
  <2>1. PICK keep \in Keepers, put \in [Hash -> Queue] : QueuePlanned(keep, put)
    BY PlanStepIs DEF UpToDate
  <2> QED BY <2>1, PlanSparesStep
<1> QED BY <1>1, InvInit, InvStep, PTL DEF Spec, PlanSpares

\* What becomes of the id of h
LEMMA StayingIs ==
  ASSUME ListingsInv, UpToDate, NEW keep \in Keepers, NEW put, QueuePlanned(keep, put),
         NEW h \in Hash, desired[h].id
  PROVE  plan'.ids[h] = "stay" <=> h \in keep /\ market[IdOf(h)] # 0
<1>1. h \in WithId BY OwnersWithId
<1>2. plan'.ids = [i \in Hash |-> IF i \in WithId THEN Change(keep, i) ELSE "stay"]
  BY NoPlanType DEF QueuePlanned
<1>3. plan'.ids[h] = Change(keep, h) BY <1>1, <1>2
<1>4. h \in keep => ~Duplicate(h) BY KeepersOwn
<1>5. Recorded(h) <=> market[IdOf(h)] # 0 BY DEF Recorded, UpToDate
<1> QED BY <1>3, <1>4, <1>5 DEF Change

\* A listing that is there and has owners is left to one of them.
LEMMA OneOwnerStep ==
  ASSUME ListingsInv, UpToDate, NEW keep \in Keepers, NEW put, QueuePlanned(keep, put),
         NEW i \in Id
  PROVE  LET owners == {h \in Owners(i) : desired[h].error # "duplicate"}
             staying == {h \in Owners(i) : plan'.ids[h] = "stay"}
         IN  IF market[i] # 0 /\ owners # {}
               THEN staying \subseteq owners /\ Cardinality(staying) = 1
               ELSE staying = {}
<1> DEFINE owners == {h \in Owners(i) : desired[h].error # "duplicate"}
           staying == {h \in Owners(i) : plan'.ids[h] = "stay"}
           kept == {h \in keep : IdOf(h) = i}
<1>1. \A h \in Owners(i) : h \in Hash /\ desired[h].id /\ IdOf(h) = i BY DEF Owners
<1>2. \A h \in keep : h \in Hash /\ desired[h].id /\ desired[h].error # "duplicate"
  BY KeepersOwn DEF WithId, Duplicate, UpToDate
<1>3. \A h \in Owners(i) : plan'.ids[h] = "stay" <=> h \in keep /\ market[i] # 0
  BY <1>1, StayingIs
<1>4. kept \subseteq owners BY <1>2 DEF Owners
<1>5. CASE market[i] # 0 /\ owners # {}
  <2>1. staying = kept BY <1>1, <1>3, <1>4, <1>5
  <2>2. PICK h \in owners : TRUE BY <1>5
  <2>3. h \in WithId /\ ~Duplicate(h) /\ IdOf(h) = i BY <1>1, OwnersWithId
  <2>4. Cardinality(kept) = 1 BY <2>3, OneKeeper
  <2> QED BY <1>4, <1>5, <2>1, <2>4
<1>6. CASE ~(market[i] # 0 /\ owners # {})
  <2>1. staying = {} BY <1>1, <1>2, <1>3, <1>6
  <2> QED BY <1>6, <2>1
<1> QED BY <1>5, <1>6

\* Desired listings that backpack.tf takes for the same listing are told apart by such a
\* plan, however many there are: exactly one of its owners is left with it.
THEOREM OwnersAreToldApart == Spec => OneOwner
<1>1. ListingsInv /\ [Next]_vars =>
        (plan'.step = "change" /\ UpToDate =>
           \A i \in Id :
             LET owners == {h \in Owners(i) : desired[h].error # "duplicate"}
                 staying == {h \in Owners(i) : plan'.ids[h] = "stay"}
             IN  IF market[i] # 0 /\ owners # {}
                   THEN staying \subseteq owners /\ Cardinality(staying) = 1
                   ELSE staying = {})
  <2> SUFFICES ASSUME ListingsInv, [Next]_vars, plan'.step = "change", UpToDate, NEW i \in Id
               PROVE  LET owners == {h \in Owners(i) : desired[h].error # "duplicate"}
                          staying == {h \in Owners(i) : plan'.ids[h] = "stay"}
                      IN  IF market[i] # 0 /\ owners # {}
                            THEN staying \subseteq owners /\ Cardinality(staying) = 1
                            ELSE staying = {}
    OBVIOUS
  <2>1. PICK keep \in Keepers, put \in [Hash -> Queue] : QueuePlanned(keep, put)
    BY PlanStepIs DEF UpToDate
  <2> QED BY <2>1, OneOwnerStep
<1> QED BY <1>1, InvInit, InvStep, PTL DEF Spec, OneOwner

-------------------------------------------------------------------------------
(* Listings that share their id with no other *)

Alone(h) == \A o \in Hash : IdOf(o) = IdOf(h) => o = h

\* Such a listing is never marked as a duplicate, neither where it is stored nor in a
\* plan that is under way.
Unmarked ==
  \A h \in Hash : Alone(h) =>
    desired[h].error # "duplicate" /\ plan.desired[h].error # "duplicate" /\ plan.ids[h] # "duplicate"

\* It keeps its id when it has one.
LEMMA AloneKeeps ==
  ASSUME ListingsInv, Unmarked, NEW keep \in Keepers, NEW h \in WithId, Alone(h)
  PROVE  h \in keep /\ ~Duplicate(h)
<1>1. h \in Hash BY DEF WithId
<1>2. ~Duplicate(h) BY <1>1 DEF Unmarked, Duplicate
<1>3. PICK k \in keep : IdOf(k) = IdOf(h) BY <1>2, OneKeeper
<1>4. k \in Hash BY KeepersOwn DEF WithId
<1> QED BY <1>2, <1>3, <1>4 DEF Alone

\* Only a plan marks listings.
LEMMA MarksSteady ==
  ASSUME Unmarked, UNCHANGED plan,
         \A i \in Hash : desired'[i].error \in {desired[i].error, "none", "other"}
  PROVE  Unmarked'
  BY DEF Unmarked, Alone

LEMMA UnmarkedStep == ListingsInv /\ Unmarked /\ [Next]_vars => Unmarked'
<1> SUFFICES ASSUME ListingsInv, Unmarked, [Next]_vars PROVE Unmarked'
  OBVIOUS
<1>0. desired \in [Hash -> Desired] BY DEF ListingsInv, TypeOK
<1>1. ASSUME NEW h \in Hash, \/ RemoveDesired(h)
                             \/ \E v \in 1..MaxVersion, q \in Queue : AddDesired(h, v, q)
      PROVE  Unmarked'
  <2>1. UNCHANGED plan BY <1>1 DEF RemoveDesired, AddDesired
  <2>2. \A i \in Hash : desired'[i].error \in {desired[i].error, "none"}
    BY <1>0, <1>1, AbsentType DEF RemoveDesired, AddDesired, Desired
  <2> QED BY <2>1, <2>2, MarksSteady
<1>2. ASSUME SaveError \/ SaveId PROVE Unmarked'
  <2>1. UNCHANGED plan BY <1>2 DEF SaveError, SaveId
  <2>2. \A i \in Hash : desired'[i].error \in {desired[i].error, "none", "other"}
    BY <1>0, <1>2 DEF SaveError, SaveId, Desired
  <2> QED BY <2>1, <2>2, MarksSteady
<1>3. ASSUME UNCHANGED <<desired, plan>> PROVE Unmarked'
  BY <1>3 DEF Unmarked, Alone
<1>4. ASSUME ReadCurrent PROVE Unmarked'
  BY <1>4 DEF ReadCurrent, Unmarked, Alone, ListingsInv, PlanOK
<1>5. ASSUME ReadDesired PROVE Unmarked'
  BY <1>5 DEF ReadDesired, Unmarked, Alone, ListingsInv, PlanOK
<1>6. ASSUME ChangeDesired PROVE Unmarked'
  <2>1. \A h \in Hash : desired'[h].error # "duplicate" \/ desired'[h].error = desired[h].error
                                                       \/ plan.ids[h] = "duplicate"
    BY <1>0, <1>6 DEF ChangeDesired, Desired
  <2>2. \A h \in Hash : plan'.desired[h].error = "none" /\ plan'.ids[h] = "stay"
    BY <1>6, NoPlanType, AbsentType DEF ChangeDesired
  <2> QED BY <2>1, <2>2 DEF Unmarked, Alone
<1>7. ASSUME NEW keep, NEW put, QueuePlanned(keep, put) PROVE Unmarked'
  <2>1. /\ plan'.desired = [h \in Hash |-> Absent]
        /\ plan'.ids = [h \in Hash |-> IF h \in WithId THEN Change(keep, h) ELSE "stay"]
    BY <1>7, NoPlanType DEF QueuePlanned
  <2>2. keep \in Keepers /\ UNCHANGED desired BY <1>7 DEF QueuePlanned
  <2>3. ASSUME NEW h \in Hash, Alone(h) PROVE plan'.ids[h] # "duplicate"
    <3>1. CASE h \notin WithId BY <2>1, <3>1
    <3>2. CASE h \in WithId
      <4>1. h \in keep /\ ~Duplicate(h) BY <2>2, <2>3, <3>2, AloneKeeps
      <4> QED BY <2>1, <3>2, <4>1 DEF Change
    <3> QED BY <3>1, <3>2
  <2> QED BY <2>1, <2>2, <2>3, AbsentType DEF Unmarked, Alone
<1>8. ASSUME Crash PROVE Unmarked'
  BY <1>8, NoPlanType, AbsentType DEF Crash, Unmarked, Alone
<1>9. ASSUME \/ \E h \in Hash : StartCreate(h) \/ StartUpdate(h)
             \/ \E i \in Id : StartDelete(i) \/ MarketDrops(i)
             \/ RefuseCreate \/ RefreshCurrent \/ RetryBatch \/ UNCHANGED vars
      PROVE  UNCHANGED <<desired, plan>>
  BY <1>9 DEF StartCreate, StartUpdate, StartDelete, MarketDrops, RefuseCreate, RefreshCurrent,
              RetryBatch, vars
<1>10. ASSUME NEW e \in events, Handle(e) PROVE UNCHANGED <<desired, plan>>
  BY <1>10 DEF Handle, QueueListing, RemovedDesired, CreatedDesired, CurrentListingsUpdated
<1>11. ASSUME Proceed, ~SaveError, ~SaveId PROVE UNCHANGED <<desired, plan>>
  BY <1>11 DEF Proceed, RequestCreate, SaveCreated, DequeueCreated, RequestUpdate, SaveUpdated,
               QueueUpdated, DequeueUpdated, SaveDeleted, DequeueDeleted, CompareUpdated
<1> QED BY <1>1, <1>2, <1>3, <1>4, <1>5, <1>6, <1>7, <1>8, <1>9, <1>10, <1>11 DEF Next, MakePlan

LEMMA UnmarkedInit == Init => Unmarked
  BY AbsentType, NoPlanType DEF Init, Unmarked

\* A plan that has read what is the case leaves no listing of that kind out.
LEMMA PlanCompleteStep ==
  ASSUME ListingsInv, Unmarked, UpToDate, NEW keep \in Keepers, NEW put, QueuePlanned(keep, put),
         NEW h \in Hash, Alone(h)
  PROVE  Matches(IdOf(h)) \/ IdOf(h) \in deleteQ' \/ h \in createQ' \cup updateQ'
<1> DEFINE i == IdOf(h)
<1>1. i \in Id BY IdType
<1>2. plan.desired = desired /\ plan.current = market BY DEF UpToDate
<1>3. h \in WithId => h \in keep /\ ~Duplicate(h) BY AloneKeeps
<1>4. CASE desired[h].version = 0
  <2>1. \A k \in keep : IdOf(k) # i BY <1>2, <1>4, KeepersOwn DEF WithId, Alone
  <2>2. market[i] # 0 => i \in deleteQ' BY <1>1, <1>2, <2>1 DEF QueuePlanned, Undesired
  <2>3. {o \in Hash : IdOf(o) = i /\ desired[o].version # 0} = {} BY <1>4 DEF Alone
  <2> QED BY <2>2, <2>3 DEF Matches
<1>5. CASE desired[h].version # 0
  <2>1. {o \in Hash : IdOf(o) = i /\ desired[o].version # 0} = {h} BY <1>5 DEF Alone
  <2>2. market[i] = desired[h].version => Matches(i) BY <2>1 DEF Matches
  <2>3. ~Duplicate(h) BY <1>2 DEF Unmarked, Duplicate
  <2>4. Planned(keep, h, put[h]) BY DEF QueuePlanned
  <2>5. put[h] = "create" \/ Differing(put[h]) \/ market[i] = desired[h].version
    BY <1>2, <1>3, <1>5, <2>3, <2>4 DEF Planned
  <2>6. put[h] \in {"create", "update"} \/ Matches(i) BY <2>2, <2>5 DEF Differing
  <2>7. put[h] \in {"create", "update"} => h \in createQ' \cup updateQ' BY DEF QueuePlanned
  <2> QED BY <2>6, <2>7
<1> QED BY <1>4, <1>5

\* Where no two desired listings come to the same listing of backpack.tf, a plan that has
\* read what is the case leaves nothing out, however many listings there are, whatever is
\* asked for meanwhile and whatever fails.  (With two that do it may: see the run
\* listings_duplicate.)
THEOREM PlansAreComplete ==
  ASSUME \A s, t \in Twin : s = t
  PROVE  Spec => PlanComplete
<1>0. \A h \in Hash : Alone(h) BY DEF Alone, IdOf
<1>1. ListingsInv /\ Unmarked /\ [Next]_vars =>
        (plan'.step = "change" /\ UpToDate =>
           \A i \in Id : \/ Matches(i)
                         \/ i \in deleteQ'
                         \/ \E h \in createQ' \cup updateQ' : IdOf(h) = i)
  <2> SUFFICES ASSUME ListingsInv, Unmarked, [Next]_vars, plan'.step = "change", UpToDate, NEW i \in Id
               PROVE  Matches(i) \/ i \in deleteQ' \/ \E h \in createQ' \cup updateQ' : IdOf(h) = i
    OBVIOUS
  <2>1. PICK keep \in Keepers, put \in [Hash -> Queue] : QueuePlanned(keep, put)
    BY PlanStepIs DEF UpToDate
  <2>2. PICK h \in Hash : IdOf(h) = i BY DEF Id
  <2> QED BY <1>0, <2>1, <2>2, PlanCompleteStep
<1> QED BY <1>1, InvInit, InvStep, UnmarkedInit, UnmarkedStep, PTL DEF Spec, PlanComplete

-------------------------------------------------------------------------------
(* Schemas *)

SchemaBounds ==
  /\ LastPage \in Nat \ {0} /\ LastVersion \in Nat \ {0}
  /\ MaxTime \in Nat /\ MaxExtra \in Nat /\ MaxFaults \in Nat

DownloadJob == Schemas!FlowJob \cup Schemas!PageJob \cup Schemas!UrlJob
Download == [job : DownloadJob \cup {Schemas!Idle.job}, version : Schemas!Version \cup {0},
             names : SUBSET Schemas!Page, step : {"none", "fetched", "merged", "listed"}]
Parts == [file : BOOLEAN, overview : SUBSET Schemas!Version, itemsGame : SUBSET Schemas!Version,
          protoObjDefs : SUBSET {0}, items : [Schemas!Page -> SUBSET Schemas!Version],
          names : SUBSET Schemas!Page, tempSpells : SUBSET Schemas!Version,
          spells : SUBSET Schemas!Version,
          scoreTypes : SUBSET Schemas!Version, tempParts : SUBSET Schemas!Version,
          parts : SUBSET Schemas!Version]

\* A worker has a job of the queue, which no other worker has.
Working ==
  /\ jobs \subseteq DownloadJob
  /\ run \in [Worker -> Download]
  /\ \A w \in Worker : run[w] # Schemas!Idle =>
       /\ run[w].job \in jobs
       /\ run[w].step = "fetched" \/ (run[w].step = "merged" /\ run[w].job.name = "items")
                                  \/ (run[w].step = "listed" /\ run[w].job.name = "schema")
       /\ run[w].job.name # "proto_obj_defs" => run[w].version \in Schemas!Version
  /\ \A u, w \in Worker : run[u] # Schemas!Idle /\ run[u].job = run[w].job => u = w

Numbers ==
  /\ steam \in Schemas!Version /\ recent \in BOOLEAN /\ clock \in 0..MaxTime /\ flows \in Nat
  /\ extra \in 0..MaxExtra /\ faults \in 0..MaxFaults

Kept ==
  /\ saved \in [Schemas!Time -> Parts]
  /\ schemas \in
       [Schemas!Time -> [version : Schemas!Version, consistent : BOOLEAN] \cup {Schemas!Unlisted}]
  /\ told \subseteq Schemas!Time /\ deleted \subseteq Schemas!Time

SchemaTypes == Numbers /\ Working /\ Kept

\* The kinds of jobs have different names
LEMMA JobNames ==
  /\ \A j \in DownloadJob : j.time \in Schemas!Time /\ j.name # "none"
  /\ \A j \in DownloadJob : j.name = "url" => j \in Schemas!UrlJob
  /\ \A j \in DownloadJob : j.name = "items" => j \in Schemas!PageJob
  /\ \A j \in DownloadJob : j.name \notin {"url", "items"} => j \in Schemas!FlowJob
  /\ Schemas!Idle \in Download /\ Schemas!Idle.job.name = "none" /\ Schemas!Idle.step = "none"
  /\ Schemas!Idle.job \notin DownloadJob
  BY DEF DownloadJob, Schemas!FlowJob, Schemas!PageJob, Schemas!UrlJob, Schemas!Idle, Download

LEMMA NothingParts == Schemas!Nothing \in Parts
  BY DEF Schemas!Nothing, Parts

LEMMA SchemasInit == ASSUME SchemaBounds PROVE Schemas!Init => SchemaTypes
<1> SUFFICES ASSUME Schemas!Init PROVE SchemaTypes OBVIOUS
<1>1. Numbers
  <2>1. 1 \in Schemas!Version /\ 0 \in 0..MaxTime /\ 0 \in 0..MaxExtra /\ 0 \in 0..MaxFaults
    BY DEF SchemaBounds, Schemas!Version
  <2> QED BY <2>1 DEF Schemas!Init, Numbers
<1>2. Working BY JobNames DEF Schemas!Init, Working
<1>3. Kept BY NothingParts DEF Schemas!Init, Kept
<1> QED BY <1>1, <1>2, <1>3 DEF SchemaTypes

\* A check that starts
LEMMA Checking ==
  ASSUME SchemaBounds, SchemaTypes, NEW action, NEW stay, NEW left,
         Schemas!CreateJobs(action, stay, left)
  PROVE  /\ clock' \in 0..MaxTime /\ clock' = clock + 1 /\ clock' \in Schemas!Time
         /\ recent' \in BOOLEAN /\ faults' \in 0..MaxFaults
         /\ \/ jobs' = left
            \/ \E j \in Schemas!UrlJob : jobs' = stay \cup {j} /\ j.time = clock' /\ j.name = "url"
<1>1. clock \in 0..MaxTime /\ faults \in 0..MaxFaults BY DEF SchemaTypes, Numbers
<1>2. clock' = clock + 1 /\ clock' \in Schemas!Time /\ clock' \in 0..MaxTime /\ recent' \in BOOLEAN
  BY <1>1 DEF Schemas!CreateJobs, SchemaBounds, Schemas!Time
<1>3. faults' \in 0..MaxFaults BY <1>1 DEF Schemas!CreateJobs, Schemas!MayFail, SchemaBounds
<1>4. [name |-> "url", time |-> clock', force |-> action = "force"] \in Schemas!UrlJob
  <2>1. (action = "force") \in BOOLEAN OBVIOUS
  <2> DEFINE f == action = "force"
  <2>2. f \in BOOLEAN BY <2>1
  <2> HIDE DEF f
  <2>3. [name |-> "url", time |-> clock', force |-> f] \in Schemas!UrlJob
    BY <1>2, <2>2 DEF Schemas!UrlJob
  <2> QED BY <2>3 DEF f
<1>5. \/ jobs' = left
      \/ jobs' = stay \cup {[name |-> "url", time |-> clock', force |-> action = "force"]}
  BY DEF Schemas!CreateJobs
<1>6. ASSUME jobs' = stay \cup {[name |-> "url", time |-> clock', force |-> action = "force"]}
      PROVE  \E j \in Schemas!UrlJob : jobs' = stay \cup {j} /\ j.time = clock' /\ j.name = "url"
  BY <1>4, <1>6
<1> QED BY <1>2, <1>3, <1>5, <1>6

\* The jobs of a flow
LEMMA FlowJobs ==
  ASSUME SchemaBounds, flows' \in Nat, NEW t \in Schemas!Time, NEW v \in Schemas!Version
  PROVE  /\ Schemas!Flow(t, v) \subseteq Schemas!FlowJob \cup Schemas!PageJob
         /\ \A j \in Schemas!Flow(t, v) : j.time = t /\ j.version = v /\ j.flow = flows'
         /\ \A n \in {"schema", "overview", "items_game", "proto_obj_defs"} :
              [name |-> n, time |-> t, flow |-> flows', version |-> v, page |-> 0] \in
                Schemas!Flow(t, v)
         /\ [name |-> "items", time |-> t, flow |-> flows', version |-> v, page |-> 1] \in
              Schemas!Flow(t, v)
         /\ \A j \in Schemas!Flow(t, v) : j.name = "schema" =>
              j = [name |-> "schema", time |-> t, flow |-> flows', version |-> v, page |-> 0]
<1>1. 1 \in Schemas!Page BY DEF SchemaBounds, Schemas!Page
<1> QED BY <1>1 DEF Schemas!Flow, Schemas!FlowJob, Schemas!PageJob

\* A worker that has nothing to do, takes a job, goes on with it, or is done with it
LEMMA Taking ==
  ASSUME Working, NEW w \in Worker, NEW j \in jobs \ Schemas!Taken, NEW r \in Download,
         r.job = j, r.step = "fetched", j.name # "proto_obj_defs" => r.version \in Schemas!Version,
         run' = [run EXCEPT ![w] = r], UNCHANGED jobs
  PROVE  Working'
<1>1. \A u \in Worker : run'[u] = IF u = w THEN r ELSE run[u] BY DEF Working
<1>2. r # Schemas!Idle BY JobNames
<1>3. \A u \in Worker : run[u].job # j BY DEF Schemas!Taken
<1> QED BY <1>1, <1>2, <1>3, JobNames DEF Working

LEMMA GoingOn ==
  ASSUME Working, NEW w \in Worker, run[w] # Schemas!Idle, NEW r \in Download, r.job = run[w].job,
         r.version = run[w].version,
         \/ r.step = "merged" /\ r.job.name = "items"
         \/ r.step = "listed" /\ r.job.name = "schema",
         run' = [run EXCEPT ![w] = r], jobs \subseteq jobs', jobs' \subseteq DownloadJob
  PROVE  Working'
<1>1. \A u \in Worker : run'[u] = IF u = w THEN r ELSE run[u] BY DEF Working
<1>2. run' \in [Worker -> Download] BY DEF Working
<1> QED BY <1>1, <1>2 DEF Working

LEMMA Resting ==
  ASSUME Working, NEW w \in Worker, run' = [run EXCEPT ![w] = Schemas!Idle],
         \A j \in jobs : j \in jobs' \/ j = run[w].job, jobs' \subseteq DownloadJob
  PROVE  Working'
<1>1. \A u \in Worker : run'[u] = IF u = w THEN Schemas!Idle ELSE run[u] BY DEF Working
<1>2. run' \in [Worker -> Download] BY JobNames DEF Working
<1>3. ASSUME NEW u \in Worker, run'[u] # Schemas!Idle PROVE run'[u].job \in jobs'
  BY <1>1, <1>3 DEF Working
<1> QED BY <1>1, <1>2, <1>3, JobNames DEF Working

LEMMA WorkingGrows ==
  ASSUME Working, UNCHANGED run, jobs \subseteq jobs', jobs' \subseteq DownloadJob
  PROVE  Working'
  BY DEF Working

\* What is saved of a schema
LEMMA Saving ==
  ASSUME Kept, NEW t \in Schemas!Time, NEW s \in Parts, saved' = [saved EXCEPT ![t] = s],
         UNCHANGED <<schemas, told, deleted>>
  PROVE  Kept'
  BY DEF Kept

LEMMA PartsSaved ==
  ASSUME NEW s \in Parts, NEW v \in Schemas!Version, NEW p \in Schemas!Page,
         NEW names \in SUBSET Schemas!Page
  PROVE  /\ [s EXCEPT !.file = TRUE, !.overview = @ \cup {v}, !.scoreTypes = @ \cup {v}] \in Parts
         /\ [s EXCEPT !.items[p] = @ \cup {v}, !.tempParts = @ \cup {v}, !.names = names \cup {p}] \in Parts
         /\ [s EXCEPT !.protoObjDefs = {0}] \in Parts
         /\ [s EXCEPT !.itemsGame = @ \cup {v}, !.tempSpells = @ \cup {v}] \in Parts
         /\ [Schemas!Nothing EXCEPT !.file = s.file] \in Parts
         /\ [s EXCEPT !.file = FALSE] \in Parts
         /\ Schemas!Finished(s) \in Parts
<1>1. [s EXCEPT !.file = TRUE, !.overview = @ \cup {v}, !.scoreTypes = @ \cup {v}] \in Parts
  BY DEF Parts
<1>2. [s EXCEPT !.items[p] = @ \cup {v}, !.tempParts = @ \cup {v}, !.names = names \cup {p}] \in
        Parts
  BY DEF Parts
<1>3. [s EXCEPT !.protoObjDefs = {0}] \in Parts BY DEF Parts
<1>4. [s EXCEPT !.itemsGame = @ \cup {v}, !.tempSpells = @ \cup {v}] \in Parts BY DEF Parts
<1>5. [Schemas!Nothing EXCEPT !.file = s.file] \in Parts BY NothingParts DEF Parts
<1>6. [s EXCEPT !.file = FALSE] \in Parts BY DEF Parts
<1>7. Schemas!Finished(s) \in Parts BY DEF Schemas!Finished, Parts
<1> QED BY <1>1, <1>2, <1>3, <1>4, <1>5, <1>6, <1>7

\* What is known of a job in hand
LEMMA InHand ==
  ASSUME SchemaTypes, NEW w \in Worker, run[w] # Schemas!Idle
  PROVE  /\ run[w].job \in jobs /\ run[w].job \in DownloadJob /\ run[w].job.time \in Schemas!Time
         /\ run[w].version \in Schemas!Version \cup {0} /\ run[w].names \in SUBSET Schemas!Page
         /\ saved[run[w].job.time] \in Parts
         /\ run[w].job.name # "proto_obj_defs" => run[w].version \in Schemas!Version
  BY JobNames DEF SchemaTypes, Working, Kept, Download

LEMMA StepIsBusy ==
  ASSUME SchemaTypes, NEW w \in Worker, run[w].step # "none"
  PROVE  run[w] # Schemas!Idle
  BY JobNames

\* Checks, time and Steam
LEMMA ChecksAreTyped ==
  ASSUME SchemaBounds, SchemaTypes,
         \/ \E v \in Schemas!Version : Schemas!BotSchema(v)
         \/ \E action \in {"default", "check", "force"} : Schemas!RequestRefresh(action)
         \/ Schemas!Elapse \/ Schemas!Upgrade
  PROVE  SchemaTypes'
<1>1. ASSUME NEW action, Schemas!CreateJobs(action, jobs, jobs), Schemas!Bounded,
             UNCHANGED <<steam, flows, run, Schemas!kept>>
      PROVE  SchemaTypes'
  <2>1. /\ clock' \in 0..MaxTime /\ recent' \in BOOLEAN /\ faults' \in 0..MaxFaults
        /\ jobs' = jobs \/ \E j \in Schemas!UrlJob : jobs' = jobs \cup {j}
    BY <1>1, Checking
  <2>2. extra' \in 0..MaxExtra BY <1>1 DEF Schemas!Bounded, SchemaTypes, Numbers, SchemaBounds
  <2>3. Numbers' BY <1>1, <2>1, <2>2 DEF SchemaTypes, Numbers
  <2>4. jobs \subseteq jobs' /\ jobs' \subseteq DownloadJob
    BY <2>1 DEF SchemaTypes, Working, DownloadJob
  <2>5. Working' BY <1>1, <2>4, WorkingGrows DEF SchemaTypes
  <2>6. Kept' BY <1>1 DEF SchemaTypes, Kept, Schemas!kept
  <2> QED BY <2>3, <2>5, <2>6 DEF SchemaTypes
<1>2. ASSUME Schemas!Elapse PROVE SchemaTypes'
  BY <1>2 DEF Schemas!Elapse, Schemas!kept, SchemaTypes, Numbers, Working, Kept
<1>3. ASSUME Schemas!Upgrade PROVE SchemaTypes'
  <2>1. Numbers' BY <1>3 DEF Schemas!Upgrade, SchemaTypes, Numbers, Schemas!Version, SchemaBounds
  <2> QED BY <1>3, <2>1 DEF Schemas!Upgrade, Schemas!kept, SchemaTypes, Working, Kept
<1> QED BY <1>1, <1>2, <1>3 DEF Schemas!BotSchema, Schemas!RequestRefresh

\* Deletions
LEMMA DeletionsAreTyped ==
  ASSUME SchemaTypes, NEW t \in Schemas!Time, Schemas!DeleteSchema(t) \/ Schemas!DeleteFiles(t)
  PROVE  SchemaTypes'
<1>0. saved[t] \in Parts BY DEF SchemaTypes, Kept
<1>1. ASSUME Schemas!DeleteSchema(t) PROVE Kept'
  <2>1. [Schemas!Nothing EXCEPT !.file = saved[t].file] \in Parts BY <1>0, NothingParts DEF Parts
  <2> QED BY <1>1, <2>1 DEF Schemas!DeleteSchema, SchemaTypes, Kept
<1>2. ASSUME Schemas!DeleteFiles(t) PROVE Kept'
  <2>1. saved' = [saved EXCEPT ![t] = [saved[t] EXCEPT !.file = FALSE]]
    BY <1>2 DEF Schemas!DeleteFiles
  <2>2. [saved[t] EXCEPT !.file = FALSE] \in Parts BY <1>0 DEF Parts
  <2> QED BY <1>2, <2>1, <2>2, Saving DEF Schemas!DeleteFiles, SchemaTypes
<1>3. Numbers' /\ Working'
  BY DEF Schemas!DeleteSchema, Schemas!DeleteFiles, SchemaTypes, Numbers, Working
<1> QED BY <1>1, <1>2, <1>3 DEF SchemaTypes

\* A job that is started, that fails, or that starts a flow
LEMMA ProcessIsTyped ==
  ASSUME SchemaTypes, NEW w \in Worker, NEW j \in jobs, Schemas!Process(w, j)
  PROVE  SchemaTypes'
<1> DEFINE v == CASE j.name = "items_game" -> j.version
                   [] j.name = "proto_obj_defs" -> 0 [] OTHER -> steam
           r == [Schemas!Idle EXCEPT !.job = j, !.step = "fetched", !.version = v]
<1>1. j \in DownloadJob /\ j \in jobs \ Schemas!Taken BY DEF SchemaTypes, Working, Schemas!Process
<1>2. v \in Schemas!Version \cup {0} /\ (j.name # "proto_obj_defs" => v \in Schemas!Version)
  <2>1. steam \in Schemas!Version BY DEF SchemaTypes, Numbers
  <2>2. j.name = "items_game" => j.version \in Schemas!Version BY <1>1, JobNames DEF Schemas!FlowJob
  <2> QED BY <2>1, <2>2
<1>3. run' = [run EXCEPT ![w] = r] /\ UNCHANGED jobs BY DEF Schemas!Process
<1> HIDE DEF v
<1>4. r \in Download /\ r.job = j /\ r.step = "fetched" /\ r.version = v
  BY <1>1, <1>2, JobNames DEF Download
<1> HIDE DEF r
<1>5. Working' BY <1>1, <1>2, <1>3, <1>4, Taking DEF SchemaTypes
<1> QED BY <1>5 DEF Schemas!Process, Schemas!now, Schemas!kept, SchemaTypes, Numbers, Kept

LEMMA FailIsTyped ==
  ASSUME SchemaBounds, SchemaTypes, NEW w \in Worker, Schemas!Fail(w)
  PROVE  SchemaTypes'
<1>1. Working'
  <2>1. jobs' \subseteq DownloadJob BY DEF Schemas!Fail, SchemaTypes, Working
  <2> QED BY <2>1, Resting DEF Schemas!Fail, SchemaTypes
<1>2. faults' \in 0..MaxFaults
  BY DEF Schemas!Fail, Schemas!MayFail, SchemaTypes, Numbers, SchemaBounds
<1> QED BY <1>1, <1>2 DEF Schemas!Fail, Schemas!now, Schemas!kept, SchemaTypes, Numbers, Kept

LEMMA UpdateUrlIsTyped ==
  ASSUME SchemaBounds, SchemaTypes, NEW w \in Worker, Schemas!UpdateUrl(w)
  PROVE  SchemaTypes'
<1>1. run[w] # Schemas!Idle /\ run[w].job.name = "url"
  BY StepIsBusy DEF Schemas!UpdateUrl, Schemas!Fetched
<1>2. flows' \in Nat /\ faults' \in 0..MaxFaults
  BY DEF Schemas!UpdateUrl, Schemas!MayFail, SchemaTypes, Numbers, SchemaBounds
<1>3. run' = [run EXCEPT ![w] = Schemas!Idle] BY DEF Schemas!UpdateUrl, Schemas!Done
<1>4. run[w].job.time \in Schemas!Time BY <1>1, InHand
<1>u. run[w].job \in Schemas!UrlJob BY <1>1, InHand, JobNames
<1>5. run[w].version \in Schemas!Version BY <1>1 DEF SchemaTypes, Working
<1> QED
  <2>1. Schemas!Flow(run[w].job.time, run[w].version) \subseteq DownloadJob
    BY <1>2, <1>4, <1>5, FlowJobs DEF DownloadJob
  <2>2. jobs' \subseteq DownloadJob /\ \A j \in jobs : j \in jobs' \/ j = run[w].job
    BY <2>1 DEF Schemas!UpdateUrl, Schemas!Done, SchemaTypes, Working
  <2>3. Working' BY <1>3, <2>2, Resting DEF SchemaTypes
  <2> QED BY <1>2, <2>3 DEF Schemas!UpdateUrl, Schemas!kept, SchemaTypes, Numbers, Kept

\* A job that saves its part
LEMMA PartIsTyped ==
  ASSUME SchemaTypes, NEW w \in Worker,
         Schemas!UpdateOverview(w) \/ Schemas!UpdateItems(w) \/ Schemas!UpdateProtoObjDefs(w)
           \/ Schemas!UpdateItemsGame(w)
  PROVE  SchemaTypes'
<1> DEFINE t == run[w].job.time  s == saved[t]  v == run[w].version  n == run[w].names
<1>1. run[w] # Schemas!Idle
  BY StepIsBusy DEF Schemas!UpdateOverview, Schemas!UpdateItems, Schemas!UpdateProtoObjDefs,
                    Schemas!UpdateItemsGame, Schemas!Fetched
<1>2. t \in Schemas!Time /\ s \in Parts /\ n \in SUBSET Schemas!Page /\ run[w].job \in DownloadJob
  BY <1>1, InHand
<1>v. run[w].job.name # "proto_obj_defs" => v \in Schemas!Version BY <1>1, InHand
<1> HIDE DEF t, s, v, n
<1>3. \E r \in Parts : saved' = [saved EXCEPT ![t] = r]
  <2>1. CASE Schemas!UpdateOverview(w)
    <3>1. v \in Schemas!Version BY <1>v, <2>1 DEF Schemas!UpdateOverview, Schemas!Fetched
    <3>2. saved' = [saved EXCEPT ![t] = [s EXCEPT !.file = TRUE, !.overview = @ \cup {v}, !.scoreTypes = @ \cup {v}]]
      BY <2>1 DEF Schemas!UpdateOverview, Schemas!Save, t, s, v
    <3>3. [s EXCEPT !.file = TRUE, !.overview = @ \cup {v}, !.scoreTypes = @ \cup {v}] \in Parts
      BY <1>2, <3>1 DEF Parts
    <3> QED BY <3>2, <3>3
  <2>2. CASE Schemas!UpdateItems(w)
    <3>1. run[w].step = "merged" BY <2>2 DEF Schemas!UpdateItems
    <3>2. run[w].job.name = "items" BY <1>1, <3>1 DEF SchemaTypes, Working
    <3>3. run[w].job.page \in Schemas!Page BY <1>2, <3>2, JobNames DEF Schemas!PageJob
    <3> DEFINE p == run[w].job.page
    <3>4. v \in Schemas!Version /\ p \in Schemas!Page BY <1>v, <3>2, <3>3
    <3>5. saved' = [saved EXCEPT ![t] = [s EXCEPT !.items[p] = @ \cup {v}, !.tempParts = @ \cup {v},
                                                  !.names = n \cup {p}]]
      BY <2>2 DEF Schemas!UpdateItems, Schemas!Save, t, s, v, n
    <3> HIDE DEF p
    <3>6. [s EXCEPT !.items[p] = @ \cup {v}, !.tempParts = @ \cup {v}, !.names = n \cup {p}] \in
            Parts
      BY <1>2, <3>4 DEF Parts
    <3> QED BY <3>5, <3>6
  <2>3. CASE Schemas!UpdateProtoObjDefs(w)
    <3>1. saved' = [saved EXCEPT ![t] = [s EXCEPT !.protoObjDefs = {0}]]
      BY <2>3 DEF Schemas!UpdateProtoObjDefs, Schemas!Save, t, s
    <3>2. [s EXCEPT !.protoObjDefs = {0}] \in Parts BY <1>2 DEF Parts
    <3> QED BY <3>1, <3>2
  <2>4. CASE Schemas!UpdateItemsGame(w)
    <3>1. v \in Schemas!Version BY <1>v, <2>4 DEF Schemas!UpdateItemsGame, Schemas!Fetched
    <3>2. saved' = [saved EXCEPT ![t] = [s EXCEPT !.itemsGame = @ \cup {v}, !.tempSpells = @ \cup {v}]]
      BY <2>4 DEF Schemas!UpdateItemsGame, Schemas!Save, t, s, v
    <3>3. [s EXCEPT !.itemsGame = @ \cup {v}, !.tempSpells = @ \cup {v}] \in Parts
      BY <1>2, <3>1 DEF Parts
    <3> QED BY <3>2, <3>3
  <2> QED BY <2>1, <2>2, <2>3, <2>4
<1>4. Schemas!Done(w, jobs) /\ UNCHANGED <<Schemas!now, schemas, told, deleted, faults>>
  BY DEF Schemas!UpdateOverview, Schemas!UpdateItems, Schemas!UpdateProtoObjDefs,
         Schemas!UpdateItemsGame
<1>5. Kept'
  <2>1. PICK r \in Parts : saved' = [saved EXCEPT ![t] = r] BY <1>3
  <2> QED BY <1>2, <1>4, <2>1, Saving DEF SchemaTypes
<1>6. Working'
  <2>1. jobs' \subseteq DownloadJob /\ \A j \in jobs : j \in jobs' \/ j = run[w].job
    BY <1>4 DEF Schemas!Done, SchemaTypes, Working
  <2> QED BY <1>4, <2>1, Resting DEF Schemas!Done, SchemaTypes
<1> QED BY <1>4, <1>5, <1>6 DEF Schemas!now, SchemaTypes, Numbers

\* A page whose names have been read
LEMMA MergeIsTyped ==
  ASSUME SchemaBounds, SchemaTypes, NEW w \in Worker, Schemas!MergeNames(w)
  PROVE  SchemaTypes'
<1> DEFINE j == run[w].job  r == [run[w] EXCEPT !.step = "merged", !.names = saved[j.time].names]
<1>1. run[w] # Schemas!Idle /\ j.name = "items"
  BY StepIsBusy DEF Schemas!MergeNames, Schemas!Fetched
<1>2. j \in Schemas!PageJob /\ j \in jobs /\ saved[j.time] \in Parts BY <1>1, InHand, JobNames
<1>3. run' = [run EXCEPT ![w] = r]
  BY DEF Schemas!MergeNames, SchemaTypes, Working
<1>4. run[w] \in Download BY DEF SchemaTypes, Working
<1>5. r \in Download /\ r.job = j /\ r.step = "merged" /\ r.version = run[w].version
  BY <1>2, <1>4 DEF Download, Parts
<1>6. j.page < LastPage => Schemas!NextPage(j) \in Schemas!PageJob
  <2>1. j.page \in Schemas!Page BY <1>2 DEF Schemas!PageJob
  <2>2. j.page < LastPage => j.page + 1 \in Schemas!Page BY <2>1 DEF Schemas!Page, SchemaBounds
  <2> HIDE DEF j
  <2> QED BY <1>2, <2>2 DEF Schemas!NextPage, Schemas!PageJob
<1>7. jobs \subseteq jobs' /\ jobs' \subseteq DownloadJob
  BY <1>6 DEF Schemas!MergeNames, SchemaTypes, Working, DownloadJob
<1> HIDE DEF r
<1>8. Working' BY <1>1, <1>3, <1>5, <1>7, GoingOn DEF SchemaTypes
<1> QED BY <1>8 DEF Schemas!MergeNames, Schemas!now, Schemas!kept, SchemaTypes, Numbers, Kept

\* The last job
LEMMA ListIsTyped ==
  ASSUME SchemaTypes, NEW w \in Worker, Schemas!ListSchema(w)
  PROVE  SchemaTypes'
<1> DEFINE j == run[w].job  r == [run[w] EXCEPT !.step = "listed"]
           x == [version |-> j.version, consistent |-> j.version = run[w].version]
<1>1. run[w] # Schemas!Idle /\ j.name = "schema"
  BY StepIsBusy DEF Schemas!ListSchema, Schemas!Fetched
<1>2. j \in Schemas!FlowJob /\ j.time \in Schemas!Time /\ saved[j.time] \in Parts
  BY <1>1, InHand, JobNames
<1>3. run[w] \in Download /\ run' = [run EXCEPT ![w] = r]
  BY DEF Schemas!ListSchema, SchemaTypes, Working
<1>4. r \in Download /\ r.job = j /\ r.step = "listed" /\ r.version = run[w].version
  BY <1>3 DEF Download
<1>5. jobs' = jobs /\ jobs \subseteq DownloadJob BY DEF Schemas!ListSchema, SchemaTypes, Working
<1>6. Working'
  <2> HIDE DEF r
  <2> QED BY <1>1, <1>3, <1>4, <1>5, GoingOn DEF SchemaTypes
<1>7. x \in [version : Schemas!Version, consistent : BOOLEAN]
  <2>1. j.version \in Schemas!Version BY <1>2 DEF Schemas!FlowJob
  <2>2. (j.version = run[w].version) \in BOOLEAN OBVIOUS
  <2> DEFINE b == j.version = run[w].version
  <2>3. b \in BOOLEAN BY <2>2
  <2> HIDE DEF b, j
  <2>4. [version |-> j.version, consistent |-> b] \in
          [version : Schemas!Version, consistent : BOOLEAN]
    BY <2>1, <2>3
  <2> QED BY <2>4 DEF b
<1>8. Schemas!Finished(saved[j.time]) \in Parts
  <2> DEFINE s == saved[j.time]
  <2>1. s \in Parts BY <1>2
  <2> HIDE DEF s
  <2>2. Schemas!Finished(s) \in Parts BY <2>1 DEF Schemas!Finished, Parts
  <2> QED BY <2>2 DEF s
<1>9. Kept'
  <2>1. saved' = [saved EXCEPT ![j.time] = Schemas!Finished(saved[j.time])]
          /\ schemas' = [schemas EXCEPT ![j.time] = x]
    BY DEF Schemas!ListSchema, Schemas!Save
  <2> HIDE DEF j, x
  <2> QED BY <1>2, <1>7, <1>8, <2>1 DEF Schemas!ListSchema, SchemaTypes, Kept
<1> QED BY <1>6, <1>9 DEF Schemas!ListSchema, Schemas!now, SchemaTypes, Numbers

LEMMA PublishIsTyped ==
  ASSUME SchemaBounds, SchemaTypes, NEW w \in Worker, Schemas!PublishSchema(w)
  PROVE  SchemaTypes'
<1> DEFINE j == run[w].job
<1>1. run[w] # Schemas!Idle BY StepIsBusy DEF Schemas!PublishSchema
<1>2. j.time \in Schemas!Time BY <1>1, InHand
<1>3. run' = [run EXCEPT ![w] = Schemas!Idle] BY DEF Schemas!PublishSchema
<1>4. /\ clock' \in 0..MaxTime /\ recent' \in BOOLEAN /\ faults' \in 0..MaxFaults
      /\ jobs' \subseteq DownloadJob /\ \A i \in jobs : i \in jobs' \/ i = j
  <2>1. CASE Schemas!CreateJobs("force", jobs \ {j}, jobs)
    <3>1. jobs' = jobs \/ \E i \in Schemas!UrlJob : jobs' = (jobs \ {j}) \cup {i} BY <2>1, Checking
    <3> QED BY <2>1, <3>1, Checking DEF SchemaTypes, Working, DownloadJob
  <2>2. CASE jobs' = jobs \ {j} /\ UNCHANGED <<recent, clock, faults>>
    BY <2>2 DEF SchemaTypes, Working, Numbers
  <2> QED BY <2>1, <2>2 DEF Schemas!PublishSchema
<1>5. Working' BY <1>3, <1>4, Resting DEF SchemaTypes
<1>6. Kept' BY <1>2 DEF Schemas!PublishSchema, SchemaTypes, Kept
<1> QED BY <1>4, <1>5, <1>6 DEF Schemas!PublishSchema, SchemaTypes, Numbers

LEMMA SchemaTypesStep ==
  ASSUME SchemaBounds, SchemaTypes, [Schemas!Next]_(Schemas!vars)
  PROVE  SchemaTypes'
<1>1. ASSUME UNCHANGED Schemas!vars PROVE SchemaTypes'
  BY <1>1 DEF Schemas!vars, SchemaTypes, Numbers, Working, Kept
<1> QED BY <1>1, ChecksAreTyped, DeletionsAreTyped, ProcessIsTyped, FailIsTyped, UpdateUrlIsTyped, PartIsTyped,
           MergeIsTyped, ListIsTyped, PublishIsTyped DEF Schemas!Next, Schemas!Works

LEMMA SchemaTyped == ASSUME SchemaBounds PROVE SchemaTypes => Schemas!TypeOK
<1> SUFFICES ASSUME SchemaTypes PROVE Schemas!TypeOK OBVIOUS
<1>1. \A w \in Worker : run[w].job \in jobs \cup {Schemas!Idle.job} BY DEF SchemaTypes, Working
<1>2. run \in [Worker -> [job : jobs \cup {Schemas!Idle.job}, version : Schemas!Version \cup {0},
                          names : SUBSET Schemas!Page,
                          step : {"none", "fetched", "merged", "listed"}]]
  BY <1>1 DEF SchemaTypes, Working, Download
<1>3. clock \in Schemas!Time \cup {0} BY DEF SchemaTypes, Numbers, Schemas!Time, SchemaBounds
<1> QED BY <1>2, <1>3 DEF SchemaTypes, Numbers, Working, Kept, Schemas!TypeOK, Parts, DownloadJob

\* Downloads and what is kept of them are told in type, for any workers, pages, versions,
\* checks, deletions and faults: what a worker does is a job of the queue.
THEOREM SchemaTypeCorrect == ASSUME SchemaBounds PROVE Schemas!Spec => []Schemas!TypeOK
<1>1. Schemas!Init => SchemaTypes BY SchemasInit
<1>2. SchemaTypes /\ [Schemas!Next]_(Schemas!vars) => SchemaTypes' BY SchemaTypesStep
<1> QED BY <1>1, <1>2, SchemaTyped, PTL DEF Schemas!Spec

\* Together: a behaviour is of one of them, and the other stays as it begins.
LEMMA OneOfThem ==
  [MCNext]_<<component, vars, downloads>> => [Next]_vars /\ [Schemas!Next]_(Schemas!vars)
  BY DEF MCNext, OfListings, OfSchemas, downloads, Schemas!vars

\* Desired listings and schemas keep their types side by side, for any values of the
\* constants of either.
THEOREM TypesCorrect == ASSUME SchemaBounds PROVE MCSpec => []TypesOK
<1>1. MCInit => ListingsInv /\ SchemaTypes BY InvInit, SchemasInit DEF MCInit
<1>2. ListingsInv /\ SchemaTypes /\ [MCNext]_<<component, vars, downloads>> =>
        (ListingsInv /\ SchemaTypes)'
  BY OneOfThem, InvStep, SchemaTypesStep
<1>3. ListingsInv /\ SchemaTypes => TypesOK BY SchemaTyped DEF ListingsInv, TypesOK
<1> QED BY <1>1, <1>2, <1>3, PTL DEF MCSpec

-------------------------------------------------------------------------------
(* A schema that is listed has all of its parts *)

\* One worker, and a check never fails when it has started its flow
OneByOne == (\A u, w \in Worker : u = w) /\ "url" \notin Fault

JobsAt(t) == {j \in jobs : j.time = t}
Fresh(t) == saved[t] = Schemas!Nothing /\ schemas[t] = Schemas!Unlisted

\* x is the version of something that has been saved
Came(s, x) ==
  \/ x \in s.overview \/ x \in s.itemsGame \/ x \in s.tempSpells \/ x \in s.spells
  \/ x \in s.scoreTypes \/ x \in s.tempParts \/ x \in s.parts
  \/ \E p \in Schemas!Page : x \in s.items[p]

HasOverview(s) == s.file /\ s.overview # {} /\ (s.scoreTypes # {} \/ s.parts # {})
HasItemsGame(s) == s.itemsGame # {} /\ (s.tempSpells # {} \/ s.spells # {})
HasPage(s, p) == s.items[p] # {} /\ p \in s.names /\ (s.tempParts # {} \/ s.parts # {})

Complete(s) ==
  /\ s.file /\ s.protoObjDefs # {} /\ s.names = Schemas!Page
  /\ s.overview # {} /\ s.itemsGame # {} /\ s.spells # {} /\ s.parts # {}
  /\ \A p \in Schemas!Page : s.items[p] # {}

\* The last job of a flow is there as long as any of its jobs, and all have its version.
Last(t, j) ==
  /\ j \in JobsAt(t) /\ j.name = "schema"
  /\ \A i \in JobsAt(t) : i.name # "url" /\ i.flow = j.flow /\ i.version = j.version
       /\ (i.name = "schema" => i = j)

Phase(t) ==
  /\ \/ JobsAt(t) = {}
     \/ Fresh(t) /\ \E j \in JobsAt(t) : j.name = "url" /\ JobsAt(t) = {j}
     \/ \E j \in JobsAt(t) : Last(t, j)
  /\ t > clock => JobsAt(t) = {} /\ Fresh(t)

\* A part is saved, or a job that will save it is there
Waits(t, n) == \E i \in JobsAt(t) : i.name = n
PageWaits(t, p) == \E i \in JobsAt(t) : i.name = "items" /\ i.page <= p

InParts(t) ==
  Waits(t, "schema") /\ t \notin deleted =>
    /\ Waits(t, "overview") \/ HasOverview(saved[t])
    /\ Waits(t, "items_game") \/ HasItemsGame(saved[t])
    /\ Waits(t, "proto_obj_defs") \/ saved[t].protoObjDefs # {}
    /\ \A p \in Schemas!Page : PageWaits(t, p) \/ HasPage(saved[t], p)

\* What is saved came between the check and now
InVersions(t) ==
  \A j \in JobsAt(t) : j.name # "url" =>
    /\ j.version <= steam
    /\ \A x \in Schemas!Version : Came(saved[t], x) => j.version <= x /\ x <= steam

IsListed(t) ==
  schemas[t] # Schemas!Unlisted /\ t \notin deleted =>
    /\ Complete(saved[t])
    /\ schemas[t].consistent => \A x \in Schemas!Version : Came(saved[t], x) =>
          x = schemas[t].version
    /\ \A i \in JobsAt(t) : i.name = "schema"

OneTime(t) == Phase(t) /\ InParts(t) /\ InVersions(t) /\ IsListed(t)

\* What a worker goes on with
OneRun(w) ==
  LET j == run[w].job  t == j.time  v == run[w].version IN
  run[w] # Schemas!Idle =>
    /\ j.name = "url" => v <= steam
    /\ j.name \in {"overview", "items", "items_game"} => j.version <= v /\ v <= steam
    /\ j.name = "schema" =>
         /\ \A i \in JobsAt(t) : i.name = "schema"
         /\ \A x \in Schemas!Version : Came(saved[t], x) => x <= v
    /\ run[w].step = "merged" =>
         /\ t \notin deleted => run[w].names = saved[t].names
         /\ j.page < LastPage => \E i \in JobsAt(t) : i.name = "items" /\ i.page = j.page + 1

WholeInv == (\A t \in Schemas!Time : OneTime(t)) /\ (\A w \in Worker : OneRun(w))

\* Nothing came before anything was saved
LEMMA NothingCame == \A x : ~Came(Schemas!Nothing, x)
  BY DEF Came, Schemas!Nothing

LEMMA WholeInit == ASSUME SchemaBounds PROVE Schemas!Init => WholeInv
<1> SUFFICES ASSUME Schemas!Init PROVE WholeInv OBVIOUS
<1>1. \A t \in Schemas!Time : JobsAt(t) = {} /\ Fresh(t) BY DEF Schemas!Init, JobsAt, Fresh
<1>2. ASSUME NEW t \in Schemas!Time PROVE OneTime(t)
  BY <1>1 DEF OneTime, Phase, InParts, InVersions, IsListed, Waits, Fresh
<1>3. \A w \in Worker : OneRun(w) BY DEF Schemas!Init, OneRun
<1> QED BY <1>2, <1>3 DEF WholeInv

\* What stays, stays as it was
LEMMA Elsewhere ==
  ASSUME SchemaTypes, NEW t \in Schemas!Time, OneTime(t), JobsAt(t)' = JobsAt(t),
         saved'[t] = saved[t], schemas'[t] = schemas[t],
         clock' \in Nat, clock <= clock', steam' \in Nat, steam <= steam',
         deleted \subseteq deleted'
  PROVE  OneTime(t)'
<1>n. clock \in Nat /\ steam \in Nat /\ t \in Nat
  BY DEF SchemaTypes, Numbers, Schemas!Version, Schemas!Time
<1>1. Phase(t)'
  <2>1. t > clock' => t > clock BY <1>n
  <2>2. \A j \in JobsAt(t) : Last(t, j) => Last(t, j)' BY DEF Last
  <2> QED BY <2>1, <2>2 DEF OneTime, Phase, Fresh
<1>2. InParts(t)' BY DEF OneTime, InParts, Waits, PageWaits
<1>3. InVersions(t)'
  <2> SUFFICES ASSUME NEW j \in JobsAt(t), j.name # "url"
               PROVE  j.version <= steam' /\ \A x \in Schemas!Version : Came(saved[t], x) =>
                     j.version <= x /\ x <= steam'
    BY DEF InVersions
  <2>1. Last(t, j) \/ \E i \in JobsAt(t) : Last(t, i) BY DEF OneTime, Phase
  <2>2. j \in DownloadJob /\ j.name # "url" BY DEF JobsAt, SchemaTypes, Working
  <2>3. j.version \in Schemas!Version BY <2>2, JobNames DEF Schemas!FlowJob, Schemas!PageJob
  <2>4. \A x \in Schemas!Version : x \in Nat BY DEF Schemas!Version
  <2> QED BY <1>n, <2>3, <2>4 DEF OneTime, InVersions
<1>4. IsListed(t)' BY DEF OneTime, IsListed
<1> QED BY <1>1, <1>2, <1>3, <1>4 DEF OneTime

\* Jobs that are neither added nor removed
LEMMA SameJobs == UNCHANGED jobs => \A t : JobsAt(t)' = JobsAt(t)
  BY DEF JobsAt

LEMMA NumbersKnown ==
  ASSUME SchemaBounds, SchemaTypes
  PROVE  clock \in Nat /\ steam \in Nat /\ Schemas!Time \subseteq Nat
           /\ Schemas!Version \subseteq Nat /\ Schemas!Page \subseteq Nat
  BY DEF SchemaBounds, SchemaTypes, Numbers, Schemas!Version, Schemas!Time, Schemas!Page

\* A worker has nothing to do with jobs of other times
LEMMA RunStays ==
  ASSUME SchemaTypes, NEW w \in Worker, OneRun(w), run'[w] = run[w],
         run[w] # Schemas!Idle => /\ JobsAt(run[w].job.time)' = JobsAt(run[w].job.time)
                          /\ saved'[run[w].job.time] = saved[run[w].job.time],
         steam \in Nat, steam' \in Nat, steam <= steam', Schemas!Version \subseteq Nat,
         deleted \subseteq deleted'
  PROVE  OneRun(w)'
<1> SUFFICES ASSUME run[w] # Schemas!Idle PROVE OneRun(w)'
  BY DEF OneRun
<1> DEFINE r == run[w]  j == r.job  t == j.time
<1>1. r.version \in Nat
  <2>1. run[w].version \in Schemas!Version \cup {0} BY InHand
  <2>2. Schemas!Version \cup {0} \subseteq Nat OBVIOUS
  <2> HIDE DEF r
  <2>3. r.version \in Schemas!Version \cup {0} BY <2>1 DEF r
  <2> QED BY <2>2, <2>3
<1>2. run'[w] = r /\ saved'[t] = saved[t] OBVIOUS
<1>3. {i \in jobs' : i.time = t} = {i \in jobs : i.time = t} BY DEF JobsAt
<1>4. /\ j.name = "url" => r.version <= steam
      /\ j.name \in {"overview", "items", "items_game"} =>
            j.version <= r.version /\ r.version <= steam
      /\ j.name = "schema" => /\ \A i \in jobs : i.time = t => i.name = "schema"
                              /\ \A x \in Schemas!Version : Came(saved[t], x) => x <= r.version
      /\ r.step = "merged" =>
           /\ t \notin deleted => r.names = saved[t].names
           /\ j.page < LastPage =>
                 \E i \in jobs : i.time = t /\ i.name = "items" /\ i.page = j.page + 1
  BY DEF OneRun, JobsAt
<1>5. r.version <= steam => r.version <= steam' BY <1>1
<1>6. \A i \in jobs' : i.time = t => i \in jobs BY <1>3
<1>7. \A i \in jobs : i.time = t => i \in jobs' BY <1>3
<1> HIDE DEF r
<1> QED BY <1>2, <1>4, <1>5, <1>6, <1>7 DEF OneRun, JobsAt

\* A check that starts has a time of its own
LEMMA CheckKeeps ==
  ASSUME SchemaBounds, SchemaTypes, SchemaTypes', WholeInv, NEW action, NEW stay,
         Schemas!CreateJobs(action, stay, jobs), stay \subseteq jobs,
         UNCHANGED <<saved, schemas, deleted, steam>>,
         NEW u \in Schemas!Time, u = clock' \/ JobsAt(u) = {j \in stay : j.time = u} \/ jobs' = jobs
  PROVE  OneTime(u)'
<1>n. clock \in Nat /\ steam \in Nat /\ Schemas!Time \subseteq Nat BY NumbersKnown
<1>1. /\ clock' = clock + 1 /\ clock' \in Schemas!Time
      /\ \/ jobs' = jobs
         \/ \E j \in Schemas!UrlJob : jobs' = stay \cup {j} /\ j.time = clock' /\ j.name = "url"
  BY Checking
<1>2. OneTime(u) BY DEF WholeInv
<1>3. CASE u # clock' \/ jobs' = jobs
  <2>1. JobsAt(u)' = JobsAt(u) BY <1>1, <1>3 DEF JobsAt
  <2> QED BY <1>1, <1>2, <1>n, <2>1, Elsewhere
<1>4. CASE u = clock' /\ jobs' # jobs
  <2>1. PICK j \in Schemas!UrlJob : jobs' = stay \cup {j} /\ j.time = clock' /\ j.name = "url"
    BY <1>1, <1>4
  <2>2. u > clock BY <1>1, <1>4, <1>n
  <2>3. JobsAt(u) = {} /\ Fresh(u) BY <1>2, <2>2 DEF OneTime, Phase
  <2>4. JobsAt(u)' = {j} BY <1>4, <2>1, <2>3 DEF JobsAt
  <2>5. ~(u > clock') BY <1>4, <1>1, <1>n
  <2>6. Fresh(u)' BY <2>3 DEF Fresh
  <2>7. Phase(u)' BY <2>1, <2>4, <2>5, <2>6 DEF Phase
  <2>8. InParts(u)' /\ InVersions(u)' /\ IsListed(u)'
    BY <2>1, <2>4, <2>6 DEF InParts, Waits, InVersions, IsListed, Fresh
  <2> QED BY <2>7, <2>8 DEF OneTime
<1> QED BY <1>3, <1>4

\* The time of a job in hand is that of an earlier check
LEMMA InHandBefore ==
  ASSUME SchemaBounds, SchemaTypes, WholeInv, NEW w \in Worker, run[w] # Schemas!Idle
  PROVE  run[w].job \in JobsAt(run[w].job.time) /\ run[w].job.time <= clock
<1>1. run[w].job \in jobs /\ run[w].job.time \in Schemas!Time BY InHand
<1>2. run[w].job \in JobsAt(run[w].job.time) BY <1>1 DEF JobsAt
<1>3. ~(run[w].job.time > clock) BY <1>1, <1>2 DEF WholeInv, OneTime, Phase
<1> QED BY <1>1, <1>2, <1>3, NumbersKnown

LEMMA ChecksKeep ==
  ASSUME SchemaBounds, SchemaTypes, SchemaTypes', WholeInv,
         \/ \E v \in Schemas!Version : Schemas!BotSchema(v)
         \/ \E action \in {"default", "check", "force"} : Schemas!RequestRefresh(action)
         \/ Schemas!Elapse \/ Schemas!Upgrade
  PROVE  WholeInv'
<1>n. /\ clock \in Nat /\ steam \in Nat /\ Schemas!Time \subseteq Nat
      /\ Schemas!Version \subseteq Nat
      /\ clock' \in Nat /\ steam' \in Nat
  BY NumbersKnown DEF SchemaTypes, Numbers, Schemas!Version, SchemaBounds
<1>1. ASSUME NEW action, Schemas!CreateJobs(action, jobs, jobs),
             UNCHANGED <<steam, flows, run, Schemas!kept>>
      PROVE  WholeInv'
  <2>1. UNCHANGED <<saved, schemas, deleted>> BY <1>1 DEF Schemas!kept
  <2>2. ASSUME NEW u \in Schemas!Time PROVE OneTime(u)'
    <3>1. JobsAt(u) = {j \in jobs : j.time = u} BY DEF JobsAt
    <3> QED BY <1>1, <2>1, <3>1, CheckKeeps
  <2>3. ASSUME NEW w \in Worker PROVE OneRun(w)'
    <3>1. ASSUME run[w] # Schemas!Idle PROVE JobsAt(run[w].job.time)' = JobsAt(run[w].job.time)
      <4>1. run[w].job.time <= clock /\ run[w].job.time \in Schemas!Time
        BY <3>1, InHandBefore, InHand
      <4>2. clock' = clock + 1
              /\ (jobs' = jobs \/ \E j \in Schemas!UrlJob : jobs' = jobs \cup {j} /\ j.time = clock')
        BY <1>1, Checking
      <4>3. run[w].job.time # clock' BY <1>n, <4>1, <4>2
      <4> QED BY <1>1, <4>2, <4>3 DEF JobsAt
    <3> QED BY <1>1, <1>n, <2>1, <3>1, RunStays DEF WholeInv
  <2> QED BY <2>2, <2>3 DEF WholeInv
<1>2. ASSUME Schemas!Elapse \/ Schemas!Upgrade PROVE WholeInv'
  <2>1. /\ UNCHANGED <<clock, jobs, run, saved, schemas, deleted>> /\ steam <= steam'
    BY <1>2, <1>n DEF Schemas!Elapse, Schemas!Upgrade, Schemas!kept
  <2>2. \A u \in Schemas!Time : OneTime(u)' BY <1>n, <2>1, SameJobs, Elsewhere DEF WholeInv
  <2>3. \A w \in Worker : OneRun(w)' BY <1>n, <2>1, SameJobs, RunStays DEF WholeInv
  <2> QED BY <2>2, <2>3 DEF WholeInv
<1> QED BY <1>1, <1>2 DEF Schemas!BotSchema, Schemas!RequestRefresh

\* A schema that is deleted
LEMMA DeletionsKeep ==
  ASSUME SchemaBounds, SchemaTypes, WholeInv, NEW t \in Schemas!Time,
         Schemas!DeleteSchema(t) \/ Schemas!DeleteFiles(t)
  PROVE  WholeInv'
<1>n. clock \in Nat /\ steam \in Nat /\ Schemas!Time \subseteq Nat /\ Schemas!Version \subseteq Nat
  BY NumbersKnown
<1>1. /\ UNCHANGED <<clock, steam, jobs, run>> /\ deleted \subseteq deleted' /\ t \in deleted'
      /\ \A u \in Schemas!Time : u # t => saved'[u] = saved[u] /\ schemas'[u] = schemas[u]
      /\ \A x : Came(saved'[t], x) => Came(saved[t], x)
  <2>1. CASE Schemas!DeleteSchema(t)
    <3>1. saved'[t] = [Schemas!Nothing EXCEPT !.file = saved[t].file]
      BY <2>1 DEF Schemas!DeleteSchema, SchemaTypes, Kept
    <3>2. \A x : ~Came(saved'[t], x) BY <3>1 DEF Came, Schemas!Nothing
    <3> QED BY <2>1, <3>2 DEF Schemas!DeleteSchema, SchemaTypes, Kept
  <2>2. CASE Schemas!DeleteFiles(t)
    <3>0. saved[t] \in Parts BY DEF SchemaTypes, Kept
    <3>1. saved'[t] = [saved[t] EXCEPT !.file = FALSE]
      BY <2>2 DEF Schemas!DeleteFiles, SchemaTypes, Kept
    <3>2. \A x : Came(saved'[t], x) => Came(saved[t], x) BY <3>0, <3>1 DEF Came, Parts
    <3> QED BY <2>2, <3>2 DEF Schemas!DeleteFiles, SchemaTypes, Kept
  <2> QED BY <2>1, <2>2
<1>2. ~Fresh(t)
  BY DEF Schemas!DeleteSchema, Schemas!DeleteFiles, Schemas!Listed, Fresh, Schemas!Nothing
<1>3. OneTime(t) /\ JobsAt(t)' = JobsAt(t) BY <1>1, SameJobs DEF WholeInv
<1>4. OneTime(t)'
  <2>1. Phase(t)' BY <1>1, <1>2, <1>3 DEF OneTime, Phase, Last
  <2>2. InVersions(t)' BY <1>1, <1>3 DEF OneTime, InVersions
  <2>3. InParts(t)' /\ IsListed(t)' BY <1>1 DEF InParts, IsListed
  <2> QED BY <2>1, <2>2, <2>3 DEF OneTime
<1>5. \A u \in Schemas!Time : u # t => OneTime(u)'
  BY <1>1, <1>n, SameJobs, Elsewhere DEF WholeInv
<1>6. ASSUME NEW w \in Worker PROVE OneRun(w)'
  <2> DEFINE time == run[w].job.time
  <2>1. CASE run[w] = Schemas!Idle BY <1>1, <2>1 DEF OneRun
  <2>2. CASE run[w] # Schemas!Idle /\ time # t
    <3>1. time \in Schemas!Time BY <2>2, InHand
    <3>2. saved'[time] = saved[time] /\ JobsAt(time)' = JobsAt(time) BY <1>1, <2>2, <3>1, SameJobs
    <3>3. OneRun(w) /\ run'[w] = run[w] /\ steam <= steam' /\ steam' \in Nat
      BY <1>1, <1>n DEF WholeInv
    <3> QED BY <1>1, <1>n, <3>2, <3>3, RunStays
  <2>3. CASE run[w] # Schemas!Idle /\ time = t
    BY <1>1, <1>3, <2>3 DEF WholeInv, OneRun
  <2> QED BY <2>1, <2>2, <2>3
<1> QED BY <1>4, <1>5, <1>6 DEF WholeInv

\* A job that is started; the last one of a flow only when it is alone
LEMMA ProcessKeeps ==
  ASSUME SchemaBounds, SchemaTypes, WholeInv, NEW w \in Worker, NEW j \in jobs,
         Schemas!Process(w, j)
  PROVE  WholeInv'
<1>n. clock \in Nat /\ steam \in Nat /\ Schemas!Time \subseteq Nat /\ Schemas!Version \subseteq Nat
  BY NumbersKnown
<1>1. UNCHANGED <<clock, steam, jobs, saved, schemas, deleted>>
  BY DEF Schemas!Process, Schemas!now, Schemas!kept
<1>2. \A u \in Schemas!Time : OneTime(u)' BY <1>1, <1>n, SameJobs, Elsewhere DEF WholeInv
<1>3. ASSUME NEW u \in Worker, u # w PROVE OneRun(u)'
  <2>1. run'[u] = run[u] BY <1>3 DEF Schemas!Process, SchemaTypes, Working
  <2> QED BY <1>1, <1>n, <2>1, SameJobs, RunStays DEF WholeInv
<1>4. OneRun(w)'
  <2> DEFINE t == j.time  r == run'[w]
  <2>1. j \in DownloadJob /\ t \in Schemas!Time /\ j \in JobsAt(t)
    BY JobNames DEF SchemaTypes, Working, JobsAt
  <2>2. OneTime(t) BY <2>1 DEF WholeInv
  <2>3. r.job = j /\ r.step = "fetched"
    BY JobNames DEF Schemas!Process, SchemaTypes, Working, Download
  <2>4. r.version = CASE j.name = "items_game" -> j.version
                       [] j.name = "proto_obj_defs" -> 0 [] OTHER -> steam
    BY JobNames DEF Schemas!Process, SchemaTypes, Working, Download
  <2>5. j.name # "url" => j.version <= steam BY <2>1, <2>2 DEF OneTime, InVersions
  <2>6. j.name \in {"overview", "items", "items_game"} => j.version \in Nat
    BY <2>1, <1>n, JobNames DEF Schemas!FlowJob, Schemas!PageJob
  <2>7. ASSUME j.name = "schema" PROVE /\ \A i \in JobsAt(t) : i.name = "schema"
                                       /\ \A x \in Schemas!Version : Came(saved[t], x) => x <= steam
    <3>1. PICK s \in JobsAt(t) : Last(t, s)
      BY <2>1, <2>2, <2>7 DEF OneTime, Phase
    <3>2. \A i \in JobsAt(t) : i.name # "url" /\ i.flow = j.flow BY <2>1, <3>1 DEF Last
    <3>3. Schemas!Children(j) = {} BY DEF Schemas!Process
    <3>4. \A i \in JobsAt(t) : i.name = "schema" BY <2>7, <3>2, <3>3 DEF Schemas!Children, JobsAt
    <3> QED BY <2>1, <2>2, <2>7, <3>4 DEF OneTime, InVersions
  <2> HIDE DEF r, t
  <2>8. jobs' = jobs /\ saved' = saved /\ deleted' = deleted /\ steam' = steam BY <1>1
  <2>9. r.version \in Nat => r.version <= r.version OBVIOUS
  <2>10. run'[w] = r BY DEF r
  <2> QED BY <1>n, <2>3, <2>4, <2>5, <2>6, <2>7, <2>8, <2>10 DEF OneRun, JobsAt, t
<1> QED BY <1>2, <1>3, <1>4 DEF WholeInv

LEMMA FailKeeps ==
  ASSUME SchemaBounds, SchemaTypes, WholeInv, NEW w \in Worker, Schemas!Fail(w)
  PROVE  WholeInv'
<1>n. clock \in Nat /\ steam \in Nat /\ Schemas!Time \subseteq Nat /\ Schemas!Version \subseteq Nat
  BY NumbersKnown
<1>1. UNCHANGED <<clock, steam, jobs, saved, schemas, deleted>>
  BY DEF Schemas!Fail, Schemas!now, Schemas!kept
<1>2. \A u \in Schemas!Time : OneTime(u)' BY <1>1, <1>n, SameJobs, Elsewhere DEF WholeInv
<1>3. ASSUME NEW u \in Worker PROVE OneRun(u)'
  <2>1. run'[u] = run[u] \/ run'[u] = Schemas!Idle BY DEF Schemas!Fail, SchemaTypes, Working
  <2>2. run'[u] = Schemas!Idle => OneRun(u)' BY DEF OneRun
  <2> QED BY <1>1, <1>n, <2>1, <2>2, SameJobs, RunStays DEF WholeInv
<1> QED BY <1>2, <1>3 DEF WholeInv

\* Where the flow of a job in hand is
LEMMA InFlow ==
  ASSUME SchemaBounds, SchemaTypes, WholeInv, NEW w \in Worker, run[w] # Schemas!Idle,
         run[w].job.name # "url"
  PROVE  \E k \in JobsAt(run[w].job.time) : Last(run[w].job.time, k)
<1>1. run[w].job \in JobsAt(run[w].job.time) BY InHandBefore
<1>2. run[w].job.time \in Schemas!Time BY InHand
<1> QED BY <1>1, <1>2 DEF WholeInv, OneTime, Phase

\* With one worker, whatever is in hand is its own
LEMMA OthersKeep ==
  ASSUME SchemaBounds, SchemaTypes, WholeInv, NEW t \in Schemas!Time, OneTime(t)',
         UNCHANGED <<clock, steam>>,
         deleted \subseteq deleted', NEW js, jobs' \ js = jobs \ js, \A i \in js : i.time = t,
         \A u \in Schemas!Time : u # t => saved'[u] = saved[u] /\ schemas'[u] = schemas[u]
  PROVE  \A u \in Schemas!Time : OneTime(u)'
<1>n. clock \in Nat /\ steam \in Nat BY NumbersKnown
<1>1. ASSUME NEW u \in Schemas!Time, u # t PROVE OneTime(u)'
  <2>1. JobsAt(u)' = JobsAt(u) BY <1>1 DEF JobsAt
  <2> QED BY <1>1, <1>n, <2>1, Elsewhere DEF WholeInv
<1> QED BY <1>1

\* A job saves its part, which is s1 then, and is done
Saves(w, j, t, s, v, s1) ==
  /\ run[w] # Schemas!Idle /\ j = run[w].job /\ t = j.time /\ s = saved[t]
  /\ j.name \notin {"url", "schema"}
  /\ j.name # "proto_obj_defs" => j.version <= v /\ v <= steam
  /\ Schemas!Done(w, jobs) /\ UNCHANGED <<Schemas!now, schemas, told, deleted, faults>>
  /\ saved' = [saved EXCEPT ![t] = s1]
  /\ \A x : Came(s1, x) => Came(s, x) \/ (x = v /\ j.name # "proto_obj_defs")
  /\ HasOverview(s) \/ j.name = "overview" => HasOverview(s1)
  /\ HasItemsGame(s) \/ j.name = "items_game" => HasItemsGame(s1)
  /\ s.protoObjDefs # {} \/ j.name = "proto_obj_defs" => s1.protoObjDefs # {}
  /\ t \notin deleted =>
        \A p \in Schemas!Page : HasPage(s, p) \/ (j.name = "items" /\ p = j.page) => HasPage(s1, p)
  /\ j.name = "items" => /\ j.page \in Schemas!Page
                         /\ j.page < LastPage =>
                               \E i \in JobsAt(t) : i.name = "items" /\ i.page = j.page + 1

LEMMA PartKeeps ==
  ASSUME SchemaBounds, SchemaTypes, WholeInv, OneByOne, NEW w \in Worker,
         NEW j, NEW t, NEW s, NEW v, NEW s1, Saves(w, j, t, s, v, s1)
  PROVE  WholeInv'
<1> USE DEF Saves
<1>n. clock \in Nat /\ steam \in Nat /\ Schemas!Time \subseteq Nat
        /\ Schemas!Version \subseteq Nat /\ Schemas!Page \subseteq Nat
  BY NumbersKnown
<1>1. t \in Schemas!Time /\ j \in JobsAt(t) /\ t <= clock BY InHand, InHandBefore
<1>2. PICK k \in JobsAt(t) : Last(t, k) BY InFlow
<1>3. UNCHANGED <<clock, steam, schemas, deleted>> BY DEF Schemas!now
<1>4. saved'[t] = s1 BY <1>1 DEF SchemaTypes, Kept
<1>5. jobs' = jobs \ {j} /\ JobsAt(t)' = JobsAt(t) \ {j} BY DEF Schemas!Done, JobsAt
<1>6. k # j /\ Last(t, k)' BY <1>2, <1>5 DEF Last
<1>7. Phase(t)'
  <2>1. ~(t > clock') BY <1>1, <1>3, <1>n
  <2>2. k \in JobsAt(t)' BY <1>6 DEF Last
  <2> QED BY <1>6, <2>1, <2>2 DEF Phase
<1>o. OneTime(t) BY <1>1 DEF WholeInv
<1>8. InParts(t)'
  <2> SUFFICES ASSUME t \notin deleted
               PROVE  /\ Waits(t, "overview")' \/ HasOverview(s1)
                      /\ Waits(t, "items_game")' \/ HasItemsGame(s1)
                      /\ Waits(t, "proto_obj_defs")' \/ s1.protoObjDefs # {}
                      /\ \A p \in Schemas!Page : PageWaits(t, p)' \/ HasPage(s1, p)
    BY <1>3, <1>4 DEF InParts
  <2>1. Waits(t, "schema") BY <1>2 DEF Last, Waits
  <2>2. /\ Waits(t, "overview") \/ HasOverview(s)
        /\ Waits(t, "items_game") \/ HasItemsGame(s)
        /\ Waits(t, "proto_obj_defs") \/ s.protoObjDefs # {}
        /\ \A p \in Schemas!Page : PageWaits(t, p) \/ HasPage(s, p)
    BY <1>o, <2>1 DEF OneTime, InParts
  <2>3. \A n : Waits(t, n) => Waits(t, n)' \/ j.name = n BY <1>5 DEF Waits
  <2>4. ASSUME NEW p \in Schemas!Page PROVE PageWaits(t, p)' \/ HasPage(s1, p)
    <3>1. CASE HasPage(s, p) BY <3>1
    <3>2. CASE PageWaits(t, p)
      <4>1. PICK i \in JobsAt(t) : i.name = "items" /\ i.page <= p BY <3>2 DEF PageWaits
      <4>2. CASE i # j BY <1>5, <4>1, <4>2 DEF PageWaits
      <4>3. CASE i = j /\ j.page = p BY <4>1, <4>3
      <4>4. CASE i = j /\ j.page # p
        <5>1. j.page < LastPage /\ j.page + 1 <= p /\ j.page + 1 # j.page
          BY <1>n, <4>1, <4>4 DEF Schemas!Page, SchemaBounds
        <5>2. PICK l \in JobsAt(t) : l.name = "items" /\ l.page = j.page + 1 BY <4>1, <4>4, <5>1
        <5>3. l # j BY <5>1, <5>2
        <5> QED BY <1>5, <5>1, <5>2, <5>3 DEF PageWaits
      <4> QED BY <4>2, <4>3, <4>4
    <3> QED BY <2>2, <3>1, <3>2
  <2> QED BY <2>2, <2>3, <2>4
<1>9. InVersions(t)'
  <2>1. ASSUME NEW i \in JobsAt(t)'
        PROVE  i.version <= steam /\ \A x \in Schemas!Version : Came(s1, x) =>
              i.version <= x /\ x <= steam
    <3>1. i \in JobsAt(t) /\ i.version = j.version /\ i.name # "url"
      BY <1>1, <1>2, <1>5, <2>1 DEF Last
    <3> QED BY <1>o, <3>1 DEF OneTime, InVersions
  <2> QED BY <1>3, <1>4, <2>1 DEF InVersions
<1>10. IsListed(t)' BY <1>1, <1>3, <1>o DEF OneTime, IsListed
<1>11. OneTime(t)' BY <1>7, <1>8, <1>9, <1>10 DEF OneTime
<1>12. \A u \in Schemas!Time : u # t => saved'[u] = saved[u] BY DEF SchemaTypes, Kept
<1>13. \A u \in Schemas!Time : OneTime(u)'
  <2>1. jobs' \ {j} = jobs \ {j} /\ \A i \in {j} : i.time = t BY <1>5
  <2>2. \A u \in Schemas!Time : u # t => saved'[u] = saved[u] /\ schemas'[u] = schemas[u]
    BY <1>3, <1>12
  <2>3. UNCHANGED <<clock, steam>> /\ deleted \subseteq deleted' BY <1>3
  <2> QED BY <1>1, <1>11, <2>1, <2>2, <2>3, OthersKeep
<1>14. \A u \in Worker : run'[u] = Schemas!Idle BY DEF Schemas!Done, OneByOne, SchemaTypes, Working
<1> QED BY <1>13, <1>14 DEF WholeInv, OneRun

LEMMA PartsKeep ==
  ASSUME SchemaBounds, SchemaTypes, WholeInv, OneByOne, NEW w \in Worker,
         Schemas!UpdateOverview(w) \/ Schemas!UpdateItems(w) \/ Schemas!UpdateProtoObjDefs(w)
           \/ Schemas!UpdateItemsGame(w)
  PROVE  WholeInv'
<1>1. run[w] # Schemas!Idle
  BY StepIsBusy DEF Schemas!UpdateOverview, Schemas!UpdateItems, Schemas!UpdateProtoObjDefs,
                    Schemas!UpdateItemsGame, Schemas!Fetched
<1>j. PICK j, t, s, v, n : /\ j = run[w].job /\ t = j.time /\ s = saved[t]
                           /\ v = run[w].version /\ n = run[w].names
  OBVIOUS
<1>2. j \in DownloadJob /\ s \in Parts BY <1>1, <1>j, InHand
<1>3. j.name \in {"overview", "items", "items_game"} => j.version <= v /\ v <= steam
  BY <1>1, <1>j DEF WholeInv, OneRun
<1>4. Schemas!Done(w, jobs) /\ UNCHANGED <<Schemas!now, schemas, told, deleted, faults>>
  BY DEF Schemas!UpdateOverview, Schemas!UpdateItems, Schemas!UpdateProtoObjDefs,
         Schemas!UpdateItemsGame
<1>5. CASE Schemas!UpdateOverview(w)
  <2> DEFINE s1 == [s EXCEPT !.file = TRUE, !.overview = @ \cup {v}, !.scoreTypes = @ \cup {v}]
  <2>1. j.name = "overview" /\ saved' = [saved EXCEPT ![t] = s1]
    BY <1>5, <1>j DEF Schemas!UpdateOverview, Schemas!Fetched, Schemas!Save
  <2>2. \A x : Came(s1, x) => Came(s, x) \/ x = v BY <1>2 DEF Came, Parts
  <2>3. /\ HasOverview(s1)
        /\ HasItemsGame(s) => HasItemsGame(s1)
        /\ s.protoObjDefs # {} => s1.protoObjDefs # {}
        /\ \A p \in Schemas!Page : HasPage(s, p) => HasPage(s1, p)
    BY <1>2 DEF HasOverview, HasItemsGame, HasPage, Parts
  <2> HIDE DEF s1
  <2>4. Saves(w, j, t, s, v, s1) BY <1>1, <1>3, <1>4, <1>j, <2>1, <2>2, <2>3 DEF Saves
  <2> QED BY <2>4, PartKeeps
<1>6. CASE Schemas!UpdateItemsGame(w)
  <2> DEFINE s1 == [s EXCEPT !.itemsGame = @ \cup {v}, !.tempSpells = @ \cup {v}]
  <2>1. j.name = "items_game" /\ saved' = [saved EXCEPT ![t] = s1]
    BY <1>6, <1>j DEF Schemas!UpdateItemsGame, Schemas!Fetched, Schemas!Save
  <2>2. \A x : Came(s1, x) => Came(s, x) \/ x = v BY <1>2 DEF Came, Parts
  <2>3. /\ HasItemsGame(s1)
        /\ HasOverview(s) => HasOverview(s1)
        /\ s.protoObjDefs # {} => s1.protoObjDefs # {}
        /\ \A p \in Schemas!Page : HasPage(s, p) => HasPage(s1, p)
    BY <1>2 DEF HasOverview, HasItemsGame, HasPage, Parts
  <2> HIDE DEF s1
  <2>4. Saves(w, j, t, s, v, s1) BY <1>1, <1>3, <1>4, <1>j, <2>1, <2>2, <2>3 DEF Saves
  <2> QED BY <2>4, PartKeeps
<1>7. CASE Schemas!UpdateProtoObjDefs(w)
  <2> DEFINE s1 == [s EXCEPT !.protoObjDefs = {0}]
  <2>1. j.name = "proto_obj_defs" /\ saved' = [saved EXCEPT ![t] = s1]
    BY <1>7, <1>j DEF Schemas!UpdateProtoObjDefs, Schemas!Fetched, Schemas!Save
  <2>2. \A x : Came(s1, x) => Came(s, x) BY <1>2 DEF Came, Parts
  <2>3. /\ HasItemsGame(s) => HasItemsGame(s1)
        /\ HasOverview(s) => HasOverview(s1)
        /\ s1.protoObjDefs # {}
        /\ \A p \in Schemas!Page : HasPage(s, p) => HasPage(s1, p)
    BY <1>2 DEF HasOverview, HasItemsGame, HasPage, Parts
  <2> HIDE DEF s1
  <2>4. Saves(w, j, t, s, v, s1) BY <1>1, <1>3, <1>4, <1>j, <2>1, <2>2, <2>3 DEF Saves
  <2> QED BY <2>4, PartKeeps
<1>8. CASE Schemas!UpdateItems(w)
  <2> DEFINE q == j.page
             s1 == [s EXCEPT !.items[q] = @ \cup {v}, !.tempParts = @ \cup {v}, !.names = n \cup {q}]
  <2>1. saved' = [saved EXCEPT ![t] = s1] BY <1>8, <1>j DEF Schemas!UpdateItems, Schemas!Save
  <2>2. j.name = "items" /\ q \in Schemas!Page
    <3>1. j.name = "items" BY <1>1, <1>8, <1>j DEF Schemas!UpdateItems, SchemaTypes, Working
    <3> QED BY <1>2, <3>1, JobNames DEF Schemas!PageJob
  <2>3. /\ t \notin deleted => n = s.names
        /\ q < LastPage => \E i \in JobsAt(t) : i.name = "items" /\ i.page = q + 1
    BY <1>1, <1>8, <1>j DEF Schemas!UpdateItems, WholeInv, OneRun
  <2> HIDE DEF q
  <2>4. \A x : Came(s1, x) => Came(s, x) \/ x = v BY <1>2, <2>2 DEF Came, Parts
  <2>5. /\ HasItemsGame(s) => HasItemsGame(s1)
        /\ HasOverview(s) => HasOverview(s1)
        /\ s.protoObjDefs # {} => s1.protoObjDefs # {}
    BY <1>2 DEF HasOverview, HasItemsGame, Parts
  <2>6. ASSUME NEW p \in Schemas!Page, t \notin deleted, HasPage(s, p) \/ p = q PROVE HasPage(s1, p)
    <3>1. s1.tempParts # {} /\ s1.names = n \cup {q} BY <1>2 DEF Parts
    <3>2. s1.items[p] # {} BY <1>2, <2>2, <2>6 DEF HasPage, Parts
    <3> HIDE DEF s1
    <3> QED BY <2>3, <2>6, <3>1, <3>2 DEF HasPage
  <2> HIDE DEF s1
  <2>8. j.page = q BY DEF q
  <2>9. Saves(w, j, t, s, v, s1)
    BY <1>1, <1>3, <1>4, <1>j, <2>1, <2>2, <2>3, <2>4, <2>5, <2>6, <2>8 DEF Saves
  <2> QED BY <2>9, PartKeeps
<1> QED BY <1>5, <1>6, <1>7, <1>8

\* A flow that starts, or need not
LEMMA UpdateUrlKeeps ==
  ASSUME SchemaBounds, SchemaTypes, SchemaTypes', WholeInv, OneByOne, NEW w \in Worker,
         Schemas!UpdateUrl(w)
  PROVE  WholeInv'
<1>j. PICK j, t, v : j = run[w].job /\ t = j.time /\ v = run[w].version OBVIOUS
<1>k. PICK k : k = [name |-> "schema", time |-> t, flow |-> flows', version |-> v, page |-> 0]
  OBVIOUS
<1>n. clock \in Nat /\ steam \in Nat /\ Schemas!Time \subseteq Nat
        /\ Schemas!Version \subseteq Nat /\ Schemas!Page \subseteq Nat
  BY NumbersKnown
<1>1. run[w] # Schemas!Idle /\ j.name = "url"
  BY <1>j, StepIsBusy DEF Schemas!UpdateUrl, Schemas!Fetched
<1>2. t \in Schemas!Time /\ j \in JobsAt(t) /\ t <= clock /\ v \in Schemas!Version
  BY <1>1, <1>j, InHand, InHandBefore
<1>3. OneTime(t) BY <1>2 DEF WholeInv
<1>4. JobsAt(t) = {j} /\ Fresh(t)
  <2>1. \A i \in JobsAt(t) : ~Last(t, i) BY <1>1, <1>2 DEF Last
  <2> QED BY <1>2, <1>3, <2>1 DEF OneTime, Phase
<1>5. v <= steam BY <1>1, <1>j DEF WholeInv, OneRun
<1>6. UNCHANGED <<steam, clock, saved, schemas, deleted>> /\ run' = [run EXCEPT ![w] = Schemas!Idle]
  BY DEF Schemas!UpdateUrl, Schemas!Done, Schemas!kept
<1>7. flows' \in Nat BY DEF SchemaTypes, Numbers
<1>8. jobs' = jobs \ {j} \/ jobs' = (jobs \cup Schemas!Flow(t, v)) \ {j}
  BY <1>j DEF Schemas!UpdateUrl, Schemas!Done, OneByOne, Schemas!MayFail
<1>9. CASE jobs' = jobs \ {j}
  <2>1. JobsAt(t)' = {} BY <1>4, <1>9 DEF JobsAt
  <2>2. OneTime(t)'
    BY <1>2, <1>4, <1>6, <1>n, <2>1 DEF OneTime, Phase, InParts, Waits, InVersions, IsListed, Fresh
  <2>3. jobs' \ {j} = jobs \ {j} /\ \A i \in {j} : i.time = t BY <1>2, <1>9 DEF JobsAt
  <2>4. \A u \in Schemas!Time : OneTime(u)' BY <1>2, <1>6, <2>2, <2>3, OthersKeep
  <2> QED BY <1>6, <2>4 DEF WholeInv, OneRun, OneByOne, SchemaTypes, Working
<1>10. CASE jobs' = (jobs \cup Schemas!Flow(t, v)) \ {j}
  <2>1. /\ Schemas!Flow(t, v) \subseteq Schemas!FlowJob \cup Schemas!PageJob
        /\ \A i \in Schemas!Flow(t, v) : i.time = t /\ i.version = v /\ i.flow = flows'
        /\ \A n \in {"schema", "overview", "items_game", "proto_obj_defs"} :
             [name |-> n, time |-> t, flow |-> flows', version |-> v, page |-> 0] \in
               Schemas!Flow(t, v)
        /\ [name |-> "items", time |-> t, flow |-> flows', version |-> v, page |-> 1] \in
             Schemas!Flow(t, v)
        /\ \A i \in Schemas!Flow(t, v) : i.name = "schema" => i = k
    BY <1>2, <1>7, <1>k, FlowJobs
  <2>2. \A i \in Schemas!Flow(t, v) : i.name # "url" /\ i # j
    <3>1. \A i \in Schemas!FlowJob \cup Schemas!PageJob : i.name # "url"
      BY DEF Schemas!FlowJob, Schemas!PageJob
    <3> QED BY <1>1, <2>1, <3>1
  <2>3. JobsAt(t)' = Schemas!Flow(t, v) BY <1>4, <1>10, <2>1, <2>2 DEF JobsAt
  <2>4. k \in Schemas!Flow(t, v) /\ k.name = "schema" /\ k.version = v /\ k.flow = flows'
    BY <1>k, <2>1
  <2>5. Phase(t)'
    <3>1. Last(t, k)' BY <2>1, <2>2, <2>3, <2>4 DEF Last
    <3>2. ~(t > clock') BY <1>2, <1>6, <1>n
    <3> QED BY <2>3, <2>4, <3>1, <3>2 DEF Phase
  <2>6. InParts(t)'
    <3>1. \A n \in {"overview", "items_game", "proto_obj_defs"} : Waits(t, n)'
      <4>1. ASSUME NEW n \in {"overview", "items_game", "proto_obj_defs"} PROVE Waits(t, n)'
        <5> DEFINE i == [name |-> n, time |-> t, flow |-> flows', version |-> v, page |-> 0]
        <5>1. i \in JobsAt(t)' /\ i.name = n BY <2>1, <2>3
        <5> QED BY <5>1 DEF Waits
      <4> QED BY <4>1
    <3>2. \A p \in Schemas!Page : PageWaits(t, p)'
      <4> DEFINE i == [name |-> "items", time |-> t, flow |-> flows', version |-> v, page |-> 1]
      <4>1. i \in JobsAt(t)' /\ i.name = "items" /\ i.page = 1 BY <2>1, <2>3
      <4>2. \A p \in Schemas!Page : 1 <= p BY DEF Schemas!Page, SchemaBounds
      <4> QED BY <4>1, <4>2 DEF PageWaits
    <3> QED BY <3>1, <3>2 DEF InParts
  <2>7. InVersions(t)'
    BY <1>4, <1>5, <1>6, <2>1, <2>3, NothingCame DEF InVersions, Fresh
  <2>8. IsListed(t)' BY <1>4, <1>6 DEF IsListed, Fresh
  <2>9. OneTime(t)' BY <2>5, <2>6, <2>7, <2>8 DEF OneTime
  <2> DEFINE js == {j} \cup Schemas!Flow(t, v)
  <2>10. jobs' \ js = jobs \ js /\ \A i \in js : i.time = t BY <1>2, <1>10, <2>1 DEF JobsAt
  <2> HIDE DEF js
  <2>11. \A u \in Schemas!Time : OneTime(u)' BY <1>2, <1>6, <2>9, <2>10, OthersKeep
  <2> QED BY <1>6, <2>11 DEF WholeInv, OneRun, OneByOne, SchemaTypes, Working
<1> QED BY <1>8, <1>9, <1>10

\* The next page is added before this one is saved
LEMMA MergeKeeps ==
  ASSUME SchemaBounds, SchemaTypes, WholeInv, OneByOne, NEW w \in Worker, Schemas!MergeNames(w)
  PROVE  WholeInv'
<1>j. PICK j, t : j = run[w].job /\ t = j.time OBVIOUS
<1>n. clock \in Nat /\ steam \in Nat /\ Schemas!Time \subseteq Nat
        /\ Schemas!Version \subseteq Nat /\ Schemas!Page \subseteq Nat
  BY NumbersKnown
<1>1. run[w] # Schemas!Idle /\ j.name = "items"
  BY <1>j, StepIsBusy DEF Schemas!MergeNames, Schemas!Fetched
<1>2. t \in Schemas!Time /\ j \in JobsAt(t) /\ t <= clock BY <1>1, <1>j, InHand, InHandBefore
<1>3. j \in Schemas!PageJob BY <1>1, <1>j, InHand, JobNames
<1>o. OneTime(t) BY <1>2 DEF WholeInv
<1>4. PICK k \in JobsAt(t) : Last(t, k) BY <1>1, <1>j, InFlow
<1>5. UNCHANGED <<clock, steam, saved, schemas, deleted>>
  BY DEF Schemas!MergeNames, Schemas!now, Schemas!kept
<1>6. /\ Schemas!NextPage(j).name = "items" /\ Schemas!NextPage(j).time = t
      /\ Schemas!NextPage(j).flow = j.flow
      /\ Schemas!NextPage(j).version = j.version /\ Schemas!NextPage(j).page = j.page + 1
  BY <1>1, <1>3, <1>j DEF Schemas!NextPage, Schemas!PageJob
<1>7. jobs' = IF j.page < LastPage THEN jobs \cup {Schemas!NextPage(j)} ELSE jobs
  BY <1>j DEF Schemas!MergeNames
<1>8. JobsAt(t) \subseteq JobsAt(t)'
        /\ \A i \in JobsAt(t)' : i \in JobsAt(t) \/ i = Schemas!NextPage(j)
  BY <1>7 DEF JobsAt
<1>9. Last(t, k)'
  <2>1. j.flow = k.flow /\ j.version = k.version BY <1>2, <1>4 DEF Last
  <2> QED BY <1>4, <1>6, <1>8, <2>1 DEF Last
<1>10. OneTime(t)'
  <2>1. Phase(t)'
    <3>1. ~(t > clock') BY <1>2, <1>5, <1>n
    <3>2. k \in JobsAt(t)' BY <1>4, <1>8
    <3> QED BY <1>9, <3>1, <3>2 DEF Phase
  <2>2. InParts(t)'
    <3>1. Waits(t, "schema") BY <1>4 DEF Last, Waits
    <3>2. \A n : Waits(t, n) => Waits(t, n)' BY <1>8 DEF Waits
    <3>3. \A p : PageWaits(t, p) => PageWaits(t, p)' BY <1>8 DEF PageWaits
    <3> QED BY <1>5, <1>o, <3>1, <3>2, <3>3 DEF OneTime, InParts
  <2>3. InVersions(t)' BY <1>1, <1>2, <1>5, <1>6, <1>8, <1>o DEF OneTime, InVersions
  <2>4. IsListed(t)' BY <1>1, <1>2, <1>5, <1>o DEF OneTime, IsListed
  <2> QED BY <2>1, <2>2, <2>3, <2>4 DEF OneTime
<1>11. \A u \in Schemas!Time : OneTime(u)'
  <2> DEFINE js == {Schemas!NextPage(j)}
  <2>1. jobs' \ js = jobs \ js /\ \A i \in js : i.time = t BY <1>6, <1>7
  <2> HIDE DEF js
  <2> QED BY <1>2, <1>5, <1>10, <2>1, OthersKeep
<1>12. OneRun(w)'
  <2>1. PICK r : r = run'[w] OBVIOUS
  <2>2. /\ r.job = j /\ r.version = run[w].version /\ r.step = "merged" /\ r.names = saved[t].names
    <3>1. run' = [run EXCEPT ![w] = [run[w] EXCEPT !.step = "merged", !.names = saved[t].names]]
      BY <1>j DEF Schemas!MergeNames, SchemaTypes, Working
    <3>2. r = [run[w] EXCEPT !.step = "merged", !.names = saved[t].names]
      BY <2>1, <3>1 DEF SchemaTypes, Working
    <3>3. run[w] \in Download BY DEF SchemaTypes, Working
    <3> QED BY <1>j, <3>2, <3>3 DEF Download
  <2>3. j.version <= r.version /\ r.version <= steam BY <1>1, <1>j, <2>2 DEF WholeInv, OneRun
  <2>4. j.page < LastPage => Schemas!NextPage(j) \in jobs' BY <1>7
  <2> QED BY <1>1, <1>5, <1>6, <1>j, <2>1, <2>2, <2>3, <2>4 DEF OneRun, JobsAt
<1> QED BY <1>11, <1>12 DEF WholeInv, OneByOne

\* What is kept aside is completed
LEMMA FinishedIsComplete ==
  ASSUME SchemaBounds, NEW s \in Parts,
         HasOverview(s), HasItemsGame(s), s.protoObjDefs # {}, \A p \in Schemas!Page : HasPage(s, p)
  PROVE  /\ Complete(Schemas!Finished(s)) /\ HasOverview(Schemas!Finished(s))
         /\ HasItemsGame(Schemas!Finished(s))
         /\ \A p \in Schemas!Page : HasPage(Schemas!Finished(s), p)
<1> DEFINE f == Schemas!Finished(s)
<1>1. 1 \in Schemas!Page BY DEF SchemaBounds, Schemas!Page
<1>2. /\ f.file = s.file /\ f.overview = s.overview /\ f.itemsGame = s.itemsGame
      /\ f.protoObjDefs = s.protoObjDefs /\ f.items = s.items /\ f.names = s.names
      /\ f.spells = s.spells \cup s.tempSpells
      /\ f.parts = IF s.scoreTypes = {} THEN s.parts ELSE s.parts \cup s.tempParts
  BY DEF Schemas!Finished, Parts
<1>3. s.parts # {} \/ (s.scoreTypes # {} /\ s.tempParts # {}) BY <1>1 DEF HasOverview, HasPage
<1>4. f.parts # {} BY <1>2, <1>3
<1>5. f.spells # {} BY <1>2 DEF HasItemsGame
<1>6. s.names = Schemas!Page BY DEF HasPage, Parts
<1> HIDE DEF f
<1> QED BY <1>2, <1>4, <1>5, <1>6 DEF Complete, HasOverview, HasItemsGame, HasPage, f

LEMMA FinishedCame == ASSUME NEW s \in Parts PROVE \A x : Came(Schemas!Finished(s), x) => Came(s, x)
<1> DEFINE f == Schemas!Finished(s)
<1>1. /\ f.overview = s.overview /\ f.itemsGame = s.itemsGame /\ f.items = s.items
      /\ f.spells = s.spells \cup s.tempSpells /\ f.tempSpells = {} /\ f.scoreTypes = {}
      /\ f.tempParts = {}
      /\ f.parts \subseteq s.parts \cup s.tempParts
  BY DEF Schemas!Finished, Parts
<1> HIDE DEF f
<1> QED BY <1>1 DEF Came, f

\* The schema is listed by the last job, which is alone then
LEMMA ListKeeps ==
  ASSUME SchemaBounds, SchemaTypes, WholeInv, OneByOne, NEW w \in Worker, Schemas!ListSchema(w)
  PROVE  WholeInv'
<1>j. PICK j, t, s, v : j = run[w].job /\ t = j.time /\ s = saved[t] /\ v = run[w].version OBVIOUS
<1>n. clock \in Nat /\ steam \in Nat /\ Schemas!Time \subseteq Nat /\ Schemas!Version \subseteq Nat
  BY NumbersKnown
<1>1. run[w] # Schemas!Idle /\ j.name = "schema"
  BY <1>j, StepIsBusy DEF Schemas!ListSchema, Schemas!Fetched
<1>2. t \in Schemas!Time /\ j \in JobsAt(t) /\ t <= clock /\ s \in Parts /\ v \in Schemas!Version
  BY <1>1, <1>j, InHand, InHandBefore
<1>o. OneTime(t) BY <1>2 DEF WholeInv
<1>3. UNCHANGED <<clock, steam, jobs, deleted>> BY DEF Schemas!ListSchema, Schemas!now
<1>4. /\ saved'[t] = Schemas!Finished(s)
      /\ schemas'[t] = [version |-> j.version, consistent |-> j.version = v]
      /\ \A u \in Schemas!Time : u # t => saved'[u] = saved[u] /\ schemas'[u] = schemas[u]
  BY <1>2, <1>j DEF Schemas!ListSchema, Schemas!Save, SchemaTypes, Kept
<1>5. /\ \A i \in JobsAt(t) : i.name = "schema"
      /\ \A x \in Schemas!Version : Came(s, x) => j.version <= x /\ x <= v
  BY <1>1, <1>2, <1>j, <1>o DEF WholeInv, OneRun, OneTime, InVersions
<1>6. JobsAt(t)' = JobsAt(t) BY <1>3, SameJobs
<1>7. t \notin deleted =>
        HasOverview(s) /\ HasItemsGame(s) /\ s.protoObjDefs # {}
          /\ \A p \in Schemas!Page : HasPage(s, p)
  <2>1. Waits(t, "schema") BY <1>1, <1>2 DEF Waits
  <2>2. ~Waits(t, "overview") /\ ~Waits(t, "items_game") /\ ~Waits(t, "proto_obj_defs")
    BY <1>5 DEF Waits
  <2>3. \A p \in Schemas!Page : ~PageWaits(t, p) BY <1>5 DEF PageWaits
  <2> QED BY <1>j, <1>o, <2>1, <2>2, <2>3 DEF OneTime, InParts
<1>8. t \notin deleted =>
      /\ Complete(Schemas!Finished(s)) /\ HasOverview(Schemas!Finished(s))
      /\ HasItemsGame(Schemas!Finished(s))
                          /\ \A p \in Schemas!Page : HasPage(Schemas!Finished(s), p)
  BY <1>2, <1>7, FinishedIsComplete
<1>9. \A x : Came(Schemas!Finished(s), x) => Came(s, x) BY <1>2, FinishedCame
<1>10. OneTime(t)'
  <2>1. Phase(t)'
    <3>1. PICK k \in JobsAt(t) : Last(t, k) BY <1>1, <1>j, InFlow
    <3>2. Last(t, k)' BY <1>6, <3>1 DEF Last
    <3>3. ~(t > clock') BY <1>2, <1>3, <1>n
    <3> QED BY <1>6, <3>1, <3>2, <3>3 DEF Phase
  <2>2. InParts(t)' BY <1>3, <1>4, <1>8 DEF InParts, Complete
  <2>3. InVersions(t)' BY <1>3, <1>4, <1>6, <1>9, <1>j, <1>o DEF OneTime, InVersions
  <2>4. IsListed(t)'
    <3>0. PICK b : b = (j.version = v) OBVIOUS
    <3>a. schemas'[t] = [version |-> j.version, consistent |-> b] BY <1>4, <3>0, Zenon
    <3>b. schemas'[t].version = j.version /\ schemas'[t].consistent = b BY <3>a
    <3>1. schemas'[t].version = j.version /\ (schemas'[t].consistent => j.version = v)
      BY <3>0, <3>b, Zenon
    <3>2. j.version \in Schemas!Version BY <1>1, <1>j, InHand, JobNames DEF Schemas!FlowJob
    <3>3. ASSUME j.version = v, NEW x \in Schemas!Version, Came(s, x) PROVE x = j.version
      BY <1>2, <1>5, <1>n, <3>3
    <3> QED BY <1>3, <1>4, <1>5, <1>6, <1>8, <1>9, <3>1, <3>3 DEF IsListed
  <2> QED BY <2>1, <2>2, <2>3, <2>4 DEF OneTime
<1>11. \A u \in Schemas!Time : OneTime(u)'
  <2> DEFINE js == {j}
  <2>1. jobs' \ js = jobs \ js /\ \A i \in js : i.time = t BY <1>3, <1>j
  <2>2. \A u \in Schemas!Time : u # t => saved'[u] = saved[u] /\ schemas'[u] = schemas[u] BY <1>4
  <2>3. UNCHANGED <<clock, steam>> /\ deleted \subseteq deleted' BY <1>3
  <2> HIDE DEF js
  <2> QED BY <1>2, <1>10, <2>1, <2>2, <2>3, OthersKeep
<1>12. OneRun(w)'
  <2>1. PICK r : r = run'[w] OBVIOUS
  <2>2. r.job = j /\ r.version = v /\ r.step = "listed"
    <3>1. run[w] \in Download /\ r = [run[w] EXCEPT !.step = "listed"]
      BY <2>1 DEF Schemas!ListSchema, SchemaTypes, Working
    <3> QED BY <1>j, <3>1 DEF Download
  <2>3. \A i \in jobs' : i.time = t => i.name = "schema" BY <1>3, <1>5 DEF JobsAt
  <2>4. \A x \in Schemas!Version : Came(saved'[t], x) => x <= v BY <1>4, <1>5, <1>9
  <2> QED BY <1>1, <1>j, <2>1, <2>2, <2>3, <2>4 DEF OneRun, JobsAt
<1> QED BY <1>11, <1>12 DEF WholeInv, OneByOne

\* The last job is done
LEMMA PublishKeeps ==
  ASSUME SchemaBounds, SchemaTypes, SchemaTypes', WholeInv, OneByOne, NEW w \in Worker,
         Schemas!PublishSchema(w)
  PROVE  WholeInv'
<1>j. PICK j, t : j = run[w].job /\ t = j.time OBVIOUS
<1>n. clock \in Nat /\ steam \in Nat /\ Schemas!Time \subseteq Nat /\ Schemas!Version \subseteq Nat
  BY NumbersKnown
<1>1. run[w] # Schemas!Idle /\ j.name = "schema"
  BY <1>j, StepIsBusy DEF Schemas!PublishSchema, SchemaTypes, Working
<1>2. t \in Schemas!Time /\ j \in JobsAt(t) /\ t <= clock BY <1>1, <1>j, InHand, InHandBefore
<1>o. OneTime(t) BY <1>2 DEF WholeInv
<1>3. UNCHANGED <<saved, schemas, deleted, steam>> /\ run' = [run EXCEPT ![w] = Schemas!Idle]
  BY DEF Schemas!PublishSchema
<1>4. JobsAt(t) = {j}
  <2>1. PICK k \in JobsAt(t) : Last(t, k) BY <1>1, <1>j, InFlow
  <2>2. \A i \in JobsAt(t) : i.name = "schema" BY <1>1, <1>j DEF WholeInv, OneRun
  <2> QED BY <1>2, <2>1, <2>2 DEF Last
<1>5. ASSUME JobsAt(t)' = {}, ~(t > clock') PROVE OneTime(t)'
  BY <1>3, <1>5, <1>o DEF OneTime, Phase, InParts, Waits, InVersions, IsListed
<1>6. CASE Schemas!CreateJobs("force", jobs \ {j}, jobs)
  <2>1. /\ clock' = clock + 1 /\ clock' \in Nat
        /\ jobs' = jobs \/ \E i \in Schemas!UrlJob : jobs' = (jobs \ {j}) \cup {i}
             /\ i.time = clock'
    BY <1>6, <1>n, Checking
  <2>2. ASSUME NEW u \in Schemas!Time, u # t \/ jobs' = jobs PROVE OneTime(u)'
    <3>1. JobsAt(u) = {i \in jobs \ {j} : i.time = u} \/ jobs' = jobs BY <1>2, <2>2 DEF JobsAt
    <3> QED BY <1>3, <1>6, <3>1, CheckKeeps
  <2>3. CASE jobs' # jobs
    <3>1. t # clock' /\ ~(t > clock') BY <1>2, <1>n, <2>1
    <3>2. JobsAt(t)' = {} BY <1>4, <2>1, <2>3, <3>1 DEF JobsAt
    <3>3. OneTime(t)' BY <1>5, <3>1, <3>2
    <3> QED BY <1>3, <2>2, <3>3 DEF WholeInv, OneRun, OneByOne, SchemaTypes, Working
  <2> QED BY <1>3, <2>2, <2>3 DEF WholeInv, OneRun, OneByOne, SchemaTypes, Working
<1>7. CASE jobs' = jobs \ {j} /\ UNCHANGED <<recent, clock, faults>>
  <2>1. JobsAt(t)' = {} BY <1>4, <1>7 DEF JobsAt
  <2>2. OneTime(t)' BY <1>2, <1>5, <1>7, <1>n, <2>1
  <2>3. jobs' \ {j} = jobs \ {j} /\ \A i \in {j} : i.time = t BY <1>7, <1>j
  <2>4. \A u \in Schemas!Time : OneTime(u)' BY <1>2, <1>3, <1>7, <2>2, <2>3, OthersKeep
  <2> QED BY <1>3, <2>4 DEF WholeInv, OneRun, OneByOne, SchemaTypes, Working
<1> QED BY <1>6, <1>7, <1>j DEF Schemas!PublishSchema

LEMMA WholeStep ==
  ASSUME SchemaBounds, SchemaTypes, SchemaTypes', WholeInv, OneByOne, [Schemas!Next]_(Schemas!vars)
  PROVE  WholeInv'
<1>1. ASSUME UNCHANGED Schemas!vars PROVE WholeInv'
  <2>1. UNCHANGED <<clock, steam, jobs, run, saved, schemas, deleted>> BY <1>1 DEF Schemas!vars
  <2>2. clock \in Nat /\ steam \in Nat /\ Schemas!Version \subseteq Nat BY NumbersKnown
  <2>3. \A u \in Schemas!Time : OneTime(u)' BY <2>1, <2>2, SameJobs, Elsewhere DEF WholeInv
  <2>4. \A w \in Worker : OneRun(w)' BY <2>1, <2>2, SameJobs, RunStays DEF WholeInv
  <2> QED BY <2>3, <2>4 DEF WholeInv
<1> QED BY <1>1, ChecksKeep, DeletionsKeep, ProcessKeeps, FailKeeps, UpdateUrlKeeps, PartsKeep, MergeKeeps,
           ListKeeps, PublishKeeps DEF Schemas!Next, Schemas!Works

-------------------------------------------------------------------------------
(* Which schema is looked up *)

\* Among times, there is a last one and a first one
LEMMA LastAndFirst ==
  ASSUME SchemaBounds, NEW S \in SUBSET Schemas!Time, S # {}
  PROVE  Schemas!Max(S) \in S /\ Schemas!Min(S) \in S
<1>1. ASSUME NEW T \in SUBSET Nat, T # {} PROVE \E x \in T : \A y \in T : x <= y
  <2>1. \E x \in T : \A y \in T : ~(<<y, x>> \in OpToRel(<, Nat))
    BY <1>1, NatLessThanWellFounded, WFMin
  <2>2. \A x, y \in Nat : y < x => <<y, x>> \in OpToRel(<, Nat) BY DEF OpToRel
  <2>3. \A x, y \in Nat : ~(y < x) => x <= y OBVIOUS
  <2> QED BY <1>1, <2>1, <2>2, <2>3
<1>2. S \subseteq Nat /\ \A x \in S : x <= MaxTime /\ MaxTime - x \in Nat
  BY DEF Schemas!Time, SchemaBounds
<1>3. \E x \in S : \A y \in S : x <= y BY <1>1, <1>2
<1>4. \E x \in S : \A y \in S : x >= y
  <2> DEFINE T == {MaxTime - x : x \in S}
  <2>1. T \in SUBSET Nat /\ T # {} BY <1>2
  <2>2. PICK z \in T : \A y \in T : z <= y BY <1>1, <2>1
  <2>3. PICK x \in S : z = MaxTime - x BY <2>2
  <2>4. \A y \in S : MaxTime - x <= MaxTime - y BY <2>2, <2>3
  <2>5. \A y \in S : x >= y BY <1>2, <2>4 DEF SchemaBounds
  <2> QED BY <2>5
<1> QED BY <1>3, <1>4 DEF Schemas!Max, Schemas!Min

LEMMA LookedUpIsWhole == ASSUME SchemaBounds PROVE SchemaTypes /\ WholeInv => Schemas!Whole
<1> SUFFICES ASSUME SchemaTypes, WholeInv, NEW time \in Schemas!Time,
                    Schemas!Listed \ deleted # {},
                    NEW t, t = Schemas!Closest(time), t \notin deleted, NEW s, s = saved[t]
             PROVE  /\ s.file /\ s.protoObjDefs # {} /\ s.names = Schemas!Page
                    /\ {} \notin {s.overview, s.itemsGame, s.spells, s.parts}
                         \cup {s.items[p] : p \in Schemas!Page}
                    /\ schemas[t].consistent =>
                         s.overview \cup s.itemsGame \cup s.spells \cup s.parts
                           \cup UNION {s.items[p] : p \in Schemas!Page}
                         = {schemas[t].version}
  BY DEF Schemas!Whole
<1>1. t \in Schemas!Listed
  <2> DEFINE earlier == {x \in Schemas!Listed : x <= time}
  <2>1. Schemas!Listed \in SUBSET Schemas!Time /\ Schemas!Listed # {}
          /\ earlier \in SUBSET Schemas!Time
    BY DEF Schemas!Listed
  <2>2. Schemas!Min(Schemas!Listed) \in Schemas!Listed BY <2>1, LastAndFirst
  <2>3. earlier # {} => Schemas!Max(earlier) \in earlier BY <2>1, LastAndFirst
  <2> QED BY <2>2, <2>3 DEF Schemas!Closest
<1>2. t \in Schemas!Time /\ IsListed(t) BY <1>1 DEF Schemas!Listed, WholeInv, OneTime
<1>3. Complete(s) BY <1>1, <1>2 DEF IsListed, Schemas!Listed
<1>4. s \in Parts BY <1>2 DEF SchemaTypes, Kept
<1>5. ASSUME schemas[t].consistent
      PROVE  s.overview \cup s.itemsGame \cup s.spells \cup s.parts
               \cup UNION {s.items[p] : p \in Schemas!Page}
             = {schemas[t].version}
  <2> DEFINE v == schemas[t].version
             all == s.overview \cup s.itemsGame \cup s.spells \cup s.parts
               \cup UNION {s.items[p] : p \in Schemas!Page}
  <2>1. \A x \in Schemas!Version : Came(s, x) => x = v
    BY <1>1, <1>2, <1>5 DEF IsListed, Schemas!Listed
  <2>2. \A x \in all : x \in Schemas!Version /\ Came(s, x) BY <1>4 DEF Came, Parts
  <2>3. \E x \in all : TRUE BY <1>3 DEF Complete
  <2> HIDE DEF all, v
  <2>4. all = {v} BY <2>1, <2>2, <2>3
  <2> QED BY <2>4 DEF all, v
<1>6. {} \notin {s.overview, s.itemsGame, s.spells, s.parts}
        \cup {s.items[p] : p \in Schemas!Page}
  BY <1>3 DEF Complete
<1> QED BY <1>3, <1>5, <1>6 DEF Complete

\* Whatever time is asked for, the schema that is looked up has all of its parts, and when
\* it says that it is consistent, all that came from Steam is of its version: for any pages
\* and versions, when one worker at a time runs the jobs and a check that has started its
\* flow is not tried again.
THEOREM SchemasAreWhole == ASSUME SchemaBounds, OneByOne PROVE Schemas!Spec => []Schemas!Whole
<1>1. Schemas!Init => SchemaTypes /\ WholeInv BY SchemasInit, WholeInit
<1>2. SchemaTypes /\ WholeInv /\ [Schemas!Next]_(Schemas!vars) => (SchemaTypes /\ WholeInv)'
  BY SchemaTypesStep, WholeStep
<1> QED BY <1>1, <1>2, LookedUpIsWhole, PTL DEF Schemas!Spec

\* The same beside the desired listings, for any values of their constants.
THEOREM WholeBesideListings == ASSUME SchemaBounds, OneByOne PROVE MCSpec => []Whole
<1>1. MCInit => SchemaTypes /\ WholeInv BY SchemasInit, WholeInit DEF MCInit
<1>2. SchemaTypes /\ WholeInv /\ [MCNext]_<<component, vars, downloads>> =>
        (SchemaTypes /\ WholeInv)'
  BY OneOfThem, SchemaTypesStep, WholeStep
<1>3. SchemaTypes /\ WholeInv => Whole BY LookedUpIsWhole DEF Whole
<1> QED BY <1>1, <1>2, <1>3, PTL DEF MCSpec
=============================================================================

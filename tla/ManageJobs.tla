------------------------------ MODULE ManageJobs ------------------------------
(***************************************************************************)
(* The manage-listings job queue of the bptf-manager, for one account.     *)
(*                                                                         *)
(* Work waits in Redis (the create, update, delete and delete-archived     *)
(* queues) and a BullMQ job per kind of work, with a fixed job id, takes   *)
(* it batch by batch.  queue.add with the id of a job that exists, waiting *)
(* or running, does nothing, so a request made while the job runs leaves   *)
(* a "pending" flag and the completion handler of the job adds a new job   *)
(* when it finds the flag, or when the batch was full.                     *)
(*                                                                         *)
(* Every Redis or BullMQ round trip is a step of its own.  What a listing  *)
(* looks like is abstract: a member of Listing is both the hash of a       *)
(* desired listing and the id of its backpack.tf listing.                  *)
(***************************************************************************)
EXTENDS Integers, FiniteSets

CONSTANTS
  Listing,      \* listings that may be queued
  Slot,         \* bounds the createJob calls and handlers in flight per kind
  BatchSize,    \* createBatchSize, deleteBatchSize, deleteArchivedBatchSize
  MaxFree,      \* bound on the free listing slots (cap - used)
  MaxRequests,  \* bound on the requests made by other parts of the program
  MaxFaults,    \* bound on crashes and failed completion handlers
  Source,       \* which parts of the program make requests
  Kind          \* the kinds of job an instance looks at, out of JobTypes

ASSUME BatchSizeAssumption == BatchSize \in Nat \ {0}
ASSUME BoundAssumption == MaxFree \in Nat /\ MaxRequests \in Nat /\ MaxFaults \in Nat

VARIABLES
  agent,         \* the account has a registered agent
  queue,         \* the work queued in Redis
  pending,       \* kinds of job whose pending flag is set
  job,           \* the BullMQ job of each kind, and how far its run has come
  batch,         \* the batch a running job has read
  call,          \* createJob calls and handlers in flight
  free,          \* free listing slots
  unregistering, \* agentsUnregistering calls that still have to clear the queues
  wiping,        \* current-listings.deleted-all is emitted and not yet handled
  parked,        \* kinds whose queued work was knowingly left without a job
  passed,        \* listings a plan does not find: ones that are not desired, or have an id
                 \* and no error, or an error that is not to be tried again
  requests,      \* requests made so far
  faults         \* faults so far

vars == <<agent, queue, pending, job, batch, call, free, unregistering, wiping,
          parked, passed, requests, faults>>

JobTypes == {"create", "update", "delete", "delete-archived", "delete-all", "plan"}
ASSUME KindAssumption == Kind \subseteq JobTypes

Deletes == {"delete", "delete-archived"}
Queued == Kind \cap ({"create", "update"} \cup Deletes)   \* the kinds with a queue in Redis

\* Jobs that are only created, and only do anything, while the agent is registered
AgentOnly == {"create", "update", "plan"}

\* none    : no job with this id exists    waiting : waiting or delayed, or just picked up
\* cleared : pending flag cleared          checked : agent checked, batch not read yet
\* read    : batch read, no request made   sent    : request made, batch still queued
JobState == {"none", "waiting", "cleared", "checked", "read", "sent"}

\* completed : onCompleted has to look at the pending flag
\* limits    : deletedCurrentListings has to look at the limits
\* agent, set, add : createJob has to check the agent, set the flag, add the job
CallStep == {"no", "completed", "limits", "agent", "set", "add"}

FirstStep(t) == IF t \in AgentOnly THEN "agent" ELSE "set"

Init ==
  /\ agent \in BOOLEAN
  /\ queue = [t \in Queued |-> {}]
  /\ pending = {}
  /\ job = [t \in Kind |-> "none"]
  /\ batch = [t \in Queued |-> {}]
  /\ call = [p \in Slot \X Kind |-> "no"]
  /\ free \in 0..MaxFree
  /\ unregistering = {}
  /\ wiping = FALSE
  /\ parked = {}
  /\ passed = {}
  /\ requests = 0
  /\ faults = 0

Fault == faults < MaxFaults /\ faults' = faults + 1

-------------------------------------------------------------------------------
(* createJob: check the agent, set the pending flag, add the job *)

CheckAgent(c, t) ==
  /\ call[c, t] = "agent"
  /\ call' = [call EXCEPT ![<<c, t>>] = IF agent THEN "set" ELSE "no"]
  /\ parked' = IF agent THEN parked ELSE parked \cup {t}
  /\ UNCHANGED <<agent, queue, pending, job, batch, free, unregistering, wiping, passed, requests, faults>>

SetPending(c, t) ==
  /\ call[c, t] = "set"
  /\ call' = [call EXCEPT ![<<c, t>>] = "add"]
  /\ pending' = pending \cup {t}
  /\ parked' = parked \ {t}
  /\ UNCHANGED <<agent, queue, job, batch, free, unregistering, wiping, passed, requests, faults>>

\* A job with the same id that is waiting, delayed or running is left as it is
AddJob(c, t) ==
  /\ call[c, t] = "add"
  /\ call' = [call EXCEPT ![<<c, t>>] = "no"]
  /\ job' = IF job[t] = "none" THEN [job EXCEPT ![t] = "waiting"] ELSE job
  /\ UNCHANGED <<agent, queue, pending, batch, free, unregistering, wiping, parked, passed, requests, faults>>

\* Mutant: the completion handler ignores the flag, only full batches run again
OnCompletedIgnoresPending(c, t) ==
  /\ call[c, t] = "completed"
  /\ call' = [call EXCEPT ![<<c, t>>] = "no"]
  /\ UNCHANGED <<agent, queue, pending, job, batch, free, unregistering, wiping, parked, passed, requests, faults>>

\* The completion handler of a batch that was not full
OnCompleted(c, t) ==
  /\ call[c, t] = "completed"
  /\ call' = [call EXCEPT ![<<c, t>>] = IF t \in pending THEN FirstStep(t) ELSE "no"]
  /\ UNCHANGED <<agent, queue, pending, job, batch, free, unregistering, wiping, parked, passed, requests, faults>>

\* Deleting active listings makes room, so creating continues
DeletedCurrentListings(c) ==
  /\ "create" \in Kind
  /\ call[c, "create"] = "limits"
  /\ call' = [call EXCEPT ![<<c, "create">>] = IF free > 0 THEN FirstStep("create") ELSE "no"]
  /\ UNCHANGED <<agent, queue, pending, job, batch, free, unregistering, wiping, parked, passed, requests, faults>>

-------------------------------------------------------------------------------
(* Handlers that queue work, then call createJob *)

Request(s) ==
  /\ s \in Source
  /\ requests < MaxRequests
  /\ requests' = requests + 1
  /\ UNCHANGED <<agent, pending, job, batch, free, unregistering, wiping, parked, passed, faults>>

Idle(c, ts) == \A t \in ts \cap Kind : call[c, t] = "no"

\* createJob is called for every kind in ts at once (Promise.all)
Calling(c, ts) ==
  [p \in Slot \X Kind |-> IF p[1] = c /\ p[2] \in ts THEN FirstStep(p[2]) ELSE call[p]]

Enqueue(q, ts, ls) == [t \in Queued |-> IF t \in ts THEN q[t] \cup ls ELSE q[t]]
Dequeue(q, ts, ls) == [t \in Queued |-> IF t \in ts THEN q[t] \ ls ELSE q[t]]

AddedDesired(c, l, t) ==
  /\ Request("added")
  /\ t \in {"create", "update"}
  /\ Idle(c, {t})
  /\ queue' = Enqueue(queue, {t}, {l})
  /\ call' = Calling(c, {t})

\* A listing that was created for the desired listing is queued to be deleted
RemovedDesired(c, l, hasId) ==
  LET dequeued == Dequeue(queue, {"create", "update"}, {l})
  IN  /\ Request("removed")
      /\ Idle(c, Deletes)
      /\ queue' = IF hasId THEN Enqueue(dequeued, Deletes, {l}) ELSE dequeued
      /\ call' = IF hasId THEN Calling(c, Deletes) ELSE call

\* A listing that exists again is taken off the delete queues; when it is
\* archived, the active listing it replaces is deleted
CreatedDesired(c, l, archived) ==
  LET kept == Dequeue(queue, Deletes, {l})
  IN  /\ Request("created")
      /\ Idle(c, {"delete"})
      /\ queue' = IF archived THEN Enqueue(kept, {"delete"}, {l}) ELSE kept
      /\ call' = IF archived THEN Calling(c, {"delete"}) ELSE call

\* A listing created or updated for a desired listing that is gone is deleted
CurrentListingsUpdated(c, l) ==
  /\ Request("created")
  /\ Idle(c, Deletes)
  /\ queue' = Enqueue(queue, Deletes, {l})
  /\ call' = Calling(c, Deletes)

\* A refresh of the current listings has finished, registered agents do this
\* at every pulse; one refresh ends long before the next one does
RefreshedCurrentListings(c) ==
  /\ "refreshed" \in Source
  /\ "plan" \in Kind
  /\ \A d \in Slot : Idle(d, {"plan"})
  /\ call' = Calling(c, {"plan"})
  /\ UNCHANGED <<agent, queue, pending, job, batch, free, unregistering, wiping, parked, passed, requests, faults>>

-------------------------------------------------------------------------------
(* Agents and limits *)

Register ==
  /\ "agent" \in Source
  /\ ~agent
  /\ unregistering = {}
  /\ agent' = TRUE
  /\ UNCHANGED <<queue, pending, job, batch, call, free, unregistering, wiping, parked, passed, requests, faults>>

AgentsUnregistering(c) ==
  /\ "agent" \in Source
  /\ agent
  /\ unregistering = {}
  /\ Idle(c, {"delete-all"})
  /\ agent' = FALSE
  /\ call' = Calling(c, {"delete-all"})
  /\ unregistering' = {c}
  /\ UNCHANGED <<queue, pending, job, batch, free, wiping, parked, passed, requests, faults>>

ClearQueues(c) ==
  /\ c \in unregistering
  /\ Idle(c, {"delete-all"})
  /\ queue' = [t \in Queued |-> {}]
  /\ unregistering' = {}
  /\ UNCHANGED <<agent, pending, job, batch, call, free, wiping, parked, passed, requests, faults>>

DeletedAllCurrentListings ==
  /\ wiping
  /\ queue' = [t \in Queued |-> IF t \in Deletes THEN {} ELSE queue[t]]
  /\ wiping' = FALSE
  /\ UNCHANGED <<agent, pending, job, batch, call, free, unregistering, parked, passed, requests, faults>>

LimitsRefreshed ==
  /\ "limits" \in Source
  /\ free' \in 0..MaxFree
  /\ UNCHANGED <<agent, queue, pending, job, batch, call, unregistering, wiping, parked, passed, requests, faults>>

-------------------------------------------------------------------------------
(* The worker *)

\* processJob: work queued from here on is picked up by a re-run
ClearPending(t) ==
  /\ job[t] = "waiting"
  /\ pending' = pending \ {t}
  /\ job' = [job EXCEPT ![t] = IF t \in Deletes THEN "checked" ELSE "cleared"]
  /\ UNCHANGED <<agent, queue, batch, call, free, unregistering, wiping, parked, passed, requests, faults>>

\* The job is removed when it completes, then its completion handler runs
Completes(c, t, full) ==
  /\ call[c, t] = "no"
  /\ job' = [job EXCEPT ![t] = "none"]
  /\ call' = [call EXCEPT ![<<c, t>>] = IF full THEN FirstStep(t) ELSE "completed"]

JobCheckAgent(c, t) ==
  /\ job[t] = "cleared"
  /\ IF agent = (t \in AgentOnly)
     THEN /\ job' = [job EXCEPT ![t] = "checked"]
          /\ UNCHANGED <<call, parked>>
     ELSE /\ Completes(c, t, FALSE)
          /\ parked' = parked \cup {t}
  /\ UNCHANGED <<agent, queue, pending, batch, free, unregistering, wiping, passed, requests, faults>>

\* Mutant: a batch one short of full is not the whole queue and not full either
BatchesShort(t) ==
  {b \in SUBSET queue[t] : b = queue[t] \/ Cardinality(b) = BatchSize - 1}

\* All that is queued when it fits, else a full batch; new listings only get
\* the free listing slots, so a batch to create may be smaller
Batches(t) ==
  {b \in SUBSET queue[t] :
     /\ Cardinality(b) <= BatchSize
     /\ \/ b = queue[t]
        \/ Cardinality(b) = BatchSize
        \/ t = "create" /\ Cardinality(b) >= free}

Read(c, t) ==
  /\ t \in Queued
  /\ job[t] = "checked"
  /\ \E b \in Batches(t) :
       /\ parked' = IF b = queue[t] \/ Cardinality(b) = BatchSize THEN parked ELSE parked \cup {t}
       /\ IF b = {}
          THEN Completes(c, t, FALSE) /\ UNCHANGED batch
          ELSE /\ batch' = [batch EXCEPT ![t] = b]
               /\ job' = [job EXCEPT ![t] = "read"]
               /\ UNCHANGED call
  /\ UNCHANGED <<agent, queue, pending, free, unregistering, wiping, passed, requests, faults>>

\* Mutant: the used slots may exceed the cap
SendOverCap(c, t) ==
  /\ job[t] = "read"
  /\ job' = [job EXCEPT ![t] = "sent"]
  /\ free' = free - (IF t = "create" THEN Cardinality(batch[t]) ELSE 0)
  /\ UNCHANGED <<agent, queue, pending, batch, call, unregistering, wiping, parked, passed, requests, faults>>

\* The request to backpack.tf and what is saved of the answer.  Created
\* listings take slots; deleted ones free slots, which is then announced
Send(c, t) ==
  /\ job[t] = "read"
  /\ job' = [job EXCEPT ![t] = "sent"]
  /\ free' \in IF t = "create" THEN 0..free ELSE IF t = "delete" THEN free..MaxFree ELSE {free}
  /\ IF t = "delete" /\ "create" \in Kind
     THEN /\ Idle(c, {"create"})
          /\ call' = [call EXCEPT ![<<c, "create">>] = "limits"]
     ELSE UNCHANGED call
  /\ UNCHANGED <<agent, queue, pending, batch, unregistering, wiping, parked, passed, requests, faults>>

\* No free limiter slot, no token, or an error: the job runs again later.  A
\* plan asks nothing of backpack.tf, so when it fails that is a fault
Retry(t) ==
  /\ job[t] \in {"checked", "read"}
  /\ job' = [job EXCEPT ![t] = "waiting"]
  /\ batch' = IF t \in Queued THEN [batch EXCEPT ![t] = {}] ELSE batch
  /\ IF t = "plan" THEN Fault ELSE UNCHANGED faults
  /\ UNCHANGED <<agent, queue, pending, call, free, unregistering, wiping, parked, passed, requests>>

\* The batch leaves the queue, whatever was queued again meanwhile
Settle(c, t) ==
  /\ t \in Queued \ {"update"}
  /\ job[t] = "sent"
  /\ queue' = [queue EXCEPT ![t] = @ \ batch[t]]
  /\ batch' = [batch EXCEPT ![t] = {}]
  /\ Completes(c, t, Cardinality(batch[t]) = BatchSize)
  /\ UNCHANGED <<agent, pending, free, unregistering, wiping, parked, passed, requests, faults>>

\* Listings that could not be updated are queued to be created
SettleUpdate(c, failed) ==
  LET recreate == IF failed = {} THEN {} ELSE {"create"}
      rerun    == IF Cardinality(batch["update"]) = BatchSize THEN "agent" ELSE "completed"
  IN  /\ "update" \in Kind
      /\ job["update"] = "sent"
      /\ failed \subseteq batch["update"]
      /\ Idle(c, {"update", "create"})
      /\ queue' = Enqueue(Dequeue(queue, {"update"}, batch["update"]), recreate, failed)
      /\ job' = [job EXCEPT !["update"] = "none"]
      /\ call' = [Calling(c, recreate) EXCEPT ![<<c, "update">>] = rerun]
      /\ batch' = [batch EXCEPT !["update"] = {}]
      /\ UNCHANGED <<agent, pending, free, unregistering, wiping, parked, passed, requests, faults>>

\* The agent is checked again because the job may have waited for the limiter
DeleteAllListings(c) ==
  /\ "delete-all" \in Kind
  /\ job["delete-all"] = "checked"
  /\ Completes(c, "delete-all", FALSE)
  /\ IF agent
     THEN UNCHANGED <<free, wiping>>
     ELSE free' = MaxFree /\ wiping' = TRUE
  /\ UNCHANGED <<agent, queue, pending, batch, unregistering, parked, passed, requests, faults>>

\* Mutant: the plan queues what it finds and wakes nothing
PlanWithoutJobs(c, create, update, remove) ==
  /\ "plan" \in Kind
  /\ job["plan"] = "checked"
  /\ Idle(c, {"plan"})
  /\ queue' = Enqueue(queue, {"create"}, create)
  /\ job' = [job EXCEPT !["plan"] = "none"]
  /\ call' = [call EXCEPT ![<<c, "plan">>] = "completed"]
  /\ update = {} /\ remove = {}
  /\ requests = MaxRequests => create \subseteq queue["create"]
  /\ UNCHANGED <<agent, pending, batch, free, unregistering, wiping, parked, passed, requests, faults>>

\* Desired listings without a listing, or with an error that may go, are queued to be
\* created, and with them what was queued already, but for the ones passed over: a
\* forced recreate, say, is of a listing with an id and no error.  Other differences
\* are queued to be created, updated or deleted.  Beyond MaxRequests nothing is found
\* that is not queued already
PlanListings(c, create, update, remove) ==
  LET found(t) == CASE t = "create" -> create
                    [] t = "update" -> update
                    [] OTHER        -> remove
      wake == {t \in Queued : found(t) # {}}
  IN  /\ "plan" \in Kind
      /\ job["plan"] = "checked"
      /\ create \cap update = {}
      /\ "create" \in Kind => queue["create"] \ passed \subseteq create
      /\ requests = MaxRequests => \A t \in Queued : found(t) \subseteq queue[t]
      /\ Idle(c, wake \cup {"plan"})
      /\ queue' = [t \in Queued |-> queue[t] \cup found(t)]
      /\ job' = [job EXCEPT !["plan"] = "none"]
      /\ call' = [Calling(c, wake) EXCEPT ![<<c, "plan">>] = "completed"]
      /\ UNCHANGED <<agent, pending, batch, free, unregistering, wiping, parked, passed, requests, faults>>

\* What is desired is added and removed, and the ids and errors of it are saved, by
\* handlers of what happened to listings.  Only a plan looks at the difference
UpdateDesired(ls) ==
  /\ "plan" \in Kind
  /\ passed' = ls
  /\ UNCHANGED <<agent, queue, pending, job, batch, call, free, unregistering, wiping, parked, requests, faults>>

-------------------------------------------------------------------------------
(* Faults *)

\* Calls and handlers in flight are lost; BullMQ finds the stalled jobs and
\* makes them wait again
Crash ==
  /\ Fault
  /\ job' = [t \in Kind |-> IF job[t] = "none" THEN "none" ELSE "waiting"]
  /\ batch' = [t \in Queued |-> {}]
  /\ call' = [p \in Slot \X Kind |-> "no"]
  /\ unregistering' = {}
  /\ wiping' = FALSE
  /\ UNCHANGED <<agent, queue, pending, free, parked, passed, requests>>

\* The completion handler only logs an error
OnCompletedFails(c, t) ==
  /\ Fault
  /\ call[c, t] = "completed"
  /\ call' = [call EXCEPT ![<<c, t>>] = "no"]
  /\ UNCHANGED <<agent, queue, pending, job, batch, free, unregistering, wiping, parked, passed, requests>>

-------------------------------------------------------------------------------
Call(c, t) == CheckAgent(c, t) \/ SetPending(c, t) \/ AddJob(c, t) \/ OnCompleted(c, t)

Work(c, t) == JobCheckAgent(c, t) \/ Settle(c, t)

Next ==
  \/ \E c \in Slot, t \in Kind :
       Call(c, t) \/ Work(c, t) \/ Read(c, t) \/ Send(c, t) \/ OnCompletedFails(c, t)
  \/ \E t \in Kind : ClearPending(t) \/ Retry(t)
  \/ \E c \in Slot, l \in Listing :
       \/ \E t \in Queued : AddedDesired(c, l, t)
       \/ \E b \in BOOLEAN : RemovedDesired(c, l, b) \/ CreatedDesired(c, l, b)
       \/ CurrentListingsUpdated(c, l)
  \/ \E c \in Slot :
       \/ DeletedCurrentListings(c) \/ RefreshedCurrentListings(c)
       \/ AgentsUnregistering(c) \/ ClearQueues(c) \/ DeleteAllListings(c)
       \/ \E failed \in SUBSET Listing : SettleUpdate(c, failed)
       \/ \E create, update, remove \in SUBSET Listing : PlanListings(c, create, update, remove)
  \/ Register \/ DeletedAllCurrentListings \/ LimitsRefreshed \/ Crash
  \/ \E ls \in SUBSET Listing : UpdateDesired(ls)

Spec == Init /\ [][Next]_vars

\* Calls, handlers and the worker get on with it; a request that is retried
\* again and again is answered in the end; a registered agent keeps pulsing.
\* Steps that need a slot are strongly fair: the program has no such bound
Fairness ==
  /\ \A c \in Slot, t \in Kind : WF_vars(Call(c, t))
  /\ \A t \in Kind :
       /\ WF_vars(ClearPending(t))
       /\ SF_vars(\E c \in Slot : Work(c, t))
       /\ SF_vars(\E c \in Slot : Read(c, t))
       /\ SF_vars(\E c \in Slot : Send(c, t))
  /\ \A c \in Slot : WF_vars(DeletedCurrentListings(c)) /\ WF_vars(ClearQueues(c))
  /\ SF_vars(\E c \in Slot, failed \in SUBSET Listing : SettleUpdate(c, failed))
  /\ SF_vars(\E c \in Slot : DeleteAllListings(c))
  /\ SF_vars(\E c \in Slot, create, update, remove \in SUBSET Listing :
                PlanListings(c, create, update, remove))
  /\ WF_vars(\E c \in Slot : RefreshedCurrentListings(c))
  /\ WF_vars(DeletedAllCurrentListings)

FairSpec == Spec /\ Fairness

-------------------------------------------------------------------------------
(* Properties *)

\* A type invariant: which jobs, flags, batches and calls there can be.
TypeOK ==
  /\ agent \in BOOLEAN
  /\ queue \in [Queued -> SUBSET Listing]
  /\ pending \subseteq Kind
  /\ job \in [Kind -> JobState]
  /\ batch \in [Queued -> SUBSET Listing]
  /\ call \in [Slot \X Kind -> CallStep]
  /\ free \in 0..MaxFree
  /\ unregistering \subseteq Slot
  /\ wiping \in BOOLEAN
  /\ parked \subseteq Kind
  /\ passed \subseteq Listing
  /\ requests \in 0..MaxRequests
  /\ faults \in 0..MaxFaults

Coming(t) == \E c \in Slot : call[c, t] \in {"agent", "set", "add"}
WillRerun(t) == t \in pending /\ \E c \in Slot : call[c, t] = "completed"

Parked(t) == t \in parked \cap AgentOnly

\* Queued work never lies about with nothing on its way to do it: there is a
\* job for it, a createJob call that will add one, or a completion handler that
\* will find the pending flag.  Only a missing agent and a lack of listing
\* slots leave work without a job, and then the code has seen that.
NoLostWakeup ==
  \A t \in Queued :
    queue[t] # {} => job[t] # "none" \/ Coming(t) \/ WillRerun(t) \/ Parked(t)

LeftAnnounced(t) ==
  job[t] = "none" /\ queue[t] # {} => Coming(t) \/ WillRerun(t) \/ Parked(t)

RestAnnounced(t) ==
  job[t] \in {"read", "sent"} =>
    \/ queue[t] \subseteq batch[t]
    \/ Cardinality(batch[t]) = BatchSize
    \/ t \in pending
    \/ \E c \in Slot : call[c, t] \in {"agent", "set"}
    \/ Parked(t)

\* What makes NoLostWakeup hold: once a run has read its batch, work beyond the
\* batch is announced by the pending flag, or by a createJob call that has yet
\* to set it, unless the batch was full; and what a job leaves when it is gone
\* is announced likewise.
WakeupInv ==
  /\ \A t \in Queued : LeftAnnounced(t) /\ RestAnnounced(t) /\ (job[t] = "cleared" => t \notin Deletes)
  /\ \A c \in Slot, t \in Kind : call[c, t] = "agent" => t \in AgentOnly
===============================================================================

--------------------------- MODULE InventoryRefresh ---------------------------
(***************************************************************************)
(* The backpack.tf inventory of one account is requested to be refreshed   *)
(* until it is newer than asked for (InventoriesService, its two           *)
(* processors and their queues).                                           *)
(*                                                                         *)
(* What is asked for is kept as a refresh point.  A chain of jobs serves   *)
(* it: an enqueue job reads the status of the inventory and adds the first *)
(* job, and every job requests a refresh, and then either ends the chain   *)
(* or adds the next job.  Whoever schedules starts a chain when there is   *)
(* none, and otherwise only raises the point.                              *)
(***************************************************************************)
EXTENDS Naturals, FiniteSetsExt

CONSTANTS
  Fault,        \* what may go wrong, or be asked for, besides refreshes
  MaxRequests,  \* bound on the refreshes asked for
  MaxFaults,    \* bound on the faults
  MaxTime       \* the last second of the clock

ASSUME MaxTimeAssumption == MaxTime \in Nat \ {0}
ASSUME BoundAssumption == MaxRequests \in Nat /\ MaxFaults \in Nat

Slots == {1, 2}   \* places for the jobs of the inventories queue: one for a chain

VARIABLES
  now,          \* the clock, in seconds
  snapshot,     \* when backpack.tf last read the inventory from Steam
  asked,        \* whether backpack.tf has yet to act on a request
  point,        \* inventories:refresh:<steamid>, 0 when there is none
  inventory,    \* inventories:<steamid>: the answer to the last request, and when that was made
  schedule,     \* scheduleRefresh, which holds the lock while it is not "idle"
  dequeue,      \* dequeueRefresh, from the point to the jobs
  enqueueJob,   \* the job of the enqueueInventories queue
  jobs,         \* the jobs of the inventories queue
  lost,         \* whether the last refresh was left without a chain (history)
  disturbed,    \* whether one was cancelled, or a job had saved its answer and was retried (history)
  requests, faults

vars == <<now, snapshot, asked, point, inventory, schedule, dequeue, enqueueJob, jobs, lost, disturbed,
          requests, faults>>
counts == <<requests, faults>>

Time == 0..MaxTime
Timestamp == Nat
NoJob == [step |-> "none", first |-> TRUE, refreshed |-> 0, read |-> 0, status |-> 0, refresh |-> 0]
NoEnqueueJob == [step |-> "none", status |-> 0]

TypeOK ==
  /\ now \in Time /\ snapshot \in Timestamp /\ asked \in BOOLEAN
  /\ point \in Time
  /\ inventory \in [timestamp : Timestamp, refresh : Time]
  /\ schedule \in {"idle", "find", "add"} /\ dequeue \in {"idle", "remove"}
  /\ enqueueJob \in [step : {"none", "waiting", "check", "add", "ended"}, status : Timestamp]
  /\ jobs \in [Slots -> [step : {"none", "waiting", "save", "decide", "ended"}, first : BOOLEAN,
                         refreshed : Timestamp, read : Time, status : Timestamp, refresh : Time]]
  /\ lost \in BOOLEAN /\ disturbed \in BOOLEAN /\ requests \in 0..MaxRequests /\ faults \in 0..MaxFaults

Init ==
  /\ now = 1 /\ snapshot = 0 /\ asked = FALSE
  /\ point = 0 /\ inventory = [timestamp |-> 0, refresh |-> 0]
  /\ schedule = "idle" /\ dequeue = "idle"
  /\ enqueueJob = NoEnqueueJob /\ jobs = [s \in Slots |-> NoJob]
  /\ lost = FALSE /\ disturbed = FALSE /\ requests = 0 /\ faults = 0

Fails(f) == f \in Fault /\ faults < MaxFaults /\ faults' = faults + 1

----
(* backpack.tf *)

Tick == now < MaxTime /\ now' = now + 1
        /\ UNCHANGED <<snapshot, asked, point, inventory, schedule, dequeue, enqueueJob, jobs, lost, disturbed, counts>>

(* The inventory is read from Steam: because it was asked to, or because   *)
(* somebody else asked.  The last second of the clock is as long as it     *)
(* takes, so that what is read in it gets a timestamp of its own.          *)
Snapshot ==
  /\ asked \/ now > snapshot
  /\ snapshot' = IF snapshot >= MaxTime THEN snapshot + 1 ELSE now
  /\ asked' = FALSE
  /\ UNCHANGED <<now, point, inventory, schedule, dequeue, enqueueJob, jobs, lost, disturbed, counts>>

----
(* scheduleRefresh and dequeueRefresh *)

NoJobs == enqueueJob.step = "none" /\ \A s \in Slots : jobs[s].step = "none"

\* Mutation: a point is taken for a chain that works on it, also when the chain has died
HasChainTrusted == TRUE

HasChain == ~NoJobs

\* whether somebody will still look at the point, and act on it
Served == \/ enqueueJob.step \in {"waiting", "check", "add"}
          \/ \E s \in Slots : jobs[s].step \in {"waiting", "save", "decide"}

\* the inventory must be newer than t: the point is raised, under the lock
ScheduleRefresh(t) ==
  /\ schedule = "idle" /\ requests < MaxRequests /\ requests' = requests + 1
  /\ inventory.timestamp < t
  /\ point' = Max({point, t})
  /\ schedule' = IF point = 0 THEN "add" ELSE "find"
  /\ lost' = FALSE
  /\ UNCHANGED <<now, snapshot, asked, inventory, dequeue, enqueueJob, jobs, faults, disturbed>>

\* there is a chain already, of which there may be nothing left but a job that has ended
FindChain ==
  /\ schedule = "find" /\ HasChain
  /\ schedule' = "idle"
  /\ lost' = (~Served /\ ~NoJobs)
  /\ UNCHANGED <<now, snapshot, asked, point, inventory, dequeue, enqueueJob, jobs, disturbed, counts>>

\* an enqueue job is added, which does nothing while its id is taken
StartChain ==
  /\ schedule = "add" \/ (schedule = "find" /\ ~HasChain)
  /\ enqueueJob' = IF enqueueJob.step = "none" THEN [NoEnqueueJob EXCEPT !.step = "waiting"] ELSE enqueueJob
  /\ lost' = (enqueueJob.step = "ended" /\ ~Served)
  /\ schedule' = "idle"
  /\ UNCHANGED <<now, snapshot, asked, point, inventory, dequeue, jobs, disturbed, counts>>

\* the process stops between the point and the job: the lock expires
StopScheduling ==
  /\ schedule # "idle" /\ Fails("schedule")
  /\ schedule' = "idle"
  /\ lost' = ~Served
  /\ UNCHANGED <<now, snapshot, asked, point, inventory, dequeue, enqueueJob, jobs, requests, disturbed>>

DeletePoint ==
  /\ schedule = "idle" /\ dequeue = "idle" /\ Fails("cancel")
  /\ point' = 0 /\ dequeue' = "remove" /\ lost' = FALSE /\ disturbed' = TRUE
  /\ UNCHANGED <<now, snapshot, asked, inventory, schedule, enqueueJob, jobs, requests>>

\* jobs that no worker has are removed, also those of a chain that was started since
RemoveJobs ==
  /\ dequeue = "remove" /\ dequeue' = "idle"
  /\ enqueueJob' = IF enqueueJob.step = "waiting" THEN NoEnqueueJob ELSE enqueueJob
  /\ jobs' = [s \in Slots |-> IF jobs[s].step = "waiting" THEN NoJob ELSE jobs[s]]
  /\ lost' = (point # 0 /\ (lost \/ ~Served'))
  /\ UNCHANGED <<now, snapshot, asked, point, inventory, schedule, disturbed, counts>>

----
(* EnqueueInventoriesProcessor.processJob *)

GetStatus ==
  /\ enqueueJob.step = "waiting"
  /\ enqueueJob' = [step |-> "check", status |-> snapshot]
  /\ UNCHANGED <<now, snapshot, asked, point, inventory, schedule, dequeue, jobs, lost, disturbed, counts>>

\* a job that fails is retried until it does not
RetryEnqueue ==
  /\ enqueueJob.step \in {"check", "add"} /\ Fails("status")
  /\ enqueueJob' = [NoEnqueueJob EXCEPT !.step = "waiting"]
  /\ UNCHANGED <<now, snapshot, asked, point, inventory, schedule, dequeue, jobs, lost, requests, disturbed>>

CheckPoint ==
  /\ enqueueJob.step = "check"
  /\ enqueueJob' = [enqueueJob EXCEPT !.step = IF point = 0 THEN "ended" ELSE "add"]
  /\ UNCHANGED <<now, snapshot, asked, point, inventory, schedule, dequeue, jobs, lost, disturbed, counts>>

(* The id of a job has the number of its attempt: a first job is not added  *)
(* while there is another first one.                                       *)
AddFirst ==
  LET taken == {s \in Slots : jobs[s].step # "none" /\ jobs[s].first}
      job == [NoJob EXCEPT !.step = "waiting", !.refreshed = enqueueJob.status]
  IN /\ enqueueJob.step = "add"
     /\ enqueueJob' = [enqueueJob EXCEPT !.step = "ended"]
     /\ IF taken = {}
        THEN /\ \E s \in Slots : jobs[s].step = "none" /\ jobs' = [jobs EXCEPT ![s] = job]
             /\ UNCHANGED lost
        ELSE /\ lost' = (lost \/ (point # 0 /\ \A s \in Slots : jobs[s].step \in {"none", "ended"}))
             /\ UNCHANGED jobs
     /\ UNCHANGED <<now, snapshot, asked, point, inventory, schedule, dequeue, disturbed, counts>>

CompleteEnqueue ==
  /\ enqueueJob.step = "ended"
  /\ enqueueJob' = NoEnqueueJob
  /\ UNCHANGED <<now, snapshot, asked, point, inventory, schedule, dequeue, jobs, lost, disturbed, counts>>

----
(* InventoriesProcessor.processJob *)

\* the last request is read, and the inventory is requested to be refreshed
RequestRefresh(s) ==
  /\ jobs[s].step = "waiting"
  /\ jobs' = [jobs EXCEPT ![s] = [@ EXCEPT !.step = "save", !.read = inventory.refresh,
                                           !.status = snapshot, !.refresh = now]]
  /\ asked' = TRUE
  /\ UNCHANGED <<now, snapshot, point, inventory, schedule, dequeue, enqueueJob, lost, disturbed, counts>>

SaveInventory(s) ==
  /\ jobs[s].step = "save"
  /\ jobs' = [jobs EXCEPT ![s].step = "decide"]
  /\ inventory' = [timestamp |-> jobs[s].status, refresh |-> jobs[s].refresh]
  /\ UNCHANGED <<now, snapshot, asked, point, schedule, dequeue, enqueueJob, lost, disturbed, counts>>

Retried(s) == jobs' = [jobs EXCEPT ![s] = [NoJob EXCEPT !.step = "waiting", !.first = jobs[s].first,
                                                        !.refreshed = jobs[s].refreshed]]

\* the answer to the request is lost
RetryRequest(s) ==
  /\ jobs[s].step = "save" /\ Fails("request") /\ Retried(s)
  /\ UNCHANGED <<now, snapshot, asked, point, inventory, schedule, dequeue, enqueueJob, lost, requests, disturbed>>

\* the lock, or the queue, is not available, or the worker stops
RetryDecision(s) ==
  /\ jobs[s].step = "decide" /\ Fails("decision") /\ Retried(s)
  /\ disturbed' = TRUE
  /\ UNCHANGED <<now, snapshot, asked, point, inventory, schedule, dequeue, enqueueJob, lost, requests>>

\* Mutation: what is asked for is not looked at
RefreshedSince(job) == job.status > job.refreshed

\* whether backpack.tf has read the inventory since the attempt before, which was made in time
Refreshed(job) == job.status > job.refreshed /\ job.read >= point

(* continueRefresh, under the lock: the chain ends or goes on.  The next   *)
(* job takes the place of this one; the id of a later job may be taken by  *)
(* one of another chain.                                                   *)
ContinueRefresh(s) ==
  LET next == [NoJob EXCEPT !.step = "waiting", !.first = FALSE, !.refreshed = jobs[s].status]
      others == {o \in Slots \ {s} : jobs[o].step # "none" /\ ~jobs[o].first}
      ends == point = 0 \/ Refreshed(jobs[s])
  IN /\ jobs[s].step = "decide" /\ schedule = "idle"
     /\ IF ends
        THEN /\ jobs' = [jobs EXCEPT ![s] = [NoJob EXCEPT !.step = "ended", !.first = jobs[s].first]]
             /\ point' = 0 /\ lost' = FALSE
        ELSE /\ \/ jobs' = [jobs EXCEPT ![s] = next] /\ UNCHANGED lost
                \/ /\ others # {}
                   /\ jobs' = [jobs EXCEPT ![s] = NoJob]
                   /\ lost' = (lost \/ \A o \in others : jobs[o].step = "ended")
             /\ UNCHANGED point
     /\ UNCHANGED <<now, snapshot, asked, inventory, schedule, dequeue, enqueueJob, disturbed, counts>>

CompleteJob(s) ==
  /\ jobs[s].step = "ended"
  /\ jobs' = [jobs EXCEPT ![s] = NoJob]
  /\ UNCHANGED <<now, snapshot, asked, point, inventory, schedule, dequeue, enqueueJob, lost, disturbed, counts>>

----
Scheduling == FindChain \/ StartChain \/ RemoveJobs
Enqueueing == GetStatus \/ CheckPoint \/ AddFirst \/ CompleteEnqueue
Refreshing(s) == RequestRefresh(s) \/ SaveInventory(s) \/ ContinueRefresh(s) \/ CompleteJob(s)

Next ==
  \/ Tick \/ Snapshot
  \/ \E t \in Time \ {0} : ScheduleRefresh(t)
  \/ DeletePoint \/ StopScheduling \/ Scheduling
  \/ Enqueueing \/ RetryEnqueue
  \/ \E s \in Slots : Refreshing(s) \/ RetryRequest(s) \/ RetryDecision(s)

Spec == Init /\ [][Next]_vars

----
(* A refresh ends only with an inventory that backpack.tf has read since   *)
(* the time it was asked for: what continueRefresh compares is the answer  *)
(* to the attempt before with a point that may have been raised since.     *)
(* (That it is an attempt before holds while a chain is alone and a job    *)
(* is not tried again after it has saved the answer, hence disturbed.)     *)
EndsRefreshed ==
  (\E s \in Slots : ContinueRefresh(s)) /\ point' # point /\ ~disturbed => snapshot >= point

RefreshedAfter == [][EndsRefreshed]_vars

(* What was asked for is never forgotten: while there is a point, somebody *)
(* will look at it.  A point that is raised while a chain comes to its end *)
(* is seen by the chain or starts one - unless the process stops between   *)
(* the point and the job, which the next request makes good, the id of the *)
(* new chain was still taken, or its jobs were removed with those of a     *)
(* cancelled one (lost).                                                   *)
PointServed == point # 0 /\ schedule = "idle" => Served \/ lost
===============================================================================

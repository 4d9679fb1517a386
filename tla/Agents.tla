-------------------------------- MODULE Agents --------------------------------
(***************************************************************************)
(* The agent of one account in the bptf-manager.  While an agent is        *)
(* registered the program pulses, and backpack.tf shows the listings of    *)
(* the account.  Pulses are jobs of the registerAgents queue: one right    *)
(* away when an agent is registered, then one each time a job scheduler    *)
(* comes to the slot of the account.  Unregistering forgets the agent and  *)
(* leaves the rest to a job of the unregisterAgents queue; a pulse that    *)
(* completes and finds no agent does the same work again.                  *)
(*                                                                         *)
(* Registering, unregistering and cleaning up hold one lock; pulses hold   *)
(* none.  An older version of the program scheduled pulses differently,    *)
(* and its schedules are replaced when the program starts.                 *)
(***************************************************************************)
EXTENDS Integers, FiniteSets

CONSTANTS
  Fault,        \* faults that happen, each at most once
  MaxRequests   \* bound on the requests to register and to unregister

VARIABLES
  agent,       \* the account has an agent (a field of the hash "agents")
  token,       \* the account has a token
  schedules,   \* the job schedulers that pulse for the account
  job,         \* the jobs for the account
  register, unregister, cleanup,   \* how far the call that holds the lock has come
  cleaner,     \* who cleans up, the job or the handler of a completed pulse
  completed,   \* a pulse has completed and its handler has not looked at the agent
  unneeded,    \* the handler has found no agent and waits for the lock to clean up
  started,     \* onModuleInit is done, requests are served
  shown,       \* backpack.tf takes the agent for running
  requests, faults

vars == <<agent, token, schedules, job, register, unregister, cleanup, cleaner, completed,
          unneeded, started, shown, requests, faults>>
calls == <<register, unregister, cleanup, cleaner>>
handlers == <<completed, unneeded>>
bounds == <<requests, faults>>

Pulse == {"pulse", "slot"}   \* the job that is added at once, and that of the scheduler

Init ==
  /\ agent \in BOOLEAN
  /\ schedules \in IF agent THEN {{"old"}, {"new"}} ELSE {{}}
  /\ shown = agent
  /\ token = TRUE
  /\ job = [j \in Pulse \cup {"unregister"} |-> "none"]
  /\ register = "no" /\ unregister = "no" /\ cleanup = "no" /\ cleaner = "job"
  /\ completed = FALSE /\ unneeded = FALSE /\ started = FALSE
  /\ requests = 0 /\ faults = Fault

Fail(f) == f \in faults /\ faults' = faults \ {f}
Request == started /\ requests < MaxRequests /\ requests' = requests + 1
Unlocked == register = "no" /\ unregister = "no" /\ cleanup = "no"

\* queue.add with the id of a job that exists does nothing
Add(j) == job' = [job EXCEPT ![j] = IF @ = "none" THEN "waiting" ELSE @]

-------------------------------------------------------------------------------
(* Registering *)

\* enqueueRegisterAgent: setAgent
SetAgent ==
  /\ Request /\ Unlocked
  /\ agent' = TRUE
  /\ register' = "look"
  /\ UNCHANGED <<token, schedules, job, unregister, cleanup, cleaner, handlers, started, shown, faults>>

\* getJobScheduler: nothing more is done when the account is scheduled
LookAtSchedule ==
  /\ register = "look"
  /\ register' = IF "new" \in schedules THEN "no" ELSE "others"
  /\ UNCHANGED <<agent, token, schedules, job, unregister, cleanup, cleaner, handlers, started, shown, bounds>>

\* scheduleRegister, which onModuleInit calls too: other schedules are removed first
RemoveOthers ==
  /\ register = "others"
  /\ schedules' = schedules \ {"old"}
  /\ register' = "schedule"
  /\ UNCHANGED <<agent, token, job, unregister, cleanup, cleaner, handlers, started, shown, bounds>>

ScheduleRegister ==
  /\ register = "schedule"
  /\ schedules' = schedules \cup {"new"}
  /\ register' = IF started THEN "pulse" ELSE "no"
  /\ started' = TRUE
  /\ UNCHANGED <<agent, token, job, unregister, cleanup, cleaner, handlers, shown, bounds>>

AddPulse ==
  /\ register = "pulse"
  /\ Add("pulse")
  /\ register' = "no"
  /\ UNCHANGED <<agent, token, schedules, unregister, cleanup, cleaner, handlers, started, shown, bounds>>

\* onModuleInit schedules the agents there are; requests are served afterwards
OnModuleInit ==
  /\ ~started /\ Unlocked
  /\ register' = IF agent THEN "others" ELSE "no"
  /\ started' = ~agent
  /\ UNCHANGED <<agent, token, schedules, job, unregister, cleanup, cleaner, handlers, shown, bounds>>

-------------------------------------------------------------------------------
(* Unregistering *)

\* enqueueUnregisterAgent: nothing is done without an agent
DeleteAgent ==
  /\ Request /\ Unlocked
  /\ agent
  /\ agent' = FALSE
  /\ unregister' = "add"
  /\ UNCHANGED <<token, schedules, job, register, cleanup, cleaner, handlers, started, shown, faults>>

AddUnregister ==
  /\ unregister = "add"
  /\ Add("unregister")
  /\ unregister' = "no"
  /\ UNCHANGED <<agent, token, schedules, register, cleanup, cleaner, handlers, started, shown, bounds>>

\* Mutation: a cleanup that does not look at the agent again
NeededAlways(who) == cleanup' = "schedules" /\ cleaner' = who

\* cleanupAndUnregisterAgent is skipped when there is an agent again
Needed(who) ==
  \/ agent /\ UNCHANGED <<cleanup, cleaner>>
  \/ ~agent /\ cleanup' = "schedules" /\ cleaner' = who

\* of the job: when it is skipped the job is done
UnregisterJob ==
  /\ job["unregister"] = "waiting" /\ Unlocked
  /\ Needed("job")
  /\ job' = [job EXCEPT !["unregister"] = IF agent THEN "done" ELSE "active"]
  /\ UNCHANGED <<agent, token, schedules, register, unregister, handlers, started, shown, bounds>>

\* BullMQ removes the job some time after it is done
RemoveUnregister ==
  /\ job["unregister"] = "done"
  /\ job' = [job EXCEPT !["unregister"] = "none"]
  /\ UNCHANGED <<agent, token, schedules, calls, handlers, started, shown, bounds>>

\* of the handler of a completed pulse
CleanUp ==
  /\ unneeded /\ Unlocked
  /\ unneeded' = FALSE
  /\ Needed("handler")
  /\ UNCHANGED <<agent, token, schedules, job, register, unregister, completed, started, shown, bounds>>

RemoveSchedulers ==
  /\ cleanup = "schedules"
  /\ schedules' = {}
  /\ cleanup' = "jobs"
  /\ UNCHANGED <<agent, token, job, register, unregister, cleaner, handlers, started, shown, bounds>>

\* a job that runs is locked by its worker and stays
RemoveJobs ==
  /\ cleanup = "jobs"
  /\ job' = [j \in DOMAIN job |-> IF j \in Pulse /\ job[j] = "waiting" THEN "none" ELSE job[j]]
  /\ cleanup' = "stop"
  /\ UNCHANGED <<agent, token, schedules, register, unregister, cleaner, handlers, started, shown, bounds>>

\* The stop is sent, or there is no token, which fails a job for good
Unregister ==
  /\ cleanup = "stop"
  /\ shown' = (shown /\ ~token)
  /\ cleanup' = "no"
  /\ job' = [job EXCEPT !["unregister"] = IF cleaner = "job" THEN "done" ELSE @]
  /\ UNCHANGED <<agent, token, schedules, register, unregister, cleaner, handlers, started, bounds>>

\* The stop fails, whether it arrived or not: the job is tried again, the handler gives up
StopFails ==
  /\ cleanup = "stop" /\ token
  /\ Fail(IF cleaner = "job" THEN "stop" ELSE "last stop")
  /\ shown' \in {shown, FALSE}
  /\ cleanup' = "no"
  /\ job' = [job EXCEPT !["unregister"] = IF cleaner = "job" THEN "waiting" ELSE @]
  /\ UNCHANGED <<agent, token, schedules, register, unregister, cleaner, handlers, started, requests>>

-------------------------------------------------------------------------------
(* Pulses, one at a time *)

\* A schedule comes to the slot of the account
SlotComes ==
  /\ schedules # {} /\ job["slot"] = "none"
  /\ Add("slot")
  /\ UNCHANGED <<agent, token, schedules, calls, handlers, started, shown, bounds>>

\* processJob: without an agent there is nothing to do and the job completes
StartPulse(j) ==
  /\ job[j] = "waiting" /\ \A k \in Pulse : job[k] # "active"
  /\ job' = [job EXCEPT ![j] = IF agent THEN "active" ELSE "none"]
  /\ completed' = (completed \/ ~agent)
  /\ UNCHANGED <<agent, token, schedules, calls, unneeded, started, shown, bounds>>

\* without a token the job fails for good, and does not complete
RegisterAgent(j) ==
  /\ job[j] = "active"
  /\ shown' = (shown \/ token)
  /\ completed' = (completed \/ token)
  /\ job' = [job EXCEPT ![j] = "none"]
  /\ UNCHANGED <<agent, token, schedules, calls, unneeded, started, bounds>>

\* The pulse fails, whether it arrived or not, and is tried again
PulseFails(j) ==
  /\ job[j] = "active" /\ token
  /\ Fail("pulse")
  /\ shown' \in {shown, TRUE}
  /\ job' = [job EXCEPT ![j] = "waiting"]
  /\ UNCHANGED <<agent, token, schedules, calls, handlers, started, requests>>

\* Mutation: the handler leaves it to the job of the unregisterAgents queue
OnCompletedTrusts ==
  /\ completed
  /\ completed' = FALSE
  /\ UNCHANGED <<agent, token, schedules, job, calls, unneeded, started, shown, bounds>>

\* onCompleted
OnCompleted ==
  /\ completed
  /\ completed' = FALSE
  /\ unneeded' = (unneeded \/ ~agent)
  /\ UNCHANGED <<agent, token, schedules, job, calls, started, shown, bounds>>

-------------------------------------------------------------------------------
(* Tokens, and the process *)

DeleteToken ==
  /\ Fail("token") /\ token
  /\ token' = FALSE
  /\ UNCHANGED <<agent, schedules, job, calls, handlers, started, shown, requests>>

SaveToken ==
  /\ ~token
  /\ token' = TRUE
  /\ UNCHANGED <<agent, schedules, job, calls, handlers, started, shown, bounds>>

\* The process stops: calls and handlers are lost, locks lapse, stalled jobs run again
Crash ==
  /\ Fail("crash")
  /\ register' = "no" /\ unregister' = "no" /\ cleanup' = "no" /\ UNCHANGED cleaner
  /\ completed' = FALSE /\ unneeded' = FALSE /\ started' = FALSE
  /\ job' = [j \in DOMAIN job |-> IF job[j] \in {"active", "done"} THEN "waiting" ELSE job[j]]
  /\ UNCHANGED <<agent, token, schedules, shown, requests>>

-------------------------------------------------------------------------------
Requested == SetAgent \/ DeleteAgent
Registering == LookAtSchedule \/ RemoveOthers \/ ScheduleRegister \/ AddPulse \/ OnModuleInit
Unregistering == AddUnregister \/ RemoveSchedulers \/ RemoveJobs \/ Unregister
Pulsing == \E j \in Pulse : RegisterAgent(j)

Next ==
  \/ Requested \/ Registering \/ Unregistering \/ Pulsing
  \/ UnregisterJob \/ RemoveUnregister \/ CleanUp \/ StopFails \/ SlotComes \/ OnCompleted
  \/ \E j \in Pulse : StartPulse(j) \/ PulseFails(j)
  \/ DeleteToken \/ SaveToken \/ Crash

Spec == Init /\ [][Next]_vars

\* Calls and workers get on with it, whoever waits for the lock gets it (a worker
\* retries for ever, redlock tries for as long as a call takes), and slots come round
Fairness ==
  /\ WF_vars(Registering \/ Unregistering)
  /\ WF_vars(OnCompleted) /\ WF_vars(RemoveUnregister) /\ WF_vars(SlotComes) /\ WF_vars(Pulsing)
  /\ SF_vars(UnregisterJob) /\ SF_vars(CleanUp)
  /\ \A j \in Pulse : SF_vars(StartPulse(j))

FairSpec == Spec /\ Fairness

-------------------------------------------------------------------------------
(* Properties *)

\* A type invariant: at most one call holds the lock, and at most one pulse runs.
TypeOK ==
  /\ agent \in BOOLEAN /\ token \in BOOLEAN /\ shown \in BOOLEAN /\ started \in BOOLEAN
  /\ completed \in BOOLEAN /\ unneeded \in BOOLEAN
  /\ schedules \subseteq {"old", "new"}
  /\ job \in [Pulse \cup {"unregister"} -> {"none", "waiting", "active", "done"}]
  /\ register \in {"no", "look", "others", "schedule", "pulse"}
  /\ unregister \in {"no", "add"} /\ cleanup \in {"no", "schedules", "jobs", "stop"}
  /\ cleaner \in {"job", "handler"}
  /\ Cardinality({c \in {1, 2, 3} : <<register, unregister, cleanup>>[c] # "no"}) <= 1

\* A registered agent is scheduled, and once: whatever a cleanup for an earlier
\* registration, a crash half way or an older version has left behind.
Scheduled == started /\ agent /\ register = "no" => schedules = {"new"}

\* An agent that stays away is stopped on backpack.tf, and no schedule is left, also
\* when a pulse overtakes the stop, a job is not added as its id is still taken, and
\* pulses and stops fail.  (The token stays, there is no crash, and no stop of a
\* handler fails: nothing is left then that would send another.)
StoppedInTheEnd ==
  ([](token /\ Fault \cap {"crash", "last stop"} \subseteq faults) /\ <>[]~agent)
    => <>[](~shown /\ schedules = {})
===============================================================================

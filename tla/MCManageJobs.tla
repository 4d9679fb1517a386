---------------------------- MODULE MCManageJobs ----------------------------
(***************************************************************************)
(* Two parts that share nothing: the jobs that manage listings, and the    *)
(* agent of an account (the configuration gives the constants of both      *)
(* their values, small ones, for safety).  A behaviour is one of one of    *)
(* them, which is chosen at the start, and the other stays as it begins.   *)
(* The proofs are of this composition, for all values of the constants.    *)
(***************************************************************************)
EXTENDS ManageJobs, TLC

CONSTANTS AgentFault, MaxAgentRequests   \* of Agents

VARIABLES
  component,   \* the one that was chosen
  registered, token, schedules, agentJob, register, unregister, cleanup, cleaner,
  completed, unneeded, started, shown, agentRequests, agentFaults

agents == <<registered, token, schedules, agentJob, register, unregister, cleanup, cleaner,
            completed, unneeded, started, shown, agentRequests, agentFaults>>

TheAgent == INSTANCE Agents WITH
  agent <- registered, job <- agentJob, requests <- agentRequests, faults <- agentFaults,
  Fault <- AgentFault, MaxRequests <- MaxAgentRequests

\* of the one that is not chosen, one initial state is enough
MCInit ==
  /\ component \in {"jobs", "agent"}
  /\ Init /\ TheAgent!Init
  /\ component # "jobs" => agent /\ free = 0
  /\ component # "agent" => schedules = {"new"}

MCNext ==
  /\ UNCHANGED component
  /\ \/ component = "jobs" /\ Next /\ UNCHANGED agents
     \/ component = "agent" /\ TheAgent!Next /\ UNCHANGED vars

MCSpec == MCInit /\ [][MCNext]_<<component, vars, agents>>

\* listings are interchangeable, and so are the calls in flight
Symmetry == Permutations(Listing) \cup Permutations(Slot)

\* The queues as WorkQueue has them: what is sent; those that are watched by a job, or by a
\* call or handler that is going to add one; and those whose work was left
Sent == [t \in Queued |-> IF job[t] = "sent" THEN batch[t] ELSE {}]
Watched == {t \in Queued : job[t] # "none" \/ Coming(t) \/ WillRerun(t)}
Left == {t \in Queued : Parked(t)}
Clearing == unregistering # {}

Promise == INSTANCE WorkQueue WITH
  Item <- Listing, Queue <- Queued, Optional <- AgentOnly, Wiped <- Deletes,
  work <- queue, sent <- Sent, watched <- Watched, left <- Left, asked <- requests,
  clearing <- Clearing

\* A registered agent is scheduled, and once (Agents)
Scheduled == TheAgent!TypeOK /\ TheAgent!Scheduled
=============================================================================

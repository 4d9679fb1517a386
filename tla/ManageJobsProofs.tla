--------------------------- MODULE ManageJobsProofs ---------------------------
(***************************************************************************)
(* Queued listing work is never forgotten, for any number of listings,     *)
(* concurrent calls, batch size and choice of job kinds; and the agent     *)
(* those jobs ask for is scheduled as long as it is registered.            *)
(***************************************************************************)
EXTENDS MCManageJobs, FiniteSetTheorems, TLAPS

\* The kinds whose calls start by checking the agent.
LEMMA FirstStepType ==
  \A t : /\ FirstStep(t) \in {"agent", "set"}
         /\ FirstStep(t) = "agent" => t \in AgentOnly
  BY DEF FirstStep

LEMMA EmptyBatchNotFull == Cardinality({}) # BatchSize
  BY FS_EmptySet, BatchSizeAssumption

\* Calls started at once begin with their first step, the others are unchanged.
LEMMA CallingType ==
  ASSUME call \in [Slot \X Kind -> CallStep], NEW c \in Slot, NEW ts
  PROVE  Calling(c, ts) \in [Slot \X Kind -> CallStep]
<1>1. ASSUME NEW p \in Slot \X Kind
      PROVE  (IF p[1] = c /\ p[2] \in ts THEN FirstStep(p[2]) ELSE call[p]) \in CallStep
  BY FirstStepType DEF CallStep
<1> QED BY <1>1 DEF Calling

\* Queueing and dequeueing keep the queues sets of listings.
LEMMA QueueType ==
  ASSUME NEW q \in [Queued -> SUBSET Listing], NEW ts, NEW ls \in SUBSET Listing
  PROVE  /\ Enqueue(q, ts, ls) \in [Queued -> SUBSET Listing]
         /\ Dequeue(q, ts, ls) \in [Queued -> SUBSET Listing]
  BY DEF Enqueue, Dequeue

\* The counters stay within their bounds.
LEMMA CounterType ==
  ASSUME TypeOK
  PROVE  /\ \A s : Request(s) => requests' \in 0..MaxRequests
         /\ Fault => faults' \in 0..MaxFaults
<1>1. ASSUME NEW s, Request(s) PROVE requests' \in 0..MaxRequests
  <2>1. requests \in 0..MaxRequests /\ requests < MaxRequests /\ requests' = requests + 1
    BY <1>1 DEF TypeOK, Request
  <2> QED BY <2>1, BoundAssumption
<1>2. ASSUME Fault PROVE faults' \in 0..MaxFaults
  <2>1. faults \in 0..MaxFaults /\ faults < MaxFaults /\ faults' = faults + 1
    BY <1>2 DEF TypeOK, Fault
  <2> QED BY <2>1, BoundAssumption
<1> QED BY <1>1, <1>2

LEMMA KindFacts == Queued \subseteq Kind
  BY DEF Queued

-------------------------------------------------------------------------------
\* The variables keep their types, whatever happens: jobs, flags, batches, calls,
\* free slots and the bounds.
LEMMA TypeStep == TypeOK /\ [Next]_vars => TypeOK'
<1> SUFFICES ASSUME TypeOK, [Next]_vars PROVE TypeOK'
  OBVIOUS
<1> USE KindFacts DEF TypeOK
<1>1. ASSUME NEW c \in Slot, NEW t \in Kind, Call(c, t) PROVE TypeOK'
  BY <1>1, FirstStepType DEF Call, CheckAgent, SetPending, AddJob, OnCompleted, CallStep, JobState
<1>2. ASSUME NEW c \in Slot, NEW t \in Kind, Work(c, t) PROVE TypeOK'
  <2>1. CASE JobCheckAgent(c, t)
    BY <2>1, FirstStepType DEF JobCheckAgent, Completes, CallStep, JobState
  <2>2. CASE Settle(c, t)
    BY <2>2, FirstStepType DEF Settle, Completes, CallStep, JobState
  <2> QED BY <1>2, <2>1, <2>2 DEF Work
<1>3. ASSUME NEW c \in Slot, NEW t \in Kind, Read(c, t) PROVE TypeOK'
  <2> PICK b \in Batches(t) :
        /\ parked' = IF b = queue[t] \/ Cardinality(b) = BatchSize THEN parked ELSE parked \cup {t}
        /\ IF b = {}
           THEN Completes(c, t, FALSE) /\ UNCHANGED batch
           ELSE /\ batch' = [batch EXCEPT ![t] = b]
                /\ job' = [job EXCEPT ![t] = "read"]
                /\ UNCHANGED call
    BY <1>3 DEF Read
  <2>1. b \subseteq queue[t] BY DEF Batches
  <2>2. CASE b = {}
    BY <1>3, <2>1, <2>2 DEF Read, Completes, CallStep, JobState
  <2>3. CASE b # {}
    BY <1>3, <2>1, <2>3 DEF Read, CallStep, JobState
  <2> QED BY <2>2, <2>3
<1>4. ASSUME NEW c \in Slot, NEW t \in Kind, Send(c, t) PROVE TypeOK'
  <2>1. free' \in 0..MaxFree
    <3>1. free \in 0..MaxFree OBVIOUS
    <3>2. free' \in 0..free \/ free' \in free..MaxFree \/ free' = free BY <1>4 DEF Send
    <3> QED BY <3>1, <3>2, BoundAssumption
  <2>2. call' \in [Slot \X Kind -> CallStep] BY <1>4 DEF Send, CallStep
  <2> QED BY <1>4, <2>1, <2>2 DEF Send, JobState
<1>5. ASSUME NEW c \in Slot, NEW t \in Kind, OnCompletedFails(c, t) PROVE TypeOK'
  BY <1>5, CounterType DEF OnCompletedFails, CallStep
<1>6. ASSUME NEW t \in Kind, ClearPending(t) \/ Retry(t) PROVE TypeOK'
  BY <1>6, CounterType DEF ClearPending, Retry, JobState
<1>7. ASSUME NEW c \in Slot, NEW l \in Listing, NEW t \in Queued, AddedDesired(c, l, t) PROVE TypeOK'
  <2>1. requests' \in 0..MaxRequests BY <1>7, CounterType DEF AddedDesired
  <2>2. queue' \in [Queued -> SUBSET Listing] BY <1>7, QueueType DEF AddedDesired
  <2>3. call' \in [Slot \X Kind -> CallStep] BY <1>7, CallingType DEF AddedDesired
  <2> QED BY <1>7, <2>1, <2>2, <2>3 DEF AddedDesired, Request
<1>8. ASSUME NEW c \in Slot, NEW l \in Listing, NEW b \in BOOLEAN, RemovedDesired(c, l, b) PROVE TypeOK'
  <2>1. requests' \in 0..MaxRequests BY <1>8, CounterType DEF RemovedDesired
  <2>2. queue' \in [Queued -> SUBSET Listing] BY <1>8, QueueType DEF RemovedDesired
  <2>3. call' \in [Slot \X Kind -> CallStep] BY <1>8, CallingType DEF RemovedDesired
  <2> QED BY <1>8, <2>1, <2>2, <2>3 DEF RemovedDesired, Request
<1>9. ASSUME NEW c \in Slot, NEW l \in Listing, NEW b \in BOOLEAN, CreatedDesired(c, l, b) PROVE TypeOK'
  <2>1. requests' \in 0..MaxRequests BY <1>9, CounterType DEF CreatedDesired
  <2>2. queue' \in [Queued -> SUBSET Listing] BY <1>9, QueueType DEF CreatedDesired
  <2>3. call' \in [Slot \X Kind -> CallStep] BY <1>9, CallingType DEF CreatedDesired
  <2> QED BY <1>9, <2>1, <2>2, <2>3 DEF CreatedDesired, Request
<1>10. ASSUME NEW c \in Slot, NEW l \in Listing, CurrentListingsUpdated(c, l) PROVE TypeOK'
  <2>1. requests' \in 0..MaxRequests BY <1>10, CounterType DEF CurrentListingsUpdated
  <2>2. queue' \in [Queued -> SUBSET Listing] BY <1>10, QueueType DEF CurrentListingsUpdated
  <2>3. call' \in [Slot \X Kind -> CallStep] BY <1>10, CallingType DEF CurrentListingsUpdated
  <2> QED BY <1>10, <2>1, <2>2, <2>3 DEF CurrentListingsUpdated, Request
<1>11. ASSUME NEW c \in Slot, DeletedCurrentListings(c) PROVE TypeOK'
  BY <1>11, FirstStepType DEF DeletedCurrentListings, CallStep
<1>12. ASSUME NEW c \in Slot, RefreshedCurrentListings(c) PROVE TypeOK'
  <2>1. call' \in [Slot \X Kind -> CallStep] BY <1>12, CallingType DEF RefreshedCurrentListings
  <2> QED BY <1>12, <2>1 DEF RefreshedCurrentListings
<1>13. ASSUME NEW c \in Slot, AgentsUnregistering(c) \/ ClearQueues(c) PROVE TypeOK'
  <2>1. call' \in [Slot \X Kind -> CallStep]
    BY <1>13, CallingType DEF AgentsUnregistering, ClearQueues
  <2> QED BY <1>13, <2>1 DEF AgentsUnregistering, ClearQueues
<1>14. ASSUME NEW c \in Slot, DeleteAllListings(c) PROVE TypeOK'
  <2>1. free' \in 0..MaxFree BY <1>14, BoundAssumption DEF DeleteAllListings
  <2>2. call' \in [Slot \X Kind -> CallStep] BY <1>14 DEF DeleteAllListings, Completes, CallStep
  <2> QED BY <1>14, <2>1, <2>2 DEF DeleteAllListings, Completes, JobState
<1>15. ASSUME NEW c \in Slot, NEW failed \in SUBSET Listing, SettleUpdate(c, failed) PROVE TypeOK'
  <2> DEFINE recreate == IF failed = {} THEN {} ELSE {"create"}
             rerun == IF Cardinality(batch["update"]) = BatchSize THEN "agent" ELSE "completed"
  <2>1. "update" \in Queued BY <1>15 DEF SettleUpdate, Queued
  <2>2. queue' \in [Queued -> SUBSET Listing]
    <3>1. Dequeue(queue, {"update"}, batch["update"]) \in [Queued -> SUBSET Listing]
      BY <2>1, QueueType
    <3> QED BY <1>15, <3>1, QueueType DEF SettleUpdate
  <2>3. call' \in [Slot \X Kind -> CallStep]
    <3>1. Calling(c, recreate) \in [Slot \X Kind -> CallStep] BY CallingType
    <3>2. rerun \in CallStep BY DEF CallStep
    <3>3. call' = [Calling(c, recreate) EXCEPT ![<<c, "update">>] = rerun] BY <1>15 DEF SettleUpdate
    <3> QED BY <3>1, <3>2, <3>3
  <2> QED BY <1>15, <2>1, <2>2, <2>3 DEF SettleUpdate, JobState
<1>16. ASSUME NEW c \in Slot, NEW create \in SUBSET Listing, NEW update \in SUBSET Listing,
              NEW remove \in SUBSET Listing, PlanListings(c, create, update, remove)
       PROVE  TypeOK'
  <2>1. call' \in [Slot \X Kind -> CallStep]
    <3>1. PICK wake : call' = [Calling(c, wake) EXCEPT ![<<c, "plan">>] = "completed"]
      BY <1>16 DEF PlanListings
    <3>2. Calling(c, wake) \in [Slot \X Kind -> CallStep] BY CallingType
    <3> QED BY <3>1, <3>2 DEF CallStep
  <2> QED BY <1>16, <2>1 DEF PlanListings, JobState
<1>17. CASE Register \/ DeletedAllCurrentListings \/ LimitsRefreshed
  BY <1>17, BoundAssumption DEF Register, DeletedAllCurrentListings, LimitsRefreshed
<1>18. CASE Crash
  BY <1>18, CounterType DEF Crash, CallStep, JobState
<1>19. CASE UNCHANGED vars
  BY <1>19 DEF vars
<1>20. ASSUME NEW ls \in SUBSET Listing, UpdateDesired(ls) PROVE TypeOK'
  BY <1>20 DEF UpdateDesired
<1> QED
  BY <1>1, <1>2, <1>3, <1>4, <1>5, <1>6, <1>7, <1>8, <1>9, <1>10, <1>11, <1>12, <1>13, <1>14,
     <1>15, <1>16, <1>17, <1>18, <1>19, <1>20 DEF Next

LEMMA InitType == Init => TypeOK
<1> SUFFICES ASSUME Init PROVE TypeOK OBVIOUS
<1>1. requests \in 0..MaxRequests /\ faults \in 0..MaxFaults BY BoundAssumption DEF Init
<1> QED BY <1>1, KindFacts DEF Init, TypeOK, CallStep, JobState

\* The variables always have their types.
THEOREM TypeCorrect == Spec => []TypeOK
BY InitType, TypeStep, PTL DEF Spec

-------------------------------------------------------------------------------
Announced(u) ==
  LeftAnnounced(u) /\ RestAnnounced(u) /\ (job[u] = "cleared" => u \notin Deletes)

AgentCalls == \A c \in Slot, t \in Kind : call[c, t] = "agent" => t \in AgentOnly

\* A kind of job that a step does not touch stays announced.
LEMMA Untouched ==
  ASSUME NEW u \in Queued, Announced(u),
         job'[u] = job[u], queue'[u] = queue[u], batch'[u] = batch[u],
         u \in pending' <=> u \in pending, u \in parked' <=> u \in parked,
         \A c \in Slot : call'[c, u] = call[c, u]
  PROVE  Announced(u)'
  BY DEF Announced, LeftAnnounced, RestAnnounced, Coming, WillRerun, Parked

\* Work may be queued for the kinds whose createJob calls start with it, and
\* may leave any queue.
LEMMA Started ==
  ASSUME TypeOK, WakeupInv, NEW c \in Slot, NEW ts, Idle(c, ts),
         call' = Calling(c, ts) \/ (ts = {} /\ call' = call),
         UNCHANGED <<job, batch, pending, parked>>,
         \A u \in Queued : u \in ts \/ queue'[u] \subseteq queue[u]
  PROVE  WakeupInv'
<1>0. \A d \in Slot, t \in Kind :
        call'[d, t] = IF d = c /\ t \in ts THEN FirstStep(t) ELSE call[d, t]
  BY DEF Calling
<1>1. ASSUME NEW u \in Queued PROVE Announced(u)'
  <2>1. CASE u \in ts
    <3>1. call'[c, u] \in {"agent", "set"} BY <1>0, <2>1, FirstStepType, KindFacts
    <3> QED BY <3>1 DEF WakeupInv, Announced, LeftAnnounced, RestAnnounced, Coming
  <2>2. CASE u \notin ts
    <3>1. \A d \in Slot : call'[d, u] = call[d, u] BY <1>0, <2>2, KindFacts
    <3>2. queue'[u] \subseteq queue[u] BY <2>2
    <3> QED
      BY <3>1, <3>2 DEF WakeupInv, Announced, LeftAnnounced, RestAnnounced, Coming, WillRerun, Parked
  <2> QED BY <2>1, <2>2
<1>2. AgentCalls'
  BY <1>0, FirstStepType DEF WakeupInv, AgentCalls
<1> QED BY <1>1, <1>2 DEF WakeupInv, Announced, AgentCalls

\* A job that completes leaves its handler, or a call when its batch was full.
LEMMA Completed ==
  ASSUME TypeOK, WakeupInv, NEW c \in Slot, NEW t \in Kind, NEW full, Completes(c, t, full),
         UNCHANGED pending, parked \subseteq parked', parked' \subseteq parked \cup {t},
         \A u \in Queued \ {t} : queue'[u] = queue[u] /\ batch'[u] = batch[u],
         t \in Queued =>
           \/ queue'[t] = {}
           \/ full
           \/ t \in pending
           \/ \E d \in Slot : call[d, t] \in {"agent", "set"}
           \/ t \in parked' /\ t \in AgentOnly
  PROVE  WakeupInv'
<1>1. \A d \in Slot, u \in Kind : d # c \/ u # t => call'[d, u] = call[d, u]
  BY DEF Completes, TypeOK
<1>2. call[c, t] = "no" /\ call'[c, t] = IF full THEN FirstStep(t) ELSE "completed"
  BY DEF Completes, TypeOK
<1>3. job'[t] = "none" /\ \A u \in Kind \ {t} : job'[u] = job[u]
  BY DEF Completes, TypeOK
<1>4. ASSUME NEW u \in Queued PROVE Announced(u)'
  <2>1. CASE u = t
    <3>1. queue'[u] = {} \/ Coming(u)' \/ WillRerun(u)' \/ Parked(u)'
      BY <2>1, <1>1, <1>2, FirstStepType, KindFacts DEF Coming, WillRerun, Parked
    <3> QED BY <3>1, <2>1, <1>3 DEF Announced, LeftAnnounced, RestAnnounced
  <2>2. CASE u # t
    <3>1. Announced(u) BY DEF WakeupInv, Announced
    <3> QED BY <2>2, <3>1, <1>1, <1>3, KindFacts, Untouched
  <2> QED BY <2>1, <2>2
<1>5. AgentCalls'
  BY <1>1, <1>2, FirstStepType DEF WakeupInv, AgentCalls
<1> QED BY <1>4, <1>5 DEF WakeupInv, Announced, AgentCalls

\* Without faults every step keeps queued work announced: a createJob call that
\* is beyond its flag finds the flag still set or the job not past its reading.
LEMMA WakeupStep ==
  ASSUME MaxFaults = 0, TypeOK, WakeupInv, [Next]_vars
  PROVE  WakeupInv'
<1>0. ~Fault
  <2>1. faults = 0 BY DEF TypeOK
  <2> QED BY <2>1 DEF Fault
<1>7. TypeOK'
  BY TypeStep
<1> USE KindFacts DEF TypeOK, WakeupInv, LeftAnnounced, RestAnnounced, Coming, WillRerun, Parked
<1>1. ASSUME NEW c \in Slot, NEW t \in Kind, Call(c, t) PROVE WakeupInv'
  <2>1. CASE CheckAgent(c, t)
    BY <2>1 DEF CheckAgent
  <2>2. CASE SetPending(c, t)
    <3>1. ASSUME NEW u \in Queued PROVE Announced(u)'
      <4>1. CASE u = t BY <2>2, <4>1 DEF SetPending, Announced
      <4>2. CASE u # t
        <5>1. Announced(u) BY DEF Announced
        <5> QED BY <2>2, <4>2, <5>1, Untouched DEF SetPending
      <4> QED BY <4>1, <4>2
    <3> QED BY <2>2, <3>1 DEF SetPending, Announced
  <2>3. CASE AddJob(c, t)
    BY <2>3 DEF AddJob
  <2>4. CASE OnCompleted(c, t)
    <3>1. ASSUME NEW u \in Queued PROVE Announced(u)'
      <4>1. CASE u = t
        <5>1. CASE t \in pending
          <6>1. call'[c, u] \in {"agent", "set"} BY <2>4, <4>1, <5>1, FirstStepType DEF OnCompleted
          <6> QED BY <2>4, <6>1 DEF OnCompleted, Announced
        <5>2. CASE t \notin pending
          BY <2>4, <4>1, <5>2 DEF OnCompleted, Announced
        <5> QED BY <5>1, <5>2
      <4>2. CASE u # t
        <5>1. Announced(u) BY DEF Announced
        <5> QED BY <2>4, <4>2, <5>1, Untouched DEF OnCompleted
      <4> QED BY <4>1, <4>2
    <3>2. AgentCalls' BY <2>4, FirstStepType DEF OnCompleted, AgentCalls
    <3> QED BY <3>1, <3>2 DEF Announced, AgentCalls
  <2> QED BY <1>1, <2>1, <2>2, <2>3, <2>4 DEF Call
<1>2. ASSUME NEW c \in Slot, NEW t \in Kind, Work(c, t) PROVE WakeupInv'
  <2>1. CASE JobCheckAgent(c, t)
    <3>1. CASE agent = (t \in AgentOnly)
      BY <2>1, <3>1 DEF JobCheckAgent
    <3>2. CASE ~(agent = (t \in AgentOnly))
      <4>1. t \in Queued => t \in AgentOnly
        BY <2>1 DEF JobCheckAgent, Queued, AgentOnly, Deletes
      <4> QED BY <2>1, <3>2, <4>1, Completed DEF JobCheckAgent
    <3> QED BY <3>1, <3>2
  <2>2. CASE Settle(c, t)
    BY <2>2, Completed DEF Settle
  <2> QED BY <1>2, <2>1, <2>2 DEF Work
<1>3. ASSUME NEW c \in Slot, NEW t \in Kind, Read(c, t) PROVE WakeupInv'
  <2> PICK b \in Batches(t) :
        /\ parked' = IF b = queue[t] \/ Cardinality(b) = BatchSize THEN parked ELSE parked \cup {t}
        /\ IF b = {}
           THEN Completes(c, t, FALSE) /\ UNCHANGED batch
           ELSE /\ batch' = [batch EXCEPT ![t] = b]
                /\ job' = [job EXCEPT ![t] = "read"]
                /\ UNCHANGED call
    BY <1>3 DEF Read
  <2>1. b = queue[t] \/ Cardinality(b) = BatchSize \/ (t \in parked' /\ t \in AgentOnly)
    BY DEF Batches, AgentOnly
  <2>2. CASE b = {}
    <3>1. t \in Queued /\ UNCHANGED <<queue, pending>> BY <1>3 DEF Read
    <3>2. queue'[t] = {} \/ (t \in parked' /\ t \in AgentOnly)
      BY <2>1, <2>2, <3>1, EmptyBatchNotFull
    <3> QED BY <2>2, <3>1, <3>2, Completed
  <2>3. CASE b # {}
    <3>1. ASSUME NEW u \in Queued PROVE Announced(u)'
      <4>1. CASE u = t
        BY <1>3, <2>1, <2>3, <4>1 DEF Read, Announced
      <4>2. CASE u # t
        <5>1. Announced(u) BY DEF Announced
        <5> QED BY <1>3, <2>3, <4>2, <5>1, Untouched DEF Read
      <4> QED BY <4>1, <4>2
    <3> QED BY <1>3, <2>3, <3>1 DEF Read, Announced
  <2> QED BY <2>2, <2>3
<1>4. ASSUME NEW c \in Slot, NEW t \in Kind, Send(c, t) PROVE WakeupInv'
  <2>1. \A d \in Slot, u \in Kind :
          call'[d, u] = call[d, u] \/ (call[d, u] = "no" /\ call'[d, u] = "limits")
    BY <1>4 DEF Send, Idle
  <2>2. \A u \in Kind : job'[u] = job[u] \/ (job[u] = "read" /\ job'[u] = "sent")
    BY <1>4 DEF Send
  <2>3. UNCHANGED <<queue, batch, pending, parked>> BY <1>4 DEF Send
  <2>4. ASSUME NEW u \in Queued PROVE Announced(u)'
    <3>1. \A s \in {"completed", "agent", "set", "add"}, d \in Slot : call'[d, u] = s <=> call[d, u] = s
      BY <2>1
    <3>2. job[u] = job'[u] \/ (job[u] = "read" /\ job'[u] = "sent") BY <2>2
    <3>3. Announced(u) BY DEF Announced
    <3> QED BY <2>3, <3>1, <3>2, <3>3 DEF Announced
  <2>5. AgentCalls' BY <2>1 DEF AgentCalls
  <2> QED BY <2>4, <2>5 DEF Announced, AgentCalls
<1>5. ASSUME NEW c \in Slot, NEW t \in Kind, OnCompletedFails(c, t) PROVE WakeupInv'
  BY <1>0, <1>5 DEF OnCompletedFails
<1>6. ASSUME NEW t \in Kind, ClearPending(t) \/ Retry(t) PROVE WakeupInv'
  <2>1. CASE ClearPending(t)
    <3>1. ASSUME NEW u \in Queued PROVE Announced(u)'
      <4>1. CASE u = t BY <2>1, <4>1 DEF ClearPending, Announced
      <4>2. CASE u # t
        <5>1. Announced(u) BY DEF Announced
        <5> QED BY <2>1, <4>2, <5>1, Untouched DEF ClearPending
      <4> QED BY <4>1, <4>2
    <3> QED BY <2>1, <3>1 DEF ClearPending, Announced
  <2>2. CASE Retry(t)
    <3>1. ASSUME NEW u \in Queued PROVE Announced(u)'
      <4>1. CASE u = t BY <2>2, <4>1 DEF Retry, Announced
      <4>2. CASE u # t
        <5>1. Announced(u) BY DEF Announced
        <5> QED BY <2>2, <4>2, <5>1, Untouched DEF Retry
      <4> QED BY <4>1, <4>2
    <3> QED BY <2>2, <3>1 DEF Retry, Announced
  <2> QED BY <1>6, <2>1, <2>2
<1>8. ASSUME NEW c \in Slot, NEW l \in Listing, NEW t \in Queued, AddedDesired(c, l, t) PROVE WakeupInv'
  <2>1. \A u \in Queued : u \in {t} \/ queue'[u] \subseteq queue[u]
    BY <1>8 DEF AddedDesired, Enqueue
  <2> QED BY <1>8, <2>1, Started DEF AddedDesired, Request
<1>9. ASSUME NEW c \in Slot, NEW l \in Listing, NEW b \in BOOLEAN, RemovedDesired(c, l, b) PROVE WakeupInv'
  <2> DEFINE ts == IF b THEN Deletes ELSE {}
  <2>1. Idle(c, ts) BY <1>9 DEF RemovedDesired, Idle
  <2>2. call' = Calling(c, ts) \/ (ts = {} /\ call' = call) BY <1>9 DEF RemovedDesired
  <2>3. \A u \in Queued : u \in ts \/ queue'[u] \subseteq queue[u]
    BY <1>9 DEF RemovedDesired, Enqueue, Dequeue
  <2>4. UNCHANGED <<job, batch, pending, parked>> BY <1>9 DEF RemovedDesired, Request
  <2> HIDE DEF ts
  <2> QED BY <2>1, <2>2, <2>3, <2>4, Started
<1>10. ASSUME NEW c \in Slot, NEW l \in Listing, NEW b \in BOOLEAN, CreatedDesired(c, l, b) PROVE WakeupInv'
  <2> DEFINE ts == IF b THEN {"delete"} ELSE {}
  <2>1. Idle(c, ts) BY <1>10 DEF CreatedDesired, Idle
  <2>2. call' = Calling(c, ts) \/ (ts = {} /\ call' = call) BY <1>10 DEF CreatedDesired
  <2>3. \A u \in Queued : u \in ts \/ queue'[u] \subseteq queue[u]
    BY <1>10 DEF CreatedDesired, Enqueue, Dequeue
  <2>4. UNCHANGED <<job, batch, pending, parked>> BY <1>10 DEF CreatedDesired, Request
  <2> HIDE DEF ts
  <2> QED BY <2>1, <2>2, <2>3, <2>4, Started
<1>11. ASSUME NEW c \in Slot, NEW l \in Listing, CurrentListingsUpdated(c, l) PROVE WakeupInv'
  <2>1. \A u \in Queued : u \in Deletes \/ queue'[u] \subseteq queue[u]
    BY <1>11 DEF CurrentListingsUpdated, Enqueue
  <2> QED BY <1>11, <2>1, Started DEF CurrentListingsUpdated, Request
<1>12. ASSUME NEW c \in Slot, DeletedCurrentListings(c) PROVE WakeupInv'
  BY <1>12, FirstStepType DEF DeletedCurrentListings
<1>13. ASSUME NEW c \in Slot, RefreshedCurrentListings(c) PROVE WakeupInv'
  BY <1>13, Started DEF RefreshedCurrentListings
<1>14. ASSUME NEW c \in Slot, AgentsUnregistering(c) \/ ClearQueues(c) PROVE WakeupInv'
  <2>1. CASE AgentsUnregistering(c)
    BY <2>1, Started DEF AgentsUnregistering
  <2>2. CASE ClearQueues(c) BY <2>2 DEF ClearQueues
  <2> QED BY <1>14, <2>1, <2>2
<1>15. ASSUME NEW c \in Slot, DeleteAllListings(c) PROVE WakeupInv'
  <2>1. "delete-all" \in Kind \ Queued BY <1>15 DEF DeleteAllListings, Queued, Deletes
  <2> QED BY <1>15, <2>1, Completed DEF DeleteAllListings
<1>16. ASSUME NEW c \in Slot, NEW failed \in SUBSET Listing, SettleUpdate(c, failed) PROVE WakeupInv'
  <2> DEFINE recreate == IF failed = {} THEN {} ELSE {"create"}
             rerun == IF Cardinality(batch["update"]) = BatchSize THEN "agent" ELSE "completed"
  <2>1. "update" \in Queued /\ UNCHANGED <<pending, parked>> /\ call[c, "update"] = "no"
    BY <1>16 DEF SettleUpdate, Queued, Idle
  <2>2. \A d \in Slot, u \in Kind :
          call'[d, u] = IF d = c /\ u = "update" THEN rerun
                        ELSE IF d = c /\ u \in recreate THEN FirstStep(u) ELSE call[d, u]
    <3> DEFINE g == Calling(c, recreate)
    <3>1. g \in [Slot \X Kind -> CallStep] BY CallingType
    <3>2. \A d \in Slot, u \in Kind :
            g[d, u] = IF d = c /\ u \in recreate THEN FirstStep(u) ELSE call[d, u]
      BY DEF Calling
    <3>3. call' = [g EXCEPT ![<<c, "update">>] = rerun] BY <1>16 DEF SettleUpdate
    <3> HIDE DEF g, recreate, rerun
    <3> QED BY <2>1, <3>1, <3>2, <3>3
  <2>3. /\ job'["update"] = "none"
        /\ \A u \in Queued \ {"update"} : job'[u] = job[u] /\ batch'[u] = batch[u]
    BY <1>16, <2>1 DEF SettleUpdate
  <2>4. ASSUME NEW u \in Queued PROVE Announced(u)'
    <3>1. CASE u = "update"
      <4>1. queue'[u] = queue[u] \ batch[u]
        BY <1>16, <3>1, <2>1 DEF SettleUpdate, Enqueue, Dequeue
      <4>2. queue'[u] = {} \/ Coming(u)' \/ WillRerun(u)' \/ Parked(u)'
        <5>1. CASE Cardinality(batch[u]) = BatchSize
          BY <5>1, <3>1, <2>1, <2>2
        <5>2. CASE queue[u] \subseteq batch[u]
          BY <4>1, <5>2
        <5>3. CASE u \in pending
          BY <5>3, <3>1, <2>1, <2>2
        <5>4. CASE \E d \in Slot : call[d, u] \in {"agent", "set"}
          BY <5>4, <3>1, <2>1, <2>2
        <5>5. CASE Parked(u)
          BY <5>5, <2>1
        <5> QED BY <1>16, <3>1, <5>1, <5>2, <5>3, <5>4, <5>5 DEF SettleUpdate
      <4> QED BY <4>2, <3>1, <2>3 DEF Announced
    <3>2. CASE u = "create" /\ failed # {}
      <4>1. call'[c, u] = "agent" BY <3>2, <2>2 DEF FirstStep, AgentOnly
      <4> QED BY <4>1, <3>2, <2>3 DEF Announced
    <3>3. CASE u # "update" /\ ~(u = "create" /\ failed # {})
      <4>1. queue'[u] = queue[u] BY <1>16, <3>3 DEF SettleUpdate, Enqueue, Dequeue
      <4>2. \A d \in Slot : call'[d, u] = call[d, u] BY <3>3, <2>2
      <4>3. Announced(u) BY DEF Announced
      <4> QED BY <4>1, <4>2, <4>3, <3>3, <2>1, <2>3, Untouched
    <3> QED BY <3>1, <3>2, <3>3
  <2>5. AgentCalls'
    <3>1. \A u : u \in recreate => u \in AgentOnly BY DEF AgentOnly
    <3>2. "update" \in AgentOnly BY DEF AgentOnly
    <3> HIDE DEF recreate, rerun
    <3> QED BY <2>2, <3>1, <3>2 DEF AgentCalls
  <2> QED BY <2>4, <2>5 DEF Announced, AgentCalls
<1>17. ASSUME NEW c \in Slot, NEW create \in SUBSET Listing, NEW update \in SUBSET Listing,
              NEW remove \in SUBSET Listing, PlanListings(c, create, update, remove)
       PROVE  WakeupInv'
  <2> DEFINE found(t) == CASE t = "create" -> create [] t = "update" -> update [] OTHER -> remove
             wake == {t \in Queued : found(t) # {}}
  <2>1. "plan" \in Kind \ Queued BY <1>17 DEF PlanListings, Queued, Deletes
  <2>2. call' = [Calling(c, wake) EXCEPT ![<<c, "plan">>] = "completed"]
    BY <1>17 DEF PlanListings
  <2>3. \A d \in Slot, u \in Kind :
          call'[d, u] = IF d = c /\ u = "plan" THEN "completed"
                        ELSE IF d = c /\ u \in wake THEN FirstStep(u) ELSE call[d, u]
    <3> DEFINE g == Calling(c, wake)
    <3>1. g \in [Slot \X Kind -> CallStep] BY CallingType
    <3>2. \A d \in Slot, u \in Kind :
            g[d, u] = IF d = c /\ u \in wake THEN FirstStep(u) ELSE call[d, u]
      BY DEF Calling
    <3>3. call' = [g EXCEPT ![<<c, "plan">>] = "completed"] BY <2>2
    <3> HIDE DEF g, wake
    <3> QED BY <2>1, <3>1, <3>2, <3>3
  <2>4. \A u \in Queued : queue'[u] = queue[u] \cup found(u)
    BY <1>17 DEF PlanListings
  <2>5. UNCHANGED <<pending, batch, parked>> /\ \A u \in Queued : job'[u] = job[u]
    BY <1>17, <2>1 DEF PlanListings
  <2>6. ASSUME NEW u \in Queued PROVE Announced(u)'
    <3> HIDE DEF found
    <3>1. CASE found(u) # {}
      <4>1. call'[c, u] \in {"agent", "set"} BY <3>1, <2>1, <2>3, FirstStepType
      <4> QED BY <4>1, <2>5 DEF Announced
    <3>2. CASE found(u) = {}
      <4>1. queue'[u] = queue[u] BY <3>2, <2>4
      <4>2. \A d \in Slot : call'[d, u] = call[d, u] BY <3>2, <2>1, <2>3
      <4>3. Announced(u) BY DEF Announced
      <4> QED BY <4>1, <4>2, <4>3, <2>5, Untouched
    <3> QED BY <3>1, <3>2
  <2>7. AgentCalls'
    <3> HIDE DEF wake
    <3> QED BY <2>3, FirstStepType DEF AgentCalls
  <2> QED BY <2>6, <2>7 DEF Announced, AgentCalls
<1>18. CASE Register \/ DeletedAllCurrentListings \/ LimitsRefreshed
  BY <1>18 DEF Register, DeletedAllCurrentListings, LimitsRefreshed
<1>19. CASE Crash
  BY <1>0, <1>19 DEF Crash
<1>20. CASE UNCHANGED vars \/ \E ls \in SUBSET Listing : UpdateDesired(ls)
  BY <1>20 DEF vars, UpdateDesired
<1> QED
  BY <1>1, <1>2, <1>3, <1>4, <1>5, <1>6, <1>8, <1>9, <1>10, <1>11, <1>12, <1>13, <1>14,
     <1>15, <1>16, <1>17, <1>18, <1>19, <1>20 DEF Next

LEMMA InitWakeup == Init => WakeupInv
  BY KindFacts DEF Init, WakeupInv, LeftAnnounced, RestAnnounced

\* As long as nothing crashes, queued work always has a job, or a call or handler
\* that will add one.
THEOREM NoWakeupIsLost == ASSUME MaxFaults = 0 PROVE Spec => []NoLostWakeup
<1>1. Init => WakeupInv BY InitWakeup
<1>2. TypeOK /\ WakeupInv /\ [Next]_vars => WakeupInv'
  BY WakeupStep
<1>3. TypeOK /\ WakeupInv => NoLostWakeup
  BY DEF WakeupInv, LeftAnnounced, NoLostWakeup
<1> QED BY <1>1, <1>2, <1>3, TypeCorrect, PTL DEF Spec
-------------------------------------------------------------------------------
(* What the jobs promise of the work (WorkQueue) *)

Steady == MaxFaults = 0 /\ TypeOK /\ WakeupInv

\* Work that comes is watched, and stays so until it is left, if whoever queues it calls.
LEMMA Attends ==
  ASSUME Steady, [Next]_vars,
         \A t \in Queued : queue'[t] \subseteq queue[t] \/ t \in Watched',
         Left \ Left' \subseteq Watched'
  PROVE  Promise!Attended
<1>1. TypeOK' BY TypeStep DEF Steady
<1>2. WakeupInv' BY WakeupStep DEF Steady
<1>3. ASSUME NEW t \in Queued, t \notin Watched', queue'[t] # {} PROVE t \in Left'
  BY <1>2, <1>3 DEF WakeupInv, LeftAnnounced, Watched, Left
<1>4. Watched' \subseteq Queued /\ Left' \subseteq AgentOnly BY DEF Watched, Left, Parked
<1>5. Watched \subseteq Queued BY DEF Watched
<1>6. queue' \in [Queued -> SUBSET Listing] BY <1>1 DEF TypeOK
<1> QED BY <1>3, <1>4, <1>5, <1>6 DEF Promise!Attended

\* Who watches depends on the jobs, the flags and the calls of the kinds that have a queue.
LEMMA SameWatched ==
  ASSUME UNCHANGED pending, \A t \in Queued : job'[t] = "none" <=> job[t] = "none",
         \A c \in Slot, t \in Queued : call'[c, t] = call[c, t] \/ {call'[c, t], call[c, t]} \subseteq {"no", "limits"}
  PROVE  Watched' = Watched
<1>1. ASSUME NEW t \in Queued PROVE (Coming(t) <=> Coming(t)') /\ (WillRerun(t) <=> WillRerun(t)')
  BY DEF Coming, WillRerun
<1> QED BY <1>1 DEF Watched

LEMMA SameSent ==
  ASSUME \A t \in Queued : (job[t] = "sent" <=> job'[t] = "sent") /\ (job[t] = "sent" => batch'[t] = batch[t])
  PROVE  Sent' = Sent
  BY DEF Sent

\* A look at a queue does nothing to the work.
LEMMA Looks ==
  ASSUME Steady, [Next]_vars, UNCHANGED <<queue, requests, unregistering, wiping>>,
         \A t \in Queued : (job[t] = "sent" <=> job'[t] = "sent") /\ (job[t] = "sent" => batch'[t] = batch[t]),
         \A t \in Queued : t \in parked' => t \in parked \/ t \in Watched,
         \A t \in Queued : t \in parked => t \in parked' \/ t \in Watched'
  PROVE  Promise!Look
<1>1. Left' \ Left \subseteq Watched BY DEF Left, Parked
<1>2. Left \ Left' \subseteq Watched' BY DEF Left, Parked
<1>3. Promise!Attended BY <1>2, Attends
<1> QED BY <1>1, <1>3, SameSent DEF Promise!Look, Clearing

\* Whoever calls the kinds whose queues it adds to asks as WorkQueue says.
LEMMA Asks ==
  ASSUME Steady, [Next]_vars, NEW c \in Slot, NEW ts,
         call' = Calling(c, ts) \/ (ts = {} /\ call' = call),
         \A t \in Queued : t \in ts \/ queue'[t] \subseteq queue[t],
         UNCHANGED <<job, batch, parked, unregistering, wiping>>, requests' = requests + 1
  PROVE  Promise!Ask
<1>1. ASSUME NEW t \in Queued, t \in ts PROVE t \in Watched'
  <2>1. call'[c, t] = FirstStep(t) BY <1>1, KindFacts DEF Calling
  <2> QED BY <1>1, <2>1, FirstStepType DEF Watched, Coming
<1>2. Left' = Left BY DEF Left, Parked
<1>3. Promise!Attended BY <1>1, <1>2, Attends
<1> QED BY <1>2, <1>3, SameSent DEF Promise!Ask, Clearing

LEMMA SettleKeeps ==
  ASSUME Steady, [Next]_vars, NEW c \in Slot, NEW t \in Kind, Settle(c, t)
  PROVE  Promise!Settle
<1>1. t \in Queued /\ job[t] = "sent" BY DEF Settle
<1>2. job' = [job EXCEPT ![t] = "none"] BY DEF Settle, Completes
<1>3. \A u \in Queued \ {t} : job'[u] = job[u] /\ batch'[u] = batch[u] /\ queue'[u] = queue[u]
  BY <1>1, <1>2 DEF Settle, Steady, TypeOK
<1>4. queue'[t] = queue[t] \ batch[t] BY <1>1 DEF Settle, Steady, TypeOK
<1>5. Sent[t] = batch[t] BY <1>1 DEF Sent
<1>6. Sent' = [Sent EXCEPT ![t] = {}]
  <2>1. job'[t] # "sent" BY <1>1, <1>2, KindFacts DEF Steady, TypeOK
  <2> QED BY <1>1, <1>3, <2>1 DEF Sent
<1>7. Left' = Left BY DEF Left, Parked, Settle
<1>8. Promise!Attended BY <1>3, <1>4, <1>7, Attends
<1> QED BY <1>1, <1>3, <1>4, <1>5, <1>6, <1>7, <1>8 DEF Promise!Settle, Settle, Clearing

LEMMA SettleUpdateKeeps ==
  ASSUME Steady, [Next]_vars, NEW c \in Slot, NEW failed \in SUBSET Listing, SettleUpdate(c, failed)
  PROVE  Promise!Settle
<1> DEFINE recreate == IF failed = {} THEN {} ELSE {"create"}
           rerun == IF Cardinality(batch["update"]) = BatchSize THEN "agent" ELSE "completed"
<1>1. "update" \in Queued /\ job["update"] = "sent" BY DEF SettleUpdate, Queued
<1>2. job' = [job EXCEPT !["update"] = "none"] /\ batch' = [batch EXCEPT !["update"] = {}]
  BY DEF SettleUpdate
<1>3. \A u \in Queued \ {"update"} : job'[u] = job[u] /\ batch'[u] = batch[u]
  BY <1>1, <1>2 DEF Steady, TypeOK
<1>4. queue'["update"] = queue["update"] \ batch["update"]
  BY <1>1 DEF SettleUpdate, Enqueue, Dequeue
<1>5. \A u \in Queued \ {"update"} : queue'[u] = queue[u] \cup (IF u \in recreate THEN failed ELSE {})
  BY <1>1 DEF SettleUpdate, Enqueue, Dequeue
<1>6. Sent["update"] = batch["update"] /\ failed \subseteq batch["update"]
  BY <1>1 DEF Sent, SettleUpdate
<1>7. Sent' = [Sent EXCEPT !["update"] = {}]
  <2>1. job'["update"] # "sent" BY <1>1, <1>2, KindFacts DEF Steady, TypeOK
  <2> QED BY <1>1, <1>3, <2>1 DEF Sent
<1>8. Left' = Left BY DEF Left, Parked, SettleUpdate
<1>9. ASSUME NEW u \in Queued \ {"update"}, u \in recreate PROVE u \in Watched'
  <2> DEFINE g == Calling(c, recreate)
  <2>1. g \in [Slot \X Kind -> CallStep] BY CallingType DEF Steady, TypeOK
  <2>2. g[c, u] = FirstStep(u) BY <1>9, KindFacts DEF Calling
  <2>3. call' = [g EXCEPT ![<<c, "update">>] = rerun] BY DEF SettleUpdate
  <2> HIDE DEF g, recreate, rerun
  <2>4. call'[c, u] = FirstStep(u) BY <2>1, <2>2, <2>3, KindFacts
  <2> QED BY <2>4, FirstStepType DEF Watched, Coming
<1>10. Promise!Attended
  <2> HIDE DEF recreate
  <2> QED BY <1>4, <1>5, <1>8, <1>9, Attends
<1>11. \A u \in Queued \ {"update"} :
         queue[u] \subseteq queue'[u] /\ queue'[u] \subseteq queue[u] \cup Sent["update"]
  <2> HIDE DEF recreate
  <2> QED BY <1>5, <1>6
<1>12. UNCHANGED <<Left, requests, Clearing, wiping>> BY <1>8 DEF SettleUpdate, Clearing
<1> QED BY <1>1, <1>4, <1>6, <1>7, <1>10, <1>11, <1>12 DEF Promise!Settle

LEMMA PlanFinds ==
  ASSUME Steady, [Next]_vars, NEW c \in Slot, NEW create \in SUBSET Listing,
         NEW update \in SUBSET Listing, NEW remove \in SUBSET Listing,
         PlanListings(c, create, update, remove)
  PROVE  Promise!Find
<1> DEFINE found(t) == CASE t = "create" -> create [] t = "update" -> update [] OTHER -> remove
           wake == {t \in Queued : found(t) # {}}
<1>1. "plan" \in Kind \ Queued BY DEF PlanListings, Queued, Deletes
<1>2. \A t \in Queued : queue'[t] = queue[t] \cup found(t) BY DEF PlanListings
<1>3. UNCHANGED <<batch, parked, requests, unregistering, wiping>> /\ \A t \in Queued : job'[t] = job[t]
  BY <1>1 DEF PlanListings, Steady, TypeOK
<1>4. ASSUME NEW t \in Queued, found(t) # {} PROVE t \in Watched'
  <2> DEFINE g == Calling(c, wake)
  <2>1. g \in [Slot \X Kind -> CallStep] BY CallingType DEF Steady, TypeOK
  <2>2. g[c, t] = FirstStep(t) BY <1>4, KindFacts DEF Calling
  <2>3. call' = [g EXCEPT ![<<c, "plan">>] = "completed"] BY DEF PlanListings
  <2> HIDE DEF g, wake, found
  <2>4. call'[c, t] = FirstStep(t) BY <1>1, <2>1, <2>2, <2>3, KindFacts
  <2> QED BY <2>4, FirstStepType DEF Watched, Coming
<1> HIDE DEF found
<1>5. Left' = Left BY <1>3 DEF Left, Parked
<1>6. Promise!Attended BY <1>2, <1>4, <1>5, Attends
<1> QED BY <1>2, <1>3, <1>5, <1>6, SameSent DEF Promise!Find, Clearing

LEMMA SendKeeps ==
  ASSUME Steady, [Next]_vars, NEW c \in Slot, NEW t \in Kind, Send(c, t)
  PROVE  [Promise!Next]_(Promise!vars)
<1>1. job[t] = "read" /\ job' = [job EXCEPT ![t] = "sent"] BY DEF Send
<1>2. \A u \in Kind : job'[u] = IF u = t THEN "sent" ELSE job[u] BY <1>1 DEF Steady, TypeOK
<1>3. UNCHANGED <<queue, batch, pending, parked, requests, unregistering, wiping>> BY DEF Send
<1>4. \A d \in Slot, u \in Queued : call'[d, u] = call[d, u] \/ {call'[d, u], call[d, u]} \subseteq {"no", "limits"}
  BY KindFacts DEF Send, Idle, Steady, TypeOK
<1>5. Watched' = Watched
  <2>1. \A u \in Queued : job'[u] = "none" <=> job[u] = "none" BY <1>1, <1>2, KindFacts
  <2> QED BY <1>3, <1>4, <2>1, SameWatched
<1>6. Left' = Left BY <1>3 DEF Left, Parked
<1>7. CASE t \in Queued
  <2>1. Sent[t] = {} BY <1>1, <1>7 DEF Sent
  <2>2. Sent' = [Sent EXCEPT ![t] = batch[t]] BY <1>2, <1>3, <1>7, KindFacts DEF Sent
  <2>3. batch[t] \in SUBSET Listing BY <1>7 DEF Steady, TypeOK
  <2>4. Promise!Send BY <1>3, <1>5, <1>6, <1>7, <2>1, <2>2, <2>3 DEF Promise!Send, Clearing
  <2> QED BY <2>4 DEF Promise!Next
<1>8. CASE t \notin Queued
  <2>1. Sent' = Sent BY <1>2, <1>3, <1>8, KindFacts, SameSent
  <2> QED BY <1>3, <1>5, <1>6, <2>1 DEF Promise!vars, Clearing
<1> QED BY <1>7, <1>8

LEMMA UnregisterKeeps ==
  ASSUME Steady, [Next]_vars, NEW c \in Slot,
         AgentsUnregistering(c) \/ ClearQueues(c) \/ DeleteAllListings(c)
  PROVE  [Promise!Next]_(Promise!vars)
<1>1. UNCHANGED <<pending, parked, batch, requests>> /\ \A t \in Queued : job'[t] = job[t]
  BY DEF AgentsUnregistering, ClearQueues, DeleteAllListings, Completes, Steady, TypeOK, Queued, Deletes
<1>2. \A d \in Slot, t \in Queued : call'[d, t] = call[d, t]
  <2>1. CASE AgentsUnregistering(c)
    BY <2>1, KindFacts DEF AgentsUnregistering, Calling, Queued, Deletes
  <2>2. CASE ClearQueues(c) BY <2>2 DEF ClearQueues
  <2>3. CASE DeleteAllListings(c)
    <3>1. call' = [call EXCEPT ![<<c, "delete-all">>] = "completed"]
      BY <2>3 DEF DeleteAllListings, Completes
    <3> QED BY <3>1, KindFacts DEF Steady, TypeOK, Queued, Deletes
  <2> QED BY <2>1, <2>2, <2>3
<1>3. Watched' = Watched
  BY <1>1, <1>2, SameWatched
<1>4. Sent' = Sent /\ Left' = Left BY <1>1, SameSent DEF Left, Parked
<1>5. CASE AgentsUnregistering(c)
  <2>1. Promise!Unregister
    BY <1>1, <1>3, <1>4, <1>5 DEF AgentsUnregistering, Promise!Unregister, Clearing
  <2> QED BY <2>1 DEF Promise!Next
<1>6. CASE ClearQueues(c)
  <2>1. Promise!Clear BY <1>1, <1>3, <1>4, <1>6 DEF ClearQueues, Promise!Clear, Clearing
  <2> QED BY <2>1 DEF Promise!Next
<1>7. CASE DeleteAllListings(c)
  <2>1. CASE agent
    BY <1>1, <1>3, <1>4, <1>7, <2>1 DEF DeleteAllListings, Promise!vars, Clearing
  <2>2. CASE ~agent
    <3>1. Promise!Delete BY <1>1, <1>3, <1>4, <1>7, <2>2 DEF DeleteAllListings, Promise!Delete, Clearing
    <3> QED BY <3>1 DEF Promise!Next
  <2> QED BY <2>1, <2>2
<1> QED BY <1>5, <1>6, <1>7

\* Without faults, every step of the jobs is one of WorkQueue, or none.
LEMMA PromiseStep ==
  ASSUME Steady, [Next]_vars
  PROVE  [Promise!Next]_(Promise!vars)
<1>1. ASSUME NEW c \in Slot, NEW t \in Kind, Call(c, t) PROVE Promise!Look
  <2>0. UNCHANGED <<queue, batch, requests, unregistering, wiping>>
    BY <1>1 DEF Call, CheckAgent, SetPending, AddJob, OnCompleted
  <2>1. CASE CheckAgent(c, t)
    <3>1. t \in Queued => t \in Watched BY <2>1 DEF CheckAgent, Watched, Coming
    <3> QED BY <2>0, <2>1, <3>1, Looks DEF CheckAgent
  <2>2. CASE SetPending(c, t)
    <3>1. call'[c, t] = "add" BY <2>2 DEF SetPending, Steady, TypeOK
    <3>2. t \in Queued => t \in Watched' BY <3>1 DEF Watched, Coming
    <3> QED BY <2>0, <2>2, <3>2, Looks DEF SetPending
  <2>3. CASE AddJob(c, t)
    <3>1. \A u \in Queued : job[u] = "sent" <=> job'[u] = "sent"
      BY <2>3, KindFacts DEF AddJob, Steady, TypeOK
    <3> QED BY <2>0, <2>3, <3>1, Looks DEF AddJob
  <2>4. CASE OnCompleted(c, t) BY <2>0, <2>4, Looks DEF OnCompleted
  <2> QED BY <1>1, <2>1, <2>2, <2>3, <2>4 DEF Call
<1>2. ASSUME NEW c \in Slot, NEW t \in Kind, JobCheckAgent(c, t) PROVE Promise!Look
  <2>1. job[t] = "cleared" /\ job' \in {[job EXCEPT ![t] = "checked"], [job EXCEPT ![t] = "none"]}
    BY <1>2 DEF JobCheckAgent, Completes
  <2>2. \A u \in Queued : job[u] = "sent" <=> job'[u] = "sent" BY <2>1, KindFacts DEF Steady, TypeOK
  <2>3. t \in Queued => t \in Watched BY <2>1 DEF Watched
  <2>4. parked' = parked \/ parked' = parked \cup {t} BY <1>2 DEF JobCheckAgent
  <2> QED BY <1>2, <2>2, <2>3, <2>4, Looks DEF JobCheckAgent
<1>3. ASSUME NEW c \in Slot, NEW t \in Kind, Read(c, t) PROVE Promise!Look
  <2>1. /\ t \in Queued /\ job[t] = "checked"
        /\ job' \in {[job EXCEPT ![t] = "none"], [job EXCEPT ![t] = "read"]}
        /\ \E b : batch' \in {batch, [batch EXCEPT ![t] = b]}
    BY <1>3 DEF Read, Completes
  <2>2. \A u \in Queued : /\ job[u] = "sent" <=> job'[u] = "sent"
                          /\ job[u] = "sent" => batch'[u] = batch[u]
    BY <2>1, KindFacts DEF Steady, TypeOK
  <2>3. t \in Watched BY <2>1 DEF Watched
  <2>4. parked' = parked \/ parked' = parked \cup {t} BY <1>3 DEF Read
  <2> QED BY <1>3, <2>2, <2>3, <2>4, Looks DEF Read
<1>4. ASSUME NEW t \in Kind, ClearPending(t) \/ Retry(t) PROVE Promise!Look
  <2>1. /\ job[t] \in {"waiting", "checked", "read"}
        /\ \E j \in {"waiting", "checked", "cleared"} : job' = [job EXCEPT ![t] = j]
        /\ batch' \in {batch, [batch EXCEPT ![t] = {}]}
        /\ UNCHANGED <<queue, requests, unregistering, wiping, parked>>
    BY <1>4 DEF ClearPending, Retry
  <2>2. \A u \in Queued : /\ job[u] = "sent" <=> job'[u] = "sent"
                          /\ job[u] = "sent" => batch'[u] = batch[u]
    BY <2>1, KindFacts DEF Steady, TypeOK
  <2> QED BY <2>1, <2>2, Looks
<1>5. ASSUME NEW c \in Slot, NEW l \in Listing, NEW t \in Queued, AddedDesired(c, l, t) PROVE Promise!Ask
  <2>1. \A u \in Queued : u \in {t} \/ queue'[u] \subseteq queue[u]
    BY <1>5 DEF AddedDesired, Enqueue
  <2> QED BY <1>5, <2>1, Asks DEF AddedDesired, Request
<1>6. ASSUME NEW c \in Slot, NEW l \in Listing, NEW b \in BOOLEAN,
             RemovedDesired(c, l, b) \/ CreatedDesired(c, l, b)
      PROVE  Promise!Ask
  <2>1. UNCHANGED <<job, batch, parked, unregistering, wiping>> /\ requests' = requests + 1
    BY <1>6 DEF RemovedDesired, CreatedDesired, Request
  <2>2. CASE ~b
    <3>1. call' = call /\ \A u \in Queued : queue'[u] \subseteq queue[u]
      BY <1>6, <2>2 DEF RemovedDesired, CreatedDesired, Dequeue
    <3> QED BY <2>1, <3>1, Asks
  <2>3. CASE b
    <3>1. PICK ts \in {Deletes, {"delete"}} :
            call' = Calling(c, ts) /\ \A u \in Queued : u \in ts \/ queue'[u] \subseteq queue[u]
      BY <1>6, <2>3 DEF RemovedDesired, CreatedDesired, Dequeue, Enqueue
    <3> QED BY <2>1, <3>1, Asks
  <2> QED BY <2>2, <2>3
<1>7. ASSUME NEW c \in Slot, NEW l \in Listing, CurrentListingsUpdated(c, l) PROVE Promise!Ask
  <2>1. \A u \in Queued : u \in Deletes \/ queue'[u] \subseteq queue[u]
    BY <1>7 DEF CurrentListingsUpdated, Enqueue
  <2> QED BY <1>7, <2>1, Asks DEF CurrentListingsUpdated, Request
<1>8. ASSUME NEW c \in Slot, DeletedCurrentListings(c) \/ RefreshedCurrentListings(c) PROVE Promise!Look
  BY <1>8, Looks DEF DeletedCurrentListings, RefreshedCurrentListings
<1>9. CASE DeletedAllCurrentListings
  <2>1. Sent' = Sent /\ Left' = Left /\ Watched' = Watched
    BY <1>9 DEF DeletedAllCurrentListings, Sent, Left, Parked, Watched, Coming, WillRerun
  <2>2. Promise!Wipe BY <1>9, <2>1 DEF DeletedAllCurrentListings, Promise!Wipe, Clearing
  <2> QED BY <2>2 DEF Promise!Next
<1>10. CASE \/ Register \/ LimitsRefreshed \/ UNCHANGED vars
            \/ \E ls \in SUBSET Listing : UpdateDesired(ls)
  BY <1>10 DEF Register, LimitsRefreshed, UpdateDesired, vars, Promise!vars, Sent, Left, Parked, Watched, Coming,
               WillRerun, Clearing
<1>11. ~Crash /\ \A c \in Slot, t \in Kind : ~OnCompletedFails(c, t)
  <2>1. ~Fault BY DEF Fault, Steady, TypeOK
  <2> QED BY <2>1 DEF Crash, OnCompletedFails
<1> QED
  BY <1>1, <1>2, <1>3, <1>4, <1>5, <1>6, <1>7, <1>8, <1>9, <1>10, <1>11, SettleKeeps, SettleUpdateKeeps,
     PlanFinds, SendKeeps, UnregisterKeeps
  DEF Next, Work, Promise!Next

\* Without faults the jobs implement WorkQueue, whatever calls, handlers, plans and answers
\* run beside each other.
THEOREM JobsKeepTheirPromise == ASSUME MaxFaults = 0 PROVE MCSpec => Promise!Spec
<1>1. MCInit => Steady /\ Promise!Init
  <2> SUFFICES ASSUME MCInit PROVE Steady /\ Promise!Init OBVIOUS
  <2>1. Init BY DEF MCInit
  <2>2. TypeOK BY <2>1, InitType
  <2>3. WakeupInv BY <2>1, InitWakeup
  <2>4. Promise!Init
    BY <2>1, KindFacts DEF Init, Promise!Init, Sent, Watched, Left, Parked, Coming, WillRerun, Clearing
  <2> QED BY <2>2, <2>3, <2>4 DEF Steady
<1>2. Steady /\ [MCNext]_<<component, vars, agents>> => Steady' /\ [Promise!Next]_(Promise!vars)
  <2> SUFFICES ASSUME Steady, [MCNext]_<<component, vars, agents>>
               PROVE  Steady' /\ [Promise!Next]_(Promise!vars)
    OBVIOUS
  <2>1. [Next]_vars BY DEF MCNext
  <2> QED BY <2>1, TypeStep, WakeupStep, PromiseStep DEF Steady
<1> QED BY <1>1, <1>2, PTL DEF MCSpec, Promise!Spec

\* Nor is work ever forgotten while the account's agent comes and goes beside the jobs: it is
\* watched, or was left by one who watched it, in the terms of WorkQueue.
THEOREM NothingIsForgotten == ASSUME MaxFaults = 0 PROVE MCSpec => []Promise!NothingForgotten
<1>1. MCInit => TypeOK /\ WakeupInv BY InitType, InitWakeup DEF MCInit
<1>2. TypeOK /\ WakeupInv /\ [MCNext]_<<component, vars, agents>> => (TypeOK /\ WakeupInv)'
  <2> SUFFICES ASSUME TypeOK, WakeupInv, [MCNext]_<<component, vars, agents>>
               PROVE  (TypeOK /\ WakeupInv)'
    OBVIOUS
  <2>1. [Next]_vars BY DEF MCNext
  <2> QED BY <2>1, TypeStep, WakeupStep
<1>3. WakeupInv => Promise!NothingForgotten
  BY DEF WakeupInv, LeftAnnounced, Promise!NothingForgotten, Watched, Left
<1> QED BY <1>1, <1>2, <1>3, PTL DEF MCSpec
-------------------------------------------------------------------------------
(* The agent of an account *)

Alone == \/ unregister = "no" /\ cleanup = "no"
         \/ register = "no" /\ cleanup = "no"
         \/ register = "no" /\ unregister = "no"

Jobs == [TheAgent!Pulse \cup {"unregister"} -> {"none", "waiting", "active", "done"}]

\* Who holds the lock relies on whether there is an agent; a schedule of an older version is
\* there only until the agents have been scheduled at the start.
AgentInv ==
  /\ registered \in BOOLEAN /\ token \in BOOLEAN /\ shown \in BOOLEAN /\ started \in BOOLEAN
  /\ completed \in BOOLEAN /\ unneeded \in BOOLEAN
  /\ schedules \subseteq {"old", "new"}
  /\ agentJob \in Jobs
  /\ register \in {"no", "look", "others", "schedule", "pulse"}
  /\ unregister \in {"no", "add"} /\ cleanup \in {"no", "schedules", "jobs", "stop"}
  /\ cleaner \in {"job", "handler"}
  /\ Alone
  /\ register # "no" => registered
  /\ cleanup # "no" => ~registered
  /\ "old" \in schedules => ~started /\ registered /\ register \in {"no", "others"}
  /\ register = "look" => started
  /\ register = "pulse" => started /\ schedules = {"new"}
  /\ TheAgent!Scheduled

LEMMA AgentInit == TheAgent!Init => AgentInv
  BY DEF TheAgent!Init, AgentInv, Alone, TheAgent!Scheduled, TheAgent!Pulse, Jobs

LEMMA AgentStep == AgentInv /\ [TheAgent!Next]_(TheAgent!vars) => AgentInv'
<1> SUFFICES ASSUME AgentInv, [TheAgent!Next]_(TheAgent!vars) PROVE AgentInv'
  OBVIOUS
<1> USE DEF AgentInv, Alone, TheAgent!Scheduled, Jobs
<1>1. ASSUME TheAgent!SetAgent \/ TheAgent!DeleteAgent PROVE AgentInv'
  BY <1>1 DEF TheAgent!SetAgent, TheAgent!DeleteAgent, TheAgent!Request, TheAgent!Unlocked, TheAgent!calls,
              TheAgent!handlers
<1>2. ASSUME TheAgent!Registering PROVE AgentInv'
  <2>1. CASE TheAgent!LookAtSchedule BY <2>1 DEF TheAgent!LookAtSchedule, TheAgent!calls, TheAgent!handlers,
                                              TheAgent!bounds
  <2>2. CASE TheAgent!RemoveOthers BY <2>2 DEF TheAgent!RemoveOthers, TheAgent!calls, TheAgent!handlers,
                                            TheAgent!bounds
  <2>3. CASE TheAgent!ScheduleRegister BY <2>3 DEF TheAgent!ScheduleRegister, TheAgent!calls,
                                                TheAgent!handlers, TheAgent!bounds
  <2>4. CASE TheAgent!AddPulse BY <2>4 DEF TheAgent!AddPulse, TheAgent!Add, TheAgent!Pulse, TheAgent!calls,
                                        TheAgent!handlers, TheAgent!bounds
  <2>5. CASE TheAgent!OnModuleInit BY <2>5 DEF TheAgent!OnModuleInit, TheAgent!Unlocked, TheAgent!calls,
                                            TheAgent!handlers, TheAgent!bounds
  <2> QED BY <1>2, <2>1, <2>2, <2>3, <2>4, <2>5 DEF TheAgent!Registering
<1>3. ASSUME TheAgent!Unregistering PROVE AgentInv'
  <2>1. CASE TheAgent!AddUnregister BY <2>1 DEF TheAgent!AddUnregister, TheAgent!Add, TheAgent!calls,
                                             TheAgent!handlers, TheAgent!bounds
  <2>2. CASE TheAgent!RemoveSchedulers BY <2>2 DEF TheAgent!RemoveSchedulers, TheAgent!calls,
                                                TheAgent!handlers, TheAgent!bounds
  <2>3. CASE TheAgent!RemoveJobs
    <3>1. agentJob' \in Jobs
      BY <2>3 DEF TheAgent!RemoveJobs
    <3> QED BY <2>3, <3>1 DEF TheAgent!RemoveJobs, TheAgent!handlers, TheAgent!bounds
  <2>4. CASE TheAgent!Unregister BY <2>4 DEF TheAgent!Unregister, TheAgent!handlers, TheAgent!bounds
  <2> QED BY <1>3, <2>1, <2>2, <2>3, <2>4 DEF TheAgent!Unregistering
<1>4. ASSUME TheAgent!UnregisterJob \/ TheAgent!CleanUp PROVE AgentInv'
  <2>1. CASE TheAgent!UnregisterJob
    <3>1. agentJob' \in Jobs BY <2>1 DEF TheAgent!UnregisterJob
    <3>2. TheAgent!Unlocked /\ TheAgent!Needed("job") BY <2>1 DEF TheAgent!UnregisterJob
    <3> QED BY <2>1, <3>1, <3>2 DEF TheAgent!UnregisterJob, TheAgent!Needed, TheAgent!Unlocked,
                                    TheAgent!handlers, TheAgent!bounds
  <2>2. CASE TheAgent!CleanUp BY <2>2 DEF TheAgent!CleanUp, TheAgent!Needed, TheAgent!Unlocked, TheAgent!bounds
  <2> QED BY <1>4, <2>1, <2>2
<1>5. ASSUME TheAgent!RemoveUnregister \/ TheAgent!StopFails \/ TheAgent!SlotComes \/ TheAgent!OnCompleted PROVE AgentInv'
  <2>1. CASE TheAgent!RemoveUnregister BY <2>1 DEF TheAgent!RemoveUnregister, TheAgent!calls,
                                                TheAgent!handlers, TheAgent!bounds
  <2>2. CASE TheAgent!StopFails BY <2>2 DEF TheAgent!StopFails, TheAgent!handlers
  <2>3. CASE TheAgent!SlotComes BY <2>3 DEF TheAgent!SlotComes, TheAgent!Add, TheAgent!Pulse, TheAgent!calls,
                                         TheAgent!handlers, TheAgent!bounds
  <2>4. CASE TheAgent!OnCompleted
    <3>1. completed' \in BOOLEAN /\ unneeded' \in BOOLEAN BY <2>4 DEF TheAgent!OnCompleted
    <3> QED BY <2>4, <3>1 DEF TheAgent!OnCompleted, TheAgent!calls, TheAgent!bounds
  <2> QED BY <1>5, <2>1, <2>2, <2>3, <2>4
<1>6. ASSUME NEW j \in TheAgent!Pulse, TheAgent!StartPulse(j) \/ TheAgent!PulseFails(j) \/ TheAgent!RegisterAgent(j) PROVE AgentInv'
  <2>1. CASE TheAgent!StartPulse(j)
    <3>1. agentJob' \in Jobs BY <2>1 DEF TheAgent!StartPulse
    <3>2. completed' \in BOOLEAN BY <2>1 DEF TheAgent!StartPulse
    <3> QED BY <2>1, <3>1, <3>2 DEF TheAgent!StartPulse, TheAgent!calls, TheAgent!bounds
  <2>2. CASE TheAgent!PulseFails(j)
    <3>1. agentJob' \in Jobs BY <2>2 DEF TheAgent!PulseFails
    <3>2. shown' \in BOOLEAN BY <2>2 DEF TheAgent!PulseFails
    <3> QED BY <2>2, <3>1, <3>2 DEF TheAgent!PulseFails, TheAgent!calls, TheAgent!handlers
  <2>3. CASE TheAgent!RegisterAgent(j)
    <3>1. agentJob' \in Jobs BY <2>3 DEF TheAgent!RegisterAgent
    <3>2. completed' \in BOOLEAN /\ shown' \in BOOLEAN BY <2>3 DEF TheAgent!RegisterAgent
    <3> QED BY <2>3, <3>1, <3>2 DEF TheAgent!RegisterAgent, TheAgent!calls, TheAgent!bounds
  <2> QED BY <1>6, <2>1, <2>2, <2>3
<1>7. ASSUME TheAgent!DeleteToken \/ TheAgent!SaveToken PROVE AgentInv'
  <2>1. token' \in BOOLEAN BY <1>7 DEF TheAgent!DeleteToken, TheAgent!SaveToken
  <2>2. UNCHANGED <<registered, schedules, agentJob, TheAgent!calls, TheAgent!handlers, started, shown>>
    BY <1>7 DEF TheAgent!DeleteToken, TheAgent!SaveToken, TheAgent!bounds
  <2> QED BY <2>1, <2>2 DEF TheAgent!calls, TheAgent!handlers
<1>8. ASSUME TheAgent!Crash PROVE AgentInv'
  <2>1. agentJob' \in Jobs
    BY <1>8 DEF TheAgent!Crash
  <2> QED BY <1>8, <2>1 DEF TheAgent!Crash
<1>9. ASSUME UNCHANGED TheAgent!vars PROVE AgentInv'
  BY <1>9 DEF TheAgent!vars, TheAgent!calls, TheAgent!handlers, TheAgent!bounds
<1> QED BY <1>1, <1>2, <1>3, <1>4, <1>5, <1>6, <1>7, <1>8, <1>9 DEF TheAgent!Next, TheAgent!Requested,
                                                                    TheAgent!Pulsing

\* One call at a time holds the lock of the account.
LEMMA OneCall ==
  ASSUME Alone
  PROVE  Cardinality({c \in {1, 2, 3} : <<register, unregister, cleanup>>[c] # "no"}) <= 1
<1> DEFINE S == {c \in {1, 2, 3} : <<register, unregister, cleanup>>[c] # "no"}
<1>1. \E k \in {1, 2, 3} : S \subseteq {k} BY DEF Alone
<1>2. PICK k \in {1, 2, 3} : S \subseteq {k} BY <1>1
<1>3. IsFiniteSet({k}) /\ Cardinality({k}) = 1 BY FS_Singleton
<1>4. Cardinality(S) <= Cardinality({k}) BY <1>2, <1>3, FS_Subset
<1> QED BY <1>3, <1>4

LEMMA AgentTypes == AgentInv => TheAgent!TypeOK
<1> SUFFICES ASSUME AgentInv PROVE TheAgent!TypeOK OBVIOUS
<1>1. Cardinality({c \in {1, 2, 3} : <<register, unregister, cleanup>>[c] # "no"}) <= 1
  BY OneCall DEF AgentInv
<1>2. \A S : TheAgent!Cardinality(S) = Cardinality(S) BY DEF TheAgent!Cardinality, Cardinality
<1> QED BY <1>1, <1>2 DEF AgentInv, TheAgent!TypeOK, Jobs

\* Registering, unregistering and cleaning up never run at the same time, whatever
\* requests, pulses, lost tokens and crashes there are.
THEOREM AgentTypeCorrect == TheAgent!Spec => []TheAgent!TypeOK
BY AgentTypes, AgentInit, AgentStep, PTL DEF TheAgent!Spec

\* A registered agent is scheduled, and once, for any number of requests and whatever was
\* left behind half done.
THEOREM AgentIsScheduled == TheAgent!Spec => []TheAgent!Scheduled
<1>1. AgentInv => TheAgent!Scheduled BY DEF AgentInv
<1> QED BY <1>1, AgentInit, AgentStep, PTL DEF TheAgent!Spec

\* The same beside the jobs that manage listings: a registered agent stays scheduled, once,
\* and one call at a time has its lock, whatever the faults and however many requests.
THEOREM ScheduledBesideJobs == MCSpec => []Scheduled
<1>1. MCInit => AgentInv BY AgentInit DEF MCInit
<1>2. AgentInv /\ [MCNext]_<<component, vars, agents>> => AgentInv'
  <2> SUFFICES ASSUME AgentInv, [MCNext]_<<component, vars, agents>> PROVE AgentInv'
    OBVIOUS
  <2>1. TheAgent!Next \/ UNCHANGED agents BY DEF MCNext
  <2>2. UNCHANGED agents => UNCHANGED TheAgent!vars BY DEF agents, TheAgent!vars
  <2> QED BY <2>1, <2>2, AgentStep
<1>3. AgentInv => Scheduled BY AgentTypes DEF AgentInv, Scheduled
<1> QED BY <1>1, <1>2, <1>3, PTL DEF MCSpec
===============================================================================

------------------------ MODULE InventoryRefreshProofs ------------------------
(***************************************************************************)
(* A refresh ends only with an inventory that was read since the time that *)
(* was asked for, for any times, requests and faults, until a refresh is   *)
(* cancelled or a job is tried again after it has saved its answer.        *)
(*                                                                         *)
(* The argument: an answer says when backpack.tf had read the inventory at *)
(* the time of a request, so that what is read later is read after that    *)
(* request.  A job ends the chain if the answer to its own request is      *)
(* newer than the one that the job before it got, and the request of that  *)
(* one was made in time.  For this to be the same answer as the one that   *)
(* is kept with the inventory, the chain has to be alone.                  *)
(***************************************************************************)
EXTENDS InventoryRefresh, TLAPS

Job == [step : {"none", "waiting", "save", "decide", "ended"}, first : BOOLEAN,
        refreshed : Nat, read : Nat, status : Nat, refresh : Nat]

EnqueueJob == [step : {"none", "waiting", "check", "add", "ended"}, status : Nat]

Types ==
  /\ now \in Nat /\ snapshot \in Nat /\ point \in Nat
  /\ inventory \in [timestamp : Nat, refresh : Nat]
  /\ enqueueJob \in EnqueueJob /\ jobs \in [Slots -> Job]
  /\ dequeue = "idle"

Clock == now <= MaxTime /\ (snapshot < MaxTime => snapshot <= now)

Starting == enqueueJob.step \in {"waiting", "check", "add"}
Working(s) == jobs[s].step \in {"waiting", "save", "decide"}

\* Who works on a point is alone, and there is a point.
Alone ==
  /\ schedule # "idle" => point # 0
  /\ Starting => point # 0 /\ \A s \in Slots : ~Working(s)
  /\ \A s, o \in Slots : Working(s) /\ Working(o) => s = o
  /\ \A s \in Slots : Working(s) => point # 0
  /\ schedule = "add" => ~Starting /\ \A s \in Slots : ~Working(s)

\* An answer to a request that was made at a time: whatever is read after the answer is
\* read at that time or later.
Answer(status, time) == status <= snapshot /\ time <= now /\ (snapshot > status => snapshot >= time)

JobInv(s) ==
  /\ jobs[s].step \in {"waiting", "save"} => jobs[s].refreshed >= inventory.timestamp
  /\ jobs[s].step = "save" => Answer(jobs[s].status, jobs[s].refresh)
  /\ jobs[s].step \in {"save", "decide"} =>
       jobs[s].status <= snapshot /\ (jobs[s].status > jobs[s].refreshed => jobs[s].status >= jobs[s].read)
  /\ jobs[s].step = "decide" => jobs[s].status >= inventory.timestamp

Answers ==
  /\ Answer(inventory.timestamp, inventory.refresh)
  /\ enqueueJob.step \in {"check", "add"} => enqueueJob.status >= inventory.timestamp
  /\ \A s \in Slots : JobInv(s)

\* What holds until a refresh is disturbed
Undisturbed == Types /\ Clock /\ Alone /\ Answers

RefreshInv == ~disturbed => Undisturbed

-------------------------------------------------------------------------------
LEMMA MaxOfTwo ==
  ASSUME NEW a \in Nat, NEW b \in Nat
  PROVE  Max({a, b}) \in Nat /\ Max({a, b}) \in {a, b} /\ Max({a, b}) >= a /\ Max({a, b}) >= b
<1>1. \E x \in {a, b} : \A y \in {a, b} : x >= y
  <2>1. CASE a >= b BY <2>1
  <2>2. CASE ~(a >= b) BY <2>2
  <2> QED BY <2>1, <2>2
<1>2. Max({a, b}) \in {a, b} /\ \A y \in {a, b} : Max({a, b}) >= y
  BY <1>1 DEF Max
<1> QED BY <1>2

LEMMA NoJobTypes == NoJob \in Job /\ NoEnqueueJob \in EnqueueJob
  BY DEF NoJob, NoEnqueueJob, Job, EnqueueJob

LEMMA Initially == Init => Undisturbed
<1> SUFFICES ASSUME Init PROVE Undisturbed
  OBVIOUS
<1>1. Types BY NoJobTypes DEF Init, Types
<1>2. Clock BY MaxTimeAssumption DEF Init, Clock
<1>3. Alone BY DEF Init, Alone, Starting, Working, NoJob, NoEnqueueJob
<1>4. Answers BY DEF Init, Answers, Answer, JobInv, NoJob, NoEnqueueJob
<1> QED BY <1>1, <1>2, <1>3, <1>4 DEF Undisturbed

\* What time and readings of the inventory change.
LEMMA TimeStep ==
  ASSUME Undisturbed, Tick \/ Snapshot
  PROVE  Undisturbed'
<1> USE MaxTimeAssumption DEF Undisturbed
<1>1. Types' /\ Clock' BY DEF Tick, Snapshot, Types, Clock
<1>2. UNCHANGED <<point, inventory, schedule, dequeue, enqueueJob, jobs>> BY DEF Tick, Snapshot
<1>3. Alone' BY <1>2 DEF Alone, Starting, Working
<1>4. snapshot' >= snapshot /\ now' >= now /\ (snapshot' # snapshot => snapshot' >= now)
  BY DEF Tick, Snapshot, Types, Clock
<1>5. ASSUME NEW status \in Nat, NEW time \in Nat, Answer(status, time) PROVE Answer(status, time)'
  BY <1>1, <1>4, <1>5 DEF Answer, Types
<1>6. inventory.timestamp \in Nat /\ inventory.refresh \in Nat BY DEF Types
<1>7. ASSUME NEW s \in Slots PROVE JobInv(s)'
  <2>1. jobs[s].status \in Nat /\ jobs[s].refresh \in Nat /\ JobInv(s) BY DEF Types, Job, Answers
  <2> QED BY <1>1, <1>2, <1>4, <1>5, <2>1 DEF JobInv, Types
<1>8. Answers' BY <1>2, <1>5, <1>6, <1>7 DEF Answers
<1> QED BY <1>1, <1>3, <1>8

\* Steps of who schedules: the clock, the answers and the jobs of the chain stay as they are.
LEMMA ScheduleStep ==
  ASSUME Undisturbed, ~disturbed',
         \/ \E t \in Time \ {0} : ScheduleRefresh(t)
         \/ DeletePoint \/ StopScheduling \/ Scheduling
  PROVE  Undisturbed'
<1> USE MaxTimeAssumption DEF Undisturbed
<1>1. ASSUME NEW t \in Time \ {0}, ScheduleRefresh(t) PROVE Undisturbed'
  <2>1. UNCHANGED <<now, snapshot, inventory, dequeue, enqueueJob, jobs>> /\ point' = Max({point, t})
        /\ schedule' = IF point = 0 THEN "add" ELSE "find"
    BY <1>1 DEF ScheduleRefresh
  <2>2. t \in Nat /\ t # 0 /\ point \in Nat BY DEF Time, Types
  <2>3. point' \in Nat /\ point' # 0 BY <2>1, <2>2, MaxOfTwo
  <2>4. Types' /\ Clock' BY <2>1, <2>3 DEF Types, Clock
  <2>5. Alone' BY <2>1, <2>3 DEF Alone, Starting, Working
  <2>6. Answers' BY <2>1 DEF Answers, Answer, JobInv
  <2> QED BY <2>4, <2>5, <2>6
<1>2. ASSUME FindChain \/ StopScheduling PROVE Undisturbed'
  <2>1. UNCHANGED <<now, snapshot, point, inventory, dequeue, enqueueJob, jobs>> /\ schedule' = "idle"
    BY <1>2 DEF FindChain, StopScheduling
  <2> QED BY <2>1 DEF Types, Clock, Alone, Starting, Working, Answers, Answer, JobInv
<1>3. ASSUME StartChain PROVE Undisturbed'
  <2>1. UNCHANGED <<now, snapshot, point, inventory, dequeue, jobs>> /\ schedule' = "idle"
        /\ enqueueJob' = IF enqueueJob.step = "none" THEN [NoEnqueueJob EXCEPT !.step = "waiting"] ELSE enqueueJob
    BY <1>3 DEF StartChain
  <2>2. \A s \in Slots : ~Working(s)
    BY <1>3 DEF StartChain, Alone, HasChain, NoJobs, Working
  <2>3. point # 0
    BY <1>3 DEF StartChain, Alone
  <2>4. enqueueJob'.step \in {"check", "add"} => enqueueJob' = enqueueJob
    BY <2>1 DEF NoEnqueueJob
  <2>5. Types' /\ Clock' BY <2>1, NoJobTypes DEF Types, Clock, EnqueueJob
  <2>6. Alone' BY <2>1, <2>2, <2>3 DEF Alone, Starting, Working
  <2>7. Answers' BY <2>1, <2>4 DEF Answers, Answer, JobInv
  <2> QED BY <2>5, <2>6, <2>7
<1>4. ~DeletePoint BY DEF DeletePoint
<1>5. ~RemoveJobs BY DEF RemoveJobs, Types
<1> QED BY <1>1, <1>2, <1>3, <1>4, <1>5 DEF Scheduling

\* Steps of the job that starts a chain.
LEMMA EnqueueStep ==
  ASSUME Undisturbed, Enqueueing \/ RetryEnqueue
  PROVE  Undisturbed'
<1> USE MaxTimeAssumption DEF Undisturbed
<1>1. UNCHANGED <<now, snapshot, point, inventory, schedule, dequeue>>
  BY DEF Enqueueing, GetStatus, CheckPoint, AddFirst, CompleteEnqueue, RetryEnqueue
<1>2. Clock' BY <1>1 DEF Clock
<1>3. ASSUME GetStatus \/ CheckPoint \/ CompleteEnqueue \/ RetryEnqueue PROVE Undisturbed'
  <2>1. jobs' = jobs BY <1>3 DEF GetStatus, CheckPoint, CompleteEnqueue, RetryEnqueue
  <2>2. enqueueJob' \in EnqueueJob
    BY <1>3, NoJobTypes DEF GetStatus, CheckPoint, CompleteEnqueue, RetryEnqueue, Types, EnqueueJob
  <2>3. Starting' => Starting
    BY <1>3, NoJobTypes DEF GetStatus, CheckPoint, CompleteEnqueue, RetryEnqueue, Types, EnqueueJob, Starting,
                            NoEnqueueJob
  <2>4. enqueueJob'.step \in {"check", "add"} => enqueueJob'.status >= inventory.timestamp
    BY <1>3 DEF GetStatus, CheckPoint, CompleteEnqueue, RetryEnqueue, Types, EnqueueJob, Answers, Answer,
                NoEnqueueJob
  <2>5. Types' BY <1>1, <2>1, <2>2 DEF Types
  <2>6. Alone' BY <1>1, <2>1, <2>3 DEF Alone, Working
  <2>7. Answers' BY <1>1, <2>1, <2>4 DEF Answers, Answer, JobInv
  <2> QED BY <1>2, <2>5, <2>6, <2>7
<1>4. ASSUME AddFirst PROVE Undisturbed'
  <2>1. enqueueJob' \in EnqueueJob /\ enqueueJob'.step = "ended" BY <1>4 DEF AddFirst, Types, EnqueueJob
  <2>2. Starting /\ point # 0 /\ enqueueJob.status \in Nat /\ enqueueJob.status >= inventory.timestamp
    BY <1>4 DEF AddFirst, Starting, Alone, Answers, Types, EnqueueJob
  <2> DEFINE job == [NoJob EXCEPT !.step = "waiting", !.refreshed = enqueueJob.status]
  <2>3. jobs' = jobs \/ \E s \in Slots : jobs' = [jobs EXCEPT ![s] = job] BY <1>4 DEF AddFirst
  <2>4. CASE jobs' = jobs
    <3>1. Types' BY <1>1, <2>1, <2>4 DEF Types
    <3>2. Alone' BY <1>1, <2>1, <2>4 DEF Alone, Starting, Working
    <3>3. Answers' BY <1>1, <2>1, <2>4 DEF Answers, Answer, JobInv
    <3> QED BY <1>2, <3>1, <3>2, <3>3
  <2>5. CASE \E s \in Slots : jobs' = [jobs EXCEPT ![s] = job]
    <3>1. PICK s \in Slots : jobs' = [jobs EXCEPT ![s] = job] BY <2>5
    <3>2. job \in Job /\ job.step = "waiting" /\ job.refreshed = enqueueJob.status
      BY <2>2 DEF NoJob, Job
    <3> HIDE DEF job
    <3>3. jobs'[s] = job /\ \A o \in Slots \ {s} : jobs'[o] = jobs[o] BY <3>1 DEF Types
    <3>4. Types' BY <1>1, <2>1, <3>1, <3>2 DEF Types
    <3>5. Alone' BY <1>1, <2>1, <2>2, <3>3 DEF Alone, Starting, Working
    <3>6. ASSUME NEW o \in Slots PROVE JobInv(o)'
      <4>1. CASE o = s BY <1>1, <2>2, <3>2, <3>3, <4>1 DEF JobInv
      <4>2. CASE o # s
        <5>1. jobs'[o] = jobs[o] BY <3>3, <4>2
        <5> QED BY <1>1, <5>1 DEF Answers, Answer, JobInv
      <4> QED BY <4>1, <4>2
    <3>7. Answers' BY <1>1, <2>1, <3>6 DEF Answers, Answer
    <3> QED BY <1>2, <3>4, <3>5, <3>7
  <2> QED BY <2>3, <2>4, <2>5
<1> QED BY <1>3, <1>4 DEF Enqueueing

\* Steps of a job of the chain, which is the only one.
LEMMA JobStep ==
  ASSUME Undisturbed, ~disturbed', NEW s \in Slots,
         Refreshing(s) \/ RetryRequest(s) \/ RetryDecision(s)
  PROVE  Undisturbed'
<1> USE MaxTimeAssumption DEF Undisturbed
<1>1. UNCHANGED <<now, snapshot, schedule, dequeue, enqueueJob>>
  BY DEF Refreshing, RequestRefresh, SaveInventory, ContinueRefresh, CompleteJob, RetryRequest, RetryDecision
<1>2. Clock' BY <1>1 DEF Clock
<1>3. jobs[s] \in Job /\ JobInv(s) BY DEF Types, Answers
<1>4. \A o \in Slots \ {s} : Working(s) => ~Working(o) BY DEF Alone
\* what is to be shown of a step that changes this job only, and of the inventory at most
<1>5. ASSUME NEW job \in Job, jobs' = [jobs EXCEPT ![s] = job],
             job.step \in {"waiting", "save", "decide"} => Working(s) /\ point' = point,
             point' = point \/ (point' = 0 /\ schedule = "idle" /\ Working(s)),
             inventory' \in [timestamp : Nat, refresh : Nat],
             inventory' = inventory \/ Working(s),
             Answer(inventory'.timestamp, inventory'.refresh),
             JobInv(s)'
      PROVE  Undisturbed'
  <2>1. jobs'[s] = job /\ \A o \in Slots \ {s} : jobs'[o] = jobs[o] BY <1>5 DEF Types
  <2>2. Types' BY <1>1, <1>5 DEF Types
  <2>3. Alone' BY <1>1, <1>4, <1>5, <2>1 DEF Alone, Starting, Working
  <2>4. ASSUME NEW o \in Slots \ {s} PROVE JobInv(o)'
    <3>1. jobs'[o] = jobs[o] /\ JobInv(o) BY <2>1 DEF Answers
    <3>2. CASE inventory' = inventory BY <1>1, <3>1, <3>2 DEF JobInv, Answer
    <3>3. CASE ~Working(o) BY <3>1, <3>3 DEF JobInv, Working
    <3> QED BY <1>4, <1>5, <3>2, <3>3
  <2>5. enqueueJob.step \in {"check", "add"} => inventory' = inventory
    BY <1>5 DEF Alone, Starting
  <2>6. Answers' BY <1>1, <1>5, <2>4, <2>5 DEF Answers, Answer
  <2> QED BY <1>2, <2>2, <2>3, <2>6
<1>6. ASSUME RequestRefresh(s) PROVE Undisturbed'
  <2> DEFINE job == [jobs[s] EXCEPT !.step = "save", !.read = inventory.refresh, !.status = snapshot,
                                    !.refresh = now]
  <2>1. jobs' = [jobs EXCEPT ![s] = job] BY <1>6 DEF RequestRefresh, Types
  <2>2. job \in Job BY <1>3 DEF Job, Types
  <2>3. /\ job.step = "save" /\ job.read = inventory.refresh /\ job.status = snapshot /\ job.refresh = now
        /\ job.refreshed = jobs[s].refreshed
    BY <1>3 DEF Job
  <2>4. Working(s) /\ jobs[s].refreshed >= inventory.timestamp /\ UNCHANGED <<point, inventory>>
    BY <1>3, <1>6 DEF RequestRefresh, Working, JobInv
  <2>5. Answer(inventory.timestamp, inventory.refresh) BY DEF Answers
  <2> HIDE DEF job
  <2>6. jobs'[s] = job BY <2>1 DEF Types
  <2>7. JobInv(s)' BY <1>1, <1>3, <2>2, <2>3, <2>4, <2>5, <2>6 DEF JobInv, Answer, Types, Job
  <2> QED BY <1>5, <2>1, <2>2, <2>3, <2>4, <2>5, <2>7 DEF Types
<1>7. ASSUME SaveInventory(s) PROVE Undisturbed'
  <2> DEFINE job == [jobs[s] EXCEPT !.step = "decide"]
  <2>1. jobs' = [jobs EXCEPT ![s] = job] BY <1>7 DEF SaveInventory, Types
  <2>2. job \in Job BY <1>3 DEF Job
  <2>3. /\ job.step = "decide" /\ job.status = jobs[s].status /\ job.read = jobs[s].read
        /\ job.refreshed = jobs[s].refreshed
    BY <1>3 DEF Job
  <2>4. Working(s) /\ UNCHANGED point /\ Answer(jobs[s].status, jobs[s].refresh)
        /\ inventory' = [timestamp |-> jobs[s].status, refresh |-> jobs[s].refresh]
    BY <1>3, <1>7 DEF SaveInventory, Working, JobInv
  <2> HIDE DEF job
  <2>5. jobs'[s] = job BY <2>1 DEF Types
  <2>6. JobInv(s)' BY <1>1, <1>3, <1>7, <2>2, <2>3, <2>4, <2>5 DEF SaveInventory, JobInv, Answer, Types, Job
  <2>7. inventory' \in [timestamp : Nat, refresh : Nat] BY <1>3, <2>4 DEF Job
  <2>8. Answer(inventory'.timestamp, inventory'.refresh) BY <2>4
  <2> QED BY <1>5, <2>1, <2>2, <2>3, <2>4, <2>6, <2>7, <2>8
<1>8. ASSUME ContinueRefresh(s) PROVE Undisturbed'
  <2> DEFINE next == [NoJob EXCEPT !.step = "waiting", !.first = FALSE, !.refreshed = jobs[s].status]
             ended == [NoJob EXCEPT !.step = "ended", !.first = jobs[s].first]
  <2>1. /\ Working(s) /\ UNCHANGED inventory /\ schedule = "idle" /\ jobs[s].step = "decide"
        /\ \/ jobs' = [jobs EXCEPT ![s] = ended] /\ point' = 0
           \/ jobs' = [jobs EXCEPT ![s] = next] /\ point' = point
           \/ jobs' = [jobs EXCEPT ![s] = NoJob] /\ point' = point
    BY <1>8 DEF ContinueRefresh, Working
  <2>2. PICK job \in {next, ended, NoJob} :
          jobs' = [jobs EXCEPT ![s] = job] /\ (IF job = ended THEN point' \in {0, point} ELSE point' = point)
    BY <2>1
  <2>3. /\ next \in Job /\ next.step = "waiting" /\ next.refreshed = jobs[s].status
        /\ ended \in Job /\ ended.step = "ended"
        /\ NoJob \in Job /\ NoJob.step = "none"
    BY <1>3 DEF NoJob, Job
  <2>4. jobs[s].status >= inventory.timestamp /\ Answer(inventory.timestamp, inventory.refresh)
    BY <1>3, <2>1 DEF JobInv, Answers
  <2> HIDE DEF next, ended
  <2>5. jobs'[s] = job BY <2>2 DEF Types
  <2>6. JobInv(s)' BY <1>1, <2>1, <2>2, <2>3, <2>4, <2>5 DEF JobInv
  <2>7. inventory' \in [timestamp : Nat, refresh : Nat] BY <2>1 DEF Types
  <2> QED BY <1>5, <2>1, <2>2, <2>3, <2>4, <2>6, <2>7
<1>9. ASSUME CompleteJob(s) PROVE Undisturbed'
  <2>1. jobs' = [jobs EXCEPT ![s] = NoJob] /\ UNCHANGED <<point, inventory>> BY <1>9 DEF CompleteJob
  <2>2. NoJob \in Job /\ NoJob.step = "none" BY NoJobTypes DEF NoJob
  <2>3. JobInv(s)' BY <2>1, <2>2 DEF JobInv, Types
  <2> QED BY <1>5, <2>1, <2>2, <2>3 DEF Types, Answers
<1>10. ASSUME RetryRequest(s) PROVE Undisturbed'
  <2> DEFINE job == [NoJob EXCEPT !.step = "waiting", !.first = jobs[s].first, !.refreshed = jobs[s].refreshed]
  <2>1. jobs' = [jobs EXCEPT ![s] = job] /\ Working(s) /\ UNCHANGED <<point, inventory>>
        /\ jobs[s].refreshed >= inventory.timestamp
    BY <1>3, <1>10 DEF RetryRequest, Retried, Working, JobInv
  <2>2. job \in Job /\ job.step = "waiting" /\ job.refreshed = jobs[s].refreshed BY <1>3 DEF NoJob, Job
  <2> HIDE DEF job
  <2>3. JobInv(s)' BY <2>1, <2>2 DEF JobInv, Types
  <2> QED BY <1>5, <2>1, <2>2, <2>3 DEF Types, Answers
<1>11. ~RetryDecision(s) BY DEF RetryDecision
<1> QED BY <1>6, <1>7, <1>8, <1>9, <1>10, <1>11 DEF Refreshing

\* A refresh that was disturbed stays so.
LEMMA StaysDisturbed == [Next]_vars /\ ~disturbed' => ~disturbed
<1> SUFFICES ASSUME [Next]_vars, ~disturbed' PROVE ~disturbed
  OBVIOUS
<1>1. CASE UNCHANGED vars BY <1>1 DEF vars
<1>2. CASE Tick \/ Snapshot \/ \E t \in Time \ {0} : ScheduleRefresh(t)
  BY <1>2 DEF Tick, Snapshot, ScheduleRefresh
<1>3. CASE DeletePoint \/ StopScheduling \/ Scheduling
  BY <1>3 DEF DeletePoint, StopScheduling, Scheduling, FindChain, StartChain, RemoveJobs
<1>4. CASE Enqueueing \/ RetryEnqueue
  BY <1>4 DEF Enqueueing, GetStatus, CheckPoint, AddFirst, CompleteEnqueue, RetryEnqueue
<1>5. ASSUME NEW s \in Slots, Refreshing(s) \/ RetryRequest(s) \/ RetryDecision(s) PROVE ~disturbed
  BY <1>5 DEF Refreshing, RequestRefresh, SaveInventory, ContinueRefresh, CompleteJob, RetryRequest, RetryDecision
<1> QED BY <1>1, <1>2, <1>3, <1>4, <1>5 DEF Next

LEMMA InvStep == RefreshInv /\ [Next]_vars => RefreshInv'
<1> SUFFICES ASSUME RefreshInv, [Next]_vars, ~disturbed' PROVE Undisturbed'
  BY DEF RefreshInv
<1>1. Undisturbed BY StaysDisturbed DEF RefreshInv
<1>2. CASE UNCHANGED vars
  BY <1>1, <1>2 DEF vars, Undisturbed, Types, Clock, Alone, Starting, Working, Answers, Answer, JobInv
<1>3. CASE Next
  BY <1>1, <1>3, TimeStep, ScheduleStep, EnqueueStep, JobStep DEF Next
<1> QED BY <1>2, <1>3

\* The job that ends a refresh has an answer that is newer than the one before, whose
\* request was made after the point.
LEMMA EndStep == RefreshInv /\ [Next]_vars => [EndsRefreshed]_vars
<1> SUFFICES ASSUME RefreshInv, NEW s \in Slots, ContinueRefresh(s), point' # point, ~disturbed
             PROVE  snapshot >= point
  BY DEF EndsRefreshed
<1>1. point # 0 /\ Refreshed(jobs[s]) /\ jobs[s].step = "decide" BY DEF ContinueRefresh
<1>2. jobs[s] \in Job /\ JobInv(s) /\ snapshot \in Nat /\ point \in Nat
  BY DEF RefreshInv, Undisturbed, Types, Answers
<1> QED BY <1>1, <1>2 DEF Refreshed, JobInv, Job

\* Until a refresh is cancelled, or a job is tried again after it has saved its answer, a
\* refresh ends only with an inventory that was read since the time asked for: the point may
\* be raised at any time, and requests, processes and the jobs before that may fail.
THEOREM EndsWithRefreshed == Spec => RefreshedAfter
<1>1. Init => RefreshInv BY Initially DEF RefreshInv
<1>2. RefreshInv /\ [Next]_vars => RefreshInv' BY InvStep
<1>3. RefreshInv /\ [Next]_vars => [EndsRefreshed]_vars BY EndStep
<1> QED BY <1>1, <1>2, <1>3, PTL DEF Spec, RefreshedAfter

-------------------------------------------------------------------------------
(* What is asked for is served, whatever is cancelled or fails.  Who lets go of a point *)
(* has seen somebody else at work, adds a job, or knows that it did not (lost); a job that *)
(* ends without having served the point leaves that to its successor or to another chain. *)

Shape ==
  /\ now \in Nat /\ snapshot \in Nat
  /\ inventory \in [timestamp : Nat, refresh : Nat]
  /\ enqueueJob \in EnqueueJob /\ jobs \in [Slots -> Job]

ServedInv == Shape /\ PointServed

LEMMA ServedInitially == Init => ServedInv
BY NoJobTypes DEF Init, ServedInv, Shape, PointServed, Served

\* Whoever works on a point is seen to.
LEMMA WorkingServes == \A s \in Slots : Working(s) => Served
BY DEF Working, Served

\* Steps of time, and of who schedules
LEMMA ServedScheduleStep ==
  ASSUME ServedInv,
         \/ Tick \/ Snapshot \/ (\E t \in Time \ {0} : ScheduleRefresh(t))
         \/ DeletePoint \/ StopScheduling \/ Scheduling
  PROVE  ServedInv'
<1> USE MaxTimeAssumption DEF ServedInv
<1>1. CASE Tick \/ Snapshot
  BY <1>1 DEF Tick, Snapshot, Shape, PointServed, Served
<1>2. CASE \E t \in Time \ {0} : ScheduleRefresh(t)
  BY <1>2 DEF ScheduleRefresh, Shape, PointServed
<1>3. CASE DeletePoint BY <1>3 DEF DeletePoint, Shape, PointServed
<1>4. CASE StopScheduling \/ FindChain
  BY <1>4 DEF StopScheduling, FindChain, HasChain, Shape, PointServed, Served
<1>5. CASE StartChain
  <2>1. Shape' BY <1>5, NoJobTypes DEF StartChain, Shape, EnqueueJob
  <2>2. CASE enqueueJob.step = "none"
    <3>1. enqueueJob'.step = "waiting" BY <1>5, <2>2 DEF StartChain, NoEnqueueJob
    <3> QED BY <2>1, <3>1 DEF PointServed, Served
  <2>3. CASE enqueueJob.step # "none"
    <3>1. enqueueJob' = enqueueJob /\ jobs' = jobs /\ lost' = (enqueueJob.step = "ended" /\ ~Served)
      BY <1>5, <2>3 DEF StartChain
    <3>2. enqueueJob.step \in {"ended", "waiting", "check", "add"} BY <2>3 DEF Shape, EnqueueJob
    <3> QED BY <2>1, <3>1, <3>2 DEF PointServed, Served
  <2> QED BY <2>2, <2>3
<1>6. CASE RemoveJobs
  <2>1. Shape' BY <1>6, NoJobTypes DEF RemoveJobs, Shape
  <2> QED BY <1>6, <2>1 DEF RemoveJobs, PointServed
<1> QED BY <1>1, <1>2, <1>3, <1>4, <1>5, <1>6 DEF Scheduling

\* Steps of the job that starts a chain
LEMMA ServedEnqueueStep ==
  ASSUME ServedInv, Enqueueing \/ RetryEnqueue
  PROVE  ServedInv'
<1> USE DEF ServedInv
<1>1. CASE GetStatus \/ RetryEnqueue \/ CheckPoint \/ CompleteEnqueue
  <2>1. Shape'
    BY <1>1, NoJobTypes DEF GetStatus, RetryEnqueue, CheckPoint, CompleteEnqueue, Shape, EnqueueJob, NoEnqueueJob
  <2>2. UNCHANGED <<point, schedule, jobs, lost>>
    BY <1>1 DEF GetStatus, RetryEnqueue, CheckPoint, CompleteEnqueue
  <2>3. point # 0 /\ enqueueJob.step \in {"waiting", "check", "add"} =>
          enqueueJob'.step \in {"waiting", "check", "add"}
    BY <1>1 DEF GetStatus, RetryEnqueue, CheckPoint, CompleteEnqueue, Shape, EnqueueJob, NoEnqueueJob
  <2> QED BY <2>1, <2>2, <2>3 DEF PointServed, Served
<1>2. CASE AddFirst
  <2> DEFINE job == [NoJob EXCEPT !.step = "waiting", !.refreshed = enqueueJob.status]
  <2>1. UNCHANGED <<now, snapshot, inventory, point, schedule>> /\ enqueueJob' \in EnqueueJob
    BY <1>2 DEF AddFirst, Shape, EnqueueJob
  <2>2. job \in Job /\ job.step = "waiting" BY DEF NoJob, Job, Shape, EnqueueJob
  <2>3. CASE \E s \in Slots : jobs' = [jobs EXCEPT ![s] = job]
    <3>1. PICK s \in Slots : jobs' = [jobs EXCEPT ![s] = job] BY <2>3
    <3> HIDE DEF job
    <3>2. jobs'[s] = job /\ Shape' BY <2>1, <2>2, <3>1 DEF Shape
    <3>3. Served' BY <2>2, <3>2 DEF Served
    <3> QED BY <3>2, <3>3 DEF PointServed
  <2>4. CASE jobs' = jobs /\ lost' = (lost \/ (point # 0 /\ \A s \in Slots : jobs[s].step \in {"none", "ended"}))
    <3>1. Shape' BY <2>1, <2>4 DEF Shape
    <3>2. \A s \in Slots : jobs[s].step \in {"none", "ended"} \/ Working(s) BY DEF Shape, Job, Working
    <3>3. (\E s \in Slots : Working(s)) => Served' BY <2>4 DEF Working, Served
    <3> QED BY <2>1, <2>4, <3>1, <3>2, <3>3 DEF PointServed
  <2> QED BY <1>2, <2>3, <2>4 DEF AddFirst
<1> QED BY <1>1, <1>2 DEF Enqueueing

\* Steps of a job of a chain
LEMMA ServedJobStep ==
  ASSUME ServedInv, NEW s \in Slots, Refreshing(s) \/ RetryRequest(s) \/ RetryDecision(s)
  PROVE  ServedInv'
<1> USE DEF ServedInv
<1>1. jobs[s] \in Job BY DEF Shape
<1>2. UNCHANGED <<now, snapshot, enqueueJob, schedule>>
  BY DEF Refreshing, RequestRefresh, SaveInventory, ContinueRefresh, CompleteJob, RetryRequest, RetryDecision
<1>3. ASSUME NEW job \in Job, jobs' = [jobs EXCEPT ![s] = job],
             inventory' \in [timestamp : Nat, refresh : Nat],
             \/ job.step \in {"waiting", "save", "decide"}
             \/ ~Working(s) /\ UNCHANGED <<point, lost>>
             \/ point' = 0
             \/ lost'
             \/ \E o \in Slots \ {s} : Working(o)
      PROVE  ServedInv'
  <2>1. Shape' BY <1>2, <1>3 DEF Shape
  <2>2. jobs'[s] = job /\ \A o \in Slots \ {s} : jobs'[o] = jobs[o] BY <1>3 DEF Shape
  <2>3. CASE job.step \in {"waiting", "save", "decide"} BY <2>1, <2>2, <2>3 DEF PointServed, Served
  <2>4. CASE ~Working(s) /\ UNCHANGED <<point, lost>>
    <3>1. Served => Served' BY <1>2, <2>2, <2>4 DEF Served, Working
    <3> QED BY <1>2, <2>1, <2>4, <3>1 DEF PointServed
  <2>5. CASE point' = 0 \/ lost' BY <2>1, <2>5 DEF PointServed
  <2>6. CASE \E o \in Slots \ {s} : Working(o)
    <3>1. Served' BY <2>2, <2>6 DEF Served, Working
    <3> QED BY <2>1, <3>1 DEF PointServed
  <2> QED BY <1>3, <2>3, <2>4, <2>5, <2>6
<1>4. CASE RequestRefresh(s)
  <2> DEFINE job == [jobs[s] EXCEPT !.step = "save", !.read = inventory.refresh, !.status = snapshot,
                                    !.refresh = now]
  <2>1. jobs' = [jobs EXCEPT ![s] = job] /\ inventory' = inventory BY <1>4 DEF RequestRefresh, Shape
  <2>2. job \in Job /\ job.step = "save" BY <1>1 DEF Job, Shape
  <2> QED BY <1>3, <2>1, <2>2 DEF Shape
<1>5. CASE SaveInventory(s)
  <2> DEFINE job == [jobs[s] EXCEPT !.step = "decide"]
  <2>1. jobs' = [jobs EXCEPT ![s] = job]
        /\ inventory' = [timestamp |-> jobs[s].status, refresh |-> jobs[s].refresh]
    BY <1>5 DEF SaveInventory, Shape
  <2>2. job \in Job /\ job.step = "decide" BY <1>1 DEF Job
  <2>3. inventory' \in [timestamp : Nat, refresh : Nat] BY <1>1, <2>1 DEF Job
  <2> QED BY <1>3, <2>1, <2>2, <2>3
<1>6. CASE ContinueRefresh(s)
  <2> DEFINE next == [NoJob EXCEPT !.step = "waiting", !.first = FALSE, !.refreshed = jobs[s].status]
             ended == [NoJob EXCEPT !.step = "ended", !.first = jobs[s].first]
             others == {o \in Slots \ {s} : jobs[o].step # "none" /\ ~jobs[o].first}
  <2>1. next \in Job /\ next.step = "waiting" /\ ended \in Job BY <1>1 DEF NoJob, Job
  <2>2. inventory' \in [timestamp : Nat, refresh : Nat] BY <1>6 DEF ContinueRefresh, Shape
  <2>3. \/ jobs' = [jobs EXCEPT ![s] = ended] /\ point' = 0
        \/ jobs' = [jobs EXCEPT ![s] = next]
        \/ /\ jobs' = [jobs EXCEPT ![s] = NoJob] /\ others # {}
           /\ lost' = (lost \/ \A o \in others : jobs[o].step = "ended")
    BY <1>6 DEF ContinueRefresh
  <2>4. \A o \in others : jobs[o].step = "ended" \/ Working(o) BY DEF Shape, Job, Working
  <2>5. others \subseteq Slots \ {s} OBVIOUS
  <2> HIDE DEF next, ended, others
  <2>6. CASE jobs' = [jobs EXCEPT ![s] = ended] /\ point' = 0 BY <1>3, <2>1, <2>2, <2>6
  <2>7. CASE jobs' = [jobs EXCEPT ![s] = next] BY <1>3, <2>1, <2>2, <2>7
  <2>8. CASE /\ jobs' = [jobs EXCEPT ![s] = NoJob] /\ others # {}
             /\ lost' = (lost \/ \A o \in others : jobs[o].step = "ended")
    <3>1. lost' \/ \E o \in Slots \ {s} : Working(o) BY <2>4, <2>5, <2>8
    <3> QED BY <1>3, <2>2, <2>8, <3>1, NoJobTypes
  <2> QED BY <2>3, <2>6, <2>7, <2>8
<1>7. CASE CompleteJob(s)
  <2>1. /\ jobs' = [jobs EXCEPT ![s] = NoJob] /\ UNCHANGED <<point, inventory, lost>> /\ ~Working(s)
    BY <1>7 DEF CompleteJob, Working
  <2> QED BY <1>3, <2>1, NoJobTypes DEF Shape
<1>8. CASE RetryRequest(s) \/ RetryDecision(s)
  <2> DEFINE job == [NoJob EXCEPT !.step = "waiting", !.first = jobs[s].first, !.refreshed = jobs[s].refreshed]
  <2>1. jobs' = [jobs EXCEPT ![s] = job] /\ inventory' = inventory
    BY <1>8 DEF RetryRequest, RetryDecision, Retried
  <2>2. job \in Job /\ job.step = "waiting" BY <1>1 DEF NoJob, Job
  <2> QED BY <1>3, <2>1, <2>2 DEF Shape
<1> QED BY <1>4, <1>5, <1>6, <1>7, <1>8 DEF Refreshing

LEMMA ServedStep == ServedInv /\ [Next]_vars => ServedInv'
<1> SUFFICES ASSUME ServedInv, [Next]_vars PROVE ServedInv'
  OBVIOUS
<1>1. CASE UNCHANGED vars BY <1>1 DEF vars, ServedInv, Shape, PointServed, Served
<1>2. CASE Next BY <1>2, ServedScheduleStep, ServedEnqueueStep, ServedJobStep DEF Next
<1> QED BY <1>1, <1>2

\* While there is a point, somebody will look at it, for any times, requests and faults: also
\* when refreshes are cancelled, processes stop and jobs are tried again after they have saved.
THEOREM PointIsServed == Spec => []PointServed
<1>1. Init => ServedInv BY ServedInitially
<1>2. ServedInv /\ [Next]_vars => ServedInv' BY ServedStep
<1>3. ServedInv => PointServed BY DEF ServedInv
<1> QED BY <1>1, <1>2, <1>3, PTL DEF Spec

-------------------------------------------------------------------------------
(* The times that are asked for and remembered are of the clock; those of readings are not, *)
(* as its last second is as long as it takes.                                                *)

TypedJob == [step : {"none", "waiting", "save", "decide", "ended"}, first : BOOLEAN,
             refreshed : Timestamp, read : Time, status : Timestamp, refresh : Time]
TypedEnqueueJob == [step : {"none", "waiting", "check", "add", "ended"}, status : Timestamp]

LEMMA NoJobTyped == NoJob \in TypedJob /\ NoEnqueueJob \in TypedEnqueueJob /\ 0 \in Time /\ 1 \in Time
BY MaxTimeAssumption DEF NoJob, NoEnqueueJob, TypedJob, TypedEnqueueJob, Time, Timestamp

LEMMA TypesInitially == Init => TypeOK
<1> SUFFICES ASSUME Init PROVE TypeOK
  OBVIOUS
<1>1. jobs \in [Slots -> TypedJob] /\ enqueueJob \in TypedEnqueueJob BY NoJobTyped DEF Init
<1>2. requests \in 0..MaxRequests /\ faults \in 0..MaxFaults BY BoundAssumption DEF Init
<1>3. 0 \in Timestamp BY DEF Timestamp
<1> QED BY <1>1, <1>2, <1>3, NoJobTyped DEF Init, TypeOK, TypedJob, TypedEnqueueJob

LEMMA Counted == ASSUME TypeOK, NEW f, Fails(f) PROVE faults' \in 0..MaxFaults
BY BoundAssumption DEF TypeOK, Fails

\* Steps of time, and of who schedules
LEMMA TypesScheduleStep ==
  ASSUME TypeOK,
         \/ Tick \/ Snapshot \/ (\E t \in Time \ {0} : ScheduleRefresh(t))
         \/ DeletePoint \/ StopScheduling \/ Scheduling
  PROVE  TypeOK'
<1> USE DEF TypeOK, counts
<1>1. CASE Tick \/ Snapshot
  <2>1. now \in Nat /\ now <= MaxTime /\ snapshot \in Nat /\ MaxTime \in Nat
    BY MaxTimeAssumption DEF Time, Timestamp
  <2>2. CASE Tick
    <3>1. now' \in Time BY <2>1, <2>2 DEF Tick, Time
    <3> QED BY <2>2, <3>1 DEF Tick
  <2>3. CASE Snapshot
    <3>1. snapshot' \in Timestamp BY <2>1, <2>3 DEF Snapshot, Timestamp
    <3> QED BY <2>3, <3>1 DEF Snapshot
  <2> QED BY <1>1, <2>2, <2>3
<1>2. ASSUME NEW t \in Time \ {0}, ScheduleRefresh(t) PROVE TypeOK'
  <2>1. point' \in Time
    <3>1. t \in Nat /\ point \in Nat BY DEF Time
    <3>2. Max({point, t}) \in {point, t} BY <3>1, MaxOfTwo
    <3> QED BY <1>2, <3>2 DEF ScheduleRefresh
  <2>2. requests' \in 0..MaxRequests BY <1>2, BoundAssumption DEF ScheduleRefresh
  <2> QED BY <1>2, <2>1, <2>2 DEF ScheduleRefresh
<1>3. CASE DeletePoint
  <2>1. faults' \in 0..MaxFaults BY <1>3, Counted DEF DeletePoint
  <2> QED BY <1>3, <2>1, NoJobTyped DEF DeletePoint
<1>4. CASE StopScheduling
  <2>1. faults' \in 0..MaxFaults /\ lost' \in BOOLEAN BY <1>4, Counted DEF StopScheduling, Served
  <2> QED BY <1>4, <2>1 DEF StopScheduling
<1>5. CASE FindChain BY <1>5 DEF FindChain, Served, NoJobs
<1>6. CASE StartChain
  <2>1. enqueueJob' \in TypedEnqueueJob BY <1>6, NoJobTyped DEF StartChain, TypedEnqueueJob
  <2> QED BY <1>6, <2>1 DEF StartChain, Served, TypedEnqueueJob
<1>7. CASE RemoveJobs
  <2>1. enqueueJob' \in TypedEnqueueJob BY <1>7, NoJobTyped DEF RemoveJobs, TypedEnqueueJob
  <2>2. jobs' \in [Slots -> TypedJob] BY <1>7, NoJobTyped DEF RemoveJobs, TypedJob
  <2>3. lost' \in BOOLEAN BY <1>7 DEF RemoveJobs, Served
  <2> QED BY <1>7, <2>1, <2>2, <2>3 DEF RemoveJobs, TypedJob, TypedEnqueueJob
<1> QED BY <1>1, <1>2, <1>3, <1>4, <1>5, <1>6, <1>7 DEF Scheduling

\* Steps of the job that starts a chain
LEMMA TypesEnqueueStep ==
  ASSUME TypeOK, Enqueueing \/ RetryEnqueue
  PROVE  TypeOK'
<1> USE DEF TypeOK, counts
<1>1. enqueueJob \in TypedEnqueueJob /\ jobs \in [Slots -> TypedJob] BY DEF TypedEnqueueJob, TypedJob
<1>2. enqueueJob' \in TypedEnqueueJob
  BY <1>1, NoJobTyped
     DEF Enqueueing, GetStatus, CheckPoint, AddFirst, CompleteEnqueue, RetryEnqueue, TypedEnqueueJob
<1>3. CASE GetStatus \/ CheckPoint \/ CompleteEnqueue
  BY <1>2, <1>3 DEF GetStatus, CheckPoint, CompleteEnqueue, TypedEnqueueJob
<1>4. CASE RetryEnqueue
  <2>1. faults' \in 0..MaxFaults BY <1>4, Counted DEF RetryEnqueue
  <2> QED BY <1>2, <1>4, <2>1 DEF RetryEnqueue, TypedEnqueueJob
<1>5. CASE AddFirst
  <2> DEFINE job == [NoJob EXCEPT !.step = "waiting", !.refreshed = enqueueJob.status]
  <2>1. job \in TypedJob BY <1>1, NoJobTyped DEF TypedJob, TypedEnqueueJob
  <2>2. jobs' = jobs \/ \E s \in Slots : jobs' = [jobs EXCEPT ![s] = job] BY <1>5 DEF AddFirst
  <2> HIDE DEF job
  <2>3. jobs' \in [Slots -> TypedJob] BY <1>1, <2>1, <2>2
  <2>4. lost' \in BOOLEAN BY <1>5 DEF AddFirst
  <2> QED BY <1>2, <1>5, <2>3, <2>4 DEF AddFirst, TypedJob, TypedEnqueueJob
<1> QED BY <1>3, <1>4, <1>5 DEF Enqueueing

\* Steps of a job of a chain
LEMMA TypesJobStep ==
  ASSUME TypeOK, NEW s \in Slots, Refreshing(s) \/ RetryRequest(s) \/ RetryDecision(s)
  PROVE  TypeOK'
<1> USE DEF TypeOK, counts
<1>1. jobs \in [Slots -> TypedJob] /\ jobs[s] \in TypedJob BY DEF TypedJob
\* what is to be shown of a step that changes one job
<1>2. ASSUME NEW job \in TypedJob, jobs' = [jobs EXCEPT ![s] = job],
             asked' \in BOOLEAN, point' \in Time, lost' \in BOOLEAN, disturbed' \in BOOLEAN,
             inventory' \in [timestamp : Timestamp, refresh : Time], faults' \in 0..MaxFaults,
             UNCHANGED <<now, snapshot, schedule, dequeue, enqueueJob, requests>>
      PROVE  TypeOK'
  <2>1. jobs' \in [Slots -> TypedJob] BY <1>1, <1>2
  <2> QED BY <1>2, <2>1 DEF TypedJob
<1>3. CASE RequestRefresh(s)
  <2> DEFINE job == [jobs[s] EXCEPT !.step = "save", !.read = inventory.refresh, !.status = snapshot,
                                    !.refresh = now]
  <2>1. job \in TypedJob BY <1>1 DEF TypedJob
  <2>2. jobs' = [jobs EXCEPT ![s] = job] BY <1>3 DEF RequestRefresh
  <2> HIDE DEF job
  <2> QED BY <1>2, <1>3, <2>1, <2>2 DEF RequestRefresh
<1>4. CASE SaveInventory(s)
  <2> DEFINE job == [jobs[s] EXCEPT !.step = "decide"]
  <2>1. job \in TypedJob BY <1>1 DEF TypedJob
  <2>2. jobs' = [jobs EXCEPT ![s] = job] BY <1>4 DEF SaveInventory
  <2>3. inventory' \in [timestamp : Timestamp, refresh : Time] BY <1>1, <1>4 DEF SaveInventory, TypedJob
  <2> HIDE DEF job
  <2> QED BY <1>2, <1>4, <2>1, <2>2, <2>3 DEF SaveInventory
<1>5. CASE ContinueRefresh(s)
  <2> DEFINE next == [NoJob EXCEPT !.step = "waiting", !.first = FALSE, !.refreshed = jobs[s].status]
             ended == [NoJob EXCEPT !.step = "ended", !.first = jobs[s].first]
  <2>1. next \in TypedJob /\ ended \in TypedJob /\ NoJob \in TypedJob BY <1>1, NoJobTyped DEF TypedJob
  <2>2. \E job \in {next, ended, NoJob} : jobs' = [jobs EXCEPT ![s] = job] BY <1>5 DEF ContinueRefresh
  <2>3. point' \in Time /\ lost' \in BOOLEAN BY <1>5, NoJobTyped DEF ContinueRefresh
  <2> HIDE DEF next, ended
  <2> QED BY <1>2, <1>5, <2>1, <2>2, <2>3 DEF ContinueRefresh
<1>6. CASE CompleteJob(s) BY <1>2, <1>6, NoJobTyped DEF CompleteJob
<1>7. CASE RetryRequest(s) \/ RetryDecision(s)
  <2> DEFINE job == [NoJob EXCEPT !.step = "waiting", !.first = jobs[s].first, !.refreshed = jobs[s].refreshed]
  <2>1. job \in TypedJob BY <1>1, NoJobTyped DEF TypedJob
  <2>2. jobs' = [jobs EXCEPT ![s] = job] BY <1>7 DEF RetryRequest, RetryDecision, Retried
  <2>3. faults' \in 0..MaxFaults BY <1>7, Counted DEF RetryRequest, RetryDecision
  <2> HIDE DEF job
  <2> QED BY <1>2, <1>7, <2>1, <2>2, <2>3 DEF RetryRequest, RetryDecision
<1> QED BY <1>3, <1>4, <1>5, <1>6, <1>7 DEF Refreshing

\* A refresh point and the time of a request are times of the clock, for any faults.
THEOREM TypeCorrect == Spec => []TypeOK
<1>1. Init => TypeOK BY TypesInitially
<1>2. TypeOK /\ [Next]_vars => TypeOK'
  <2> SUFFICES ASSUME TypeOK, [Next]_vars PROVE TypeOK'
    OBVIOUS
  <2>1. CASE UNCHANGED vars BY <2>1 DEF vars, TypeOK
  <2>2. CASE Next BY <2>2, TypesScheduleStep, TypesEnqueueStep, TypesJobStep DEF Next
  <2> QED BY <2>1, <2>2
<1> QED BY <1>1, <1>2, PTL DEF Spec
===============================================================================

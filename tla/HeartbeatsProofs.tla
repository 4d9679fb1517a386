---------------------------- MODULE HeartbeatsProofs ----------------------------
(***************************************************************************)
(* A bot that is recorded as running is watched, and whoever finds it gone *)
(* stops the heartbeat it looked at and no newer one: for any hosts,       *)
(* heartbeats in flight, clients and attempts, while nothing is lost.      *)
(*                                                                         *)
(* The argument: who writes the record has the lock, so that what it read  *)
(* under the lock is still so, and the check that it removes, or has       *)
(* added, stays so until the record is written.  A check ends, and takes   *)
(* its job with it, only when the record is not of its heartbeat any more, *)
(* or is going to be stopped; and the record does not come back to that    *)
(* heartbeat, since a call that could write it would have kept the check   *)
(* from starting.                                                          *)
(*                                                                         *)
(* Beside it (MCParts) are the jobs of trade holds, whose callers read the *)
(* cache only after a save, so that no error from before turns them away;  *)
(* and what the bot tells of its offers, where the requests in hand are in *)
(* one order, and what a request has cached is newer for all before it.    *)
(***************************************************************************)
EXTENDS MCParts, SequencesExt, FiniteSetTheorems, SequenceTheorems, TLAPS

\* A heartbeat in hand is of a bot that runs.
Beating == \A s \in Beat : call[s].pc # "idle" => call[s].bot.state = "running" /\ call[s].bot.lastSeen \in Seen

\* Whoever is going to stop the bot has read the record under the lock, and a check then
\* found what it expected.
Copied ==
  \A c \in Stopper : call[c].pc \in {"remove", "write"} =>
    /\ call[c].bot = record
    /\ c \in Check => call[c].seen = record.lastSeen

\* A heartbeat that is about to be recorded has its check.
Added == \A s \in Beat : call[s].pc = "write" => job[call[s].bot.lastSeen].state = "waiting"

\* A check knows whether the record is of its heartbeat l, as long as it may end without
\* stopping the bot.
Knows(l) ==
  /\ call["check"].pc # "idle"
  /\ call["check"].pc = "probe" =>
       call["check"].seen = l /\ (record.lastSeen = l => call["check"].bot.lastSeen = l)
  /\ call["check"].pc = "lock" => (record.lastSeen = l => call["check"].seen = l)

\* One check runs at a time.
Checking ==
  \A l \in Seen : job[l].state = "active" =>
    Knows(l) /\ \A k \in Seen : job[k].state = "active" => k = l

Running == record.state = "running" => record.lastSeen \in Seen

\* While nothing has been lost
Sound == aborted = {} /\ Copied /\ Added /\ Checking /\ Running /\ Watched

BeatInv == TypeOK /\ Beating /\ (faults = 0 => Sound)


-------------------------------------------------------------------------------
(* Types *)

\* Who makes calls, and what a call is that is made by nobody
LEMMA Calls ==
  /\ NoBot \in Bot /\ NoJob \in Job /\ Idle \in CallState /\ Idle.pc = "idle"
  /\ \A c \in Call : c # Nobody
  /\ Beat \subseteq Call /\ Stopper \subseteq Call /\ Check \subseteq Stopper
  /\ Beat \cap Stopper = {}
<1>1. NoBot \in Bot /\ NoJob \in Job
  BY BoundAssumption DEF NoBot, NoJob, Bot, Job
<1>2. Idle \in CallState /\ Idle.pc = "idle"
  BY <1>1, BoundAssumption DEF Idle, CallState
<1> QED BY <1>1, <1>2, NobodyAssumption, CallAssumption DEF Call, Stopper, Check

\* A call stays one whatever field is changed.
LEMMA CallKept ==
  ASSUME NEW r \in CallState
  PROVE  /\ \A pc \in {"idle", "lock", "probe", "drop", "add", "write", "remove"} : [r EXCEPT !.pc = pc] \in CallState
         /\ \A seen \in 0..MaxSeen : [r EXCEPT !.seen = seen] \in CallState
         /\ \A bot \in Bot : [r EXCEPT !.bot = bot] \in CallState
         /\ \A final \in BOOLEAN : [r EXCEPT !.final = final] \in CallState
BY DEF CallState

\* A fault is counted.
LEMMA Failing == Fault /\ faults \in 0..MaxFaults => faults' \in 0..MaxFaults /\ faults' # 0
BY BoundAssumption DEF Fault

\* The types of the variables
Typed ==
  /\ record \in Bot
  /\ job \in [Seen -> Job]
  /\ call \in [Call -> CallState]
  /\ lock \in Call \cup {Nobody}
  /\ aborted \subseteq Call
  /\ posting \subseteq Beat
  /\ up \in BOOLEAN /\ ready \in BOOLEAN /\ connected \in BOOLEAN /\ beating \in BOOLEAN /\ timer \in BOOLEAN
  /\ connected => up
  /\ host \in Host
  /\ faults \in 0..MaxFaults

\* Whoever must have the lock has it, or has been told that it lost it.
Held == \A c \in Call : Holds(c) => lock = c \/ c \in aborted

\* The type invariant, without and with the lock
LEMMA TypeParts == (TypeOK <=> Typed /\ Held) /\ (TypeOK' <=> Typed' /\ Held')
BY DEF TypeOK, Typed, Held

\* The types hold at the start.
LEMMA InitType == Init => TypeOK
<1> SUFFICES ASSUME Init PROVE Typed /\ Held
  BY TypeParts
<1>1. call \in [Call -> CallState] /\ \A c \in Call : ~Holds(c)
  BY Calls DEF Init, Holds
<1>2. record \in Bot /\ job \in [Seen -> Job]
  BY Calls DEF Init
<1>3. faults \in 0..MaxFaults
  BY BoundAssumption DEF Init
<1>4. /\ lock \in Call \cup {Nobody} /\ aborted \subseteq Call /\ posting \subseteq Beat
      /\ up \in BOOLEAN /\ ready \in BOOLEAN /\ connected \in BOOLEAN /\ beating \in BOOLEAN /\ timer \in BOOLEAN
      /\ (connected => up) /\ host \in Host
  BY DEF Init
<1> QED BY <1>1, <1>2, <1>3, <1>4 DEF Typed, Held

\* A heartbeat that is sent is a call that begins.
LEMMA SendType == ASSUME Typed, Send
                  PROVE  /\ call' \in [Call -> CallState] /\ posting' \subseteq Beat /\ beating' = TRUE
                         /\ \E s \in Beat : /\ call[s] = Idle
                                            /\ call' = [call EXCEPT ![s] = call'[s]]
                                            /\ call'[s].pc = "lock" /\ call'[s].bot.state = "running"
                                            /\ call'[s].bot.lastSeen \in Seen
<1>1. PICK s \in Beat \ posting, l \in Seen :
        /\ call[s] = Idle
        /\ beating' = TRUE
        /\ posting' = posting \cup {s}
        /\ call' = [call EXCEPT ![s] = [Idle EXCEPT !.pc = "lock", !.seen = l,
                                        !.bot = [state |-> "running", lastSeen |-> l, host |-> host]]]
  BY DEF Send
<1>2. s \in Call /\ l \in 0..MaxSeen
  BY Calls, BoundAssumption DEF Seen
<1> DEFINE b == [state |-> "running", lastSeen |-> l, host |-> host]
           r == [Idle EXCEPT !.pc = "lock", !.seen = l, !.bot = b]
<1>3. b \in Bot
  BY <1>2 DEF Typed, Bot
<1>4. r \in CallState /\ r.pc = "lock" /\ r.bot = b
  BY <1>2, <1>3, Calls DEF CallState
<1>5. call' = [call EXCEPT ![s] = r] /\ call'[s] = r
  BY <1>1, <1>2 DEF Typed
<1>6. call' \in [Call -> CallState]
  BY <1>4, <1>5 DEF Typed
<1>7. posting' \subseteq Beat
  BY <1>1 DEF Typed
<1>8. /\ s \in Beat /\ call[s] = Idle
      /\ call' = [call EXCEPT ![s] = call'[s]]
      /\ call'[s].pc = "lock" /\ call'[s].bot.state = "running" /\ call'[s].bot.lastSeen \in Seen
  <2>1. s \in Beat /\ call[s] = Idle
    BY <1>1
  <2>2. b.state = "running" /\ b.lastSeen \in Seen
    BY <1>1
  <2> QED BY <2>1, <2>2, <1>4, <1>5
<1> QED BY <1>1, <1>6, <1>7, <1>8


\* What ends a call changes no other call.
LEMMA EndType ==
  ASSUME Typed, NEW c \in Call, End(c)
  PROVE  /\ call' \in [Call -> CallState] /\ call'[c] = Idle /\ \A d \in Call \ {c} : call'[d] = call[d]
         /\ lock' \in Call \cup {Nobody} /\ aborted' \subseteq aborted
         /\ Held => Held'
<1>1. call' \in [Call -> CallState] /\ call'[c] = Idle /\ \A d \in Call \ {c} : call'[d] = call[d]
  BY Calls DEF End, Typed
<1>2. lock' \in Call \cup {Nobody} /\ aborted' \subseteq aborted
  BY DEF End, Typed
<1>3. ASSUME Held, NEW d \in Call, Holds(d)' PROVE lock' = d \/ d \in aborted'
  <2>1. d # c
    BY <1>1, <1>3, Calls DEF Holds
  <2>2. Holds(d)
    BY <1>1, <1>3, <2>1 DEF Holds
  <2>3. lock = d \/ d \in aborted
    BY <1>3, <2>2 DEF Held
  <2> QED BY <2>1, <2>3 DEF End
<1> QED BY <1>1, <1>2, <1>3 DEF Held

\* What takes a call a step further changes no other call.
LEMMA StepType ==
  ASSUME Typed, NEW c \in Call, NEW pc \in {"idle", "lock", "probe", "drop", "add", "write", "remove"},
         Step(c, pc)
  PROVE  /\ call' \in [Call -> CallState] /\ call'[c] = [call[c] EXCEPT !.pc = pc]
         /\ \A d \in Call \ {c} : call'[d] = call[d]
<1>1. [call[c] EXCEPT !.pc = pc] \in CallState
  BY CallKept DEF Typed
<1> QED BY <1>1 DEF Step, Typed

\* So does what makes it try for the lock.
LEMMA ExpectType ==
  ASSUME Typed, NEW c \in Call, NEW l \in 0..MaxSeen, NEW final \in BOOLEAN, Expect(c, l, final)
  PROVE  /\ call' \in [Call -> CallState]
         /\ call'[c].pc = "lock" /\ call'[c].seen = l /\ call'[c].bot = NoBot /\ call'[c].final = final
         /\ \A d \in Call \ {c} : call'[d] = call[d]
<1> DEFINE r == [Idle EXCEPT !.pc = "lock", !.seen = l, !.final = final]
<1>1. r \in CallState
  BY Calls DEF CallState
<1>2. call' = [call EXCEPT ![c] = r]
  BY DEF Expect
<1>3. r.pc = "lock" /\ r.seen = l /\ r.bot = NoBot /\ r.final = final
  BY Calls DEF CallState, Idle
<1>4. call' \in [Call -> CallState] /\ call'[c] = r /\ \A d \in Call \ {c} : call'[d] = call[d]
  BY <1>1, <1>2 DEF Typed
<1> QED BY <1>3, <1>4

\* A job that is tried again is one, and waits unless that was its last attempt.
LEMMA JobKept ==
  ASSUME NEW j \in Job
  PROVE  /\ Tried(j) \in Job /\ (j.made + 1 < Attempts => Tried(j).state = "waiting")
         /\ \A state \in {"none", "waiting", "active"} : [j EXCEPT !.state = state] \in Job
<1>1. j.made \in Nat /\ Attempts \in Nat \ {0} /\ j.made <= Attempts - 1
  BY BoundAssumption DEF Job
<1>2. ASSUME j.made + 1 >= Attempts PROVE Tried(j) \in Job /\ ~(j.made + 1 < Attempts)
  BY <1>1, <1>2, Calls DEF Tried
<1>3. ASSUME ~(j.made + 1 >= Attempts) PROVE Tried(j) \in Job /\ Tried(j).state = "waiting"
  <2>1. Tried(j) = [state |-> "waiting", made |-> j.made + 1]
    BY <1>3 DEF Tried
  <2>2. j.made + 1 \in 0..(Attempts - 1)
    BY <1>1, <1>3
  <2>3. Tried(j) \in Job /\ Tried(j).state = "waiting"
    BY <2>1, <2>2 DEF Job
  <2> QED BY <2>3 DEF Job
<1>4. \A state \in {"none", "waiting", "active"} : [j EXCEPT !.state = state] \in Job
  BY DEF Job
<1> QED BY <1>1, <1>2, <1>3, <1>4

\* What a call does to the jobs leaves them jobs.
LEMMA JobsKept ==
  ASSUME NEW jobs \in [Seen -> Job], NEW c
  PROVE  /\ Failed(c, jobs) => job' \in [Seen -> Job]
         /\ job = jobs /\ Completed(c) => job' \in [Seen -> Job]
         /\ job = jobs => \A l : Without(l) \in [Seen -> Job]
BY JobKept, Calls DEF Failed, Completed, Without


\* The lock is kept by whoever has it while another call goes on.
LEMMA HeldKept ==
  ASSUME Held, NEW c \in Call, \A d \in Call \ {c} : call'[d] = call[d],
         aborted \ {c} \subseteq aborted', lock \in {Nobody, c, lock'},
         Holds(c)' => lock' = c \/ c \in aborted'
  PROVE  Held'
<1>1. ASSUME NEW d \in Call, d # c, Holds(d)' PROVE lock' = d \/ d \in aborted'
  BY <1>1, Calls DEF Held, Holds
<1> QED BY <1>1 DEF Held

\* A heartbeat that is sent takes no lock.
LEMMA SendHeld == ASSUME Typed, Held, Send \/ DontSend, UNCHANGED <<lock, aborted>> PROVE Held'
<1>1. CASE Send
  <2>1. PICK s \in Beat : /\ call[s] = Idle
                          /\ call' = [call EXCEPT ![s] = call'[s]]
                          /\ call'[s].pc = "lock"
    BY <1>1, SendType
  <2>2. s \in Call /\ ~Holds(s)' /\ \A d \in Call \ {s} : call'[d] = call[d]
    BY <2>1, Calls DEF Holds, Typed
  <2> QED BY <2>2, HeldKept
<1>2. CASE DontSend
  BY <1>2 DEF DontSend, Held, Holds
<1> QED BY <1>1, <1>2

\* The process of the bot
LEMMA ProcessType ==
  ASSUME Typed, Held,
         \/ \E h \in Host : Start(h)
         \/ Kill \/ HandleBotReady \/ HandleBotConnected \/ HandleBotDisconnected \/ Timer
         \/ \E s \in Beat : Answered(s) \/ AnswerLost(s)
  PROVE  Typed' /\ Held'
<1> USE DEF manager
<1>1. ASSUME NEW h \in Host, Start(h) PROVE Typed' /\ Held'
  BY <1>1 DEF Start, Typed, Held, Holds
<1>2. CASE Kill
  BY <1>2 DEF Kill, Typed, Held, Holds
<1>3. CASE HandleBotReady
  <2>1. Held' BY <1>3, SendHeld DEF HandleBotReady
  <2> QED BY <1>3, <2>1, SendType DEF HandleBotReady, DontSend, Typed
<1>4. CASE HandleBotConnected
  <2>1. Held' BY <1>4, SendHeld DEF HandleBotConnected
  <2> QED BY <1>4, <2>1, SendType DEF HandleBotConnected, DontSend, Typed
<1>5. CASE HandleBotDisconnected
  <2>1. "stop" \in Call /\ "stop" \notin Beat
    BY CallAssumption DEF Call
  <2> DEFINE r == [call["stop"] EXCEPT !.pc = "lock"]
  <2>a. call["stop"] \in CallState
    BY <2>1 DEF Typed
  <2>c. r \in CallState /\ r.pc = "lock"
    BY <2>a DEF CallState
  <2>b. call' = [call EXCEPT !["stop"] = r]
    BY <1>5 DEF HandleBotDisconnected
  <2>2. call' \in [Call -> CallState] /\ call'["stop"].pc = "lock" /\ \A d \in Call \ {"stop"} : call'[d] = call[d]
    BY <2>1, <2>b, <2>c DEF Typed
  <2>3. Held'
    BY <1>5, <2>1, <2>2, HeldKept DEF HandleBotDisconnected, Holds
  <2> QED BY <1>5, <2>2, <2>3 DEF HandleBotDisconnected, Typed
<1>6. CASE Timer
  <2>1. Held' BY <1>6, SendHeld DEF Timer
  <2> QED BY <1>6, <2>1, SendType DEF Timer, Typed
<1>7. ASSUME NEW s \in Beat, Answered(s) PROVE Typed' /\ Held'
  BY <1>7 DEF Answered, Typed, Held, Holds
<1>8. ASSUME NEW s \in Beat, AnswerLost(s) PROVE Typed' /\ Held'
  BY <1>8, Failing DEF AnswerLost, Typed, Held, Holds
<1> QED BY <1>1, <1>2, <1>3, <1>4, <1>5, <1>6, <1>7, <1>8

\* Asking the bot may be a fault.
LEMMA ProbeType ==
  ASSUME Typed, NEW h, NEW answer, Probe(h, answer)
  PROVE  faults' \in 0..MaxFaults
BY Failing DEF Probe, Typed

\* A heartbeat
LEMMA BeatType ==
  ASSUME Typed, Held, Beating, NEW s \in Beat,
         LockSave(s) \/ ProbeSave(s) \/ DropJob(s) \/ AddJob(s) \/ WriteBot(s)
  PROVE  Typed' /\ Held'
<1> USE DEF process
<1>0. /\ s \in Call /\ s # Nobody /\ record.lastSeen \in 0..MaxSeen /\ call[s] \in CallState
      /\ call[s].bot \in Bot
  BY Calls DEF Typed, Bot, CallState
<1>1. CASE LockSave(s)
  <2> DEFINE r == [call[s] EXCEPT !.pc = "probe", !.seen = record.lastSeen]
  <2>1. r \in CallState /\ r.pc = "probe"
    BY <1>0 DEF CallState
  <2>2. call' = [call EXCEPT ![s] = r]
    BY <1>1 DEF LockSave
  <2>3. call' \in [Call -> CallState] /\ \A d \in Call \ {s} : call'[d] = call[d]
    BY <1>0, <2>1, <2>2 DEF Typed
  <2>4. Held'
    BY <1>0, <1>1, <2>3, HeldKept DEF LockSave
  <2> QED BY <1>0, <1>1, <2>3, <2>4 DEF LockSave, Typed
<1>2. CASE ProbeSave(s)
  <2>1. PICK answer \in {"ok", "refused", "error"} :
          /\ Probe(call[s].bot.host, answer)
          /\ \/ Step(s, "drop") /\ UNCHANGED <<lock, aborted>>
             \/ End(s)
    BY <1>2 DEF ProbeSave
  <2>2. faults' \in 0..MaxFaults /\ Holds(s)
    BY <1>2, <2>1, ProbeType DEF ProbeSave, Holds
  <2>3. ASSUME Step(s, "drop"), UNCHANGED <<lock, aborted>> PROVE call' \in [Call -> CallState] /\ Held'
    BY <1>0, <2>2, <2>3, StepType, HeldKept DEF Held
  <2> QED BY <1>0, <1>2, <2>1, <2>2, <2>3, EndType DEF ProbeSave, Typed
<1>3. CASE DropJob(s)
  <2>1. call' \in [Call -> CallState] /\ \A d \in Call \ {s} : call'[d] = call[d]
    BY <1>0, <1>3, StepType DEF DropJob
  <2>2. Held'
    BY <1>0, <1>3, <2>1, HeldKept DEF DropJob, Held, Holds
  <2>3. job' \in [Seen -> Job]
    BY <1>3, JobsKept DEF DropJob, Typed
  <2> QED BY <1>3, <2>1, <2>2, <2>3 DEF DropJob, Typed
<1>4. CASE AddJob(s)
  <2>1. call' \in [Call -> CallState] /\ \A d \in Call \ {s} : call'[d] = call[d]
    BY <1>0, <1>4, StepType DEF AddJob
  <2>2. Held'
    BY <1>0, <1>4, <2>1, HeldKept DEF AddJob, Held, Holds
  <2>3. [state |-> "waiting", made |-> 0] \in Job
    BY BoundAssumption DEF Job
  <2>4. job' \in [Seen -> Job]
    BY <1>4, <2>3 DEF AddJob, Typed
  <2> QED BY <1>4, <2>1, <2>2, <2>4 DEF AddJob, Typed
<1>5. CASE WriteBot(s)
  BY <1>0, <1>5, EndType DEF WriteBot, Typed
<1> QED BY <1>1, <1>2, <1>3, <1>4, <1>5

\* A call that throws, or tries again to stop the bot, lets the lock go.
LEMMA RejectedType ==
  ASSUME Typed, Held, NEW c \in Call, NEW jobs \in [Seen -> Job], Rejected(c, jobs)
  PROVE  /\ call' \in [Call -> CallState] /\ lock' \in Call \cup {Nobody} /\ aborted' \subseteq aborted
         /\ job' \in [Seen -> Job] /\ Held'
<1>0. c \in Call /\ (c = "check" => c \notin Beat)
  BY CallAssumption
<1>1. CASE End(c) /\ Failed(c, jobs)
  BY <1>0, <1>1, EndType, JobsKept DEF Typed
<1>2. ASSUME c = "check", \E l \in Seen : Expect(c, l, TRUE),
             lock' = IF lock = c THEN Nobody ELSE lock,
             aborted' = aborted \ {c}, job' = jobs
      PROVE  call' \in [Call -> CallState] /\ lock' \in Call \cup {Nobody} /\ Held'
  <2>1. PICK l \in Seen : Expect(c, l, TRUE)
    BY <1>2
  <2>2. l \in 0..MaxSeen
    BY BoundAssumption DEF Seen
  <2>3. /\ call' \in [Call -> CallState] /\ ~Holds(c)'
        /\ \A d \in Call \ {c} : call'[d] = call[d]
    BY <1>0, <1>2, <2>1, <2>2, ExpectType DEF Holds
  <2>4. lock \in {Nobody, c, lock'} /\ lock' \in Call \cup {Nobody}
    BY <1>2 DEF Typed
  <2> QED BY <1>0, <1>2, <2>3, <2>4, HeldKept
<1> QED BY <1>1, <1>2 DEF Rejected


\* Whoever finds the bot gone, or is told that it stops
LEMMA StopType ==
  ASSUME Typed, Held, NEW c \in Stopper,
         LockStop(c) \/ RemoveJob(c) \/ WriteStopped(c) \/ (c \in Check /\ ProbeBot(c))
  PROVE  Typed' /\ Held'
<1> USE DEF process
<1>0. /\ c \in Call /\ c # Nobody /\ c \notin Beat /\ call[c] \in CallState /\ call[c].bot \in Bot
      /\ record.lastSeen \in 0..MaxSeen /\ call[c].seen \in 0..MaxSeen /\ call[c].bot.lastSeen \in 0..MaxSeen
  BY Calls DEF Typed, Bot, CallState
<1>1. CASE LockStop(c)
  <2>1. ASSUME End(c), Completed(c) \/ Failed(c, job) PROVE Typed' /\ Held'
    BY <1>0, <1>1, <2>1, EndType, JobsKept DEF LockStop, Typed
  <2>2. ASSUME lock' = c, call' = [call EXCEPT ![c].pc = "remove", ![c].bot = record],
               UNCHANGED <<job, aborted>>
        PROVE  Typed' /\ Held'
    <3> DEFINE r == [call[c] EXCEPT !.pc = "remove", !.bot = record]
    <3>1. r \in CallState
      BY <1>0 DEF CallState, Typed
    <3>2. call' = [call EXCEPT ![c] = r]
      BY <2>2
    <3>3. call' \in [Call -> CallState] /\ \A d \in Call \ {c} : call'[d] = call[d]
      BY <1>0, <3>1, <3>2 DEF Typed
    <3>4. Held'
      BY <1>0, <1>1, <2>2, <3>3, HeldKept DEF LockStop
    <3> QED BY <1>0, <1>1, <2>2, <3>3, <3>4 DEF LockStop, Typed
  <2> QED BY <1>1, <2>1, <2>2 DEF LockStop, NotFound
<1>2. CASE RemoveJob(c)
  <2>1. Without(call[c].bot.lastSeen) \in [Seen -> Job]
    BY JobsKept DEF Typed
  <2>2. CASE Rejected(c, Without(call[c].bot.lastSeen))
    BY <1>0, <1>2, <2>1, <2>2, RejectedType DEF RemoveJob, Typed
  <2>3. ASSUME job' = Without(call[c].bot.lastSeen), Step(c, "write"), UNCHANGED <<lock, aborted>>
        PROVE  Typed' /\ Held'
    <3>1. call' \in [Call -> CallState] /\ \A d \in Call \ {c} : call'[d] = call[d]
      BY <1>0, <2>3, StepType
    <3>2. Held'
      BY <1>0, <1>2, <2>3, <3>1, HeldKept DEF RemoveJob, Held, Holds
    <3> QED BY <1>2, <2>1, <2>3, <3>1, <3>2 DEF RemoveJob, Typed
  <2> QED BY <1>2, <2>2, <2>3 DEF RemoveJob
<1>3. CASE WriteStopped(c)
  <2> DEFINE l == IF c = "stop" THEN 0 ELSE call[c].bot.lastSeen
  <2>a. l \in 0..MaxSeen
    BY <1>0, BoundAssumption
  <2>b. record' = [call[c].bot EXCEPT !.state = "stopped", !.lastSeen = l]
    BY <1>3 DEF WriteStopped
  <2>1. record' \in Bot
    BY <1>0, <2>a, <2>b DEF Bot
  <2> QED BY <1>0, <1>3, <2>1, EndType, JobsKept DEF WriteStopped, Typed
<1>4. CASE c \in Check /\ ProbeBot(c)
  <2>1. PICK answer \in {"ok", "refused", "error"} :
          /\ Probe(call[c].bot.host, answer)
          /\ \/ /\ \/ Expect(c, call[c].bot.lastSeen, FALSE)
                   \/ Expect(c, call[c].seen, TRUE)
                /\ UNCHANGED <<job, lock, aborted>>
             \/ End(c) /\ Completed(c)
             \/ End(c) /\ Failed(c, job)
    BY <1>4 DEF ProbeBot
  <2>2. faults' \in 0..MaxFaults
    BY <2>1, ProbeType
  <2>3. ASSUME Expect(c, call[c].bot.lastSeen, FALSE) \/ Expect(c, call[c].seen, TRUE),
               UNCHANGED <<job, lock, aborted>>
        PROVE  Typed' /\ Held'
    <3>1. call' \in [Call -> CallState] /\ ~Holds(c)' /\ \A d \in Call \ {c} : call'[d] = call[d]
      BY <1>0, <2>3, ExpectType DEF Holds
    <3>2. Held'
      BY <1>0, <2>3, <3>1, HeldKept
    <3> QED BY <1>4, <2>2, <2>3, <3>1, <3>2 DEF ProbeBot, Typed
  <2>4. ASSUME End(c), Completed(c) \/ Failed(c, job) PROVE Typed' /\ Held'
    BY <1>0, <1>4, <2>2, <2>4, EndType, JobsKept DEF ProbeBot, Typed
  <2> QED BY <2>1, <2>3, <2>4
<1> QED BY <1>1, <1>2, <1>3, <1>4

\* Clients, checks that begin, and faults
LEMMA OtherType ==
  ASSUME Typed, Held,
         \/ Ask \/ \E l \in Seen : RunCheck(l)
         \/ \E c \in Call : LockRefused(c)
         \/ DeleteBot \/ LockLost \/ Restart
  PROVE  Typed' /\ Held'
<1> USE DEF process, manager
<1>0. record.lastSeen \in 0..MaxSeen
  BY DEF Typed, Bot
<1>1. ASSUME NEW c \in Check, NEW l \in 0..MaxSeen, Read(c, l), UNCHANGED <<lock, aborted>>
      PROVE  call' \in [Call -> CallState] /\ Held'
  <2> DEFINE r == [Idle EXCEPT !.pc = "probe", !.seen = l, !.bot = record]
  <2>1. r \in CallState /\ r.pc = "probe"
    BY Calls DEF CallState, Typed
  <2>2. call' = [call EXCEPT ![c] = r]
    BY <1>1 DEF Read
  <2>3. c \in Call /\ c \notin Beat
    BY Calls
  <2>4. call' \in [Call -> CallState] /\ call'[c] = r /\ \A d \in Call \ {c} : call'[d] = call[d]
    BY <2>1, <2>2, <2>3 DEF Typed
  <2>5. ~Holds(c)'
    BY <2>1, <2>3, <2>4 DEF Holds
  <2> QED BY <1>1, <2>3, <2>4, <2>5, HeldKept
<1>2. CASE Ask
  BY <1>1, <1>2, BoundAssumption DEF Ask, Check, Typed
<1>3. ASSUME NEW l \in Seen, RunCheck(l) PROVE Typed' /\ Held'
  <2>1. l \in 0..MaxSeen
    BY BoundAssumption DEF Seen
  <2>2. CASE Read("check", l) /\ job' = [job EXCEPT ![l].state = "active"]
    <3>1. call' \in [Call -> CallState] /\ Held'
      BY <1>1, <1>3, <2>1, <2>2 DEF RunCheck, Check
    <3>2. job' \in [Seen -> Job]
      <4>1. [job[l] EXCEPT !.state = "active"] \in Job
        BY JobKept DEF Typed
      <4> QED BY <2>2, <4>1 DEF Typed
    <3> QED BY <1>3, <3>1, <3>2 DEF RunCheck, Typed
  <2>3. CASE job' = [job EXCEPT ![l] = NoJob] /\ UNCHANGED call
    BY <1>3, <2>3, Calls DEF RunCheck, Typed, Held, Holds
  <2> QED BY <1>3, <2>2, <2>3 DEF RunCheck
<1>4. ASSUME NEW c \in Call, LockRefused(c) PROVE Typed' /\ Held'
  <2>1. faults' \in 0..MaxFaults
    BY <1>4, Failing DEF LockRefused, Typed
  <2>2. job \in [Seen -> Job]
    BY DEF Typed
  <2> QED BY <1>4, <2>1, <2>2, RejectedType DEF LockRefused, Typed
<1>5. CASE DeleteBot
  BY <1>5, Calls DEF DeleteBot, Typed, Held, Holds
<1>6. CASE LockLost
  <2>1. faults' \in 0..MaxFaults
    BY <1>6, Failing DEF LockLost, Typed
  <2> QED BY <1>6, <2>1 DEF LockLost, Typed, Held, Holds
<1>7. CASE Restart
  <2>1. faults' \in 0..MaxFaults
    BY <1>7, Failing DEF Restart, Typed
  <2>2. call' \in [Call -> CallState] /\ Held'
    BY <1>7, Calls DEF Restart, Held, Holds
  <2>3. job' \in [Seen -> Job]
    BY <1>7, JobKept DEF Restart, Typed
  <2> QED BY <1>7, <2>1, <2>2, <2>3 DEF Restart, Typed
<1> QED BY <1>2, <1>3, <1>4, <1>5, <1>6, <1>7


\* Every step keeps the types.
LEMMA TypeStep == TypeOK /\ Beating /\ [Next]_vars => TypeOK'
<1> SUFFICES ASSUME Typed, Held, Beating, [Next]_vars PROVE Typed' /\ Held'
  BY TypeParts
<1>1. CASE UNCHANGED vars
  BY <1>1 DEF vars, Typed, Held, Holds
<1>2. ASSUME NEW c \in Call, Goes(c) PROVE Typed' /\ Held'
  BY <1>2, BeatType, StopType, Calls DEF Goes
<1>3. CASE Next
  BY <1>2, <1>3, ProcessType, OtherType DEF Next, Beats
<1> QED BY <1>1, <1>3

-------------------------------------------------------------------------------
(* A heartbeat is of a bot that runs *)

\* How a call c of no heartbeat, or one that ends, leaves the heartbeats
LEMMA Untouched ==
  ASSUME Beating, NEW c \in Call, \A d \in Call \ {c} : call'[d] = call[d],
         c \in Beat => call'[c].pc = "idle" \/ (call'[c].bot = call[c].bot /\ call[c].pc # "idle")
  PROVE  Beating'
BY Calls DEF Beating

\* A heartbeat that is sent is of a bot that runs.
LEMMA SendBeating == ASSUME Typed, Beating, Send \/ DontSend PROVE Beating'
<1>1. CASE Send
  <2>1. PICK s \in Beat : /\ call' = [call EXCEPT ![s] = call'[s]]
                          /\ call'[s].bot.state = "running" /\ call'[s].bot.lastSeen \in Seen
    BY <1>1, SendType
  <2>2. \A d \in Beat \ {s} : call'[d] = call[d]
    BY <2>1, Calls DEF Typed
  <2> QED BY <2>1, <2>2 DEF Beating
<1>2. CASE DontSend
  BY <1>2 DEF DontSend, Beating
<1> QED BY <1>1, <1>2

\* It stays so until it ends.
LEMMA BeatBeating ==
  ASSUME Typed, Beating, NEW s \in Beat,
         LockSave(s) \/ ProbeSave(s) \/ DropJob(s) \/ AddJob(s) \/ WriteBot(s)
  PROVE  Beating'
<1>0. s \in Call /\ Idle.pc = "idle" /\ call[s] \in CallState
  BY Calls DEF Typed
<1>1. CASE LockSave(s)
  <2> DEFINE r == [call[s] EXCEPT !.pc = "probe", !.seen = record.lastSeen]
  <2>1. r.bot = call[s].bot
    BY <1>0 DEF CallState
  <2>2. call' = [call EXCEPT ![s] = r]
    BY <1>1 DEF LockSave
  <2>3. call'[s].bot = call[s].bot /\ \A d \in Call \ {s} : call'[d] = call[d]
    BY <1>0, <2>1, <2>2 DEF Typed
  <2>4. call[s].pc # "idle"
    BY <1>1 DEF LockSave
  <2> QED BY <1>0, <2>3, <2>4, Untouched
<1>2. ASSUME NEW pc \in {"drop", "add", "write"}, Step(s, pc), call[s].pc # "idle" PROVE Beating'
  <2>1. [call[s] EXCEPT !.pc = pc].bot = call[s].bot
    BY <1>0 DEF CallState
  <2>2. call'[s] = [call[s] EXCEPT !.pc = pc] /\ \A d \in Call \ {s} : call'[d] = call[d]
    BY <1>0, <1>2, StepType
  <2> QED BY <1>0, <1>2, <2>1, <2>2, Untouched
<1>3. ASSUME End(s) PROVE Beating'
  BY <1>0, <1>3, EndType, Untouched
<1>4. CASE ProbeSave(s)
  BY <1>2, <1>3, <1>4 DEF ProbeSave
<1>5. CASE DropJob(s) \/ AddJob(s)
  BY <1>2, <1>5 DEF DropJob, AddJob
<1>6. CASE WriteBot(s)
  BY <1>3, <1>6 DEF WriteBot
<1> QED BY <1>1, <1>4, <1>5, <1>6


\* Those who stop the bot touch only their own call.
LEMMA StopperAlone ==
  ASSUME Typed, NEW c \in Stopper,
         \/ LockStop(c) \/ RemoveJob(c) \/ WriteStopped(c) \/ (c \in Check /\ ProbeBot(c))
         \/ \E jobs : Rejected(c, jobs)
         \/ \E l : Read(c, l)
  PROVE  \A d \in Call \ {c} : call'[d] = call[d]
<1>1. CASE End(c)
  BY <1>1 DEF End, Typed
<1>2. ASSUME NEW r, call' = [call EXCEPT ![c] = r] PROVE \A d \in Call \ {c} : call'[d] = call[d]
  BY <1>2 DEF Typed
<1>3. CASE LockStop(c)
  BY <1>1, <1>3 DEF LockStop, NotFound, Typed
<1>4. CASE \E jobs : Rejected(c, jobs)
  BY <1>1, <1>2, <1>4 DEF Rejected, Expect
<1>5. CASE RemoveJob(c)
  BY <1>4, <1>5 DEF RemoveJob, Step, Typed
<1>6. CASE WriteStopped(c)
  BY <1>1, <1>6 DEF WriteStopped
<1>7. CASE c \in Check /\ ProbeBot(c)
  BY <1>1, <1>2, <1>7 DEF ProbeBot, Expect
<1>8. CASE \E l : Read(c, l)
  BY <1>2, <1>8 DEF Read
<1> QED BY <1>3, <1>4, <1>5, <1>6, <1>7, <1>8

\* Nobody else touches it.
LEMMA BeatingStep == ASSUME Typed, Beating, [Next]_vars PROVE Beating'
<1> USE DEF manager
<1>0. Beat \subseteq Call /\ Beat \cap Stopper = {} /\ Check \subseteq Stopper /\ Idle.pc = "idle"
  BY Calls
<1>1. ASSUME UNCHANGED call PROVE Beating'
  BY <1>1 DEF Beating
<1>2. ASSUME Send \/ DontSend PROVE Beating'
  BY <1>2, SendBeating
<1>3. ASSUME NEW c \in Stopper, \A d \in Call \ {c} : call'[d] = call[d] PROVE Beating'
  BY <1>0, <1>3 DEF Beating
<1>4. ASSUME NEW c \in Call, Goes(c) PROVE Beating'
  BY <1>0, <1>3, <1>4, BeatBeating, StopperAlone DEF Goes
<1>5. ASSUME NEW c \in Call, LockRefused(c) PROVE Beating'
  <2>1. CASE c \in Stopper
    BY <1>3, <1>5, <2>1, StopperAlone DEF LockRefused
  <2>2. CASE c \in Beat
    <3>1. c # "check"
      BY <2>2, CallAssumption
    <3>2. End(c)
      BY <1>5, <3>1 DEF LockRefused, Rejected
    <3> QED BY <1>0, <3>2, EndType, Untouched
  <2> QED BY <2>1, <2>2 DEF Call, Stopper, Check
<1>6. CASE HandleBotDisconnected
  <2>1. \A d \in Call \ {"stop"} : call'[d] = call[d]
    BY <1>6 DEF HandleBotDisconnected, Typed
  <2> QED BY <1>3, <2>1 DEF Stopper
<1>7. CASE Ask
  BY <1>3, <1>7, StopperAlone DEF Ask, Stopper, Check
<1>8. ASSUME NEW l \in Seen, RunCheck(l) PROVE Beating'
  BY <1>1, <1>3, <1>8, StopperAlone DEF RunCheck, Stopper, Check
<1>9. CASE Restart
  BY <1>0, <1>9 DEF Restart, Beating
<1>10. CASE HandleBotReady \/ HandleBotConnected \/ Timer
  BY <1>2, <1>10 DEF HandleBotReady, HandleBotConnected, Timer
<1>11. CASE \/ \E h \in Host : Start(h)
            \/ Kill \/ DeleteBot \/ LockLost
            \/ \E s \in Beat : Answered(s) \/ AnswerLost(s)
            \/ UNCHANGED vars
  BY <1>1, <1>11 DEF Start, Kill, DeleteBot, LockLost, Answered, AnswerLost, vars
<1> QED BY <1>4, <1>5, <1>6, <1>7, <1>8, <1>9, <1>10, <1>11 DEF Next, Beats


-------------------------------------------------------------------------------
(* While nothing is lost *)

\* What holds before a step that loses nothing
Ready == Typed /\ Held /\ Beating /\ Sound

\* One call has the lock, and only one that has it writes.
LEMMA OneHolder ==
  ASSUME Ready
  PROVE  /\ \A c, d \in Call : Holds(c) /\ Holds(d) => c = d
         /\ lock = Nobody => \A c \in Call : ~Holds(c)
         /\ \A c \in Call : call[c].pc \in {"add", "write", "remove", "drop"} => Holds(c)
BY Calls DEF Ready, Sound, Held, Holds

\* Read, or fetched: what is only looked at
LEMMA CallMoves ==
  ASSUME Ready, UNCHANGED <<record, job>>, aborted' = {},
         NEW c \in Call, \A d \in Call \ {c} : call'[d] = call[d],
         call[c].pc \notin {"add", "write"}, call'[c].pc \notin {"remove", "write"},
         c = "check" => \A l \in Seen : job[l].state = "active" => Knows(l)'
  PROVE  Sound'
<1>0. /\ Beat \subseteq Call /\ Stopper \subseteq Call /\ "check" \in Call
      /\ Copied /\ Added /\ Checking /\ Running /\ Watched
  BY Calls DEF Ready, Sound, Call, Check
<1>1. Copied' /\ Added'
  BY <1>0 DEF Copied, Added
<1>2. Checking'
  BY <1>0 DEF Checking, Knows
<1>3. Running' /\ Watched'
  BY <1>0 DEF Running, Watched
<1> QED BY <1>1, <1>2, <1>3 DEF Sound

\* A check that ends leaves the jobs of others, and its own if the bot is not stopped.
LEMMA CheckEnds ==
  ASSUME Ready, UNCHANGED record, aborted' = {}, End("check"), call["check"].pc \notin {"add", "write"},
         \A l \in Seen : job'[l].state # "active" /\ (job[l].state # "active" => job'[l] = job[l]),
         record.state = "running" /\ job[record.lastSeen].state = "active" => job'[record.lastSeen] # NoJob
  PROVE  Sound'
<1>0. /\ Beat \subseteq Call /\ Stopper \subseteq Call /\ "check" \in Call /\ "check" \notin Beat
      /\ Copied /\ Added /\ Checking /\ Running /\ Watched /\ Beating /\ Typed
  BY Calls, CallAssumption DEF Ready, Sound, Call, Check
<1>1. call'["check"] = Idle /\ Idle.pc = "idle" /\ \A d \in Call \ {"check"} : call'[d] = call[d]
  BY <1>0, EndType, Calls
<1>2. Copied'
  BY <1>0, <1>1 DEF Copied
<1>3. Added'
  BY <1>0, <1>1 DEF Added, Beating
<1>4. Checking' /\ Running'
  BY <1>0 DEF Checking, Running
<1>5. Watched'
  <2> SUFFICES ASSUME record.state = "running",
                      \A d \in Call : call'[d].pc \notin {"add", "write"}
               PROVE  job'[record.lastSeen] # NoJob
    BY DEF Watched
  <2>1. \A d \in Call : call[d].pc \notin {"add", "write"}
    BY <1>1
  <2>2. job[record.lastSeen] # NoJob /\ record.lastSeen \in Seen
    BY <1>0, <2>1 DEF Watched, Running
  <2> QED BY <2>2
<1> QED BY <1>2, <1>3, <1>4, <1>5 DEF Sound

\* Sending a heartbeat writes nothing yet.
LEMMA SendSound == ASSUME Ready, Send \/ DontSend, UNCHANGED <<record, job, aborted>> PROVE Sound'
<1>1. CASE Send
  <2>1. PICK s \in Beat : /\ call[s] = Idle
                          /\ call' = [call EXCEPT ![s] = call'[s]]
                          /\ call'[s].pc = "lock"
    BY <1>1, SendType DEF Ready
  <2>2. /\ s \in Call /\ s # "check" /\ call[s].pc = "idle" /\ \A d \in Call \ {s} : call'[d] = call[d]
        /\ aborted' = {}
    BY <2>1, Calls, CallAssumption DEF Ready, Typed, Sound
  <2> QED BY <2>1, <2>2, CallMoves
<1>2. CASE DontSend
  BY <1>2 DEF DontSend, Ready, Sound, Copied, Added, Checking, Knows, Running, Watched
<1> QED BY <1>1, <1>2

\* A heartbeat leaves the bot watched: it removes the old check and adds its own before it
\* writes the record, all under the lock.
LEMMA BeatSound ==
  ASSUME Ready, faults' = 0, NEW s \in Beat,
         LockSave(s) \/ ProbeSave(s) \/ DropJob(s) \/ AddJob(s) \/ WriteBot(s)
  PROVE  Sound'
<1> USE DEF process
<1>0. /\ s \in Call /\ s # "check" /\ s \notin Stopper /\ Idle.pc = "idle" /\ NoJob.state = "none" /\ aborted = {}
      /\ Typed /\ Beating /\ Copied /\ Added /\ Checking /\ Running /\ Watched
      /\ Beat \subseteq Call /\ Stopper \subseteq Call /\ "check" \in Stopper
  BY Calls, CallAssumption DEF Ready, Sound, NoJob, Stopper, Check
<1>1. CASE LockSave(s)
  <2> DEFINE r == [call[s] EXCEPT !.pc = "probe", !.seen = record.lastSeen]
  <2>1. call' = [call EXCEPT ![s] = r]
    BY <1>1 DEF LockSave
  <2>2. call'[s] = r /\ \A d \in Call \ {s} : call'[d] = call[d]
    BY <1>0, <2>1 DEF Typed
  <2>3. r.pc = "probe"
    BY <1>0 DEF Typed, CallState
  <2>4. call'[s].pc = "probe" /\ call[s].pc = "lock" /\ aborted' = {}
    BY <1>0, <1>1, <2>2, <2>3 DEF LockSave
  <2> QED BY <1>0, <1>1, <2>2, <2>4, CallMoves DEF LockSave
<1>2. CASE ProbeSave(s)
  <2>1. /\ \A d \in Call \ {s} : call'[d] = call[d]
        /\ call'[s].pc \in {"idle", "drop"} /\ aborted' = {}
    <3>1. CASE End(s)
      BY <1>0, <3>1, EndType
    <3>2. CASE Step(s, "drop") /\ UNCHANGED aborted
      <4>1. call'[s] = [call[s] EXCEPT !.pc = "drop"] /\ \A d \in Call \ {s} : call'[d] = call[d]
        BY <1>0, <3>2, StepType
      <4> QED BY <1>0, <3>2, <4>1 DEF Typed, CallState
    <3> QED BY <1>2, <3>1, <3>2 DEF ProbeSave
  <2> QED BY <1>0, <1>2, <2>1, CallMoves DEF ProbeSave
<1>3. ASSUME call[s].pc \in {"drop", "add", "write"}, NEW d \in Call \ {s}
      PROVE  call[d].pc \notin {"add", "write", "remove", "drop"}
  BY <1>0, <1>3, OneHolder
<1>4. CASE DropJob(s)
  <2>1. /\ \A d \in Call \ {s} : call'[d] = call[d]
        /\ call'[s] = [call[s] EXCEPT !.pc = "add"]
    BY <1>0, <1>4, StepType DEF DropJob
  <2>2. call'[s].pc = "add"
    BY <1>0, <2>1 DEF Typed, CallState
  <2>3. \A d \in Call : call'[d].pc \notin {"write", "remove"}
    <3>1. \A d \in Call \ {s} : call'[d].pc \notin {"write", "remove"}
      BY <1>3, <1>4, <2>1 DEF DropJob
    <3> QED BY <2>2, <3>1
  <2>4. Copied' /\ Added' /\ Watched'
    BY <1>0, <2>2, <2>3 DEF Copied, Added, Watched
  <2>5. \A l \in Seen : job'[l].state = "active" => job[l].state = "active"
    BY <1>0, <1>4 DEF DropJob, Without, Typed
  <2>6. Checking'
    BY <1>0, <1>4, <2>1, <2>5 DEF Checking, Knows, DropJob
  <2> QED BY <1>0, <1>4, <2>4, <2>6 DEF DropJob, Running, Sound
<1>5. CASE AddJob(s)
  <2> DEFINE l == call[s].bot.lastSeen
  <2>1. /\ \A d \in Call \ {s} : call'[d] = call[d]
        /\ call'[s] = [call[s] EXCEPT !.pc = "write"]
    BY <1>0, <1>5, StepType DEF AddJob
  <2>2. call'[s].pc = "write" /\ call'[s].bot = call[s].bot
    BY <1>0, <2>1 DEF Typed, CallState
  <2>3. \A d \in Call \ {s} : call'[d].pc \notin {"write", "remove"}
    BY <1>3, <1>5, <2>1 DEF AddJob
  <2>4. job' = [job EXCEPT ![l] = [state |-> "waiting", made |-> 0]] /\ l \in Seen
    BY <1>0, <1>5 DEF AddJob, Beating
  <2>5. job'[l].state = "waiting" /\ \A k \in Seen \ {l} : job'[k] = job[k]
    BY <1>0, <2>4 DEF Typed
  <2>6. Copied' /\ Added' /\ Watched'
    BY <1>0, <2>2, <2>3, <2>5 DEF Copied, Added, Watched
  <2>7. Checking'
    BY <1>0, <1>5, <2>1, <2>5 DEF Checking, Knows, AddJob
  <2> QED BY <1>0, <1>5, <2>6, <2>7 DEF AddJob, Running, Sound
<1>6. CASE WriteBot(s)
  <2> DEFINE l == call[s].bot.lastSeen
  <2>1. /\ \A d \in Call \ {s} : call'[d] = call[d]
        /\ call'[s].pc = "idle" /\ aborted' = {}
    BY <1>0, <1>6, EndType DEF WriteBot
  <2>2. \A d \in Call : call'[d].pc \notin {"add", "write", "remove"}
    BY <1>0, <1>3, <1>6, <2>1 DEF WriteBot
  <2>3. record'.lastSeen = l /\ l \in Seen /\ job[l].state = "waiting" /\ UNCHANGED job
    BY <1>0, <1>6 DEF WriteBot, Added, Beating
  <2>4. Copied' /\ Added'
    BY <1>0, <2>2 DEF Copied, Added
  <2>5. Checking'
    BY <1>0, <2>1, <2>3 DEF Checking, Knows
  <2>6. Running' /\ Watched'
    BY <1>0, <2>3 DEF Running, Watched
  <2> QED BY <2>1, <2>4, <2>5, <2>6 DEF Sound
<1> QED BY <1>1, <1>2, <1>4, <1>5, <1>6


\* So does whoever stops the bot, and a check that ends: its job goes when the bot is stopped, or
\* when the record is of another heartbeat.
LEMMA StopSound ==
  ASSUME Ready, faults' = 0, NEW c \in Stopper,
         LockStop(c) \/ RemoveJob(c) \/ WriteStopped(c) \/ (c \in Check /\ ProbeBot(c))
  PROVE  Sound'
<1> USE DEF process
<1>0. /\ c \in Call /\ c \notin Beat /\ Idle.pc = "idle" /\ NoJob.state = "none" /\ aborted = {}
      /\ Typed /\ Beating /\ Copied /\ Added /\ Checking /\ Running /\ Watched
      /\ Beat \subseteq Call /\ Stopper \subseteq Call /\ "check" \in Stopper
  BY Calls DEF Ready, Sound, NoJob, Stopper, Check
<1>1. \A d \in Call \ {c} : call'[d] = call[d]
  BY <1>0, StopperAlone
<1>2. ASSUME End(c), UNCHANGED record, c # "check" \/ record.state # "running" \/ job[record.lastSeen].state # "active",
             call[c].pc \notin {"add", "write"}, Completed(c) \/ Failed(c, job)
      PROVE  Sound'
  <2>1. call'[c] = Idle /\ aborted' = {}
    BY <1>0, <1>2, EndType
  <2>2. CASE c # "check"
    <3>1. UNCHANGED job
      BY <1>2, <2>2 DEF Completed, Failed
    <3> QED BY <1>0, <1>1, <1>2, <2>1, <2>2, <3>1, CallMoves
  <2>3. CASE c = "check"
    <3>1. \A l \in Seen : job[l].state # "active" => job'[l] = job[l]
      BY <1>2, <2>3 DEF Completed, Failed
    <3>2. \A l \in Seen : job[l] \in Job
      BY <1>0 DEF Typed
    <3>3. \A l \in Seen : job[l].state = "active" => job'[l].state # "active"
      BY <1>0, <1>2, <2>3, <3>2 DEF Completed, Failed, Tried
    <3> QED BY <1>2, <2>1, <2>3, <3>1, <3>3, CheckEnds
  <2> QED BY <2>2, <2>3
<1>3. CASE LockStop(c)
  <2>1. call[c].pc = "lock" /\ UNCHANGED record /\ lock = Nobody
    BY <1>3 DEF LockStop
  <2>2. CASE record.state = "none" /\ NotFound(c)
    BY <1>2, <2>1, <2>2 DEF NotFound
  <2>3. CASE Newer(c) /\ End(c) /\ Completed(c)
    <3>1. c = "check" /\ record.state = "running" => job[record.lastSeen].state # "active"
      BY <1>0, <2>1, <2>3 DEF Newer, Checking, Knows, Running
    <3> QED BY <1>2, <2>1, <2>3, <3>1
  <2>4. CASE /\ ~Newer(c)
             /\ call' = [call EXCEPT ![c].pc = "remove", ![c].bot = record]
             /\ UNCHANGED <<job, aborted>>
    <3> DEFINE r == [call[c] EXCEPT !.pc = "remove", !.bot = record]
    <3>1. call'[c] = r
      <4>1. call' = [call EXCEPT ![c] = r]
        BY <2>4
      <4> QED BY <1>0, <4>1 DEF Typed
    <3>2. r.pc = "remove" /\ r.bot = record /\ r.seen = call[c].seen
      BY <1>0 DEF Typed, CallState
    <3>3. c \in Check => r.seen = record.lastSeen
      <4>1. c \in Check => c # "stop"
        BY DEF Check
      <4> QED BY <2>4, <3>2, <4>1 DEF Newer
    <3>4. Copied'
      BY <1>0, <1>1, <2>1, <3>1, <3>2, <3>3 DEF Copied
    <3>5. Added'
      BY <1>0, <1>1, <2>4 DEF Added
    <3>6. Checking'
      <4>1. call'["check"].pc = "remove" \/ call'["check"] = call["check"]
        BY <1>0, <1>1, <3>1, <3>2
      <4> QED BY <1>0, <2>1, <2>4, <4>1 DEF Checking, Knows
    <3>7. Running' /\ Watched'
      BY <1>0, <1>1, <2>1, <2>4 DEF Running, Watched
    <3> QED BY <1>0, <2>4, <3>4, <3>5, <3>6, <3>7 DEF Sound
  <2> QED BY <1>3, <2>2, <2>3, <2>4 DEF LockStop
<1>4. ASSUME call[c].pc \in {"remove", "write"}, NEW d \in Call \ {c}
      PROVE  call[d].pc \notin {"add", "write", "remove", "drop"}
  <2>1. call[c].pc \in {"add", "write", "remove", "drop"}
    BY <1>4
  <2> QED BY <1>0, <1>4, <2>1, OneHolder
<1>5. CASE RemoveJob(c)
  <2>1. job' = Without(call[c].bot.lastSeen) /\ Step(c, "write") /\ UNCHANGED <<record, aborted>>
    BY <1>0, <1>5 DEF RemoveJob
  <2>2. call'[c] = [call[c] EXCEPT !.pc = "write"]
    BY <1>0, <2>1, StepType
  <2>3. call'[c].pc = "write" /\ call'[c].bot = call[c].bot /\ call'[c].seen = call[c].seen
    BY <1>0, <2>2 DEF Typed, CallState
  <2>4. \A d \in Call \ {c} : call'[d].pc \notin {"write", "remove"}
    BY <1>1, <1>4, <1>5 DEF RemoveJob
  <2>5. Copied'
    BY <1>0, <1>5, <2>1, <2>3, <2>4 DEF Copied, RemoveJob
  <2>6. Added' /\ Watched'
    BY <1>0, <2>3, <2>4 DEF Added, Watched
  <2>7. \A l \in Seen : job'[l].state = "active" => job[l].state = "active"
    BY <1>0, <2>1 DEF Without, Typed
  <2>8. Checking'
    BY <1>0, <1>1, <1>5, <2>1, <2>3, <2>7 DEF Checking, Knows, RemoveJob
  <2> QED BY <1>0, <2>1, <2>5, <2>6, <2>8 DEF Running, Sound
<1>6. CASE WriteStopped(c)
  <2>1. call'[c].pc = "idle" /\ aborted' = {}
    BY <1>0, <1>6, EndType DEF WriteStopped
  <2>2. \A d \in Call : call'[d].pc \notin {"add", "write", "remove"}
    <3> TAKE d \in Call
    <3>1. CASE d = c BY <2>1, <3>1
    <3>2. CASE d # c BY <1>1, <1>4, <1>6, <3>2 DEF WriteStopped
    <3> QED BY <3>1, <3>2
  <2>3. Copied' /\ Added'
    BY <1>0, <2>2 DEF Copied, Added
  <2> DEFINE n == IF c = "stop" THEN 0 ELSE call[c].bot.lastSeen
  <2>4. call[c].bot = record /\ record' = [record EXCEPT !.state = "stopped", !.lastSeen = n]
    BY <1>0, <1>6 DEF WriteStopped, Copied
  <2>5. record'.state = "stopped" /\ record'.lastSeen = n /\ n \in {0, record.lastSeen}
    BY <1>0, <2>4 DEF Typed, Bot
  <2>6. Checking'
    <3>1. CASE c = "check"
      <4>1. \A l \in Seen : job'[l].state # "active"
        BY <1>0, <1>6, <3>1 DEF WriteStopped, Completed
      <4> QED BY <4>1 DEF Checking
    <3>2. CASE c # "check"
      <4>1. UNCHANGED job /\ call'["check"] = call["check"]
        BY <1>0, <1>1, <1>6, <3>2 DEF WriteStopped, Completed
      <4>2. \A l \in Seen : record'.lastSeen = l => record.lastSeen = l
        BY <2>5, BoundAssumption DEF Seen
      <4> QED BY <1>0, <4>1, <4>2 DEF Checking, Knows
    <3> QED BY <3>1, <3>2
  <2> QED BY <2>1, <2>3, <2>5, <2>6 DEF Running, Watched, Sound
<1>7. CASE c \in Check /\ ProbeBot(c)
  <2>1. call[c].pc = "probe" /\ UNCHANGED record
    BY <1>7 DEF ProbeBot
  <2>2. ASSUME NEW l \in 0..MaxSeen, NEW final \in BOOLEAN, Expect(c, l, final), UNCHANGED <<job, lock, aborted>>,
               c = "check" => l \in {call[c].seen, call[c].bot.lastSeen}
        PROVE  Sound'
    <3>1. call'[c].pc = "lock" /\ call'[c].seen = l
      BY <1>0, <2>2, ExpectType
    <3>2. c = "check" => \A k \in Seen : job[k].state = "active" => Knows(k)'
      BY <1>0, <2>1, <2>2, <3>1 DEF Checking, Knows
    <3> QED BY <1>0, <1>1, <2>1, <2>2, <3>1, <3>2, CallMoves
  <2>3. call[c].seen \in 0..MaxSeen /\ call[c].bot.lastSeen \in 0..MaxSeen
    BY <1>0 DEF Typed, CallState, Bot
  <2>4. CASE Expect(c, call[c].bot.lastSeen, FALSE) /\ UNCHANGED <<job, lock, aborted>>
    BY <2>2, <2>3, <2>4
  <2>5. CASE Expect(c, call[c].seen, TRUE) /\ UNCHANGED <<job, lock, aborted>>
    BY <2>2, <2>3, <2>5
  <2>6. CASE ~Missed(c) /\ End(c) /\ Completed(c)
    <3>1. c = "check" /\ record.state = "running" => job[record.lastSeen].state # "active"
      BY <1>0, <2>1, <2>6 DEF Missed, Checking, Knows, Running
    <3> QED BY <1>2, <2>1, <2>6, <3>1
  <2>7. CASE (c = "ask" \/ ~LastAttempt) /\ End(c) /\ Failed(c, job)
    <3>1. CASE c = "check"
      <4>1. ASSUME NEW l \in Seen, job[l].state = "active"
            PROVE  job'[l].state = "waiting"
        <5>1. job[l] \in Job /\ ~(job[l].made + 1 >= Attempts)
          BY <1>0, <2>7, <3>1, <4>1 DEF LastAttempt, Typed
        <5>2. job'[l] = Tried(job[l])
          BY <2>7, <3>1, <4>1 DEF Failed
        <5>3. Tried(job[l]) = [state |-> "waiting", made |-> job[l].made + 1]
          BY <5>1 DEF Tried
        <5> QED BY <5>2, <5>3
      <4>2. \A l \in Seen : job[l].state # "active" => job'[l] = job[l]
        BY <2>7, <3>1 DEF Failed
      <4>3. record.state = "running" /\ job[record.lastSeen].state = "active" => job'[record.lastSeen] # NoJob
        BY <1>0, <4>1 DEF Running
      <4>4. \A l \in Seen : job'[l].state # "active" /\ (job[l].state # "active" => job'[l] = job[l])
        BY <4>1, <4>2
      <4>5. aborted' = {}
        BY <1>0, <2>7, EndType
      <4> QED BY <2>1, <2>7, <3>1, <4>3, <4>4, <4>5, CheckEnds
    <3>2. CASE c # "check"
      BY <1>2, <2>1, <2>7, <3>2
    <3> QED BY <3>1, <3>2
  <2> QED BY <1>7, <2>4, <2>5, <2>6, <2>7 DEF ProbeBot
<1> QED BY <1>3, <1>5, <1>6, <1>7


\* Nothing else takes a check from a bot that runs.
LEMMA OtherSound ==
  ASSUME Ready, faults' = 0,
         \/ \E h \in Host : Start(h)
         \/ Kill \/ HandleBotReady \/ HandleBotConnected \/ HandleBotDisconnected \/ Timer
         \/ \E s \in Beat : Answered(s) \/ AnswerLost(s)
         \/ Ask \/ \E l \in Seen : RunCheck(l)
         \/ DeleteBot \/ UNCHANGED vars
  PROVE  Sound'
<1> USE DEF process, manager
<1>0. /\ Idle.pc = "idle" /\ NoJob.state = "none" /\ aborted = {} /\ Typed
      /\ Beating /\ Copied /\ Added /\ Checking /\ Running /\ Watched
      /\ Beat \subseteq Call /\ Stopper \subseteq Call /\ Check \subseteq Stopper
      /\ Beat \cap Stopper = {} /\ "stop" \in Call /\ "check" \in Call
  BY Calls DEF Ready, Sound, NoJob, Call, Check
<1>1. ASSUME UNCHANGED <<record, job, call, aborted>> PROVE Sound'
  BY <1>0, <1>1 DEF Sound, Copied, Added, Checking, Knows, Running, Watched
<1>2. CASE \/ \E h \in Host : Start(h)
           \/ Kill \/ UNCHANGED vars
           \/ \E s \in Beat : Answered(s) \/ AnswerLost(s)
  BY <1>1, <1>2 DEF Start, Kill, Answered, AnswerLost, vars
<1>3. CASE HandleBotReady \/ HandleBotConnected \/ Timer
  BY <1>3, SendSound DEF HandleBotReady, HandleBotConnected, Timer
<1>4. CASE HandleBotDisconnected
  <2> DEFINE r == [call["stop"] EXCEPT !.pc = "lock"]
  <2>1. call' = [call EXCEPT !["stop"] = r]
    BY <1>4 DEF HandleBotDisconnected
  <2>2. call'["stop"] = r /\ \A d \in Call \ {"stop"} : call'[d] = call[d]
    BY <1>0, <2>1 DEF Typed
  <2>3. call["stop"] \in CallState
    BY <1>0 DEF Typed
  <2>4. r.pc = "lock"
    BY <2>3 DEF CallState
  <2>5. call'["stop"].pc = "lock" /\ call["stop"].pc = "idle"
    BY <1>0, <1>4, <2>2, <2>4 DEF HandleBotDisconnected
  <2>6. UNCHANGED <<record, job, aborted>>
    BY <1>4 DEF HandleBotDisconnected
  <2> QED BY <1>0, <2>2, <2>5, <2>6, CallMoves
<1>5. ASSUME NEW c \in Check, NEW l \in 0..MaxSeen, call[c] = Idle, Read(c, l), UNCHANGED <<record, aborted>>
      PROVE  /\ call'[c].pc = "probe" /\ call'[c].seen = l /\ call'[c].bot = record
             /\ c \in Call /\ call[c].pc = "idle" /\ \A d \in Call \ {c} : call'[d] = call[d]
  <2> DEFINE r == [Idle EXCEPT !.pc = "probe", !.seen = l, !.bot = record]
  <2>1. r.pc = "probe" /\ r.seen = l /\ r.bot = record
    BY DEF Idle
  <2>2. call' = [call EXCEPT ![c] = r]
    BY <1>5 DEF Read
  <2> QED BY <1>0, <1>5, <2>1, <2>2 DEF Typed
<1>6. CASE Ask
  <2>1. "ask" \in Check /\ 0 \in 0..MaxSeen /\ UNCHANGED <<record, job, aborted>>
    BY <1>6, BoundAssumption DEF Ask, Check
  <2>2. call["ask"] = Idle /\ Read("ask", 0)
    BY <1>6 DEF Ask
  <2> QED BY <1>0, <1>5, <2>1, <2>2, CallMoves
<1>7. ASSUME NEW l \in Seen, RunCheck(l) PROVE Sound'
  <2>1. /\ l \in 0..MaxSeen /\ "check" \in Check /\ UNCHANGED <<record, aborted>>
        /\ call["check"] = Idle
    BY <1>7, BoundAssumption DEF RunCheck, Seen, Check
  <2>2. \A k \in Seen : job[k].state # "active"
    BY <1>0, <2>1 DEF Checking, Knows
  <2>3. \A s \in Beat : call[s].pc = "write" => call[s].bot.lastSeen # l
    BY <1>0, <1>7 DEF RunCheck, Due
  <2>4. CASE Read("check", l) /\ job' = [job EXCEPT ![l].state = "active"]
    <3> DEFINE j == [job[l] EXCEPT !.state = "active"]
    <3>1. j.state = "active"
      BY <1>0 DEF Typed, Job
    <3>2. job' = [job EXCEPT ![l] = j]
      BY <2>4
    <3>3. job'[l].state = "active" /\ \A k \in Seen \ {l} : job'[k] = job[k]
      BY <1>0, <3>1, <3>2 DEF Typed
    <3>4. /\ call'["check"].pc = "probe" /\ call'["check"].seen = l /\ call'["check"].bot = record
          /\ call["check"].pc = "idle" /\ \A d \in Call \ {"check"} : call'[d] = call[d]
      BY <1>5, <2>1, <2>4
    <3>5. Copied'
      BY <1>0, <2>1, <3>4 DEF Copied
    <3>6. Added'
      <4> SUFFICES ASSUME NEW s \in Beat, call'[s].pc = "write"
                   PROVE  job'[call'[s].bot.lastSeen].state = "waiting"
        BY DEF Added
      <4>1. s \in Call \ {"check"} /\ call'[s] = call[s]
        BY <1>0, <2>1, <3>4
      <4>2. call[s].bot.lastSeen \in Seen \ {l}
        BY <1>0, <2>3, <4>1 DEF Beating
      <4> QED BY <1>0, <3>3, <4>1, <4>2 DEF Added
    <3>7. Checking'
      <4>1. \A k \in Seen : job'[k].state = "active" => k = l
        BY <2>2, <3>3
      <4>2. Knows(l)'
        BY <2>1, <3>4 DEF Knows
      <4> QED BY <4>1, <4>2 DEF Checking
    <3>8. Running' /\ Watched'
      BY <1>0, <2>1, <3>3, <3>4 DEF Running, Watched
    <3> QED BY <1>0, <2>1, <3>5, <3>6, <3>7, <3>8 DEF Sound
  <2>5. CASE record.state # "running" /\ job' = [job EXCEPT ![l] = NoJob] /\ UNCHANGED call
    <3>1. job'[l] = NoJob /\ \A k \in Seen \ {l} : job'[k] = job[k]
      BY <1>0, <2>5 DEF Typed
    <3>2. Copied' /\ Running' /\ Watched'
      BY <1>0, <2>1, <2>5 DEF Copied, Running, Watched
    <3>3. Added'
      BY <1>0, <2>3, <2>5, <3>1 DEF Added, Beating
    <3>4. Checking'
      BY <1>0, <2>2, <3>1 DEF Checking
    <3> QED BY <1>0, <2>1, <3>2, <3>3, <3>4 DEF Sound
  <2> QED BY <1>7, <2>4, <2>5 DEF RunCheck
<1>8. CASE DeleteBot
  <2>1. /\ record'.lastSeen = 0 /\ record'.state = "none" /\ 0 \notin Seen
        /\ UNCHANGED <<job, call, aborted>> /\ lock = Nobody
    BY <1>8 DEF DeleteBot, NoBot, Seen
  <2>2. \A c \in Call : call[c].pc \notin {"write", "remove"}
    BY <2>1, OneHolder
  <2>3. Copied' /\ Added'
    BY <1>0, <2>1, <2>2 DEF Copied, Added
  <2>4. Checking'
    BY <1>0, <2>1 DEF Checking, Knows
  <2> QED BY <1>0, <2>1, <2>3, <2>4 DEF Running, Watched, Sound
<1> QED BY <1>2, <1>3, <1>4, <1>6, <1>7, <1>8

\* Without a fault, a step counts none.
LEMMA NextFaults == ASSUME TypeOK, [Next]_vars, faults' = 0 PROVE faults = 0 /\ ~Fault
<1>0. faults \in 0..MaxFaults
  BY DEF TypeOK
<1>1. ~Fault
  BY <1>0, BoundAssumption DEF Fault
<1>2. UNCHANGED faults
  BY <1>1
  DEF Next, Beats, Goes, Start, Kill, HandleBotReady, HandleBotConnected, HandleBotDisconnected, Timer,
      Answered, AnswerLost, Ask, RunCheck, LockSave, ProbeSave, Probe, DropJob, AddJob, WriteBot, ProbeBot,
      LockStop, RemoveJob, WriteStopped, LockRefused, DeleteBot, LockLost, Restart, process, manager, vars
<1> QED BY <1>1, <1>2

\* Every step that loses nothing keeps what is known while nothing is lost.
LEMMA SoundStep == ASSUME BeatInv, [Next]_vars, faults' = 0 PROVE Sound'
<1>1. ~Fault /\ Ready
  BY NextFaults, TypeParts DEF BeatInv, Ready
<1>2. ASSUME NEW c \in Call, Goes(c) PROVE Sound'
  BY <1>1, <1>2, BeatSound, StopSound, Calls DEF Goes
<1>3. CASE Next
  BY <1>1, <1>2, <1>3, OtherSound DEF Next, Beats, LockRefused, LockLost, Restart
<1> QED BY <1>1, <1>3, OtherSound

\* At the start there is no bot and nobody calls.
LEMMA InitSound == Init => Beating /\ Sound
BY Calls DEF Init, Beating, Sound, Copied, Added, Checking, Running, Watched, NoBot, NoJob

\* The inductive invariant holds in every behaviour.
LEMMA Invariance == Spec => []BeatInv
<1>1. Init => BeatInv
  BY InitType, InitSound DEF BeatInv
<1>2. BeatInv /\ [Next]_vars => BeatInv'
  BY TypeStep, TypeParts, BeatingStep, SoundStep DEF BeatInv
<1> QED BY <1>1, <1>2, PTL DEF Spec

-------------------------------------------------------------------------------
(* Theorems *)

\* The record, the checks and the calls keep their types, and whoever writes has the lock or
\* has lost it to a fault, for any hosts, heartbeats and attempts.
THEOREM TypeCorrect == Spec => []TypeOK
<1>1. BeatInv => TypeOK
  BY DEF BeatInv
<1> QED BY <1>1, Invariance, PTL

\* While nothing is lost a bot that is recorded as running is watched, however often it is
\* killed, moved, connected, asked for and deleted, with any number of heartbeats in flight.
THEOREM RunningIsWatched == Spec => []AlwaysWatched
<1>1. BeatInv => AlwaysWatched
  BY DEF BeatInv, Sound, AlwaysWatched
<1> QED BY <1>1, Invariance, PTL

\* Whoever finds the bot gone does not stop a newer heartbeat than the one it had read, or
\* was to check.
THEOREM NewerHeartbeatWins == Spec => NewerWins
<1>1. BeatInv /\ [Next]_vars =>
        [\A c \in Check : WriteStopped(c) /\ faults = 0 => record.lastSeen = call[c].seen]_vars
  BY Calls DEF BeatInv, Sound, Copied, WriteStopped
<1> QED BY <1>1, Invariance, PTL DEF Spec, NewerWins
-------------------------------------------------------------------------------
(* How long trades are held *)

HoldBounds == MaxHoldAttempts \in Nat \ {0} /\ HoldToken \subseteq HoldCall

JobType == [state : {Hold!None, "waiting", "delayed", "active"}, token : BOOLEAN,
            tried : [HoldBot -> Nat], attempts : 0..MaxHoldAttempts]
RunType == [pc : {"idle", "ask", "save", "refused", "failed"}, token : BOOLEAN,
            tried : [HoldBot -> Nat], bot : HoldBot \cup {Hold!None}]

HoldTypes ==
  /\ hold \in {Hold!None, "ok", "bad"}
  /\ during \subseteq HoldCall
  /\ holdJob \in JobType /\ holdRun \in RunType
  /\ holdRun.pc # "idle" => holdRun.bot \in HoldBot
  /\ holdCall \in [HoldCall -> {"idle", "look", "update", "delay", "create", "wait", "read",
                        "answered", "refused", "stale", "lost"}]

\* Whoever is about to read an error from the cache was there when it was saved.
HoldInv ==
  /\ \A c \in HoldCall : holdCall[c] = "read" /\ hold = "bad" => c \in during
  /\ Hold!NoStaleRefusal

LEMMA HoldInit == ASSUME HoldBounds PROVE Hold!Init => HoldTypes /\ HoldInv
  BY DEF HoldBounds, Hold!Init, HoldTypes, HoldInv, Hold!NoStaleRefusal, JobType, RunType,
         Hold!NoJob, Hold!Resting, Hold!None

LEMMA HoldRecords ==
  ASSUME HoldBounds
  PROVE  /\ Hold!NoJob \in JobType /\ Hold!Resting \in RunType /\ Hold!Resting.pc = "idle"
         /\ Hold!NoJob.tried \in [HoldBot -> Nat]
         /\ \A t \in BOOLEAN : [Hold!NoJob EXCEPT !.state = "waiting", !.token = t] \in JobType
<1>1. [b \in HoldBot |-> 0] \in [HoldBot -> Nat] OBVIOUS
<1>2. 0 \in 0..MaxHoldAttempts BY DEF HoldBounds
<1>3. Hold!NoJob \in JobType BY <1>1, <1>2 DEF Hold!NoJob, JobType
<1>4. Hold!Resting \in RunType /\ Hold!Resting.pc = "idle" BY <1>1 DEF Hold!Resting, RunType
<1>5. Hold!NoJob.tried \in [HoldBot -> Nat] BY <1>1 DEF Hold!NoJob
<1>6. \A t \in BOOLEAN : [Hold!NoJob EXCEPT !.state = "waiting", !.token = t] \in JobType
  BY <1>3 DEF JobType
<1> QED BY <1>3, <1>4, <1>5, <1>6

\* A job is started, tried again or over, and its data replaced, as one of its kind
LEMMA HoldJobStep ==
  ASSUME HoldBounds, HoldTypes, [Hold!Next]_(Hold!vars)
  PROVE  /\ holdJob' \in JobType /\ holdRun' \in RunType
         /\ holdRun'.pc # "idle" => holdRun'.bot \in HoldBot
<1> DEFINE Goal == holdJob' \in JobType /\ holdRun' \in RunType /\ (holdRun'.pc # "idle" =>
      holdRun'.bot \in HoldBot)
<1>t. holdJob \in JobType /\ holdRun \in RunType /\ (holdRun.pc # "idle" => holdRun.bot \in HoldBot)
  BY DEF HoldTypes
<1>0. Hold!NoJob \in JobType /\ Hold!Resting \in RunType /\ Hold!Resting.pc = "idle"
        /\ Hold!NoJob.tried \in [HoldBot -> Nat]
  BY HoldRecords
<1>n. MaxHoldAttempts \in Nat BY DEF HoldBounds
<1>e. ASSUME NEW outcome, Hold!Ends(outcome) PROVE Goal
  BY <1>0, <1>e DEF Hold!Ends
<1>a. ASSUME Hold!Retry PROVE Goal
  <2>1. CASE holdJob.attempts + 1 < MaxHoldAttempts
    <3>1. holdJob.attempts + 1 \in 0..MaxHoldAttempts BY <1>t, <1>n, <2>1 DEF JobType
    <3>2. holdJob' \in JobType BY <1>a, <1>t, <2>1, <3>1 DEF Hold!Retry, JobType
    <3> QED BY <1>0, <1>a, <2>1, <3>2 DEF Hold!Retry
  <2>2. CASE ~(holdJob.attempts + 1 < MaxHoldAttempts)
    BY <1>a, <1>e, <2>2 DEF Hold!Retry
  <2> QED BY <2>1, <2>2
<1>1. ASSUME NEW c \in HoldCall, Hold!UpdateData(c) PROVE Goal
  <2>1. (c \in HoldToken) \in BOOLEAN OBVIOUS
  <2>2. [holdJob EXCEPT !.token = (c \in HoldToken), !.tried = Hold!NoJob.tried] \in JobType
    BY <1>t, <1>0, <2>1 DEF JobType
  <2>3. holdJob' \in JobType BY <1>t, <1>1, <2>2 DEF Hold!UpdateData
  <2> QED BY <1>t, <1>1, <2>3 DEF Hold!UpdateData
<1>2. ASSUME NEW c \in HoldCall, Hold!ChangeDelay(c) PROVE Goal
  BY <1>t, <1>2 DEF Hold!ChangeDelay, JobType
<1>3. ASSUME NEW c \in HoldCall, Hold!CreateJob(c) PROVE Goal
  <2>1. (c \in HoldToken) \in BOOLEAN OBVIOUS
  <2>2. holdJob' \in JobType BY <1>t, <1>3, <2>1, HoldRecords DEF Hold!CreateJob
  <2> QED BY <1>t, <1>3, <2>2 DEF Hold!CreateJob
<1>4. ASSUME Hold!ProcessJob PROVE Goal
  <2>1. holdJob' \in JobType BY <1>t, <1>4 DEF Hold!ProcessJob, JobType
  <2>2. PICK b \in HoldBot : holdRun' =
          [pc |-> "ask", token |-> holdJob.token, tried |-> holdJob.tried, bot |-> b]
    BY <1>4 DEF Hold!ProcessJob, Hold!SelectBot
  <2>3. holdRun' \in RunType BY <1>t, <2>2 DEF RunType, JobType
  <2> QED BY <2>1, <2>2, <2>3
<1>5. ASSUME Hold!Found \/ Hold!Refused \/ Hold!AnswersWithError PROVE Goal
  BY <1>t, <1>5 DEF Hold!Found, Hold!Refused, Hold!AnswersWithError, RunType
<1>6. ASSUME Hold!Failed PROVE Goal
  <2>1. CASE holdJob.attempts + 1 < MaxHoldAttempts
    <3>1. holdRun.bot \in HoldBot BY <1>t, <1>6 DEF Hold!Failed
    <3>2. holdRun.tried \in [HoldBot -> Nat] /\ holdRun.token \in BOOLEAN BY <1>t DEF RunType
    <3>3. [holdRun.tried EXCEPT ![holdRun.bot] = @ + 1] \in [HoldBot -> Nat] BY <3>1, <3>2
    <3> DEFINE T == [holdRun.tried EXCEPT ![holdRun.bot] = @ + 1]
    <3>4. holdJob.attempts + 1 \in 0..MaxHoldAttempts BY <1>t, <1>n, <2>1 DEF JobType
    <3>5. holdJob' = [[holdJob EXCEPT !.tried = T, !.token = holdRun.token]
                  EXCEPT !.state = "delayed", !.attempts = @ + 1]
      BY <1>6, <2>1 DEF Hold!Failed, Hold!BotAttemptErrorHandler
    <3>6. T \in [HoldBot -> Nat] BY <3>3
    <3> HIDE DEF T
    <3>7. holdJob' \in JobType BY <1>t, <3>2, <3>4, <3>5, <3>6 DEF JobType
    <3> QED BY <1>0, <1>6, <2>1, <3>7 DEF Hold!Failed
  <2>2. CASE ~(holdJob.attempts + 1 < MaxHoldAttempts)
    BY <1>6, <1>e, <2>2 DEF Hold!Failed
  <2> QED BY <2>1, <2>2
<1>7. ASSUME Hold!Unanswered PROVE Goal
  BY <1>7, <1>a DEF Hold!Unanswered
<1>8. ASSUME Hold!Delayed PROVE Goal
  BY <1>t, <1>8 DEF Hold!Delayed, JobType
<1>9. ASSUME Hold!SaveEscrow \/ Hold!OnJobFailed PROVE Goal
  BY <1>9, <1>a, <1>e DEF Hold!SaveEscrow, Hold!OnJobFailed
<1>10. ASSUME Hold!RemoveJob PROVE Goal
  BY <1>t, <1>0, <1>10 DEF Hold!RemoveJob
<1>11. ASSUME UNCHANGED <<holdJob, holdRun>> PROVE Goal
  BY <1>t, <1>11
<1>12. \/ UNCHANGED <<holdJob, holdRun>>
       \/ \E c \in HoldCall : Hold!UpdateData(c) \/ Hold!ChangeDelay(c) \/ Hold!CreateJob(c)
       \/ Hold!ProcessJob \/ Hold!Found \/ Hold!Refused \/ Hold!AnswersWithError \/ Hold!Failed
            \/ Hold!Unanswered \/ Hold!Delayed
       \/ Hold!SaveEscrow \/ Hold!OnJobFailed \/ Hold!RemoveJob
  BY DEF Hold!Next, Hold!GetEscrow, Hold!AddJob, Hold!WaitFails, Hold!GetEscrowFromCache,
         Hold!Again, Hold!Forgotten, Hold!vars
<1>13. Goal
  <2> HIDE DEF Goal
  <2> QED BY <1>1, <1>2, <1>3, <1>4, <1>5, <1>6, <1>7, <1>8, <1>9, <1>10, <1>11, <1>12
<1> QED BY <1>13

LEMMA HoldStep ==
  ASSUME HoldBounds, HoldTypes, HoldInv, [Hold!Next]_(Hold!vars)
  PROVE  HoldTypes' /\ HoldInv'
<1>0. holdJob' \in JobType /\ holdRun' \in RunType
        /\ (holdRun'.pc # "idle" => holdRun'.bot \in HoldBot)
  BY HoldJobStep
<1> DEFINE States == {"idle", "look", "update", "delay", "create", "wait", "read",
                      "answered", "refused", "stale", "lost"}
           Reads == \A c \in HoldCall : holdCall[c] = "read" /\ hold = "bad" => c \in during
           Goal == /\ hold' \in {Hold!None, "ok", "bad"} /\ during' \subseteq HoldCall
                   /\ holdCall' \in [HoldCall -> States] /\ Reads' /\ Hold!NoStaleRefusal'
<1>t. /\ hold \in {Hold!None, "ok", "bad"} /\ during \subseteq HoldCall
      /\ holdCall \in [HoldCall -> States]
      /\ HoldToken \subseteq HoldCall /\ Reads /\ Hold!NoStaleRefusal
  BY DEF HoldTypes, HoldBounds, HoldInv
<1> USE DEF Hold!NoStaleRefusal
<1>g. ASSUME NEW c \in HoldCall, NEW pc \in States \ {"read", "stale"}, Hold!Goes(c, pc),
             UNCHANGED <<hold, during>>
      PROVE  Goal
  BY <1>t, <1>g DEF Hold!Goes
<1>1. ASSUME NEW c \in HoldCall, Hold!GetEscrow(c) PROVE Goal
  <2>1. CASE Hold!CachedAnswers(c)
    <3>1. Hold!FromCache(c) \in States \ {"read", "stale"}
      BY <1>t, <2>1 DEF Hold!CachedAnswers, Hold!FromCache, Hold!None
    <3> QED BY <1>1, <1>g, <2>1, <3>1 DEF Hold!GetEscrow
  <2>2. CASE ~Hold!CachedAnswers(c)
    BY <1>1, <1>g, <2>2 DEF Hold!GetEscrow
  <2> QED BY <2>1, <2>2
<1>2. ASSUME NEW c \in HoldCall,
             \/ Hold!AddJob(c) \/ Hold!UpdateData(c) \/ Hold!ChangeDelay(c)
             \/ Hold!CreateJob(c) \/ Hold!WaitFails(c)
      PROVE  Goal
  <2>1. CASE Hold!AddJob(c) BY <1>g, <2>1 DEF Hold!AddJob
  <2>2. CASE Hold!UpdateData(c) BY <1>g, <2>2 DEF Hold!UpdateData
  <2>3. CASE Hold!ChangeDelay(c) BY <1>g, <2>3 DEF Hold!ChangeDelay
  <2>4. CASE Hold!CreateJob(c) \/ Hold!WaitFails(c) BY <1>g, <2>4 DEF Hold!CreateJob, Hold!WaitFails
  <2> QED BY <1>2, <2>1, <2>2, <2>3, <2>4
<1>3. ASSUME NEW c \in HoldCall, Hold!GetEscrowFromCache(c) PROVE Goal
  <2>1. Hold!FromCache(c) \in States \ {"read", "stale"}
    BY <1>t, <1>3 DEF Hold!GetEscrowFromCache, Hold!FromCache, Hold!None
  <2> QED BY <1>3, <1>g, <2>1 DEF Hold!GetEscrowFromCache
<1>4. ASSUME NEW c \in HoldCall, Hold!Again(c) PROVE Goal
  BY <1>t, <1>4 DEF Hold!Again, Hold!Done, Hold!Goes
<1>5. ASSUME NEW outcome \in {"refused", "lost"}, Hold!Ends(outcome), UNCHANGED <<hold, during>>
      PROVE Goal
  BY <1>t, <1>5 DEF Hold!Ends
<1>6. ASSUME Hold!Retry, UNCHANGED <<hold, during>> PROVE Goal
  BY <1>t, <1>5, <1>6 DEF Hold!Retry
<1>7. ASSUME Hold!Failed PROVE Goal
  BY <1>t, <1>5, <1>7 DEF Hold!Failed
<1>8. ASSUME Hold!SaveEscrow PROVE Goal
  <2>1. CASE Hold!Saved("ok") /\ Hold!Ends("read")
    BY <1>t, <2>1 DEF Hold!Saved, Hold!Ends
  <2>2. CASE Hold!Retry /\ UNCHANGED <<hold, during>>
    BY <1>6, <2>2
  <2> QED BY <1>8, <2>1, <2>2 DEF Hold!SaveEscrow
<1>9. ASSUME Hold!OnJobFailed PROVE Goal
  BY <1>t, <1>9 DEF Hold!OnJobFailed, Hold!Saved, Hold!Ends
<1>10. ASSUME Hold!Forgotten PROVE Goal
  BY <1>t, <1>10 DEF Hold!Forgotten, Hold!None
<1>11. ASSUME UNCHANGED <<hold, during, holdCall>> PROVE Goal
  BY <1>t, <1>11
<1>12. \/ UNCHANGED <<hold, during, holdCall>>
       \/ \E c \in HoldCall : \/ Hold!GetEscrow(c) \/ Hold!AddJob(c) \/ Hold!UpdateData(c)
                              \/ Hold!ChangeDelay(c) \/ Hold!CreateJob(c)
                              \/ Hold!WaitFails(c) \/ Hold!GetEscrowFromCache(c) \/ Hold!Again(c)
       \/ Hold!Failed
       \/ Hold!Retry /\ UNCHANGED <<hold, during>>
       \/ Hold!SaveEscrow \/ Hold!OnJobFailed \/ Hold!Forgotten
  BY DEF Hold!Next, Hold!ProcessJob, Hold!Found, Hold!Refused, Hold!AnswersWithError,
         Hold!Unanswered, Hold!Delayed, Hold!RemoveJob, Hold!vars
<1>13. Goal
  <2> HIDE DEF Goal
  <2> QED BY <1>1, <1>2, <1>3, <1>4, <1>6, <1>7, <1>8, <1>9, <1>10, <1>11, <1>12
<1> QED BY <1>0, <1>13 DEF HoldTypes, HoldInv

LEMMA HoldTyped == HoldTypes => Hold!TypeOK
  BY DEF HoldTypes, Hold!TypeOK, JobType, RunType

\* How long trades are held is told in type: a job is given up in time, and an attempt in
\* hand is that of a bot, for any requests, bots and faults.
THEOREM HoldsTypeCorrect == ASSUME HoldBounds PROVE Hold!Spec => []Hold!TypeOK
<1>1. Hold!Init => HoldTypes /\ HoldInv BY HoldInit
<1>2. HoldTypes /\ HoldInv /\ [Hold!Next]_(Hold!vars) => (HoldTypes /\ HoldInv)' BY HoldStep
<1> QED BY <1>1, <1>2, HoldTyped, PTL DEF Hold!Spec

\* Whoever brings a token is not turned away with an error from before, for any requests
\* that share the job, any bots, attempts and faults.
THEOREM NobodyIsTurnedAway == ASSUME HoldBounds PROVE Hold!Spec => []Hold!NoStaleRefusal
<1>1. Hold!Init => HoldTypes /\ HoldInv BY HoldInit
<1>2. HoldTypes /\ HoldInv /\ [Hold!Next]_(Hold!vars) => (HoldTypes /\ HoldInv)' BY HoldStep
<1>3. HoldInv => Hold!NoStaleRefusal BY DEF HoldInv
<1> QED BY <1>1, <1>2, <1>3, PTL DEF Hold!Spec
-------------------------------------------------------------------------------
(* What the bot tells of its offers *)

PublishBounds == IsFiniteSet(Offer) /\ MaxQueue \in Nat /\ Offers!Nil \notin Kind

Asked == [kind : Kind \cup {Offers!Nil}, offer : Offer \cup {Offers!Nil}, served : BOOLEAN,
          from : [Offer -> Offers!Stages], got : [Offer -> Offers!Stages]]
Known == [published : Offers!State, accept : BOOLEAN, conf : BOOLEAN]
Learnt == [offer : Offer, stage : Offers!Stages]
Publishing == [offer : Offer \cup {Offers!Nil}, stage : Offers!Stages,
               old : {Offers!Nil, "state", "conf"}]

Answers == /\ stage \in [Offer -> Offers!Stages]
           /\ request \in [Request -> Asked]
           /\ before \in [Request -> SUBSET Request]
           /\ newer \in [Request -> SUBSET Offer]
           /\ cache \in [Offer -> Offers!Stages]
           /\ floor \in [Offer -> Offers!Stages]

PublishTypes ==
  /\ polled \in [Offer -> Offers!State]
  /\ data \in [Offer -> Known]
  /\ saved \in [polled : [Offer -> Offers!State], data : [Offer -> Known]]
  /\ missing \subseteq Offer
  /\ queue \in Seq(Learnt) /\ Len(queue) <= MaxQueue
  /\ pub \in Publishing /\ (pub.old # Offers!Nil => pub.offer \in Offer)
  /\ last \in [Offer -> [state : Offers!State, conf : BOOLEAN]]

LEMMA StateType == ASSUME NEW o, NEW s PROVE Offers!StateOf(o, s) \in Offers!State
  BY DEF Offers!StateOf, Offers!State

\* What an answer tells of is queued, each offer once.
LEMMA Pushed ==
  ASSUME IsFiniteSet(Offer), queue \in Seq(Learnt), NEW os \in SUBSET Offer,
         NEW got \in [Offer -> Offers!Stages]
  PROVE  /\ Offers!Push(os, got) \in Seq(Learnt)
         /\ Len(Offers!Push(os, got)) = Len(queue) + Cardinality(os)
<1>1. IsFiniteSet(os) BY FS_Subset
<1>2. Cardinality(os) \in Nat BY <1>1, FS_CardinalityType
<1>0. Offers!Cardinality(os) = Cardinality(os) BY DEF Offers!Cardinality, Cardinality
<1>3. Offers!SetToSeq(os) \in [1..Cardinality(os) -> os]
  <2>1. \E f \in [1..Cardinality(os) -> os] : Offers!IsInjective(f)
    BY <1>1, FS_CardinalityType DEF ExistsBijection, Bijection, Injection, IsInjective,
                                    Offers!IsInjective
  <2> QED BY <1>0, <2>1 DEF Offers!SetToSeq
<1> DEFINE new == [n \in 1..Cardinality(os) |->
                     LET o == Offers!SetToSeq(os)[n] IN [offer |-> o, stage |-> got[o]]]
<1>4. new \in [1..Cardinality(os) -> Learnt]
  <2> SUFFICES ASSUME NEW n \in 1..Cardinality(os)
               PROVE  LET o == Offers!SetToSeq(os)[n] IN [offer |-> o, stage |-> got[o]] \in Learnt
    OBVIOUS
  <2>1. Offers!SetToSeq(os)[n] \in Offer BY <1>3
  <2> QED BY <2>1 DEF Learnt
<1>5. new \in Seq(Learnt)
  BY <1>2, <1>4, SeqDef
<1> HIDE DEF new
<1>6. Len(new) = Cardinality(os)
  BY <1>2, <1>4, <1>5, LenProperties
<1>7. queue \o new \in Seq(Learnt) /\ Len(queue \o new) = Len(queue) + Len(new)
  BY <1>5, ConcatProperties
<1> QED BY <1>0, <1>6, <1>7 DEF Offers!Push, new

LEMMA IdleType == Offers!Idle \in Asked /\ Offers!NoPub \in Publishing /\ Offers!NoData \in Known
  BY DEF Offers!Idle, Offers!NoPub, Offers!NoData, Asked, Publishing, Known, Offers!State,
         Offers!Stages

\* Offers only move on.
StageMoves == stage' \in [Offer -> Offers!Stages] /\ \A o \in Offer : stage[o] <= stage'[o]

LEMMA EffectMoves ==
  ASSUME Answers, NEW r \in Request, stage' \in Offers!Effect(r)
  PROVE  StageMoves
<1>1. stage' \in [Offer -> Offers!Stages]
  BY DEF Offers!Effect, Answers, Offers!Stages, Offers!NotThere
<1>2. ASSUME NEW o \in Offer PROVE stage[o] <= stage'[o]
  <2>1. stage[o] \in Offers!Stages BY DEF Answers
  <2>2. stage' = stage \/ \E p : \/ stage[p] = 0 /\ \E s \in 1..2 : stage' = [stage EXCEPT ![p] = s]
                                 \/ stage[p] = 1 /\ \E s \in 2..3 : stage' = [stage EXCEPT ![p] = s]
    BY DEF Offers!Effect, Offers!NotThere
  <2> QED BY <2>1, <2>2 DEF Answers, Offers!Stages
<1> QED BY <1>1, <1>2 DEF StageMoves

LEMMA AnswersStep == Answers /\ PublishTypes /\ [Offers!Next]_(Offers!vars) => Answers'
<1> SUFFICES ASSUME Answers, PublishTypes, [Offers!Next]_(Offers!vars) PROVE Answers'
  OBVIOUS
<1> USE DEF Answers
<1>1. ASSUME NEW o \in Offer, Offers!Moves(o) PROVE Answers'
  BY <1>1 DEF Offers!Moves, Offers!requests, Offers!Stages, Offers!Over, Offers!Unlisted,
              Offers!NotThere
<1>2. ASSUME NEW o \in Offer, Offers!Uncache(o) PROVE Answers'
  BY <1>2 DEF Offers!Uncache, Offers!requests, Offers!Stages, Offers!NotThere
<1>3. ASSUME NEW o \in Offer,
             Offers!Forget(o) \/ Offers!EnsurePolldataPublished(o) \/ Offers!RefreshTrade(o)
      PROVE Answers'
  BY <1>3 DEF Offers!Forget, Offers!EnsurePolldataPublished, Offers!RefreshTrade, Offers!requests
<1>4. ASSUME NEW r \in Request, NEW kind \in Kind \ {"refresh"}, NEW o \in Offer \cup {Offers!Nil},
             Offers!Make(r, kind, o)
      PROVE Answers'
  <2>1. [Offers!Idle EXCEPT !.kind = kind, !.offer = o, !.from = stage] \in Asked
    <3>1. Offers!Idle \in Asked BY IdleType
    <3>2. [Offers!Idle EXCEPT !.kind = kind, !.offer = o] \in Asked BY <3>1 DEF Asked
    <3> QED BY <3>2 DEF Asked
  <2>2. request' \in [Request -> Asked] BY <1>4, <2>1 DEF Offers!Make
  <2> QED BY <1>4, <2>2 DEF Offers!Make, Offers!InHand
<1>5. ASSUME NEW r \in Request, Offers!Serve(r) PROVE Answers'
  <2>1. StageMoves BY <1>5, EffectMoves DEF Offers!Serve
  <2>2. [request[r] EXCEPT !.served = TRUE,
                           !.got = [o \in Offer |-> IF o \in Offers!Tells(r) THEN stage'[o]
                                                    ELSE Offers!NotThere]]
          \in Asked
    <3> DEFINE got == [o \in Offer |-> IF o \in Offers!Tells(r) THEN stage'[o] ELSE Offers!NotThere]
    <3>1. got \in [Offer -> Offers!Stages] BY <2>1 DEF StageMoves, Offers!Stages, Offers!NotThere
    <3> HIDE DEF got
    <3>2. request[r] \in Asked OBVIOUS
    <3>3. [request[r] EXCEPT !.served = TRUE, !.got = got] \in Asked BY <3>1, <3>2 DEF Asked
    <3> QED BY <3>3 DEF got
  <2>3. request' \in [Request -> Asked] BY <1>5, <2>2 DEF Offers!Serve
  <2> QED BY <1>5, <2>1, <2>3 DEF Offers!Serve, StageMoves
<1>6. ASSUME NEW r \in Request, Offers!Arrive(r) PROVE Answers'
  <2>1. request[r].got \in [Offer -> Offers!Stages] /\ request[r].from \in [Offer -> Offers!Stages]
    BY DEF Asked
  <2>2. cache' \in [Offer -> Offers!Stages] /\ newer' \in [Request -> SUBSET Offer]
          /\ floor' \in [Offer -> Offers!Stages]
    BY <1>6, <2>1 DEF Offers!Arrive, Offers!CacheOffers, Offers!SetCache
  <2>3. request' \in [Request -> Asked] /\ before' \in [Request -> SUBSET Request] /\ stage' = stage
    BY <1>6, IdleType DEF Offers!Arrive, Offers!Ends
  <2> QED BY <2>2, <2>3
<1>7. ASSUME NEW r \in Request, Offers!Refused(r) \/ Offers!AnswerFails(r) PROVE Answers'
  <2>1. Offers!Lost(r) BY <1>7 DEF Offers!Refused, Offers!AnswerFails
  <2> QED BY <2>1, IdleType DEF Offers!Lost, Offers!Ends
<1>8. ASSUME Offers!Take \/ Offers!PublishOffer \/ Offers!PublishConfirmation
               \/ Offers!Save PROVE Answers'
  BY <1>8 DEF Offers!Take, Offers!PublishOffer, Offers!PublishConfirmation, Offers!Save,
              Offers!requests
<1>9. ASSUME Offers!Restart PROVE Answers'
  <2>1. cache' \in [Offer -> Offers!Stages]
    BY <1>9 DEF Offers!Restart, Offers!Stages, Offers!NotThere
  <2> QED BY <1>9, <2>1, IdleType DEF Offers!Restart
<1>10. ASSUME UNCHANGED Offers!vars PROVE Answers'
  BY <1>10 DEF Offers!vars
<1> QED BY <1>1, <1>2, <1>3, <1>4, <1>5, <1>6, <1>7, <1>8, <1>9, <1>10 DEF Offers!Next

\* The poll data, with what is saved of it
LEMMA PollDataStep ==
  ASSUME Answers, PublishTypes, [Offers!Next]_(Offers!vars)
  PROVE  /\ polled' \in [Offer -> Offers!State] /\ data' \in [Offer -> Known]
         /\ missing' \subseteq Offer
         /\ saved' \in [polled : [Offer -> Offers!State], data : [Offer -> Known]]
<1> USE DEF PublishTypes
<1>1. ASSUME NEW r \in Request, Offers!Arrive(r)
      PROVE polled' \in [Offer -> Offers!State] /\ data' \in [Offer -> Known]
              /\ missing' \subseteq Offer
  <2>1. polled' \in [Offer -> Offers!State] BY <1>1, StateType DEF Offers!Arrive
  <2>2. data' \in [Offer -> Known] BY <1>1 DEF Offers!Arrive, Known
  <2>3. missing' \subseteq Offer BY <1>1 DEF Offers!Arrive, Offers!Cleanup
  <2> QED BY <2>1, <2>2, <2>3
<1>2. ASSUME NEW o \in Offer, Offers!Forget(o) \/ Offers!RefreshTrade(o)
      PROVE polled' \in [Offer -> Offers!State] /\ data' \in [Offer -> Known]
              /\ missing' \subseteq Offer
  <2>1. CASE Offers!Forget(o) BY <2>1, IdleType DEF Offers!Forget, Offers!State
  <2>2. CASE Offers!RefreshTrade(o)
    <3>1. Offers!StateOf(o, cache[o]) \in Offers!State BY StateType
    <3> QED BY <2>2, <3>1 DEF Offers!RefreshTrade, Known
  <2> QED BY <1>2, <2>1, <2>2
<1>3. ASSUME Offers!PublishOffer
      PROVE polled' \in [Offer -> Offers!State] /\ data' \in [Offer -> Known]
              /\ missing' \subseteq Offer
  <2>1. PICK s \in Offers!State : data' \in {data, [data EXCEPT ![pub.offer].published = s]}
    BY <1>3, StateType DEF Offers!PublishOffer
  <2>2. [data EXCEPT ![pub.offer].published = s] \in [Offer -> Known] BY <2>1 DEF Known
  <2> QED BY <1>3, <2>1, <2>2 DEF Offers!PublishOffer
<1>4. ASSUME Offers!PublishConfirmation
      PROVE polled' \in [Offer -> Offers!State] /\ data' \in [Offer -> Known]
              /\ missing' \subseteq Offer
  <2>1. data' \in {data, [data EXCEPT ![pub.offer].conf = TRUE]}
    BY <1>4 DEF Offers!PublishConfirmation
  <2>2. [data EXCEPT ![pub.offer].conf = TRUE] \in [Offer -> Known] BY DEF Known
  <2> QED BY <1>4, <2>1, <2>2 DEF Offers!PublishConfirmation
<1>5. ASSUME Offers!Restart
      PROVE polled' \in [Offer -> Offers!State] /\ data' \in [Offer -> Known]
              /\ missing' \subseteq Offer
  BY <1>5 DEF Offers!Restart
<1>6. ASSUME UNCHANGED Offers!pollData
      PROVE polled' \in [Offer -> Offers!State] /\ data' \in [Offer -> Known]
              /\ missing' \subseteq Offer
  BY <1>6 DEF Offers!pollData
<1>7. saved' \in [polled : [Offer -> Offers!State], data : [Offer -> Known]]
  <2>1. CASE Offers!Save BY <2>1 DEF Offers!Save
  <2>2. CASE UNCHANGED saved BY <2>2
  <2> QED BY <2>1, <2>2 DEF Offers!Next, Offers!Moves, Offers!Uncache, Offers!Forget,
                            Offers!EnsurePolldataPublished, Offers!RefreshTrade, Offers!Make,
                            Offers!Serve, Offers!Arrive, Offers!Refused, Offers!AnswerFails,
                            Offers!Lost, Offers!Take, Offers!PublishOffer,
                            Offers!PublishConfirmation, Offers!Restart, Offers!vars
<1>8. \/ UNCHANGED Offers!pollData \/ Offers!PublishOffer \/ Offers!PublishConfirmation
           \/ Offers!Restart
      \/ \E o \in Offer : Offers!Forget(o) \/ Offers!RefreshTrade(o)
      \/ \E r \in Request : Offers!Arrive(r)
  BY DEF Offers!Next, Offers!Moves, Offers!Uncache, Offers!EnsurePolldataPublished, Offers!Make,
         Offers!Serve, Offers!Refused, Offers!AnswerFails, Offers!Lost, Offers!Take, Offers!Save,
         Offers!vars, Offers!pollData
<1> HIDE DEF PublishTypes
<1> QED BY <1>1, <1>2, <1>3, <1>4, <1>5, <1>6, <1>7, <1>8, Zenon

\* The queue, and what it has taken
LEMMA QueueStep ==
  ASSUME PublishBounds, Answers, PublishTypes, [Offers!Next]_(Offers!vars)
  PROVE  /\ queue' \in Seq(Learnt) /\ Len(queue') <= MaxQueue
         /\ pub' \in Publishing /\ (pub'.old # Offers!Nil => pub'.offer \in Offer)
<1> USE DEF PublishTypes
<1>1. ASSUME NEW r \in Request, Offers!Arrive(r)
      PROVE queue' \in Seq(Learnt) /\ Len(queue') <= MaxQueue /\ pub' = pub
  <2>1. request[r].got \in [Offer -> Offers!Stages] /\ Offers!Told(r) \in SUBSET Offer
    BY DEF Answers, Asked, Offers!Told
  <2>2. Offers!Cardinality(Offers!Told(r)) = Cardinality(Offers!Told(r))
    BY DEF Offers!Cardinality, Cardinality
  <2> QED BY <1>1, <2>1, <2>2, Pushed DEF Offers!Arrive, PublishBounds, Offers!output
<1>2. ASSUME NEW o \in Offer, Offers!EnsurePolldataPublished(o)
      PROVE queue' \in Seq(Learnt) /\ Len(queue') <= MaxQueue /\ pub' = pub
  <2>1. [offer |-> o, stage |-> cache[o]] \in Learnt BY DEF Answers, Learnt
  <2>2. Len(queue) \in Nat /\ Len(queue) < MaxQueue
    BY <1>2, LenProperties DEF Offers!EnsurePolldataPublished
  <2>3. Append(queue, [offer |-> o, stage |-> cache[o]]) \in Seq(Learnt)
        /\ Len(Append(queue, [offer |-> o, stage |-> cache[o]])) = Len(queue) + 1
    BY <2>1, AppendProperties
  <2> QED BY <1>2, <2>2, <2>3 DEF Offers!EnsurePolldataPublished, PublishBounds, Offers!output
<1>3. ASSUME Offers!Take
      PROVE /\ queue' \in Seq(Learnt) /\ Len(queue') <= MaxQueue
            /\ pub' \in Publishing /\ (pub'.old # Offers!Nil => pub'.offer \in Offer)
  <2>1. Head(queue) \in Learnt /\ Tail(queue) \in Seq(Learnt) /\ Len(Tail(queue)) = Len(queue) - 1
    BY <1>3, HeadTailProperties DEF Offers!Take
  <2>2. Head(queue).offer \in Offer /\ Head(queue).stage \in Offers!Stages BY <2>1 DEF Learnt
  <2>3. Len(queue) \in Nat BY LenProperties
  <2>4. queue' = Tail(queue) BY <1>3 DEF Offers!Take
  <2>5. pub' \in Publishing /\ (pub'.old # Offers!Nil => pub'.offer \in Offer)
    BY <1>3, <2>2, IdleType DEF Offers!Take, Publishing, Offers!NoPub
  <2> QED BY <2>1, <2>3, <2>4, <2>5 DEF PublishBounds
<1>4. ASSUME Offers!PublishOffer \/ Offers!PublishConfirmation
      PROVE queue' = queue /\ pub' \in Publishing /\ (pub'.old # Offers!Nil => pub'.offer \in Offer)
  <2>1. Offers!NoPub \in Publishing /\ Offers!NoPub.old = Offers!Nil BY IdleType DEF Offers!NoPub
  <2>2. pub.old # Offers!Nil BY <1>4 DEF Offers!PublishOffer, Offers!PublishConfirmation, Offers!Nil
  <2>3. [pub EXCEPT !.old = "conf"] \in Publishing /\ [pub EXCEPT !.old = "conf"].offer = pub.offer
    BY DEF Publishing
  <2>4. queue' = queue /\ (pub' = Offers!NoPub \/ pub' = [pub EXCEPT !.old = "conf"])
    BY <1>4 DEF Offers!PublishOffer, Offers!PublishConfirmation
  <2> QED BY <2>1, <2>2, <2>3, <2>4
<1>5. ASSUME Offers!Restart PROVE queue' = <<>> /\ pub' = Offers!NoPub
  BY <1>5 DEF Offers!Restart
<1>6. CASE UNCHANGED <<queue, pub>> BY <1>6
<1>7. <<>> \in Seq(Learnt) /\ Len(<<>>) <= MaxQueue BY EmptySeq DEF PublishBounds
<1>8. Offers!NoPub \in Publishing /\ Offers!NoPub.old = Offers!Nil BY IdleType DEF Offers!NoPub
<1> QED BY <1>1, <1>2, <1>3, <1>4, <1>5, <1>6, <1>7, <1>8 DEF Offers!Next, Offers!Moves,
                                                              Offers!Uncache, Offers!Forget,
                                                              Offers!RefreshTrade, Offers!Make,
                                                              Offers!Serve, Offers!Refused,
                                                              Offers!AnswerFails, Offers!Lost,
                                                              Offers!Save, Offers!vars,
                                                              Offers!output

\* A state is told only of the offer that is being published, and a refresh tells what it is
LEMMA LastStep ==
  ASSUME PublishTypes, [Offers!Next]_(Offers!vars)
  PROVE  last' \in [Offer -> [state : Offers!State, conf : BOOLEAN]]
<1> USE DEF PublishTypes
<1>1. \/ UNCHANGED last
      \/ \E o \in Offer, s \in Offers!State : last' = [last EXCEPT ![o].state = s]
      \/ \E o \in Offer : last' = [last EXCEPT ![o].conf = TRUE]
  <2>1. ASSUME Offers!PublishOffer
        PROVE  UNCHANGED last
                 \/ \E o \in Offer, s \in Offers!State : last' = [last EXCEPT ![o].state = s]
    <3>1. pub.offer \in Offer BY <2>1 DEF Offers!PublishOffer, Offers!Nil
    <3> QED BY <2>1, <3>1, StateType DEF Offers!PublishOffer, Offers!Tell
  <2>2. ASSUME Offers!PublishConfirmation
        PROVE  UNCHANGED last \/ \E o \in Offer : last' = [last EXCEPT ![o].conf = TRUE]
    <3>1. pub.offer \in Offer BY <2>2 DEF Offers!PublishConfirmation, Offers!Nil
    <3> QED BY <2>2, <3>1 DEF Offers!PublishConfirmation
  <2>3. ASSUME NEW o \in Offer, Offers!RefreshTrade(o)
        PROVE \E s \in Offers!State : last' = [last EXCEPT ![o].state = s]
    BY <2>3, StateType DEF Offers!RefreshTrade
  <2> QED BY <2>1, <2>2, <2>3 DEF Offers!Next, Offers!Moves, Offers!Uncache, Offers!Forget,
                                  Offers!EnsurePolldataPublished, Offers!Make, Offers!Serve,
                                  Offers!Arrive, Offers!Refused, Offers!AnswerFails, Offers!Lost,
                                  Offers!Take, Offers!Save, Offers!Restart, Offers!vars,
                                  Offers!output
<1> QED BY <1>1

LEMMA PublishInit == ASSUME PublishBounds PROVE Offers!Init => Answers /\ PublishTypes
<1>1. <<>> \in Seq(Learnt) /\ Len(<<>>) = 0 BY EmptySeq
<1>2. Offers!NotThere \in Offers!Stages /\ Offers!Nil \in Offers!State
  BY DEF Offers!NotThere, Offers!Stages, Offers!State
<1>3. Offers!NoPub.old = Offers!Nil BY DEF Offers!NoPub
<1> QED BY <1>1, <1>2, <1>3, IdleType DEF Offers!Init, Answers, PublishTypes, PublishBounds

LEMMA PublishTypesStep ==
  ASSUME PublishBounds
    PROVE Answers /\ PublishTypes /\ [Offers!Next]_(Offers!vars) => (Answers /\ PublishTypes)'
  BY AnswersStep, PollDataStep, QueueStep, LastStep DEF PublishTypes

-------------------------------------------------------------------------------
\* What was told last is what the bot remembers to have published, or it is in doubt; and
\* what is about to be told is something else.
TellInv == \A o \in Offer : o \notin doubt =>
             /\ last[o].state = data[o].published
             /\ pub.old = "state" /\ pub.offer = o =>
                  Offers!StateOf(o, pub.stage) # data[o].published

LEMMA TellStep ==
  Answers /\ PublishTypes /\ TellInv /\ Offers!NoRepeat /\ [Offers!Next]_(Offers!vars) =>
    TellInv' /\ Offers!NoRepeat'
<1> SUFFICES ASSUME Answers, PublishTypes, TellInv, Offers!NoRepeat, [Offers!Next]_(Offers!vars)
    PROVE TellInv' /\ Offers!NoRepeat'
  OBVIOUS
<1>t. data \in [Offer -> Known] /\ last \in [Offer -> [state : Offers!State, conf : BOOLEAN]]
  BY DEF PublishTypes
<1>0. ours' = ours /\ \A o, s : Offers!StateOf(o, s)' = Offers!StateOf(o, s)
  <2>1. ours' = ours
    BY DEF Offers!Next, Offers!Moves, Offers!Uncache, Offers!Forget, Offers!EnsurePolldataPublished,
           Offers!RefreshTrade, Offers!Make, Offers!Serve, Offers!Arrive, Offers!Refused,
           Offers!AnswerFails, Offers!Lost, Offers!Take, Offers!PublishOffer,
           Offers!PublishConfirmation, Offers!Save, Offers!Restart, Offers!vars
  <2> QED BY <2>1 DEF Offers!StateOf
<1> USE DEF TellInv, Offers!NoRepeat
<1>1. ASSUME NEW r \in Request, Offers!Arrive(r) PROVE TellInv' /\ Offers!NoRepeat'
  <2>1. \A o \in Offer : data'[o].published = data[o].published
    BY <1>t, <1>1 DEF Offers!Arrive, Known
  <2> QED BY <1>0, <1>1, <2>1 DEF Offers!Arrive, Offers!output
<1>2. ASSUME NEW o \in Offer, Offers!Forget(o) PROVE TellInv' /\ Offers!NoRepeat'
  BY <1>0, <1>t, <1>2 DEF Offers!Forget, Offers!Quiet, Offers!NoPub, Offers!Nil
<1>3. ASSUME NEW o \in Offer, Offers!RefreshTrade(o) PROVE TellInv' /\ Offers!NoRepeat'
  BY <1>0, <1>t, <1>3 DEF Offers!RefreshTrade, Known
<1>4. ASSUME Offers!Take PROVE TellInv' /\ Offers!NoRepeat'
  <2>1. pub'.old = "state" => Offers!StateOf(pub'.offer, pub'.stage) # data[pub'.offer].published
    BY <1>4 DEF Offers!Take, Offers!NoPub, Offers!Nil, Offers!Unpublished
  <2>2. (pub.old = "state" => Offers!StateOf(pub.offer, pub.stage) # data[pub.offer].published)'
    BY <1>0, <1>4, <2>1 DEF Offers!Take, Offers!pollData, Offers!StateOf
  <2>3. UNCHANGED <<data, last, doubt, repeated>> BY <1>4 DEF Offers!Take, Offers!pollData
  <2> QED BY <2>1, <2>2, <2>3
<1>5. ASSUME Offers!PublishOffer PROVE TellInv' /\ Offers!NoRepeat'
  <2> DEFINE o == pub.offer
             s == Offers!StateOf(o, pub.stage)
  <2>1. pub.old = "state" /\ o \in Offer BY <1>5 DEF Offers!PublishOffer, PublishTypes, Offers!Nil
  <2>2. pub'.old # "state"
    BY <1>5, <2>1 DEF Offers!PublishOffer, Offers!NoPub, Offers!Nil, PublishTypes, Publishing
  <2>3. o \notin doubt => last[o].state # s BY <2>1
  <2>4. repeated' = {} BY <1>5, <2>3 DEF Offers!PublishOffer, Offers!Tell
  <2>5. CASE data' = [data EXCEPT ![o].published = s] /\ Offers!Tell(o, s) /\ doubt' = doubt \ {o}
    <3>1. last' = [last EXCEPT ![o].state = s] BY <2>5 DEF Offers!Tell
    <3>2. data'[o].published = s /\ last'[o].state = s BY <1>t, <2>1, <2>5, <3>1 DEF Known
    <3>3. \A p \in Offer : p # o => data'[p] = data[p] /\ last'[p] = last[p] BY <1>t, <2>5, <3>1
    <3> QED BY <1>0, <2>2, <2>4, <2>5, <3>2, <3>3
  <2>6. CASE UNCHANGED data /\ doubt' = doubt \cup {o}
          /\ (Offers!Tell(o, s) \/ UNCHANGED <<last, repeated>>)
    <3>1. \A p \in Offer : p # o => last'[p] = last[p] BY <1>t, <2>6 DEF Offers!Tell
    <3> QED BY <1>0, <2>2, <2>4, <2>6, <3>1
  <2> QED BY <1>5, <2>5, <2>6 DEF Offers!PublishOffer
<1>6. ASSUME Offers!PublishConfirmation PROVE TellInv' /\ Offers!NoRepeat'
  <2>1. \A p \in Offer : data'[p].published = data[p].published /\ last'[p].state = last[p].state
    BY <1>t, <1>6 DEF Offers!PublishConfirmation, Known
  <2>2. pub'.old # "state" BY <1>6 DEF Offers!PublishConfirmation, Offers!NoPub, Offers!Nil
  <2> QED BY <1>6, <2>1, <2>2 DEF Offers!PublishConfirmation
<1>7. ASSUME Offers!Restart PROVE TellInv' /\ Offers!NoRepeat'
  BY <1>7 DEF Offers!Restart
<1>8. ASSUME UNCHANGED <<pub, last, doubt, repeated, data>> PROVE TellInv' /\ Offers!NoRepeat'
  BY <1>0, <1>8
<1>9. \/ UNCHANGED <<pub, last, doubt, repeated, data>>
      \/ Offers!Take \/ Offers!PublishOffer \/ Offers!PublishConfirmation \/ Offers!Restart
      \/ \E o \in Offer : Offers!Forget(o) \/ Offers!RefreshTrade(o)
      \/ \E r \in Request : Offers!Arrive(r)
  BY DEF Offers!Next, Offers!Moves, Offers!Uncache, Offers!EnsurePolldataPublished, Offers!Make,
         Offers!Serve, Offers!Refused, Offers!AnswerFails, Offers!Lost, Offers!Save, Offers!vars,
         Offers!output, Offers!pollData
<1> QED BY <1>1, <1>2, <1>3, <1>4, <1>5, <1>6, <1>7, <1>8, <1>9

LEMMA TellInit == Offers!Init => TellInv /\ Offers!NoRepeat
  BY DEF Offers!Init, TellInv, Offers!NoRepeat, Offers!NoPub, Offers!NoData, Offers!Nil

\* No change is told twice in a row, however many requests, answers, failures and restarts
\* there are.
THEOREM NothingIsToldTwice == ASSUME PublishBounds PROVE Offers!Spec => []Offers!NoRepeat
<1>1. Offers!Init => Answers /\ PublishTypes /\ TellInv /\ Offers!NoRepeat
  BY PublishInit, TellInit
<1>2. Answers /\ PublishTypes /\ TellInv /\ Offers!NoRepeat /\ [Offers!Next]_(Offers!vars) =>
        (Answers /\ PublishTypes /\ TellInv /\ Offers!NoRepeat)'
  BY PublishTypesStep, TellStep
<1> QED BY <1>1, <1>2, PTL DEF Offers!Spec

-------------------------------------------------------------------------------
(* What is cached of the offers *)

\* The requests in hand are in one order, that in which they were made.
InOrder ==
  /\ \A r \in Request : r \notin Offers!InHand =>
        request[r] = Offers!Idle /\ before[r] = {} /\ newer[r] = {}
  /\ \A r \in Request : before[r] \subseteq Offers!InHand \ {r}
  /\ \A r, x \in Offers!InHand : r = x \/ r \in before[x] \/ x \in before[r]
  /\ \A r, x \in Request : x \in before[r] => before[x] \subseteq before[r]

\* A request is answered with an offer as it is when it was made, or later.
InTime ==
  \A r \in Offers!InHand, o \in Offer :
    /\ request[r].from[o] <= stage[o]
    /\ request[r].got[o] # Offers!NotThere => request[r].from[o] <= request[r].got[o]
    /\ request[r].got[o] <= stage[o]
    /\ \A x \in before[r] : request[x].from[o] <= request[r].from[o]

\* What a later request has cached is not behind; it is newer for what was made earlier too.
NewerInv ==
  \A r \in Offers!InHand, o \in Offer :
    /\ o \in newer[r] => /\ cache[o] # Offers!NotThere /\ cache[o] >= request[r].from[o]
                         /\ \A x \in before[r] : o \in newer[x]
    /\ o \notin newer[r] => floor[o] <= request[r].from[o]

\* What is cached was the case when it was asked for, or later.
Cached == \A o \in Offer : floor[o] <= cache[o] /\ cache[o] <= stage[o]

CacheInv == InOrder /\ InTime /\ NewerInv /\ Cached

LEMMA CacheInit == Offers!Init => CacheInv
  BY DEF Offers!Init, CacheInv, InOrder, InTime, NewerInv, Cached, Offers!InHand, Offers!Idle,
         Offers!Nil, Offers!NotThere

LEMMA CachedIsNotBehind == ASSUME Cached PROVE Offers!CacheNotBehind
  BY DEF Cached, Offers!CacheNotBehind

\* A request that ends leaves the others as they were.
LEMMA Ended ==
  ASSUME Answers, InOrder, NEW r \in Request, Offers!Ends(r), r \in Offers!InHand,
         \A x \in Request \ (Offers!InHand \ {r}) : newer'[x] = {}
  PROVE  /\ Offers!InHand' = Offers!InHand \ {r}
         /\ \A x \in Offers!InHand' : request'[x] = request[x] /\ before'[x] = before[x] \ {r}
         /\ InOrder'
<1>1. Offers!InHand' = Offers!InHand \ {r} BY DEF Offers!InHand, Offers!Ends, Answers, Offers!Idle
<1>2. \A x \in Offers!InHand' : request'[x] = request[x] /\ before'[x] = before[x] \ {r}
  BY <1>1 DEF Offers!InHand, Offers!Ends, Answers
<1>3. ASSUME NEW x \in Request, x \notin Offers!InHand'
      PROVE request'[x] = Offers!Idle /\ before'[x] = {} /\ newer'[x] = {}
  BY <1>1, <1>3 DEF InOrder, Offers!Ends, Answers
<1>4. ASSUME NEW x \in Request PROVE before'[x] \subseteq Offers!InHand' \ {x}
  BY <1>1, <1>4 DEF InOrder, Offers!Ends, Answers
<1>5. \A x, y \in Offers!InHand' : x = y \/ x \in before'[y] \/ y \in before'[x]
  BY <1>1, <1>2 DEF InOrder
<1>6. ASSUME NEW x \in Request, NEW y \in Request, y \in before'[x]
      PROVE before'[y] \subseteq before'[x]
  BY <1>6 DEF InOrder, Offers!Ends, Answers
<1> QED BY <1>1, <1>2, <1>3, <1>4, <1>5, <1>6 DEF InOrder

\* What is in hand does not change
LEMMA HandKept ==
  ASSUME UNCHANGED <<request, before, newer>>, InOrder
  PROVE  InOrder' /\ Offers!InHand' = Offers!InHand
  BY DEF InOrder, Offers!InHand

LEMMA CacheStep == Answers /\ PublishBounds /\ CacheInv /\ [Offers!Next]_(Offers!vars) => CacheInv'
<1> SUFFICES ASSUME Answers, PublishBounds, CacheInv, [Offers!Next]_(Offers!vars) PROVE CacheInv'
  OBVIOUS
<1> USE DEF CacheInv
<1>t. /\ \A r \in Request, o \in Offer : request[r].from[o] \in Nat /\ request[r].got[o] \in Nat
      /\ \A o \in Offer : cache[o] \in Nat /\ floor[o] \in Nat /\ stage[o] \in Nat
      /\ Offers!InHand \subseteq Request
  <2>1. ASSUME NEW r \in Request
        PROVE request[r].from \in [Offer -> Offers!Stages]
                /\ request[r].got \in [Offer -> Offers!Stages]
    BY DEF Answers, Asked
  <2>2. Offers!Stages \subseteq Nat BY DEF Offers!Stages
  <2> QED BY <2>1, <2>2 DEF Answers, Offers!InHand
<1>1. ASSUME UNCHANGED Offers!requests, UNCHANGED <<cache, floor>>, StageMoves PROVE CacheInv'
  <2>1. InOrder' /\ Offers!InHand' = Offers!InHand /\ request' = request /\ before' = before
          /\ newer' = newer
    BY <1>1, HandKept DEF Offers!requests
  <2>2. \A o \in Offer : stage'[o] \in Nat /\ stage[o] <= stage'[o]
    BY <1>1 DEF StageMoves, Offers!Stages
  <2>3. InTime' BY <1>t, <2>1, <2>2 DEF InTime
  <2>4. Cached' BY <1>t, <1>1, <2>2 DEF Cached
  <2>5. NewerInv' BY <1>1, <2>1 DEF NewerInv
  <2> QED BY <2>1, <2>3, <2>4, <2>5
<1>2. ASSUME NEW o \in Offer, Offers!Uncache(o) PROVE CacheInv'
  <2>1. InOrder' /\ Offers!InHand' = {} /\ UNCHANGED stage
    BY <1>2, HandKept DEF Offers!Uncache, Offers!requests
  <2>2. cache' = [cache EXCEPT ![o] = 0] /\ floor' = [floor EXCEPT ![o] = 0]
    BY <1>2 DEF Offers!Uncache, Offers!NotThere
  <2>3. Cached' BY <1>t, <2>1, <2>2 DEF Answers, Cached
  <2> QED BY <2>1, <2>3 DEF InTime, NewerInv
<1>3. ASSUME NEW r \in Request, NEW kind \in Kind \ {"refresh"}, NEW o \in Offer \cup {Offers!Nil},
             Offers!Make(r, kind, o)
      PROVE CacheInv'
  <2>1. r \notin Offers!InHand /\ kind # Offers!Nil
    BY <1>3 DEF Offers!Make, Offers!InHand, PublishBounds
  <2>2. /\ request'[r].kind = kind /\ request'[r].from = stage
        /\ request'[r].got = [p \in Offer |-> 0]
        /\ before'[r] = Offers!InHand /\ newer'[r] = {}
        /\ \A x \in Request \ {r} : request'[x] = request[x] /\ before'[x] = before[x]
             /\ newer'[x] = newer[x]
        /\ UNCHANGED <<stage, cache, floor>>
    BY <1>3 DEF Offers!Make, Answers, Offers!Idle
  <2>3. Offers!InHand' = Offers!InHand \cup {r} BY <2>1, <2>2 DEF Offers!InHand
  <2>4. InOrder'
    <3>1. \A x \in Request : x \notin Offers!InHand' =>
          request'[x] = Offers!Idle /\ before'[x] = {} /\ newer'[x] = {}
      BY <2>2, <2>3 DEF InOrder
    <3>2. \A x \in Request : before'[x] \subseteq Offers!InHand' \ {x}
      BY <2>1, <2>2, <2>3 DEF InOrder
    <3>3. \A x, y \in Offers!InHand' : x = y \/ x \in before'[y] \/ y \in before'[x]
      BY <1>t, <2>1, <2>2, <2>3 DEF InOrder
    <3>4. \A x, y \in Request : y \in before'[x] => before'[y] \subseteq before'[x]
      BY <2>1, <2>2 DEF InOrder
    <3> QED BY <3>1, <3>2, <3>3, <3>4 DEF InOrder
  <2>5. InTime'
    BY <1>t, <2>1, <2>2, <2>3 DEF InTime, InOrder, Offers!NotThere
  <2>6. ASSUME NEW x \in Offers!InHand', NEW p \in Offer
        PROVE  /\ p \in newer'[x] => /\ cache'[p] # Offers!NotThere
                                    /\ cache'[p] >= request'[x].from[p]
                                    /\ \A y \in before'[x] : p \in newer'[y]
               /\ p \notin newer'[x] => floor'[p] <= request'[x].from[p]
    <3>1. CASE x = r
      <4>1. floor[p] <= stage[p] BY <1>t DEF Cached
      <4> QED BY <2>2, <3>1, <4>1
    <3>2. CASE x # r
      <4>1. x \in Offers!InHand /\ x \in Request BY <1>t, <2>3, <3>2
      <4>2. \A y \in before[x] : y # r /\ y \in Request BY <1>t, <2>1, <4>1 DEF InOrder
      <4> QED BY <2>2, <3>2, <4>1, <4>2 DEF NewerInv
    <3> QED BY <3>1, <3>2
  <2>7. NewerInv' BY <2>6 DEF NewerInv
  <2> QED BY <2>2, <2>4, <2>5, <2>7 DEF Cached
<1>4. ASSUME NEW r \in Request, Offers!Serve(r) PROVE CacheInv'
  <2>1. StageMoves BY <1>4, EffectMoves DEF Offers!Serve
  <2>2. /\ \A x \in Request \ {r} : request'[x] = request[x]
        /\ request'[r].from = request[r].from /\ request'[r].kind = request[r].kind
        /\ \A p \in Offer : request'[r].got[p] \in {0, stage'[p]}
        /\ UNCHANGED <<before, newer, cache, floor>> /\ r \in Offers!InHand
    <3>1. request[r] \in Asked BY DEF Answers
    <3>2. request'[r] =
            [request[r] EXCEPT !.served = TRUE,
                               !.got = [o \in Offer |-> IF o \in Offers!Tells(r) THEN stage'[o]
                                                        ELSE Offers!NotThere]]
      BY <1>4 DEF Offers!Serve, Answers
    <3>3. /\ request'[r].from = request[r].from /\ request'[r].kind = request[r].kind
          /\ \A p \in Offer : request'[r].got[p] \in {0, stage'[p]}
      BY <3>1, <3>2 DEF Asked, Offers!NotThere
    <3> QED BY <1>4, <3>3 DEF Offers!Serve, Answers, Offers!InHand
  <2>3. Offers!InHand' = Offers!InHand BY <2>2 DEF Offers!InHand
  <2>4. InOrder' BY <2>2, <2>3 DEF InOrder
  <2>5. InTime'
    <3>1. \A p \in Offer : stage'[p] \in Nat /\ stage[p] <= stage'[p]
      BY <2>1 DEF StageMoves, Offers!Stages
    <3>2. ASSUME NEW x \in Offers!InHand, NEW p \in Offer
          PROVE  /\ request'[x].from[p] = request[x].from[p] /\ request[x].from[p] <= stage'[p]
                 /\ request'[x].got[p] # 0 => request[x].from[p] <= request'[x].got[p]
                 /\ request'[x].got[p] <= stage'[p]
      BY <1>t, <2>2, <3>1 DEF InTime, Offers!NotThere
    <3> QED BY <1>t, <2>2, <2>3, <3>2 DEF InTime, InOrder, Offers!NotThere
  <2>6. NewerInv' BY <1>t, <2>2, <2>3 DEF NewerInv
  <2>7. Cached' BY <1>t, <2>1, <2>2 DEF Cached, StageMoves, Offers!Stages
  <2> QED BY <2>4, <2>5, <2>6, <2>7
<1>5. ASSUME NEW r \in Request, Offers!Arrive(r) PROVE CacheInv'
  <2> DEFINE from == request[r].from
             got == request[r].got
             stored == Offers!SetCache(r)
  <2>1. Offers!Ends(r) /\ r \in Offers!InHand /\ UNCHANGED stage
    BY <1>5 DEF Offers!Arrive, Offers!InHand, InOrder, Offers!Idle
  <2>2. /\ \A o \in Offer : cache'[o] = IF o \in stored THEN got[o] ELSE cache[o]
        /\ \A o \in Offer : 
             floor'[o] = IF got[o] # 0 /\ from[o] > floor[o] THEN from[o] ELSE floor[o]
        /\ \A x \in Request : newer'[x] = IF x \in before[r] THEN newer[x] \cup stored
                                            ELSE IF x = r THEN {} ELSE newer[x]
        /\ \A o \in Offer : o \in stored <=> got[o] # 0 /\ o \notin newer[r]
    BY <1>5 DEF Offers!Arrive, Offers!CacheOffers, Offers!SetCache, Offers!NotThere
  <2> HIDE DEF stored
  <2>3. \A x \in Request \ (Offers!InHand \ {r}) : newer'[x] = {}
    BY <2>1, <2>2 DEF InOrder
  <2>4. /\ Offers!InHand' = Offers!InHand \ {r}
        /\ \A x \in Offers!InHand' : request'[x] = request[x] /\ before'[x] = before[x] \ {r}
        /\ InOrder'
    BY <2>1, <2>3, Ended
  <2>5. InTime' BY <1>t, <2>1, <2>4 DEF InTime, InOrder
  <2>6. ASSUME NEW o \in Offer PROVE got[o] <= stage[o] /\ (got[o] # 0 => from[o] <= got[o])
    BY <2>1 DEF InTime, Offers!NotThere
  <2>8. ASSUME NEW x \in Offers!InHand', NEW o \in Offer, o \in newer'[x]
        PROVE  /\ cache'[o] # 0 /\ cache'[o] >= request'[x].from[o]
               /\ \A y \in before'[x] : o \in newer'[y]
    <3>1. CASE o \in newer[x]
      <4>1. /\ cache[o] # 0 /\ cache[o] >= request[x].from[o]
            /\ \A y \in before[x] : o \in newer[y]
        BY <2>4, <3>1 DEF NewerInv, Offers!NotThere
      <4>2. o \in stored => x \in before[r]
        BY <2>1, <2>2, <2>4, <4>1 DEF InOrder
      <4>3. x \in before[r] => request[x].from[o] <= from[o] BY <2>1 DEF InTime
      <4>4. cache'[o] # 0 /\ cache'[o] >= request'[x].from[o]
        BY <1>t, <2>1, <2>2, <2>4, <2>6, <4>1, <4>2, <4>3
      <4>5. ASSUME NEW y \in before'[x] PROVE o \in newer'[y]
        <5>1. y \in before[x] /\ y # r /\ y \in Request BY <1>t, <2>4, <4>5 DEF InOrder, Answers
        <5> QED BY <2>2, <4>1, <5>1
      <4> QED BY <4>4, <4>5
    <3>2. CASE x \in before[r] /\ o \in stored
      <4>1. request[x].from[o] <= from[o] BY <2>1, <3>2 DEF InTime
      <4>2. cache'[o] # 0 /\ cache'[o] >= request'[x].from[o]
        BY <1>t, <2>1, <2>2, <2>4, <2>6, <3>2, <4>1
      <4>3. before[x] \subseteq before[r] BY <1>t, <2>1, <2>4, <3>2 DEF InOrder
      <4>4. ASSUME NEW y \in before'[x] PROVE o \in newer'[y]
        <5>1. y \in before[x] /\ y \in Request BY <1>t, <2>4, <4>4 DEF InOrder, Answers
        <5> QED BY <2>2, <3>2, <4>3, <5>1
      <4> QED BY <4>2, <4>4
    <3> QED BY <1>t, <2>2, <2>4, <2>8, <3>1, <3>2
  <2>9. ASSUME NEW x \in Offers!InHand', NEW o \in Offer, o \notin newer'[x]
        PROVE floor'[o] <= request'[x].from[o]
    <3>1. x \in Request /\ x \in Offers!InHand /\ x # r BY <1>t, <2>4
    <3>2. o \notin newer[x] /\ floor[o] <= request[x].from[o] BY <2>2, <2>9, <3>1 DEF NewerInv
    <3>3. CASE x \in before[r]
      <4>1. got[o] = 0 BY <2>1, <2>2, <2>9, <3>1, <3>2, <3>3 DEF NewerInv
      <4> QED BY <2>2, <2>4, <3>2, <4>1
    <3>4. CASE r \in before[x]
      <4>1. from[o] <= request[x].from[o] BY <3>1, <3>4 DEF InTime
      <4> QED BY <2>2, <2>4, <3>2, <4>1
    <3> QED BY <2>1, <3>1, <3>3, <3>4 DEF InOrder
  <2>10. ASSUME NEW o \in Offer PROVE floor'[o] <= cache'[o] /\ cache'[o] <= stage'[o]
    <3>1. o \notin newer[r] => floor[o] <= from[o] BY <2>1 DEF NewerInv
    <3>2. o \in newer[r] => cache[o] >= from[o] BY <2>1 DEF NewerInv
    <3>3. floor[o] <= cache[o] /\ cache[o] <= stage[o] BY DEF Cached
    <3> QED BY <1>t, <2>1, <2>2, <2>6, <2>10, <3>1, <3>2, <3>3
  <2>11. NewerInv' BY <2>8, <2>9 DEF NewerInv, Offers!NotThere
  <2>12. Cached' BY <2>10 DEF Cached
  <2> QED BY <2>4, <2>5, <2>11, <2>12
<1>6. ASSUME NEW r \in Request, Offers!Refused(r) \/ Offers!AnswerFails(r) PROVE CacheInv'
  <2>1. Offers!Lost(r) /\ r \in Offers!InHand
    BY <1>6 DEF Offers!Refused, Offers!AnswerFails, Offers!InHand, Offers!Nil
  <2>2. Offers!Ends(r) /\ newer' = [newer EXCEPT ![r] = {}] /\ UNCHANGED <<stage, cache, floor>>
    BY <2>1 DEF Offers!Lost
  <2>3. \A x \in Request \ (Offers!InHand \ {r}) : newer'[x] = {}
    BY <2>2 DEF Answers, InOrder
  <2>4. /\ Offers!InHand' = Offers!InHand \ {r}
        /\ \A x \in Offers!InHand' : request'[x] = request[x] /\ before'[x] = before[x] \ {r}
        /\ InOrder'
    BY <2>1, <2>2, <2>3, Ended
  <2>5. \A x \in Offers!InHand' : newer'[x] = newer[x] BY <1>t, <2>2, <2>4 DEF Answers
  <2>6. InTime' BY <1>t, <2>2, <2>4 DEF InTime, InOrder
  <2>7. NewerInv' BY <1>t, <2>2, <2>4, <2>5 DEF NewerInv, InOrder
  <2> QED BY <2>2, <2>4, <2>6, <2>7 DEF Cached
<1>7. ASSUME Offers!Restart PROVE CacheInv'
  BY <1>7, <1>t DEF Offers!Restart, InOrder, InTime, NewerInv, Cached, Offers!InHand,
                    Offers!Idle, Offers!Nil, Offers!NotThere
<1>8. ASSUME NEW o \in Offer, Offers!Moves(o) PROVE CacheInv'
  <2>1. StageMoves
    BY <1>8 DEF Offers!Moves, StageMoves, Answers, Offers!Stages, Offers!Over, Offers!Unlisted,
                Offers!NotThere
  <2> QED BY <1>1, <1>8, <2>1 DEF Offers!Moves
<1>9. ASSUME UNCHANGED <<stage, Offers!requests, cache, floor>> PROVE CacheInv'
  <2>1. StageMoves BY <1>9, <1>t DEF StageMoves, Answers
  <2> QED BY <1>1, <1>9, <2>1
<1>10. \/ UNCHANGED <<stage, Offers!requests, cache, floor>> \/ Offers!Restart
       \/ \E o \in Offer : Offers!Moves(o) \/ Offers!Uncache(o)
       \/ \E r \in Request, kind \in Kind \ {"refresh"}, o \in Offer \cup {Offers!Nil} :
            Offers!Make(r, kind, o)
       \/ \E r \in Request : Offers!Serve(r) \/ Offers!Arrive(r) \/ Offers!Refused(r)
            \/ Offers!AnswerFails(r)
  <2>1. ASSUME NEW o \in Offer,
               Offers!Forget(o) \/ Offers!EnsurePolldataPublished(o) \/ Offers!RefreshTrade(o)
        PROVE  UNCHANGED <<stage, Offers!requests, cache, floor>>
    BY <2>1 DEF Offers!Forget, Offers!EnsurePolldataPublished, Offers!RefreshTrade
  <2>2. ASSUME Offers!Take \/ Offers!PublishOffer \/ Offers!PublishConfirmation \/ Offers!Save
                 \/ UNCHANGED Offers!vars
        PROVE  UNCHANGED <<stage, Offers!requests, cache, floor>>
    BY <2>2 DEF Offers!Take, Offers!PublishOffer, Offers!PublishConfirmation, Offers!Save,
                Offers!vars, Offers!requests
  <2> QED BY <2>1, <2>2 DEF Offers!Next
<1> QED BY <1>2, <1>3, <1>4, <1>5, <1>6, <1>7, <1>8, <1>9, <1>10

\* An answer never replaces one that was asked for later, for any number of requests in hand,
\* in any order of the answers.
THEOREM CacheIsNotBehind == ASSUME PublishBounds PROVE Offers!Spec => []Offers!CacheNotBehind
<1>1. Offers!Init => Answers /\ PublishTypes /\ CacheInv BY PublishInit, CacheInit
<1>2. Answers /\ PublishTypes /\ CacheInv /\ [Offers!Next]_(Offers!vars) =>
      (Answers /\ PublishTypes /\ CacheInv)'
  BY PublishTypesStep, CacheStep
<1>3. CacheInv => Offers!CacheNotBehind BY CachedIsNotBehind DEF CacheInv
<1> QED BY <1>1, <1>2, <1>3, PTL DEF Offers!Spec

-------------------------------------------------------------------------------
(* FreshCache *)

\* Offers that move on, at Steam or by a request of the bot, move on.
LEMMA Moving == ASSUME StageMoves, UNCHANGED <<cache, floor>> PROVE Mirror!Move
  BY DEF StageMoves, Offers!Stages, Mirror!Move

\* An answer that arrives is learnt: of the offers it tells of, those that a later one has
\* told of are left as they are, and the others cached.
LEMMA Learns ==
  ASSUME Answers, Answers', CacheInv, CacheInv', NEW r \in Request, Offers!Arrive(r) PROVE Mirror!Learn
<1>1. r \in Offers!InHand /\ UNCHANGED stage
  BY DEF Offers!Arrive, Offers!InHand, CacheInv, InOrder, Offers!Idle
<1>2. /\ cache' \in [Offer -> Nat] /\ floor' \in [Offer -> Nat]
      /\ cache \in [Offer -> Nat] /\ floor \in [Offer -> Nat] /\ stage \in [Offer -> Nat]
      /\ request[r].from \in [Offer -> Nat]
  <2>1. Offers!Stages \subseteq Nat BY DEF Offers!Stages
  <2>2. request[r].from \in [Offer -> Offers!Stages] BY DEF Answers, Asked
  <2> QED BY <2>1, <2>2 DEF Answers
<1>3. ASSUME NEW o \in Offer
      PROVE  \/ cache'[o] = cache[o] /\ floor'[o] = floor[o]
             \/ /\ floor[o] <= floor'[o] /\ floor'[o] <= cache'[o]
                /\ cache'[o] # 0 /\ cache'[o] <= stage[o]
  <2>1. /\ cache'[o] = IF o \in Offers!SetCache(r) THEN request[r].got[o] ELSE cache[o]
        /\ floor'[o] = IF request[r].got[o] # 0 /\ request[r].from[o] > floor[o]
                       THEN request[r].from[o] ELSE floor[o]
        /\ o \in Offers!SetCache(r) <=> request[r].got[o] # 0 /\ o \notin newer[r]
    BY DEF Offers!Arrive, Offers!CacheOffers, Offers!SetCache, Offers!NotThere
  <2>2. o \in newer[r] => cache[o] # 0 BY <1>1 DEF CacheInv, NewerInv, Offers!NotThere
  <2>3. floor'[o] <= cache'[o] /\ cache'[o] <= stage'[o] BY DEF CacheInv, Cached
  <2>4. floor[o] <= floor'[o] BY <1>2, <2>1
  <2> QED BY <1>1, <2>1, <2>2, <2>3, <2>4
<1> QED BY <1>1, <1>2, <1>3 DEF Mirror!Learn

\* An entry expires, and a process that is started again has none.
LEMMA Drops ==
  ASSUME Answers, Offers!Restart \/ \E o \in Offer : Offers!Uncache(o) PROVE Mirror!Drop
<1>1. PICK ts \in SUBSET Offer :
        /\ cache' = [o \in Offer |-> IF o \in ts THEN 0 ELSE cache[o]]
        /\ floor' = [o \in Offer |-> IF o \in ts THEN 0 ELSE floor[o]]
  <2>1. CASE Offers!Restart
    <3> WITNESS Offer \in SUBSET Offer
    <3> QED BY <2>1 DEF Offers!Restart, Offers!NotThere
  <2>2. ASSUME NEW o \in Offer, Offers!Uncache(o)
        PROVE  \E ts \in SUBSET Offer :
                 /\ cache' = [p \in Offer |-> IF p \in ts THEN 0 ELSE cache[p]]
                 /\ floor' = [p \in Offer |-> IF p \in ts THEN 0 ELSE floor[p]]
    <3> WITNESS {o} \in SUBSET Offer
    <3> QED BY <2>2 DEF Answers, Offers!Uncache, Offers!NotThere
  <2> QED BY <2>1, <2>2
<1>2. UNCHANGED stage BY DEF Offers!Restart, Offers!Uncache
<1> QED BY <1>1, <1>2 DEF Mirror!Drop

\* Every step is one of the abstract cache, or none.
LEMMA MirrorStep ==
  ASSUME PublishBounds, Answers, PublishTypes, CacheInv, [Offers!Next]_(Offers!vars)
  PROVE  [Mirror!Next]_(Mirror!vars)
<1> USE DEF Mirror!Next
<1>1. Answers' /\ CacheInv' BY AnswersStep, CacheStep
<1>2. ASSUME NEW o \in Offer, Offers!Moves(o) PROVE Mirror!Move
  <2>1. StageMoves
    BY <1>2 DEF Offers!Moves, StageMoves, Answers, Offers!Stages, Offers!Over, Offers!Unlisted,
                Offers!NotThere
  <2> QED BY <1>2, <2>1, Moving DEF Offers!Moves
<1>3. ASSUME NEW r \in Request, Offers!Serve(r) PROVE Mirror!Move
  <2>1. StageMoves BY <1>3, EffectMoves DEF Offers!Serve
  <2> QED BY <1>3, <2>1, Moving DEF Offers!Serve
<1>4. ASSUME NEW r \in Request, Offers!Arrive(r) PROVE Mirror!Learn BY <1>1, <1>4, Learns
<1>5. CASE Offers!Restart \/ \E o \in Offer : Offers!Uncache(o) BY <1>5, Drops
<1>6. \/ UNCHANGED <<stage, cache, floor>> \/ Offers!Restart
      \/ \E o \in Offer : Offers!Moves(o) \/ Offers!Uncache(o)
      \/ \E r \in Request : Offers!Serve(r) \/ Offers!Arrive(r)
  BY DEF Offers!Next, Offers!Forget, Offers!EnsurePolldataPublished, Offers!RefreshTrade, Offers!Make,
         Offers!Refused, Offers!AnswerFails, Offers!Lost, Offers!Take, Offers!PublishOffer,
         Offers!PublishConfirmation, Offers!Save, Offers!vars
<1> QED BY <1>2, <1>3, <1>4, <1>5, <1>6 DEF Mirror!vars

-------------------------------------------------------------------------------
LEMMA PublishTyped == Answers /\ PublishTypes /\ CacheInv => Offers!TypeOK
<1> SUFFICES ASSUME Answers, PublishTypes, CacheInv PROVE Offers!TypeOK OBVIOUS
<1>1. ASSUME NEW r \in Request PROVE request[r].got \in [Offer -> Offers!Stages]
  BY DEF Answers, Asked
<1>2. pub.stage \in Offers!Stages BY DEF PublishTypes, Publishing
<1>3. \A o \in Offer : data[o].published \in Offers!State BY DEF PublishTypes, Known
<1>4. \A r \in Request : before[r] \subseteq Offers!InHand BY DEF CacheInv, InOrder
<1> QED BY <1>1, <1>2, <1>3, <1>4 DEF Answers, PublishTypes, Offers!TypeOK

\* The bot's record of its offers is type correct: requests in hand are told apart from
\* those that are over, and no more is queued than there is room for.
THEOREM PublishTypeCorrect == ASSUME PublishBounds PROVE Offers!Spec => []Offers!TypeOK
<1>1. Offers!Init => Answers /\ PublishTypes /\ CacheInv BY PublishInit, CacheInit
<1>2. Answers /\ PublishTypes /\ CacheInv /\ [Offers!Next]_(Offers!vars) =>
      (Answers /\ PublishTypes /\ CacheInv)'
  BY PublishTypesStep, CacheStep
<1> QED BY <1>1, <1>2, PublishTyped, PTL DEF Offers!Spec
-------------------------------------------------------------------------------
(* All of them side by side *)

parts == <<component, vars, holds, twins, tells>>

\* A step is one of each of them, or leaves it as it is.
LEMMA OneOfThem ==
  [MCNext]_parts => [Next]_vars /\ [Hold!Next]_(Hold!vars) /\ [Offers!Next]_(Offers!vars)
  BY DEF MCNext, parts, holds, tells, vars, Hold!vars, Offers!vars, Offers!requests

\* The heartbeats of a bot, the jobs of trade holds and what the bot tells of its offers keep
\* their types side by side, for any values of the constants of each.
THEOREM TypesCorrect == ASSUME HoldBounds, PublishBounds PROVE MCSpec => []TypesOK
<1> DEFINE Inv == /\ BeatInv
                  /\ HoldTypes /\ HoldInv
                  /\ Answers /\ PublishTypes /\ CacheInv
<1>1. MCInit => Inv
  BY InitType, InitSound, HoldInit, PublishInit, CacheInit DEF MCInit, BeatInv
<1>2. Inv /\ [MCNext]_parts => Inv'
  <2> SUFFICES ASSUME Inv, [MCNext]_parts PROVE Inv' OBVIOUS
  <2>1. BeatInv' BY OneOfThem, TypeStep, TypeParts, BeatingStep, SoundStep DEF BeatInv
  <2>2. (HoldTypes /\ HoldInv)' BY OneOfThem, HoldStep
  <2>3. (Answers /\ PublishTypes /\ CacheInv)' BY OneOfThem, PublishTypesStep, CacheStep
  <2> QED BY <2>1, <2>2, <2>3
<1>3. Inv => TypesOK BY HoldTyped, PublishTyped DEF BeatInv, TypesOK
<1> HIDE DEF Inv
<1> QED BY <1>1, <1>2, <1>3, PTL DEF MCSpec, parts

\* Beside the others too, whoever brings a token is not turned away with an error from before.
THEOREM NoStaleRefusalBesideParts == ASSUME HoldBounds PROVE MCSpec => []NoStaleRefusal
<1>1. MCInit => HoldTypes /\ HoldInv BY HoldInit DEF MCInit
<1>2. HoldTypes /\ HoldInv /\ [MCNext]_parts => (HoldTypes /\ HoldInv)' BY OneOfThem, HoldStep
<1>3. HoldInv => NoStaleRefusal BY DEF HoldInv, NoStaleRefusal
<1> QED BY <1>1, <1>2, <1>3, PTL DEF MCSpec, parts

\* Nor is a change of an offer told twice in a row,
THEOREM NoRepeatBesideParts == ASSUME PublishBounds PROVE MCSpec => []NoRepeat
<1> DEFINE Inv == Answers /\ PublishTypes /\ TellInv /\ Offers!NoRepeat
<1>1. MCInit => Inv BY PublishInit, TellInit DEF MCInit
<1>2. Inv /\ [MCNext]_parts => Inv' BY OneOfThem, PublishTypesStep, TellStep
<1>3. Inv => NoRepeat BY DEF NoRepeat
<1> HIDE DEF Inv
<1> QED BY <1>1, <1>2, <1>3, PTL DEF MCSpec, parts

\* and an answer does not replace one that was asked for later.
THEOREM CacheNotBehindBesideParts == ASSUME PublishBounds PROVE MCSpec => []CacheNotBehind
<1> DEFINE Inv == Answers /\ PublishTypes /\ CacheInv
<1>1. MCInit => Inv BY PublishInit, CacheInit DEF MCInit
<1>2. Inv /\ [MCNext]_parts => Inv' BY OneOfThem, PublishTypesStep, CacheStep
<1>3. Inv => CacheNotBehind BY CachedIsNotBehind DEF CacheInv, CacheNotBehind
<1> HIDE DEF Inv
<1> QED BY <1>1, <1>2, <1>3, PTL DEF MCSpec, parts

\* And the bot's cache is one that does not go back in time, for any number of requests in
\* hand and whichever way they are answered: it implements FreshCache.
THEOREM CacheIsAMirror == ASSUME PublishBounds PROVE MCSpec => Mirror!Spec
<1> DEFINE Inv == Answers /\ PublishTypes /\ CacheInv
<1>1. MCInit => Inv BY PublishInit, CacheInit DEF MCInit
<1>2. Inv /\ [MCNext]_parts => Inv' BY OneOfThem, PublishTypesStep, CacheStep
<1>3. MCInit => Mirror!Init
  BY DEF MCInit, Offers!Init, Mirror!Init, Mirror!Nothing, Offers!NotThere
<1>4. Inv /\ [MCNext]_parts => [Mirror!Next]_(Mirror!vars) BY OneOfThem, MirrorStep
<1> HIDE DEF Inv
<1> QED BY <1>1, <1>2, <1>3, <1>4, PTL DEF MCSpec, Mirror!Spec, parts

\* What the bot has cached of an offer is a stage the offer was at since it was asked for: not
\* one from before the latest request that has been answered, and none that is yet to come.
THEOREM WhatIsCachedIsFresh == ASSUME PublishBounds PROVE MCSpec => []Mirror!Fresh
<1> DEFINE Inv == Answers /\ PublishTypes /\ CacheInv
<1>1. MCInit => Inv BY PublishInit, CacheInit DEF MCInit
<1>2. Inv /\ [MCNext]_parts => Inv' BY OneOfThem, PublishTypesStep, CacheStep
<1>3. Inv => Mirror!Fresh BY DEF Answers, Offers!Stages, CacheInv, Cached, Mirror!Fresh
<1> HIDE DEF Inv
<1> QED BY <1>1, <1>2, <1>3, PTL DEF MCSpec, parts
===============================================================================

------------------------------- MODULE Heartbeats -------------------------------
(***************************************************************************)
(* How the bot-manager knows which bots run.  A bot that is ready and      *)
(* connected to Steam sends heartbeats.  Each one that is accepted leaves  *)
(* a job that is to check, one and a half intervals later, that another    *)
(* one has come.  Whoever asks for the bot may find that it has gone, and  *)
(* a bot that is disconnected says so itself.                              *)
(*                                                                         *)
(* One bot, whose process may be killed and started somewhere else.        *)
(* Everything that writes its record does so under a lock.  The time of a  *)
(* heartbeat is only ever compared for equality, so it is a number no one  *)
(* else has at the moment.                                                 *)
(***************************************************************************)
EXTENDS Integers

CONSTANTS
  Host,        \* where the process of the bot can run
  Beat,        \* bound on the heartbeats in flight
  Nobody,        \* no host, no call
  MaxSeen,     \* bound on the times of heartbeats that are remembered at once
  Attempts,    \* how often a check is tried
  MaxFaults    \* bound on probes, answers and locks that are lost, and on restarts of the manager

ASSUME NobodyAssumption == Nobody \notin Host \cup Beat \cup {"stop", "ask", "check"}
ASSUME CallAssumption == Beat \cap {"stop", "ask", "check"} = {}
ASSUME BoundAssumption == MaxSeen \in Nat /\ MaxFaults \in Nat /\ Attempts \in Nat \ {0}

VARIABLES
  record,      \* the bot as the manager has it
  job,         \* the check of each heartbeat, if there is one
  call,        \* the requests and the check in hand
  lock,        \* the call that holds the lock of the bot
  aborted,     \* the calls whose lock was lost
  up,          \* whether the process of the bot runs
  host,        \* where
  connected,   \* whether it is connected to Steam
  ready, beating, timer,   \* fields of its ManagerService
  posting,     \* the heartbeats it awaits the answer of
  faults

vars == <<record, job, call, lock, aborted, up, host, connected, ready, beating, timer, posting, faults>>
process == <<up, host, connected, ready, beating, timer, posting>>
manager == <<record, job, lock, aborted>>

Seen == 1..MaxSeen
Check == {"ask", "check"}
Call == Beat \cup {"stop"} \cup Check

NoBot == [state |-> "none", lastSeen |-> 0, host |-> Nobody]
NoJob == [state |-> "none", made |-> 0]
\* seen: the time of a heartbeat, or the one a check is about or expects to find;
\* bot: what has been read of the record, or is to become it; final: the check itself
\* stops the bot, and not getBot
Idle == [pc |-> "idle", seen |-> 0, bot |-> NoBot, final |-> FALSE]

Init ==
  /\ record = NoBot
  /\ job = [l \in Seen |-> NoJob]
  /\ call = [c \in Call |-> Idle]
  /\ lock = Nobody
  /\ aborted = {}
  /\ up = FALSE
  /\ host \in Host
  /\ connected = FALSE
  /\ ready = FALSE
  /\ beating = FALSE
  /\ timer = FALSE
  /\ posting = {}
  /\ faults = 0

Fault == faults < MaxFaults /\ faults' = faults + 1

-------------------------------------------------------------------------------
(* The process of the bot *)

Used(l) ==
  \/ record.lastSeen = l
  \/ job[l] # NoJob
  \/ \E c \in Call : call[c].seen = l \/ call[c].bot.lastSeen = l
Fresh(l) == ~Used(l) /\ \A k \in 1..(l - 1) : Used(k)

\* sendHeartbeatLoop
Send ==
  \E s \in Beat \ posting, l \in Seen :
    /\ call[s] = Idle
    /\ Fresh(l)
    /\ beating' = TRUE
    /\ posting' = posting \cup {s}
    /\ call' = [call EXCEPT ![s] = [Idle EXCEPT !.pc = "lock", !.seen = l,
                                   !.bot = [state |-> "running", lastSeen |-> l, host |-> host]]]

DontSend == UNCHANGED <<beating, posting, call>>

Start(h) ==
  /\ ~up
  /\ up' = TRUE
  /\ host' = h
  /\ connected' = TRUE
  /\ UNCHANGED <<manager, call, ready, beating, timer, posting, faults>>

Kill ==
  /\ up
  /\ up' = FALSE
  /\ connected' = FALSE
  /\ ready' = FALSE
  /\ beating' = FALSE
  /\ timer' = FALSE
  /\ posting' = {}
  /\ UNCHANGED <<manager, call, host, faults>>

HandleBotReady ==
  /\ up /\ ~ready
  /\ ready' = TRUE
  /\ IF beating THEN DontSend ELSE Send
  /\ UNCHANGED <<manager, up, host, connected, timer, faults>>

HandleBotConnected ==
  /\ up /\ ~connected
  /\ connected' = TRUE
  /\ IF ready /\ ~beating THEN Send ELSE DontSend
  /\ UNCHANGED <<manager, up, host, ready, timer, faults>>

\* Mutant: the flag that says that the loop runs is left
DisconnectedBeating ==
  /\ connected
  /\ call["stop"] = Idle
  /\ connected' = FALSE
  /\ timer' = FALSE
  /\ call' = [call EXCEPT !["stop"].pc = "lock"]
  /\ UNCHANGED <<manager, up, host, ready, beating, posting, faults>>

\* Also when the process is shut down
HandleBotDisconnected ==
  /\ connected
  /\ call["stop"] = Idle
  /\ connected' = FALSE
  /\ timer' = FALSE
  /\ beating' = FALSE
  /\ call' = [call EXCEPT !["stop"].pc = "lock"]
  /\ UNCHANGED <<manager, up, host, ready, posting, faults>>

Timer ==
  /\ timer
  /\ timer' = FALSE
  /\ Send
  /\ UNCHANGED <<manager, up, host, connected, ready, faults>>

\* The loop goes on whatever the answer, and also when it has been stopped
Answered(s) ==
  /\ s \in posting
  /\ call[s] = Idle
  /\ posting' = posting \ {s}
  /\ timer' = TRUE
  /\ UNCHANGED <<manager, call, up, host, connected, ready, beating, faults>>

AnswerLost(s) ==
  /\ s \in posting
  /\ call[s] # Idle
  /\ Fault
  /\ posting' = posting \ {s}
  /\ timer' = TRUE
  /\ UNCHANGED <<manager, call, up, host, connected, ready, beating>>

-------------------------------------------------------------------------------
(* Calls of the manager *)

\* getRunningBot: what the bot at a host answers; nobody is there to refuse when
\* its machine is gone too
Probe(h, answer) ==
  \/ answer = "ok" /\ h = host /\ connected /\ UNCHANGED faults
  \/ answer = "error" /\ h = host /\ connected /\ Fault
  \/ answer = "error" /\ h = host /\ up /\ ~connected /\ UNCHANGED faults
  \/ answer \in {"refused", "error"} /\ ~(h = host /\ up) /\ UNCHANGED faults

Step(c, pc) == call' = [call EXCEPT ![c].pc = pc]

\* The call is over: the lock is released, and a check that is over leaves no job
End(c) ==
  /\ call' = [call EXCEPT ![c] = Idle]
  /\ lock' = IF lock = c THEN Nobody ELSE lock
  /\ aborted' = aborted \ {c}

Completed(c) ==
  job' = IF c = "check" THEN [l \in Seen |-> IF job[l].state = "active" THEN NoJob ELSE job[l]] ELSE job

\* A check that fails is tried again unless that was the last attempt
Tried(j) == IF j.made + 1 >= Attempts THEN NoJob ELSE [state |-> "waiting", made |-> j.made + 1]
Failed(c, jobs) ==
  job' = IF c = "check" THEN [l \in Seen |-> IF jobs[l].state = "active" THEN Tried(jobs[l]) ELSE jobs[l]] ELSE jobs

\* A job that is running cannot be removed
Without(l) == IF l \in Seen /\ job[l].state = "waiting" THEN [job EXCEPT ![l] = NoJob] ELSE job

(* saveBot *)

\* Mutant: the old check is removed before the heartbeat is accepted
LockSaveDropping(s) ==
  /\ call[s].pc = "lock"
  /\ lock = Nobody
  /\ lock' = s
  /\ job' = Without(record.lastSeen)
  /\ call' = [call EXCEPT ![s].pc = "probe", ![s].seen = record.lastSeen]
  /\ UNCHANGED <<record, aborted, process, faults>>

\* Mutant: a heartbeat is saved at once, whoever has the lock
LockSaveAtOnce(s) ==
  /\ call[s].pc = "lock"
  /\ lock' = s
  /\ call' = [call EXCEPT ![s].pc = "probe", ![s].seen = record.lastSeen]
  /\ UNCHANGED <<record, job, aborted, process, faults>>

LockSave(s) ==
  /\ call[s].pc = "lock"
  /\ lock = Nobody
  /\ lock' = s
  /\ call' = [call EXCEPT ![s].pc = "probe", ![s].seen = record.lastSeen]
  /\ UNCHANGED <<record, job, aborted, process, faults>>

ProbeSave(s) ==
  /\ call[s].pc = "probe"
  /\ \E answer \in {"ok", "refused", "error"} :
       /\ Probe(call[s].bot.host, answer)
       /\ IF answer = "ok" /\ s \notin aborted
          THEN Step(s, "drop") /\ UNCHANGED <<lock, aborted>>
          ELSE End(s)
  /\ UNCHANGED <<record, job, process>>

DropJob(s) ==
  /\ call[s].pc = "drop"
  /\ job' = Without(call[s].seen)
  /\ Step(s, "add")
  /\ UNCHANGED <<record, lock, aborted, process, faults>>

AddJob(s) ==
  /\ call[s].pc = "add"
  /\ job' = [job EXCEPT ![call[s].bot.lastSeen] = [state |-> "waiting", made |-> 0]]
  /\ Step(s, "write")
  /\ UNCHANGED <<record, lock, aborted, process, faults>>

WriteBot(s) ==
  /\ call[s].pc = "write"
  /\ record' = call[s].bot
  /\ End(s)
  /\ UNCHANGED <<job, process, faults>>

(* getBot, for someone who wants the bot, or for a check *)

Read(c, seen) ==
  /\ record.state = "running"
  /\ call' = [call EXCEPT ![c] = [Idle EXCEPT !.pc = "probe", !.seen = seen, !.bot = record]]

Ask ==
  /\ call["ask"] = Idle
  /\ Read("ask", 0)
  /\ UNCHANGED <<manager, process, faults>>

\* The delay of a check is longer than any call waits for its lock
Due(l) ==
  /\ job[l].state = "waiting"
  /\ \A s \in Beat : call[s] # Idle => call[s].bot.lastSeen # l

RunCheck(l) ==
  /\ call["check"] = Idle
  /\ Due(l)
  /\ \/ Read("check", l) /\ job' = [job EXCEPT ![l].state = "active"]
     \/ record.state # "running" /\ job' = [job EXCEPT ![l] = NoJob] /\ UNCHANGED call
  /\ UNCHANGED <<record, lock, aborted, process, faults>>

\* Mutant: an attempt that has been made is not counted
LastAttemptLate == \E l \in Seen : job[l].state = "active" /\ job[l].made >= Attempts

LastAttempt == \E l \in Seen : job[l].state = "active" /\ job[l].made + 1 >= Attempts

\* The bot is to be stopped, if the record is still the one with that time
Expect(c, l, final) ==
  call' = [call EXCEPT ![c] = [Idle EXCEPT !.pc = "lock", !.seen = l, !.final = final]]

Missed(c) == c = "check" /\ call[c].bot.lastSeen = call[c].seen

ProbeBot(c) ==
  /\ call[c].pc = "probe"
  /\ \E answer \in {"ok", "refused", "error"} :
       /\ Probe(call[c].bot.host, answer)
       /\ \/ /\ \/ answer = "refused" /\ Expect(c, call[c].bot.lastSeen, FALSE)
                \/ answer = "ok" /\ Missed(c) /\ Expect(c, call[c].seen, TRUE)
                \/ answer = "error" /\ c = "check" /\ LastAttempt /\ Expect(c, call[c].seen, TRUE)
             /\ UNCHANGED <<job, lock, aborted>>
          \/ answer = "ok" /\ ~Missed(c) /\ End(c) /\ Completed(c)
          \/ answer = "error" /\ (c = "ask" \/ ~LastAttempt) /\ End(c) /\ Failed(c, job)
  /\ UNCHANGED <<record, process>>

(* markStopped, for these and for a bot that says that it stops *)

\* It throws: a check that did not stop the bot itself does so on its last attempt
Rejected(c, jobs) ==
  IF c = "check" /\ ~call[c].final /\ LastAttempt
  THEN /\ \E l \in Seen : job[l].state = "active" /\ Expect(c, l, TRUE)
       /\ lock' = IF lock = c THEN Nobody ELSE lock
       /\ aborted' = aborted \ {c}
       /\ job' = jobs
  ELSE End(c) /\ Failed(c, jobs)

NotFound(c) == End(c) /\ (IF call[c].final THEN Failed(c, job) ELSE Completed(c))

\* Mutant: without the time of the heartbeat that is expected
LockStopAny(c) ==
  /\ call[c].pc = "lock"
  /\ lock = Nobody
  /\ IF record.state = "none"
     THEN NotFound(c)
     ELSE /\ lock' = c
          /\ call' = [call EXCEPT ![c].pc = "remove", ![c].bot = record]
          /\ UNCHANGED <<job, aborted>>
  /\ UNCHANGED <<record, process, faults>>

Newer(c) == c # "stop" /\ record.lastSeen # call[c].seen

LockStop(c) ==
  /\ call[c].pc = "lock"
  /\ lock = Nobody
  /\ \/ record.state = "none" /\ NotFound(c)
     \/ record.state # "none" /\ Newer(c) /\ End(c) /\ Completed(c)
     \/ /\ record.state # "none" /\ ~Newer(c)
        /\ lock' = c
        /\ call' = [call EXCEPT ![c].pc = "remove", ![c].bot = record]
        /\ UNCHANGED <<job, aborted>>
  /\ UNCHANGED <<record, process, faults>>

\* The lock is looked at only after the job has been removed
RemoveJob(c) ==
  /\ call[c].pc = "remove"
  /\ IF c \in aborted
     THEN Rejected(c, Without(call[c].bot.lastSeen))
     ELSE /\ job' = Without(call[c].bot.lastSeen)
          /\ Step(c, "write")
          /\ UNCHANGED <<lock, aborted>>
  /\ UNCHANGED <<record, process, faults>>

\* A bot that says so is seen at that moment
WriteStopped(c) ==
  /\ call[c].pc = "write"
  /\ record' = [call[c].bot EXCEPT !.state = "stopped", !.lastSeen = IF c = "stop" THEN 0 ELSE @]
  /\ End(c)
  /\ Completed(c)
  /\ UNCHANGED <<process, faults>>

DeleteBot ==
  /\ lock = Nobody
  /\ record.state # "none"
  /\ record' = NoBot
  /\ UNCHANGED <<job, lock, aborted, call, process, faults>>

-------------------------------------------------------------------------------
(* Faults of the manager *)

\* The lock is not renewed in time; its holder is told
LockLost ==
  /\ Fault
  /\ lock # Nobody
  /\ aborted' = aborted \cup {lock}
  /\ lock' = Nobody
  /\ UNCHANGED <<record, job, call, process>>

LockRefused(c) ==
  /\ Fault
  /\ call[c].pc = "lock"
  /\ lock # Nobody
  /\ Rejected(c, job)
  /\ UNCHANGED <<record, process>>

\* The process stops and starts again; BullMQ runs the check again
Restart ==
  /\ Fault
  /\ call' = [c \in Call |-> Idle]
  /\ lock' = Nobody
  /\ aborted' = {}
  /\ job' = [l \in Seen |-> IF job[l].state = "active" THEN [job[l] EXCEPT !.state = "waiting"] ELSE job[l]]
  /\ UNCHANGED <<record, process>>

-------------------------------------------------------------------------------
Stopper == {"stop"} \cup Check

Goes(c) ==
  \/ c \in Beat /\ (LockSave(c) \/ ProbeSave(c) \/ DropJob(c) \/ AddJob(c) \/ WriteBot(c))
  \/ c \in Check /\ ProbeBot(c)
  \/ c \in Stopper /\ (LockStop(c) \/ RemoveJob(c) \/ WriteStopped(c))

Beats == HandleBotReady \/ Timer \/ \E s \in Beat : Answered(s)

Next ==
  \/ \E h \in Host : Start(h)
  \/ Kill \/ HandleBotConnected \/ HandleBotDisconnected \/ Beats
  \/ \E s \in Beat : AnswerLost(s)
  \/ Ask \/ \E l \in Seen : RunCheck(l)
  \/ \E c \in Call : Goes(c) \/ LockRefused(c)
  \/ DeleteBot \/ LockLost \/ Restart

Spec == Init /\ [][Next]_vars

\* Calls go on, and one that tries for the lock gets it; checks are run; the process
\* of the bot does what it has to.
Fairness ==
  /\ SF_vars(Beats)
  /\ SF_vars(\E l \in Seen : RunCheck(l))
  /\ \A c \in Call : SF_vars(Goes(c))

FairSpec == Spec /\ Fairness

-------------------------------------------------------------------------------
(* Properties *)

\* Where a call must have the lock, or has been told that it lost it
Holds(c) == call[c].pc \in {"drop", "add", "write", "remove"} \/ (c \in Beat /\ call[c].pc = "probe")

Bot == [state : {"none", "running", "stopped"}, lastSeen : 0..MaxSeen, host : Host \cup {Nobody}]
Job == [state : {"none", "waiting", "active"}, made : 0..(Attempts - 1)]
CallState == [pc : {"idle", "lock", "probe", "drop", "add", "write", "remove"},
              seen : 0..MaxSeen, bot : Bot, final : BOOLEAN]

\* A type invariant; only a process that runs is connected, and whoever writes has
\* the lock or lost it to a fault.
TypeOK ==
  /\ record \in Bot
  /\ job \in [Seen -> Job]
  /\ call \in [Call -> CallState]
  /\ lock \in Call \cup {Nobody}
  /\ \A c \in Call : Holds(c) => lock = c \/ c \in aborted
  /\ aborted \subseteq Call /\ posting \subseteq Beat
  /\ up \in BOOLEAN /\ ready \in BOOLEAN /\ connected \in BOOLEAN /\ beating \in BOOLEAN /\ timer \in BOOLEAN
  /\ connected => up
  /\ host \in Host
  /\ faults \in 0..MaxFaults

\* A bot that is recorded as running is watched: there is a check of its last
\* heartbeat, or a call that holds the lock is about to replace the record.
Watched ==
  record.state = "running" =>
    \/ job[record.lastSeen] # NoJob
    \/ \E c \in Call : call[c].pc \in {"add", "write"}

\* Without faults, every bot that is recorded as running is watched.
AlwaysWatched == faults = 0 => Watched

\* A newer heartbeat wins: who finds a bot gone stops it only if the record is of
\* the heartbeat it had read, or was to check, before it asked the bot and waited for
\* the lock (locks that are lost apart).
NewerWins ==
  [][\A c \in Check : WriteStopped(c) /\ faults = 0 => record.lastSeen = call[c].seen]_vars

\* A bot that is not connected any more is recorded as stopped in the end, unless
\* its check was lost to a fault.
GoneIsNoticed == []<>connected \/ <>[](record.state # "running" \/ (faults > 0 /\ ~Watched))

\* A bot that stays connected is recorded as running, again and again, whatever
\* happened to its heartbeats before.
BeatsOn == <>[](connected /\ ready) => []<>(record.state = "running")
===============================================================================

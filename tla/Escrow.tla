--------------------------------- MODULE Escrow ---------------------------------
(***************************************************************************)
(* How long trades with one account are held, as the bot-manager answers   *)
(* it: from a cache, or by a job that asks a bot and fills the cache.  The *)
(* job has the id of the account, so requests share it; it is retried with *)
(* a bot that was asked less often.  The queue manager and the worker that *)
(* all queues of the bot-manager use are modelled with it.                 *)
(*                                                                         *)
(* A request may bring a token (or an offer), without which the bot can    *)
(* not always tell.  Answers are remembered, also that a token is needed.  *)
(***************************************************************************)
EXTENDS Naturals, FiniteSets

CONSTANTS
  Call,        \* requests
  Token,       \* those that bring a token
  Bot,
  MaxAttempts, \* attempts before a job is too old
  MaxFaults

VARIABLES
  cache,       \* what is remembered: "none", "ok", or "bad" for an error of the client
  during,       \* history: the requests that were in hand when that was saved
  job,         \* the job, whether a token was given, and how often bots were tried
  run,         \* the attempt in hand, with the job's data as it was read
  call,        \* the requests in hand, and how they were answered
  faults

vars == <<cache, during, job, run, call, faults>>

None == "none"
NoJob == [state |-> None, token |-> FALSE, tried |-> [b \in Bot |-> 0], attempts |-> 0]
Resting == [pc |-> "idle", token |-> FALSE, tried |-> [b \in Bot |-> 0], bot |-> None]

Init ==
  /\ cache = None
  /\ during = {}
  /\ job = NoJob
  /\ run = Resting
  /\ call = [c \in Call |-> "idle"]
  /\ faults = 0

Fault == faults < MaxFaults /\ faults' = faults + 1

TypeOK ==
  /\ cache \in {None, "ok", "bad"}
  /\ during \subseteq Call
  /\ job.state \in {None, "waiting", "delayed", "active"}
  /\ job.attempts \in 0..MaxAttempts
  /\ run.pc \in {"idle", "ask", "save", "refused", "failed"}
  /\ run.pc # "idle" => run.bot \in Bot
  /\ call \in [Call -> {"idle", "look", "update", "delay", "create", "wait", "read",
                        "answered", "refused", "stale", "lost"}]

-------------------------------------------------------------------------------
(* Requests *)

Goes(c, pc) == call' = [call EXCEPT ![c] = pc]

\* how a request is answered from the cache; "stale" is an error from before it came
FromCache(c) ==
  CASE cache = None -> "lost"
    [] cache = "ok" -> "answered"
    [] OTHER -> IF c \in during \/ c \notin Token THEN "refused" ELSE "stale"

\* Mutation: an error that is remembered answers every request
CachedAnswersAll(c) == cache # None

\* what is remembered answers a request, but an error only one that brings nothing new
CachedAnswers(c) == cache = "ok" \/ (cache = "bad" /\ c \notin Token)

GetEscrow(c) ==
  /\ call[c] = "idle"
  /\ Goes(c, IF CachedAnswers(c) THEN FromCache(c) ELSE "look")
  /\ UNCHANGED <<cache, during, job, run, faults>>

\* looks for the job; one a worker is processing is left alone
AddJob(c) ==
  /\ call[c] = "look"
  /\ Goes(c, CASE job.state = None -> "create" [] job.state = "active" -> "wait" [] OTHER -> "update")
  /\ UNCHANGED <<cache, during, job, run, faults>>

\* the data is replaced, also when the job has been started since; unless it is gone
UpdateData(c) ==
  /\ call[c] = "update"
  /\ IF job.state = None
     THEN Goes(c, "create") /\ UNCHANGED job
     ELSE /\ Goes(c, "delay")
          /\ job' = [job EXCEPT !.token = (c \in Token), !.tried = NoJob.tried]
  /\ UNCHANGED <<cache, during, run, faults>>

ChangeDelay(c) ==
  /\ call[c] = "delay"
  /\ job' = IF job.state = "delayed" THEN [job EXCEPT !.state = "waiting"] ELSE job
  /\ Goes(c, "wait")
  /\ UNCHANGED <<cache, during, run, faults>>

\* adding a job that is there does nothing
CreateJob(c) ==
  /\ call[c] = "create"
  /\ job' = IF job.state = None THEN [NoJob EXCEPT !.state = "waiting", !.token = (c \in Token)] ELSE job
  /\ Goes(c, "wait")
  /\ UNCHANGED <<cache, during, run, faults>>

\* the wait ends after ten seconds, or with an error when the job is gone already
WaitFails(c) ==
  /\ call[c] = "wait"
  /\ Goes(c, "lost")
  /\ UNCHANGED <<cache, during, job, run, faults>>

GetEscrowFromCache(c) ==
  /\ call[c] = "read"
  /\ Goes(c, FromCache(c))
  /\ UNCHANGED <<cache, during, job, run, faults>>

Done == {"answered", "refused", "lost"}

\* the same client asks again
Again(c) ==
  /\ call[c] \in Done
  /\ Goes(c, "idle")
  /\ during' = during \ {c}
  /\ UNCHANGED <<cache, job, run, faults>>

-------------------------------------------------------------------------------
(* The worker *)

\* those who wait are told how the job ended
Ends(outcome) ==
  /\ job' = NoJob
  /\ run' = Resting
  /\ call' = [c \in Call |-> IF call[c] = "wait" THEN outcome ELSE call[c]]

SelectBot == {b \in Bot : \A d \in Bot : job.tried[b] <= job.tried[d]}

ProcessJob ==
  /\ job.state = "waiting"
  /\ \E b \in SelectBot :
       run' = [pc |-> "ask", token |-> job.token, tried |-> job.tried, bot |-> b]
  /\ job' = [job EXCEPT !.state = "active"]
  /\ UNCHANGED <<cache, during, call, faults>>

\* The job is tried again, unless it would be too old by then, which is not remembered.
Retry ==
  IF job.attempts + 1 < MaxAttempts
  THEN /\ job' = [job EXCEPT !.state = "delayed", !.attempts = @ + 1]
       /\ run' = Resting
       /\ UNCHANGED call
  ELSE Ends("lost")

Found == run.pc = "ask" /\ run' = [run EXCEPT !.pc = "save"] /\ UNCHANGED <<cache, during, job, call, faults>>

\* without a token, the bot may answer that it needs one
Refused ==
  /\ run.pc = "ask" /\ ~run.token
  /\ run' = [run EXCEPT !.pc = "refused"]
  /\ UNCHANGED <<cache, during, job, call, faults>>

AnswersWithError ==
  /\ run.pc = "ask"
  /\ Fault
  /\ run' = [run EXCEPT !.pc = "failed"]
  /\ UNCHANGED <<cache, during, job, call>>

\* before an answer with an error is dealt with, the bot is counted, with the data that
\* was read when the attempt began
BotAttemptErrorHandler == [job EXCEPT !.tried = [run.tried EXCEPT ![run.bot] = @ + 1], !.token = run.token]

Failed ==
  /\ run.pc = "failed"
  /\ IF job.attempts + 1 < MaxAttempts
     THEN /\ job' = [BotAttemptErrorHandler EXCEPT !.state = "delayed", !.attempts = @ + 1]
          /\ run' = Resting
          /\ UNCHANGED call
     ELSE Ends("lost")
  /\ UNCHANGED <<cache, during, faults>>

\* the bot does not answer at all, or none is running: none is counted
Unanswered ==
  /\ run.pc = "ask"
  /\ Fault
  /\ Retry
  /\ UNCHANGED <<cache, during>>

Delayed ==
  /\ job.state = "delayed"
  /\ job' = [job EXCEPT !.state = "waiting"]
  /\ UNCHANGED <<cache, during, run, call, faults>>

Saved(result) == cache' = result /\ during' = {c \in Call : call[c] # "idle"}

SaveEscrow ==
  /\ run.pc = "save"
  /\ \/ Saved("ok") /\ Ends("read") /\ UNCHANGED faults
     \/ Fault /\ Retry /\ UNCHANGED <<cache, during>>

\* the error is remembered, and whoever waits for the job is answered with it
OnJobFailed ==
  /\ run.pc = "refused"
  /\ Saved("bad")
  /\ Ends("refused")
  /\ UNCHANGED faults

-------------------------------------------------------------------------------
(* Others *)

RemoveJob ==
  /\ job.state \in {"waiting", "delayed"}
  /\ job' = NoJob
  /\ UNCHANGED <<cache, during, run, call, faults>>

\* what is remembered expires, sooner when it is not an error, or is deleted
Forgotten ==
  /\ cache # None
  /\ cache' = None
  /\ UNCHANGED <<during, job, run, call, faults>>

Next ==
  \/ \E c \in Call : \/ GetEscrow(c) \/ AddJob(c) \/ UpdateData(c) \/ ChangeDelay(c) \/ CreateJob(c)
                     \/ WaitFails(c) \/ GetEscrowFromCache(c) \/ Again(c)
  \/ ProcessJob \/ Found \/ Refused \/ AnswersWithError \/ Failed \/ Unanswered \/ Delayed
  \/ SaveEscrow \/ OnJobFailed
  \/ RemoveJob \/ Forgotten

Spec == Init /\ [][Next]_vars

-------------------------------------------------------------------------------
(* Properties *)

\* Somebody who brings a token is not turned away with an error from before: not with the
\* one that is remembered, nor when others' requests and their job come in between.
NoStaleRefusal == \A c \in Token : call[c] # "stale"
===============================================================================

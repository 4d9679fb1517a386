-------------------------------- MODULE TradeJobs --------------------------------
(***************************************************************************)
(* A job of the bot-manager's queue of trades.  It has the bot create,     *)
(* counter, accept, confirm, delete or refresh an offer, and is run again  *)
(* when that fails, without knowing what the failed attempt has done.  So  *)
(* each attempt first looks whether it is done already, and creating an    *)
(* offer carries a key by which the bot recognises a request it has        *)
(* answered.  The bot looks offers up in a cache of its own, which its     *)
(* polls refresh.                                                          *)
(*                                                                         *)
(* One job; Steam is what it does to offers and what it answers.  For each *)
(* offer, at most one job is in the queue, except for those that create.   *)
(***************************************************************************)
EXTENDS Integers

CONSTANTS
  Type,        \* the kinds of job
  Made,        \* offers the job can create
  Slot,        \* requests the bot can work on at once
  MaxAttempts, \* attempts before the job is too old
  Fault,       \* the faults that may happen
  MaxFaults

ASSUME MaxAttemptsAssumption == MaxAttempts \in Nat \ {0}

VARIABLES
  type,        \* the kind of the job
  own,         \* whether the offer it is about is one the bot made
  job,         \* its state and the attempts made
  run,         \* the attempt in hand
  req,         \* the requests that create an offer, at the bot
  store,       \* what the bot answered to the key of the job
  theirs,      \* the offer the job is about
  made,        \* the offers created for the job
  cached,      \* the former as the bot's cache has it, and whether it is recent
  known,       \* the latter as the bot's cache has them
  was,         \* history: the states that offer has been in
  faults

vars == <<type, own, job, run, req, store, theirs, made, cached, known, was, faults>>
steam == <<theirs, made, was>>
cache == <<cached, known>>

None == "none"
Gone == [there |-> FALSE, state |-> None, recent |-> FALSE]
Resting == [pc |-> "idle", slot |-> 0]
Active == {k \in Made : made[k] = "active"}

Init ==
  /\ type \in Type
  /\ own \in BOOLEAN /\ (type = "CREATE" => ~own)
  /\ job = [state |-> "waiting", attempts |-> 0]
  /\ run = Resting
  /\ req = [s \in Slot |-> "idle"]
  /\ store = None
  /\ theirs = IF type = "CREATE" THEN None ELSE IF type = "CONFIRM" THEN "confirm" ELSE "active"
  /\ made = [k \in Made |-> None]
  /\ cached = Gone
  /\ known = {}
  /\ was = {theirs}
  /\ faults = 0

Faulty(f) == f \in Fault /\ faults < MaxFaults /\ faults' = faults + 1

TypeOK ==
  /\ own \in BOOLEAN
  /\ job \in [state : {"waiting", "active", "done", "error"}, attempts : 0..MaxAttempts]
  /\ run.pc \in {"idle", "check", "find", "act", "answer", "post", "counter", "wait", "publish"}
  /\ run.slot \in Slot \cup {0}
  /\ req \in [Slot -> {"idle", "create", "counter"}]
  /\ store \in {None, "ok", "bad"}
  /\ theirs \in {None, "active", "confirm", "accepted", "removed", "countered"}
  /\ made \in [Made -> {None, "active", "over"}]
  /\ known \subseteq Made
  /\ (job.state = "active") = (run # Resting)

-------------------------------------------------------------------------------
(* Attempts *)

Go(pc) == run' = [run EXCEPT !.pc = pc]

Start ==
  /\ job.state = "waiting"
  /\ job' = [job EXCEPT !.state = "active"]
  /\ Go("check")
  /\ UNCHANGED <<type, own, req, store, steam, cache, faults>>

\* Mutation: once more than there is time for
RetryMore ==
  /\ job' = IF job.attempts < MaxAttempts
            THEN [state |-> "waiting", attempts |-> job.attempts + 1]
            ELSE [state |-> "error", attempts |-> job.attempts + 1]
  /\ run' = Resting

\* an error that may pass: again after a while, unless the job is too old by then
Retry ==
  /\ job' = IF job.attempts + 1 < MaxAttempts
            THEN [state |-> "waiting", attempts |-> job.attempts + 1]
            ELSE [state |-> "error", attempts |-> job.attempts + 1]
  /\ run' = Resting

\* an error of the client: not again
Unrecoverable ==
  /\ job' = [job EXCEPT !.state = "error"]
  /\ run' = Resting

Becomes(state) == theirs' = state /\ was' = was \cup {state}

Ok == Go("publish") /\ UNCHANGED job

\* the event that the trade is completed; if it cannot be published, the attempt has failed
Complete ==
  /\ run.pc = "publish"
  /\ \/ job' = [job EXCEPT !.state = "done"] /\ run' = Resting /\ UNCHANGED faults
     \/ Retry /\ Faulty("publish")
  /\ UNCHANGED <<type, own, req, store, steam, cache>>

\* the bot is not found or does not answer
RunFails ==
  /\ run.pc \notin {"idle", "wait", "publish"}
  /\ Faulty("request")
  /\ Retry
  /\ UNCHANGED <<type, own, req, store, steam, cache>>

-------------------------------------------------------------------------------
(* The bot's cache *)

\* the offer, from the cache if it is there and recent or asked for, or from Steam
LoadOfferWithCaching(useCache) ==
  IF cached.there /\ (useCache \/ cached.recent)
  THEN cached
  ELSE [there |-> TRUE, state |-> theirs, recent |-> TRUE]

Fetched == cached' = LoadOfferWithCaching(FALSE) /\ UNCHANGED known

\* a poll has the offers as they are
BotPolls ==
  /\ cached' = IF theirs = None THEN Gone ELSE [there |-> TRUE, state |-> theirs, recent |-> TRUE]
  /\ known' = Active
  /\ cache' # cache
  /\ UNCHANGED <<type, own, job, run, req, store, steam, faults>>

Ages ==
  /\ cached.recent
  /\ cached' = [cached EXCEPT !.recent = FALSE]
  /\ UNCHANGED <<type, own, job, run, req, store, steam, known, faults>>

-------------------------------------------------------------------------------
(* Creating an offer *)

\* Mutation: attempts always look in the cache
GetActiveTradesCached(useCache) == known

\* The active offers, of which one that matches is what the job is to create.  The first
\* attempt looks in the cache and the others ask Steam, which the cache learns from.
GetActiveTrades(useCache) == IF useCache THEN known ELSE Active

FindMatchingTrades(useCache) ==
  /\ IF GetActiveTrades(useCache) # {} THEN Ok ELSE Go("post") /\ UNCHANGED job
  /\ known' = IF useCache THEN known ELSE known \cup Active
  /\ UNCHANGED <<type, own, req, store, steam, cached, faults>>

HandleCreateJob == run.pc = "check" /\ type = "CREATE" /\ FindMatchingTrades(job.attempts = 0)

\* a request with a key that was answered gets the answer again
Intercept ==
  /\ run.pc = "post"
  /\ \/ store = "ok" /\ Ok /\ UNCHANGED req
     \/ store = "bad" /\ Unrecoverable /\ UNCHANGED req
     \/ /\ store = None
        /\ \E s \in Slot :
             /\ req[s] = "idle" /\ \A t \in 1..(s - 1) : req[t] # "idle"
             /\ req' = [req EXCEPT ![s] = "create"]
             /\ run' = [pc |-> "wait", slot |-> s]
             /\ UNCHANGED job
  /\ UNCHANGED <<type, own, store, steam, cache, faults>>

\* the answer reaches the attempt, if that still waits for it
Answer(s, outcome) ==
  IF run.pc = "wait" /\ run.slot = s THEN outcome ELSE UNCHANGED <<job, run>>

Creates ==
  \E k \in Made :
    /\ made[k] = None
    /\ \A l \in Made : made[l] = None => k <= l
    /\ made' = [made EXCEPT ![k] = "active"]

\* Steam counters an offer only while it is active
MayCreate(s) == req[s] = "create" \/ theirs = "active"
Countered(s) == Becomes(IF req[s] = "counter" THEN "countered" ELSE theirs)

\* what is stored for the key; a request to counter has none
Stored(s, answer) == store' = IF req[s] = "create" THEN answer ELSE store

Sent(s) ==
  /\ req[s] # "idle" /\ MayCreate(s)
  /\ Creates
  /\ Countered(s)
  /\ known' = known \cup {k \in Made : made[k] # made'[k]}
  /\ Stored(s, "ok")
  /\ Answer(s, Ok)
  /\ req' = [req EXCEPT ![s] = "idle"]
  /\ UNCHANGED <<type, own, cached, faults>>

\* Steam created it and answers with an error all the same; the bot forgets the key
SentWithError(s) ==
  /\ req[s] # "idle" /\ MayCreate(s)
  /\ Faulty("steam")
  /\ Creates
  /\ Countered(s)
  /\ Stored(s, None)
  /\ Answer(s, Retry)
  /\ req' = [req EXCEPT ![s] = "idle"]
  /\ UNCHANGED <<type, own, cache>>

NotSent(s) ==
  /\ req[s] # "idle"
  /\ IF MayCreate(s) THEN Faulty("steam") ELSE UNCHANGED faults
  /\ Stored(s, None)
  /\ Answer(s, Retry)
  /\ req' = [req EXCEPT ![s] = "idle"]
  /\ UNCHANGED <<type, own, steam, cache>>

\* the request is wrong, which is stored for the key as well
Refused(s) ==
  /\ req[s] # "idle"
  /\ Faulty("refused")
  /\ Stored(s, "bad")
  /\ Answer(s, Unrecoverable)
  /\ req' = [req EXCEPT ![s] = "idle"]
  /\ UNCHANGED <<type, own, steam, cache>>

\* The attempt ends while the bot works on its request: the connection breaks, or the
\* bot-manager stops and the job is found stalled, which does not count as an attempt.
Cut ==
  /\ run.pc = "wait"
  /\ Faulty(IF req[run.slot] = "create" THEN "cut create" ELSE "cut counter")
  /\ \/ Retry
     \/ job' = [job EXCEPT !.state = "waiting"] /\ run' = Resting
  /\ UNCHANGED <<type, own, req, store, steam, cache>>

-------------------------------------------------------------------------------
(* Countering *)

HandleCounterJob ==
  /\ run.pc = "check" /\ type = "COUNTER"
  /\ LET offer == LoadOfferWithCaching(FALSE) IN
       \/ offer.state = "active" /\ Go("counter") /\ UNCHANGED job
       \/ offer.state = "countered" /\ Go("find") /\ UNCHANGED job
       \/ offer.state \notin {"active", "countered"} /\ Unrecoverable
  /\ Fetched
  /\ UNCHANGED <<type, own, req, store, steam, faults>>

\* the bot counters what its cache has as active, if it is the partner's, and forgets it
CounterTrade ==
  /\ run.pc = "counter"
  /\ IF own \/ LoadOfferWithCaching(TRUE).state # "active"
     THEN Unrecoverable /\ cached' = LoadOfferWithCaching(TRUE) /\ UNCHANGED req
     ELSE \E s \in Slot :
            /\ req[s] = "idle" /\ \A t \in 1..(s - 1) : req[t] # "idle"
            /\ req' = [req EXCEPT ![s] = "counter"]
            /\ run' = [pc |-> "wait", slot |-> s]
            /\ cached' = Gone
            /\ UNCHANGED job
  /\ UNCHANGED <<type, own, store, steam, known, faults>>

\* the offer was countered: by an attempt of this job, or there would be a matching offer
\* to create
CounterJobButOfferIsNotActive == run.pc = "find" /\ FindMatchingTrades(FALSE)

-------------------------------------------------------------------------------
(* Accepting, confirming and deleting: look, then act *)

\* What the bot answers to the question whether it is done already.  An offer of its own is
\* confirmed as soon as it does not need to be, so also when it was removed instead.
Reached(t, state) ==
  \/ t = "ACCEPT" /\ (state = "accepted" \/ (~own /\ state = "confirm"))
  \/ t = "CONFIRM" /\ (IF own THEN state # "confirm" ELSE state = "accepted")
  \/ t = "DELETE" /\ state = "removed"

\* The offer is active, and the partner's or to be confirmed if it has to be; an active offer
\* of the partner that the bot accepted is to be confirmed.
Ready(t, state) ==
  \/ t = "ACCEPT" /\ ~own /\ state = "active"
  \/ t = "CONFIRM" /\ state = "confirm"
  \/ t = "DELETE" /\ state \in {"active", "confirm"}

Acts == {"ACCEPT", "CONFIRM", "DELETE"}

HandleActJob ==
  /\ run.pc = "check" /\ type \in Acts
  /\ IF Reached(type, LoadOfferWithCaching(FALSE).state) THEN Go("answer") ELSE Go("act")
  /\ Fetched
  /\ UNCHANGED <<type, own, job, req, store, steam, faults>>

\* done already: the job is answered with the offer from the cache
AnswerFromCache ==
  /\ run.pc = "answer"
  /\ Ok
  /\ cached' = LoadOfferWithCaching(TRUE)
  /\ UNCHANGED <<type, own, req, store, steam, known, faults>>

\* what becomes of the offer; one that is accepted may have to be confirmed
Results ==
  IF type = "DELETE" THEN {"removed"}
  ELSE IF type = "ACCEPT" THEN {"confirm", "accepted"}
  ELSE IF own THEN {"active"} ELSE {"accepted"}

\* Mutation: what Steam answers is not waited for
SteamRefusesIgnored == Ok

\* the job is tried again or not; there is nothing to confirm, and then it is not
SteamRefuses == Unrecoverable \/ (type # "CONFIRM" /\ Retry)

\* The bot looks again, but acts on the offer that its cache had before it did.
Act ==
  LET seen == LoadOfferWithCaching(FALSE)
      offer == LoadOfferWithCaching(TRUE)
  IN
  /\ run.pc = "act"
  /\ IF Reached(type, seen.state) \/ ~Ready(type, offer.state)
     THEN Unrecoverable /\ cached' = seen /\ UNCHANGED <<theirs, was, faults>>
     ELSE IF ~Ready(type, theirs)
     THEN SteamRefuses /\ cached' = seen /\ UNCHANGED <<theirs, was, faults>>
     ELSE \E result \in Results :
          \/ /\ Becomes(result)
             /\ cached' = IF type = "DELETE" THEN Gone ELSE [there |-> TRUE, state |-> result, recent |-> TRUE]
             /\ Ok
             /\ UNCHANGED faults
          \/ (Becomes(theirs) \/ Becomes(result)) /\ cached' = seen /\ Retry /\ Faulty("steam")
  /\ UNCHANGED <<type, own, req, store, made, known>>

RefreshTrade ==
  /\ run.pc = "check" /\ type = "REFRESH"
  /\ \/ Ok /\ UNCHANGED faults
     \/ Retry /\ Faulty("glitched")
  /\ cached' = [there |-> TRUE, state |-> theirs, recent |-> TRUE]
  /\ UNCHANGED <<type, own, req, store, steam, known>>

-------------------------------------------------------------------------------
(* Others *)

\* the partner answers, or takes back, what is offered; an offer is cancelled
PartnerActs ==
  /\ \/ \E k \in Active : made' = [made EXCEPT ![k] = "over"] /\ UNCHANGED <<theirs, was>>
     \/ theirs \in {"active", "confirm"} /\ Becomes("removed") /\ UNCHANGED made
     \/ own /\ theirs = "active" /\ (Becomes("accepted") \/ Becomes("countered")) /\ UNCHANGED made
  /\ UNCHANGED <<type, own, job, run, req, store, cache, faults>>

\* the bot stops: the cache and the answers are gone, and what it was sending may be sent
BotRestarts ==
  /\ Faulty("restart")
  /\ store' = None
  /\ cached' = Gone
  /\ known' = {}
  /\ req' = [s \in Slot |-> "idle"]
  /\ \/ UNCHANGED steam
     \/ \E s \in Slot : req[s] # "idle" /\ MayCreate(s) /\ Creates /\ Countered(s)
  /\ IF run.pc = "wait" THEN Retry ELSE UNCHANGED <<job, run>>
  /\ UNCHANGED <<type, own>>

RemoveJob ==
  /\ job.state = "waiting" /\ job.attempts > 0
  /\ job' = [job EXCEPT !.state = "error"]
  /\ UNCHANGED <<type, own, run, req, store, steam, cache, faults>>

Next ==
  \/ Start \/ Complete \/ RunFails
  \/ BotPolls \/ Ages
  \/ HandleCreateJob \/ Intercept \/ Cut
  \/ \E s \in Slot : Sent(s) \/ SentWithError(s) \/ NotSent(s) \/ Refused(s)
  \/ HandleCounterJob \/ CounterTrade \/ CounterJobButOfferIsNotActive
  \/ HandleActJob \/ AnswerFromCache \/ Act \/ RefreshTrade
  \/ PartnerActs \/ BotRestarts \/ RemoveJob

Spec == Init /\ [][Next]_vars

-------------------------------------------------------------------------------
(* Properties *)

\* However often a job is tried, there are never two offers of it to be accepted: an
\* attempt finds the offer that an earlier one created, also when that was answered with
\* an error or the bot has forgotten it.
OneOffer == \A k, l \in Active : k = l

\* A job that completes has done what it was for, also when it found it done by another
\* attempt, in a cache that lags behind: there is an offer, or the offer it is about has been
\* accepted, removed or confirmed.  Of an offer that the bot made, the code takes any that is
\* not to be confirmed for confirmed (checkConfirmed), so such a job completes as well when
\* the offer was cancelled before: then there was nothing left to confirm.
DoneMeansDone ==
  job.state = "done" =>
    /\ type \in {"CREATE", "COUNTER"} => \E k \in Made : made[k] # None
    /\ type = "ACCEPT" => was \cap {"confirm", "accepted"} # {}
    /\ type = "DELETE" => "removed" \in was
    /\ type = "CONFIRM" => IF own THEN was \ {"confirm"} # {} ELSE "accepted" \in was

\* The bot works on one request for a key at a time: it answers another with the error
\* "Concurrent request using same idempotency key".
NoConcurrentUse == \A s, t \in Slot : req[s] = "create" /\ req[t] = "create" => s = t

===============================================================================

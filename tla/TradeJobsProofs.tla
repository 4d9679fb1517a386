---------------------------- MODULE TradeJobsProofs ----------------------------
(***************************************************************************)
(* A job of a trade that completes has done what it was for, and it never  *)
(* leaves two offers to be accepted, however often it is tried again: for  *)
(* any offers, requests and attempts, and any faults - but for the second, *)
(* no connection breaks while the bot works on a request to create.        *)
(*                                                                         *)
(* The argument for one offer: an attempt creates only after it has seen   *)
(* that there is no active offer, and from then on nobody else creates     *)
(* one, since whoever sent a request to create waits for its answer, and a *)
(* request to counter finds the offer of the partner countered.  The cache *)
(* is looked at instead of Steam only by an attempt before which there was *)
(* no request.                                                             *)
(***************************************************************************)
EXTENDS TradeJobs, SequencesExt, SequenceTheorems, TLAPS

Pcs == {"idle", "check", "find", "act", "answer", "post", "counter", "wait", "publish"}

States == {None, "active", "confirm", "accepted", "removed", "countered"}

CachedType == [there : BOOLEAN, state : States, recent : BOOLEAN]

Types ==
  /\ own \in BOOLEAN
  /\ job \in [state : {"waiting", "active", "done", "error"}, attempts : 0..MaxAttempts]
  /\ run \in [pc : Pcs, slot : Slot \cup {0}]
  /\ req \in [Slot -> {"idle", "create", "counter"}]
  /\ store \in {None, "ok", "bad"}
  /\ theirs \in States
  /\ made \in [Made -> {None, "active", "over"}]
  /\ cached \in CachedType
  /\ known \subseteq Made

\* Whoever waits has a request; attempts are made by the job that is active, and in time.
Control ==
  /\ job.state \in {"waiting", "active"} => job.attempts < MaxAttempts
  /\ (job.state = "active") = (run.pc # "idle")
  /\ run.pc = "idle" => run = Resting
  /\ run.pc = "wait" => run.slot \in Slot /\ req[run.slot] # "idle"

\* Which kinds of job get where
Paths ==
  /\ run.pc \in {"act", "answer"} => type \in Acts
  /\ run.pc \in {"post", "wait", "find", "counter"} => type \in {"CREATE", "COUNTER"}

ControlInv == Types /\ Control /\ Paths

\* There is an offer that was created for the job.
Created == \E k \in Made : made[k] # None

\* The offer the job is about has been in a state that the bot takes for what the job wants.
HasReached == \E state \in was : Reached(type, state)

\* An attempt that is about to complete has had the effect, or seen it.
Effect ==
  /\ theirs \in was
  /\ cached.there => cached.state \in was
  /\ \A k \in known : made[k] # None
  /\ store = "ok" => Created
  /\ run.pc = "answer" => HasReached
  /\ run.pc = "publish" \/ job.state = "done" =>
       IF type \in Acts THEN HasReached ELSE type = "REFRESH" \/ Created

DoneInv == ControlInv /\ Effect

\* Whoever sent a request to create waits for its answer, or is about to send it.
Creating == run.pc = "post" \/ (run.pc = "wait" /\ req[run.slot] = "create")

Alone ==
  /\ \A k, l \in Active : k = l
  /\ \A s \in Slot : req[s] = "create" => run.pc = "wait" /\ run.slot = s
  /\ \A s \in Slot : req[s] = "counter" => type = "COUNTER"
  /\ Creating => Active = {} /\ theirs # "active"
  /\ theirs = "active" => Active = {}
  /\ type \notin {"CREATE", "COUNTER"} => Active = {}
  /\ type = "CREATE" => theirs = None /\ run.pc \notin {"find", "counter"}
  /\ type = "CREATE" /\ job.attempts = 0 /\ (job.state = "waiting" \/ run.pc = "check") => Active = {}
  /\ cached.there /\ cached.state = "countered" => theirs = "countered"
  /\ run.pc = "find" => theirs = "countered"

OneInv == ControlInv /\ Alone

-------------------------------------------------------------------------------
(* What becomes of an attempt *)

JobType == [state : {"waiting", "active", "done", "error"}, attempts : 0..MaxAttempts]

\* An attempt that is over; the job is tried again, or not.
Ends ==
  /\ run' = Resting
  /\ job' \in JobType
  /\ job'.state = "waiting" => job'.attempts < MaxAttempts
  /\ job'.state \in {"waiting", "error"}

LEMMA Endings ==
  ASSUME MaxAttempts \in Nat \ {0}, ControlInv, run.pc # "idle", Retry \/ Unrecoverable
  PROVE  Ends /\ (Retry /\ job'.state = "waiting" => job'.attempts # 0)
<1>1. job \in JobType /\ job.state = "active" /\ job.attempts < MaxAttempts
  BY DEF ControlInv, Types, Control, JobType
<1>2. CASE Retry BY <1>1, <1>2 DEF Retry, Ends, JobType
<1>3. CASE Unrecoverable BY <1>1, <1>3 DEF Unrecoverable, Retry, Ends, JobType
<1> QED BY <1>2, <1>3

LEMMA Goings ==
  ASSUME ControlInv, NEW pc \in Pcs, Go(pc)
  PROVE  run' \in [pc : Pcs, slot : Slot \cup {0}] /\ run'.pc = pc /\ run'.slot = run.slot
BY DEF ControlInv, Types, Go

\* An attempt that is over leaves the control as it should be.
LEMMA AfterEnd ==
  ASSUME ControlInv, Ends
  PROVE  Control' /\ Paths' /\ run' \in [pc : Pcs, slot : Slot \cup {0}]
<1>1. run'.pc = "idle" /\ run'.slot = 0 /\ job'.state # "active" BY DEF Ends, Resting
<1> QED BY <1>1 DEF Ends, Control, Paths, Pcs, Resting, JobType

\* So does one that goes on.
LEMMA AfterGo ==
  ASSUME ControlInv, UNCHANGED <<type, own, job>>, NEW pc \in Pcs \ {"idle", "wait"}, Go(pc), run.pc # "idle",
         pc \in {"act", "answer"} => type \in Acts,
         pc \in {"post", "find", "counter"} => type \in {"CREATE", "COUNTER"}
  PROVE  Control' /\ Paths' /\ run' \in [pc : Pcs, slot : Slot \cup {0}]
<1>1. run' \in [pc : Pcs, slot : Slot \cup {0}] /\ run'.pc = pc BY Goings
<1> QED BY <1>1 DEF ControlInv, Control, Paths, JobType

-------------------------------------------------------------------------------
(* Types, attempts and paths *)

LEMMA GoneType == Gone \in CachedType /\ ~Gone.there
BY DEF Gone, CachedType, States

LEMMA CachedTypes ==
  ASSUME NEW state \in States
  PROVE  [there |-> TRUE, state |-> state, recent |-> TRUE] \in CachedType
BY DEF CachedType

LEMMA Initially == MaxAttempts \in Nat \ {0} /\ Init => ControlInv
BY GoneType DEF Init, ControlInv, Types, Control, Paths, Resting, States, Pcs

\* The offers that are made.
LEMMA Making ==
  ASSUME Types, Creates
  PROVE  made' \in [Made -> {None, "active", "over"}]
BY DEF Types, Creates

LEMMA Loading ==
  ASSUME Types, NEW useCache
  PROVE  LoadOfferWithCaching(useCache) \in CachedType
BY DEF Types, CachedType, LoadOfferWithCaching, States

LEMMA ResultStates == Results \subseteq States
BY DEF Results, States

\* Steps that look for a matching offer.
LEMMA FindControl ==
  ASSUME ControlInv, run.pc \in {"check", "find"}, type \in {"CREATE", "COUNTER"}, NEW useCache,
         FindMatchingTrades(useCache)
  PROVE  ControlInv'
<1>1. UNCHANGED <<type, own, job, req, store, steam, cached>> /\ (Go("publish") \/ Go("post"))
  BY DEF FindMatchingTrades, Ok
<1>2. Control' /\ Paths' /\ run' \in [pc : Pcs, slot : Slot \cup {0}]
  BY <1>1, AfterGo DEF Pcs
<1>3. known' \subseteq Made BY DEF FindMatchingTrades, Active, ControlInv, Types
<1> QED BY <1>1, <1>2, <1>3 DEF ControlInv, Types, steam

\* A request is answered: the attempt that waits for it is over or publishes.
LEMMA AnswerControl ==
  ASSUME MaxAttempts \in Nat \ {0}, ControlInv, NEW s \in Slot, UNCHANGED <<type, own>>,
         req' = [req EXCEPT ![s] = "idle"],
         Answer(s, Ok) \/ Answer(s, Retry) \/ Answer(s, Unrecoverable)
  PROVE  /\ Control' /\ Paths' /\ run' \in [pc : Pcs, slot : Slot \cup {0}] /\ job' \in JobType
         /\ req' \in [Slot -> {"idle", "create", "counter"}]
<1>1. req' \in [Slot -> {"idle", "create", "counter"}] BY DEF ControlInv, Types
<1>2. CASE run.pc = "wait" /\ run.slot = s
  <2>1. CASE Ok
    <3>1. UNCHANGED job /\ Go("publish") BY <2>1 DEF Ok
    <3>2. job' \in JobType BY <3>1 DEF ControlInv, Types, JobType
    <3> QED BY <1>1, <1>2, <3>1, <3>2, AfterGo DEF Pcs
  <2>2. CASE Retry \/ Unrecoverable
    <3>1. Ends BY <1>2, <2>2, Endings
    <3> QED BY <1>1, <3>1, AfterEnd DEF Ends
  <2> QED BY <1>2, <2>1, <2>2 DEF Answer
<1>3. CASE ~(run.pc = "wait" /\ run.slot = s)
  <2>1. UNCHANGED <<job, run>> BY <1>3 DEF Answer
  <2>2. run.pc = "wait" => req'[run.slot] = req[run.slot] BY <1>3 DEF ControlInv, Types, Control
  <2> QED BY <1>1, <2>1, <2>2 DEF ControlInv, Types, Control, Paths, JobType
<1> QED BY <1>2, <1>3

\* Steps of the bot that answer a request
LEMMA SlotControl ==
  ASSUME MaxAttempts \in Nat \ {0}, ControlInv, NEW s \in Slot,
         Sent(s) \/ SentWithError(s) \/ NotSent(s) \/ Refused(s)
  PROVE  ControlInv'
<1>1. /\ UNCHANGED <<type, own>> /\ req' = [req EXCEPT ![s] = "idle"]
      /\ Answer(s, Ok) \/ Answer(s, Retry) \/ Answer(s, Unrecoverable)
  BY DEF Sent, SentWithError, NotSent, Refused
<1>2. /\ Control' /\ Paths' /\ run' \in [pc : Pcs, slot : Slot \cup {0}] /\ job' \in JobType
      /\ req' \in [Slot -> {"idle", "create", "counter"}]
  BY <1>1, AnswerControl
<1>3. store' \in {None, "ok", "bad"} BY DEF Sent, SentWithError, NotSent, Refused, Stored, ControlInv, Types
<1>4. theirs' \in States /\ made' \in [Made -> {None, "active", "over"}]
  BY Making DEF Sent, SentWithError, NotSent, Refused, Countered, Becomes, ControlInv, Types, States, steam
<1>5. cached' = cached BY DEF Sent, SentWithError, NotSent, Refused, cache
<1>6. known' \subseteq Made BY DEF Sent, SentWithError, NotSent, Refused, ControlInv, Types, cache
<1> QED BY <1>1, <1>2, <1>3, <1>4, <1>5, <1>6 DEF ControlInv, Types, JobType

\* Steps of an attempt
LEMMA AttemptControl ==
  ASSUME MaxAttempts \in Nat \ {0}, ControlInv,
         \/ Start \/ Complete \/ RunFails \/ HandleCreateJob \/ Intercept \/ Cut
         \/ HandleCounterJob \/ CounterTrade \/ CounterJobButOfferIsNotActive
         \/ HandleActJob \/ AnswerFromCache \/ Act \/ RefreshTrade
  PROVE  ControlInv'
<1> DEFINE Rest ==
      /\ UNCHANGED <<type, own>>
      /\ req' \in [Slot -> {"idle", "create", "counter"}] /\ store' \in {None, "ok", "bad"}
      /\ theirs' \in States /\ made' \in [Made -> {None, "active", "over"}]
      /\ cached' \in CachedType /\ known' \subseteq Made
\* what is to be shown of a step: the attempt ends or goes on, and the rest keeps its types
<1>1. ASSUME Rest, Ends PROVE ControlInv'
  BY <1>1, AfterEnd DEF Ends, ControlInv, Types, JobType
<1>2. ASSUME Rest, job' = job, NEW pc \in Pcs \ {"idle", "wait"}, Go(pc), run.pc # "idle",
             pc \in {"act", "answer"} => type \in Acts,
             pc \in {"post", "find", "counter"} => type \in {"CREATE", "COUNTER"}
      PROVE  ControlInv'
  BY <1>2, AfterGo DEF ControlInv, Types
<1>3. CASE Start
  BY <1>3, Goings DEF Start, Go, steam, cache, ControlInv, Types, Control, Paths, Pcs
<1>4. CASE Complete
  <2>1. Rest BY <1>4 DEF Complete, steam, cache, ControlInv, Types
  <2>2. CASE Retry BY <1>1, <1>4, <2>1, <2>2, Endings DEF Complete
  <2>3. CASE job' = [job EXCEPT !.state = "done"] /\ run' = Resting
    <3>1. job' \in JobType /\ job'.state = "done" BY <2>3 DEF ControlInv, Types, JobType
    <3>2. run'.pc = "idle" /\ run' \in [pc : Pcs, slot : Slot \cup {0}] BY <2>3 DEF Resting, Pcs
    <3> QED BY <2>1, <2>3, <3>1, <3>2 DEF ControlInv, Types, Control, Paths, JobType
  <2> QED BY <1>4, <2>2, <2>3 DEF Complete
<1>5. CASE RunFails
  BY <1>1, <1>5, Endings DEF RunFails, steam, cache, ControlInv, Types
<1>6. CASE HandleCreateJob BY <1>6, FindControl DEF HandleCreateJob
<1>7. CASE Intercept
  <2>1. UNCHANGED <<type, own>> /\ run.pc = "post" /\ UNCHANGED <<store, steam, cache>> BY <1>7 DEF Intercept
  <2>2. CASE Ok /\ UNCHANGED req
    BY <1>2, <2>1, <2>2 DEF Ok, ControlInv, Types, Pcs, steam, cache
  <2>3. CASE Unrecoverable /\ UNCHANGED req
    BY <1>1, <2>1, <2>3, Endings DEF ControlInv, Types, steam, cache
  <2>4. CASE \E s \in Slot : /\ req[s] = "idle"
                             /\ req' = [req EXCEPT ![s] = "create"]
                             /\ run' = [pc |-> "wait", slot |-> s]
                             /\ UNCHANGED job
    BY <2>1, <2>4 DEF ControlInv, Types, Control, Paths, Pcs, steam, cache
  <2> QED BY <1>7, <2>2, <2>3, <2>4 DEF Intercept
<1>8. CASE Cut
  <2>1. Rest /\ run.pc = "wait" BY <1>8 DEF Cut, steam, cache, ControlInv, Types
  <2>2. CASE Retry BY <1>1, <2>1, <2>2, Endings
  <2>3. CASE job' = [job EXCEPT !.state = "waiting"] /\ run' = Resting
    <3>1. Ends BY <2>1, <2>3 DEF Ends, ControlInv, Types, Control, JobType
    <3> QED BY <1>1, <2>1, <3>1
  <2> QED BY <1>8, <2>2, <2>3 DEF Cut
<1>9. CASE HandleCounterJob
  <2>1. Rest /\ run.pc = "check" /\ type = "COUNTER"
    BY <1>9, Loading DEF HandleCounterJob, Fetched, steam, ControlInv, Types
  <2>2. CASE Go("counter") /\ UNCHANGED job BY <1>2, <2>1, <2>2 DEF Pcs
  <2>3. CASE Go("find") /\ UNCHANGED job BY <1>2, <2>1, <2>3 DEF Pcs
  <2>4. CASE Unrecoverable BY <1>1, <2>1, <2>4, Endings
  <2> QED BY <1>9, <2>2, <2>3, <2>4 DEF HandleCounterJob
<1>10. CASE CounterTrade
  <2>1. /\ UNCHANGED <<type, own>> /\ run.pc = "counter" /\ UNCHANGED <<store, steam, known>>
        /\ cached' \in CachedType
    BY <1>10, Loading, GoneType DEF CounterTrade, ControlInv
  <2>2. CASE Unrecoverable /\ UNCHANGED req
    BY <1>1, <2>1, <2>2, Endings DEF ControlInv, Types, steam
  <2>3. CASE \E s \in Slot : /\ req' = [req EXCEPT ![s] = "counter"]
                             /\ run' = [pc |-> "wait", slot |-> s]
                             /\ UNCHANGED job
    BY <2>1, <2>3 DEF ControlInv, Types, Control, Paths, Pcs, steam
  <2> QED BY <1>10, <2>2, <2>3 DEF CounterTrade
<1>11. CASE CounterJobButOfferIsNotActive
  BY <1>11, FindControl DEF CounterJobButOfferIsNotActive, ControlInv, Paths
<1>12. CASE HandleActJob
  <2>1. Rest /\ run.pc = "check" /\ type \in Acts /\ UNCHANGED job
    BY <1>12, Loading DEF HandleActJob, Fetched, steam, ControlInv, Types
  <2> QED BY <1>2, <1>12, <2>1 DEF HandleActJob, Pcs
<1>13. CASE AnswerFromCache
  <2>1. Rest /\ run.pc = "answer" /\ Ok
    BY <1>13, Loading DEF AnswerFromCache, steam, ControlInv, Types
  <2> QED BY <1>2, <2>1 DEF Ok, Pcs
<1>14. CASE Act
  <2>1. run.pc = "act" /\ type \in Acts BY <1>14 DEF Act, ControlInv, Paths
  <2>2. /\ theirs' \in States /\ UNCHANGED <<type, own, req, store, made, known>>
        /\ cached' = LoadOfferWithCaching(TRUE) \/ cached' = Gone
           \/ cached' = LoadOfferWithCaching(FALSE)
           \/ \E state \in Results : cached' = [there |-> TRUE, state |-> state, recent |-> TRUE]
    BY <1>14, ResultStates DEF Act, Becomes, ControlInv, Types
  <2>3. cached' \in CachedType
    BY <2>2, ResultStates, CachedTypes, Loading, GoneType DEF ControlInv
  <2>4. Rest BY <2>2, <2>3 DEF ControlInv, Types
  <2>5. Unrecoverable \/ Retry \/ Ok BY <1>14 DEF Act, SteamRefuses
  <2> QED BY <1>1, <1>2, <2>1, <2>4, <2>5, Endings DEF Ok, Pcs
<1>15. CASE RefreshTrade
  <2>1. Rest /\ run.pc = "check" BY <1>15, CachedTypes DEF RefreshTrade, steam, ControlInv, Types
  <2> QED BY <1>1, <1>2, <1>15, <2>1, Endings DEF RefreshTrade, Ok, Pcs
<1> QED BY <1>3, <1>4, <1>5, <1>6, <1>7, <1>8, <1>9, <1>10, <1>11, <1>12, <1>13, <1>14, <1>15

\* Steps of the bot, the partner and the user
LEMMA OtherControl ==
  ASSUME MaxAttempts \in Nat \ {0}, ControlInv, BotPolls \/ Ages \/ PartnerActs \/ BotRestarts \/ RemoveJob
  PROVE  ControlInv'
<1>1. CASE BotPolls
  <2>1. UNCHANGED <<type, own, job, run, req, store, steam>> BY <1>1 DEF BotPolls
  <2>2. cached' \in CachedType BY <1>1, CachedTypes, GoneType DEF BotPolls, ControlInv, Types
  <2>3. known' \subseteq Made BY <1>1 DEF BotPolls, Active
  <2> QED BY <2>1, <2>2, <2>3 DEF ControlInv, Types, Control, Paths, steam
<1>2. CASE Ages
  <2>1. UNCHANGED <<type, own, job, run, req, store, steam, known>> BY <1>2 DEF Ages
  <2>2. cached' \in CachedType BY <1>2 DEF Ages, ControlInv, Types, CachedType
  <2> QED BY <2>1, <2>2 DEF ControlInv, Types, Control, Paths, steam
<1>3. CASE PartnerActs
  <2>1. UNCHANGED <<type, own, job, run, req, store, cache>> BY <1>3 DEF PartnerActs
  <2>2. made' \in [Made -> {None, "active", "over"}] /\ theirs' \in States
    BY <1>3 DEF PartnerActs, Becomes, ControlInv, Types, Active, States
  <2> QED BY <2>1, <2>2 DEF ControlInv, Types, Control, Paths, cache
<1>4. CASE BotRestarts
  <2>1. /\ UNCHANGED <<type, own>> /\ store' = None /\ cached' = Gone /\ known' = {} /\ req' = [s \in Slot |-> "idle"]
        /\ IF run.pc = "wait" THEN Retry ELSE UNCHANGED <<job, run>>
    BY <1>4 DEF BotRestarts
  <2>2. made' \in [Made -> {None, "active", "over"}] /\ theirs' \in States
    BY <1>4, Making DEF BotRestarts, Countered, Becomes, ControlInv, Types, States, steam
  <2>3. CASE run.pc = "wait"
    <3>1. Ends BY <2>1, <2>3, Endings
    <3> QED BY <2>1, <2>2, <3>1, AfterEnd, GoneType DEF ControlInv, Types, Ends, JobType
  <2>4. CASE run.pc # "wait"
    BY <2>1, <2>2, <2>4, GoneType DEF ControlInv, Types, Control, Paths
  <2> QED BY <2>3, <2>4
<1>5. CASE RemoveJob
  <2>1. UNCHANGED <<type, own, run, req, store, steam, cache>> BY <1>5 DEF RemoveJob
  <2>2. job' \in JobType /\ job'.state = "error" /\ job.state = "waiting"
    BY <1>5 DEF RemoveJob, ControlInv, Types, JobType
  <2> QED BY <2>1, <2>2 DEF ControlInv, Types, Control, Paths, JobType, steam, cache
<1> QED BY <1>1, <1>2, <1>3, <1>4, <1>5

LEMMA ControlStep == MaxAttempts \in Nat \ {0} /\ ControlInv /\ [Next]_vars => ControlInv'
<1> SUFFICES ASSUME MaxAttempts \in Nat \ {0}, ControlInv, [Next]_vars PROVE ControlInv'
  OBVIOUS
<1>1. CASE UNCHANGED vars BY <1>1 DEF vars, ControlInv, Types, Control, Paths
<1>2. CASE Next BY <1>2, AttemptControl, SlotControl, OtherControl DEF Next
<1> QED BY <1>1, <1>2

LEMMA ControlTypes == ControlInv => TypeOK
BY DEF ControlInv, Types, Control, TypeOK, Resting, Pcs, States

\* A job keeps its types: it is given up before its attempts run out of their bound, and an
\* attempt is in hand exactly while it is active.
THEOREM TypeCorrect == Spec => []TypeOK
<1>1. Init => ControlInv BY MaxAttemptsAssumption, Initially
<1>2. ControlInv /\ [Next]_vars => ControlInv' BY MaxAttemptsAssumption, ControlStep
<1>3. ControlInv => TypeOK BY ControlTypes
<1> QED BY <1>1, <1>2, <1>3, PTL DEF Spec

-------------------------------------------------------------------------------
(* What was done *)

\* What has been done stays done.
LEMMA EffectsStay ==
  ASSUME UNCHANGED <<type, own>>, was \subseteq was', \A k \in Made : made[k] # None => made'[k] # None
  PROVE  (HasReached => HasReached') /\ (Created => Created')
BY DEF HasReached, Reached, Created

\* An offer that is created is a new one.
LEMMA CreatesOne ==
  ASSUME Types, Creates
  PROVE  /\ \A k \in Made : made[k] # None => made'[k] = made[k]
         /\ Created'
         /\ \A k \in Made : made[k] # made'[k] => made'[k] # None
         /\ Active' # {}
BY DEF Types, Creates, Created, Active, None

LEMMA EffectInitially == MaxAttempts \in Nat \ {0} /\ Init => Effect
BY GoneType DEF Init, Effect, Resting, None

\* What is loaded is a state the offer has been in.
LEMMA LoadedWas ==
  ASSUME Effect, NEW useCache
  PROVE  LoadOfferWithCaching(useCache).state \in was
BY DEF Effect, LoadOfferWithCaching

\* What is done already has been done.
LEMMA LoadedReached ==
  ASSUME Effect, NEW useCache, Reached(type, LoadOfferWithCaching(useCache).state)
  PROVE  HasReached
BY LoadedWas DEF HasReached

\* An attempt that is over leaves the effect as it is.
LEMMA EffectAfterEnd ==
  ASSUME Ends
  PROVE  run'.pc = "idle" /\ job'.state # "done"
BY DEF Ends, Resting

\* Steps that look for a matching offer complete only if there is one.
LEMMA FindEffect ==
  ASSUME DoneInv, run.pc \in {"check", "find"}, type \in {"CREATE", "COUNTER"}, NEW useCache, FindMatchingTrades(useCache)
  PROVE  Effect'
<1>1. /\ UNCHANGED <<type, own, job, store, theirs, made, was, cached>> /\ known' \subseteq known \cup Active
      /\ IF GetActiveTrades(useCache) # {} THEN Go("publish") ELSE Go("post")
  BY DEF FindMatchingTrades, Ok, steam
<1>2. \A k \in Active : made[k] # None BY DEF Active, None
<1>3. GetActiveTrades(useCache) # {} => Created
  BY <1>2 DEF GetActiveTrades, Active, DoneInv, Effect, ControlInv, Types, Created
<1>4. (HasReached => HasReached') /\ (Created => Created') BY <1>1, EffectsStay
<1>5. job.state # "done" BY DEF DoneInv, ControlInv, Types, Control
<1>6. CASE Go("publish") /\ GetActiveTrades(useCache) # {}
  <2>1. run'.pc = "publish" BY <1>6, Goings DEF DoneInv, Pcs
  <2>2. type \notin Acts BY DEF Acts
  <2> QED BY <1>1, <1>2, <1>3, <1>4, <1>5, <1>6, <2>1, <2>2 DEF DoneInv, Effect
<1> QED BY <1>1, <1>2, <1>4, <1>5, <1>6, Goings DEF DoneInv, Effect, Pcs

\* Steps of the bot that answer a request
LEMMA SlotEffect ==
  ASSUME MaxAttempts \in Nat \ {0}, DoneInv, NEW s \in Slot,
         Sent(s) \/ SentWithError(s) \/ NotSent(s) \/ Refused(s)
  PROVE  Effect'
<1>1. CASE Sent(s) \/ SentWithError(s)
  <2>1. /\ UNCHANGED <<type, own>> /\ Creates /\ (\E state \in States : Becomes(state)) /\ UNCHANGED cached
        /\ known' \subseteq known \cup {k \in Made : made[k] # made'[k]}
    BY <1>1 DEF Sent, SentWithError, Countered, DoneInv, ControlInv, Types, States, cache
  <2>2. Created' /\ (\A k \in Made : made[k] # None => made'[k] # None)
        /\ (\A k \in Made : made[k] # made'[k] => made'[k] # None)
    BY <2>1, CreatesOne DEF DoneInv, ControlInv
  <2>3. was \subseteq was' /\ theirs' \in was' BY <2>1 DEF Becomes
  <2>4. HasReached => HasReached' BY <2>1, <2>2, <2>3, EffectsStay
  <2>5. cached'.there => cached'.state \in was' BY <2>1, <2>3, GoneType DEF DoneInv, Effect
  <2>6. \A k \in known' : made'[k] # None BY <2>1, <2>2 DEF DoneInv, Effect, ControlInv, Types
  <2>7. /\ run'.pc = "answer" => run' = run
        /\ run'.pc = "publish" \/ job'.state = "done" => run.pc = "wait" \/ UNCHANGED <<job, run>>
    <3>1. Answer(s, Ok) \/ Answer(s, Retry) BY <1>1 DEF Sent, SentWithError
    <3>2. CASE run.pc = "wait" /\ run.slot = s
      <4>1. CASE Ok BY <3>2, <4>1, Goings DEF Ok, Pcs, DoneInv, ControlInv, Control, Types
      <4>2. CASE Retry BY <3>2, <4>2, Endings, EffectAfterEnd DEF DoneInv
      <4> QED BY <3>1, <3>2, <4>1, <4>2 DEF Answer
    <3>3. CASE ~(run.pc = "wait" /\ run.slot = s) BY <3>1, <3>3 DEF Answer
    <3> QED BY <3>2, <3>3
  <2>8. run.pc = "wait" => type \notin Acts BY DEF DoneInv, ControlInv, Paths, Acts
  <2> QED BY <2>1, <2>2, <2>3, <2>4, <2>5, <2>6, <2>7, <2>8 DEF DoneInv, Effect
<1>2. CASE NotSent(s) \/ Refused(s)
  <2>1. /\ UNCHANGED <<type, own, steam, cache>> /\ store' \in {store, None, "bad"}
        /\ Answer(s, Retry) \/ Answer(s, Unrecoverable)
    BY <1>2 DEF NotSent, Refused, Stored
  <2>2. UNCHANGED <<job, run>> \/ (run'.pc = "idle" /\ job'.state # "done")
    BY <2>1, Endings, EffectAfterEnd DEF Answer, DoneInv
  <2>3. (HasReached => HasReached') /\ (Created => Created') BY <2>1, EffectsStay DEF steam
  <2> QED BY <2>1, <2>2, <2>3 DEF DoneInv, Effect, steam, cache, None
<1> QED BY <1>1, <1>2

\* Steps of the bot, the partner and the user
LEMMA OtherEffect ==
  ASSUME MaxAttempts \in Nat \ {0}, DoneInv, BotPolls \/ Ages \/ PartnerActs \/ BotRestarts \/ RemoveJob
  PROVE  Effect'
<1>1. CASE BotPolls
  <2>1. UNCHANGED <<type, own, job, run, store, steam>> BY <1>1 DEF BotPolls
  <2>2. cached'.there => cached'.state \in was BY <1>1, GoneType DEF BotPolls, DoneInv, Effect
  <2>3. \A k \in known' : made[k] # None BY <1>1 DEF BotPolls, Active, None
  <2>4. (HasReached => HasReached') /\ (Created => Created') BY <2>1, EffectsStay DEF steam
  <2> QED BY <2>1, <2>2, <2>3, <2>4 DEF DoneInv, Effect, steam
<1>2. CASE Ages
  <2>1. UNCHANGED <<type, own, job, run, store, steam, known>> BY <1>2 DEF Ages
  <2>2. cached'.there = cached.there /\ cached'.state = cached.state
    BY <1>2 DEF Ages, DoneInv, ControlInv, Types, CachedType
  <2>3. (HasReached => HasReached') /\ (Created => Created') BY <2>1, EffectsStay DEF steam
  <2> QED BY <2>1, <2>2, <2>3 DEF DoneInv, Effect, steam
<1>3. CASE PartnerActs
  <2>1. UNCHANGED <<type, own, job, run, store, cached, known>> BY <1>3 DEF PartnerActs, cache
  <2>2. (\A k \in Made : made[k] # None => made'[k] # None) /\ was \subseteq was' /\ theirs' \in was'
    BY <1>3 DEF PartnerActs, Becomes, DoneInv, ControlInv, Types, Effect, Active, None
  <2>3. (HasReached => HasReached') /\ (Created => Created') BY <2>1, <2>2, EffectsStay
  <2> QED BY <2>1, <2>2, <2>3 DEF DoneInv, Effect, ControlInv, Types
<1>4. CASE BotRestarts
  <2>1. /\ UNCHANGED <<type, own>> /\ store' = None /\ cached' = Gone /\ known' = {}
        /\ IF run.pc = "wait" THEN Retry ELSE UNCHANGED <<job, run>>
    BY <1>4 DEF BotRestarts
  <2>2. UNCHANGED steam \/ (Creates /\ \E state \in States : Becomes(state))
    BY <1>4 DEF BotRestarts, Countered, DoneInv, ControlInv, Types, States
  <2>3. (\A k \in Made : made[k] # None => made'[k] # None) /\ was \subseteq was' /\ theirs' \in was'
    BY <2>2, CreatesOne DEF steam, Becomes, DoneInv, ControlInv, Effect
  <2>4. (HasReached => HasReached') /\ (Created => Created') BY <2>1, <2>3, EffectsStay
  <2>5. UNCHANGED <<job, run>> \/ (run'.pc = "idle" /\ job'.state # "done")
    BY <2>1, Endings, EffectAfterEnd DEF DoneInv
  <2> QED BY <2>1, <2>3, <2>4, <2>5, GoneType DEF DoneInv, Effect, None
<1>5. CASE RemoveJob
  <2>1. UNCHANGED <<type, own, run, store, steam, cache>> BY <1>5 DEF RemoveJob
  <2>2. job'.state = "error" BY <1>5 DEF RemoveJob, DoneInv, ControlInv, Types
  <2>3. (HasReached => HasReached') /\ (Created => Created') BY <2>1, EffectsStay DEF steam
  <2> QED BY <2>1, <2>2, <2>3 DEF DoneInv, Effect, steam, cache
<1> QED BY <1>1, <1>2, <1>3, <1>4, <1>5

\* A step that acts on the offer completes only if the offer is then as the job wants it.
LEMMA ActEffect ==
  ASSUME MaxAttempts \in Nat \ {0}, DoneInv, Act
  PROVE  Effect'
<1>1. run.pc = "act" /\ type \in Acts /\ UNCHANGED <<type, own, store, made, known>>
  BY DEF Act, DoneInv, ControlInv, Paths
<1>2. ASSUME NEW result \in Results, Ready(type, theirs) PROVE Reached(type, result)
  BY <1>1, <1>2 DEF Acts, Results, Reached, Ready
<1>3. ASSUME NEW useCache PROVE LoadOfferWithCaching(useCache).state \in was BY LoadedWas DEF DoneInv
<1>4. \/ /\ UNCHANGED <<theirs, was>> \/ Becomes(theirs) \/ \E result \in Results : Becomes(result)
         /\ cached' = LoadOfferWithCaching(FALSE)
         /\ Unrecoverable \/ Retry
      \/ \E result \in Results :
           /\ Becomes(result) /\ Ok /\ Ready(type, theirs)
           /\ cached' = Gone \/ cached' = [there |-> TRUE, state |-> result, recent |-> TRUE]
  BY DEF Act, SteamRefuses
<1>5. was \subseteq was' /\ theirs' \in was' BY <1>4 DEF Becomes, DoneInv, Effect
<1>6. (HasReached => HasReached') /\ (Created => Created') BY <1>1, <1>5, EffectsStay
<1>7. CASE (Unrecoverable \/ Retry) /\ cached' = LoadOfferWithCaching(FALSE)
  <2>1. run'.pc = "idle" /\ job'.state # "done" BY <1>1, <1>7, Endings, EffectAfterEnd DEF DoneInv
  <2>2. cached'.there => cached'.state \in was' BY <1>3, <1>5, <1>7
  <2> QED BY <1>1, <1>5, <1>6, <2>1, <2>2 DEF DoneInv, Effect
<1>8. CASE \E result \in Results :
             /\ Becomes(result) /\ Ok /\ Ready(type, theirs)
             /\ cached' = Gone \/ cached' = [there |-> TRUE, state |-> result, recent |-> TRUE]
  <2>1. PICK result \in Results :
             /\ Becomes(result) /\ Ok /\ Ready(type, theirs)
             /\ cached' = Gone \/ cached' = [there |-> TRUE, state |-> result, recent |-> TRUE]
    BY <1>8
  <2>2. run'.pc = "publish" BY <2>1, Goings DEF Ok, DoneInv, Pcs
  <2>3. Reached(type, result) BY <1>2, <2>1
  <2>4. result \in was' BY <2>1 DEF Becomes
  <2>5. HasReached' BY <1>1, <2>3, <2>4 DEF HasReached, Reached
  <2>6. cached'.there => cached'.state \in was' BY <2>1, <2>4, GoneType
  <2> QED BY <1>1, <1>5, <1>6, <2>2, <2>5, <2>6 DEF DoneInv, Effect
<1> QED BY <1>4, <1>7, <1>8

\* Steps of an attempt
LEMMA AttemptEffect ==
  ASSUME MaxAttempts \in Nat \ {0}, DoneInv,
         \/ Start \/ Complete \/ RunFails \/ HandleCreateJob \/ Intercept \/ Cut
         \/ HandleCounterJob \/ CounterTrade \/ CounterJobButOfferIsNotActive
         \/ HandleActJob \/ AnswerFromCache \/ Act \/ RefreshTrade
  PROVE  Effect'
<1> DEFINE Rest ==
      /\ UNCHANGED <<type, own, store, steam, known>>
      /\ cached'.there => cached'.state \in was
<1>1. Rest => (HasReached => HasReached') /\ (Created => Created') BY EffectsStay DEF steam
<1>2. ASSUME NEW useCache PROVE LoadOfferWithCaching(useCache).state \in was
  BY LoadedWas DEF DoneInv
\* what is to be shown of a step: the attempt ends, or goes on
<1>3. ASSUME Rest, run'.pc \notin {"answer", "publish"}, job'.state # "done" PROVE Effect'
  BY <1>1, <1>3 DEF DoneInv, Effect, steam
<1>4. ASSUME Rest, run.pc # "idle", Retry \/ Unrecoverable PROVE Effect'
  BY <1>3, <1>4, Endings, EffectAfterEnd DEF DoneInv
<1>5. ASSUME Rest, job' = job, NEW pc \in Pcs, Go(pc), run.pc # "idle",
             pc = "answer" => HasReached,
             pc = "publish" => IF type \in Acts THEN HasReached ELSE type = "REFRESH" \/ Created
      PROVE  Effect'
  <2>1. run'.pc = pc BY <1>5, Goings DEF DoneInv
  <2>2. job.state # "done" BY <1>5 DEF DoneInv, ControlInv, Types, Control
  <2> QED BY <1>1, <1>5, <2>1, <2>2 DEF DoneInv, Effect, steam
<1>6. Rest => ~(type \in Acts /\ type \in {"CREATE", "COUNTER"}) BY DEF Acts
<1>7. CASE Start
  <2>1. Rest /\ Go("check") BY <1>7 DEF Start, DoneInv, Effect, cache
  <2>2. run'.pc = "check" /\ job'.state = "active"
    BY <1>7, <2>1, Goings DEF Start, Pcs, DoneInv, ControlInv, Types
  <2> QED BY <1>3, <2>1, <2>2
<1>8. CASE Complete
  <2>1. Rest /\ run.pc = "publish" BY <1>8 DEF Complete, DoneInv, Effect, cache
  <2>2. CASE Retry BY <1>4, <2>1, <2>2
  <2>3. CASE run' = Resting
    BY <1>1, <2>1, <2>3 DEF DoneInv, Effect, Resting, steam
  <2> QED BY <1>8, <2>2, <2>3 DEF Complete
<1>9. CASE RunFails BY <1>4, <1>9 DEF RunFails, DoneInv, Effect, cache
<1>10. CASE HandleCreateJob BY <1>10, FindEffect DEF HandleCreateJob
<1>11. CASE Intercept
  <2>1. Rest /\ run.pc = "post" /\ type \notin Acts
    BY <1>11 DEF Intercept, DoneInv, ControlInv, Paths, Acts, Effect, cache
  <2>2. CASE store = "ok" /\ Ok BY <1>5, <2>1, <2>2 DEF Ok, Pcs, DoneInv, Effect
  <2>3. CASE Unrecoverable BY <1>4, <2>1, <2>3
  <2>4. CASE (\E s \in Slot : run' = [pc |-> "wait", slot |-> s]) /\ UNCHANGED job
    <3>1. run'.pc = "wait" /\ job'.state # "done"
      BY <2>1, <2>4 DEF DoneInv, ControlInv, Types, Control
    <3> QED BY <1>3, <2>1, <3>1
  <2> QED BY <1>11, <2>2, <2>3, <2>4 DEF Intercept
<1>12. CASE Cut
  <2>1. Rest /\ run.pc = "wait" BY <1>12 DEF Cut, DoneInv, Effect, cache
  <2>2. CASE Retry BY <1>4, <2>1, <2>2
  <2>3. CASE job' = [job EXCEPT !.state = "waiting"] /\ run' = Resting
    BY <1>3, <2>1, <2>3 DEF Resting, DoneInv, ControlInv, Types
  <2> QED BY <1>12, <2>2, <2>3 DEF Cut
<1>13. CASE HandleCounterJob
  <2>1. Rest /\ run.pc = "check" BY <1>2, <1>13 DEF HandleCounterJob, Fetched, steam
  <2> QED BY <1>4, <1>5, <1>13, <2>1 DEF HandleCounterJob, Pcs
<1>14. CASE CounterTrade
  <2>1. Rest /\ run.pc = "counter" BY <1>2, <1>14, GoneType DEF CounterTrade
  <2>2. CASE Unrecoverable BY <1>4, <2>1, <2>2
  <2>3. CASE (\E s \in Slot : run' = [pc |-> "wait", slot |-> s]) /\ UNCHANGED job
    <3>1. run'.pc = "wait" /\ job'.state # "done"
      BY <2>1, <2>3 DEF DoneInv, ControlInv, Types, Control
    <3> QED BY <1>3, <2>1, <3>1
  <2> QED BY <1>14, <2>2, <2>3 DEF CounterTrade
<1>15. CASE CounterJobButOfferIsNotActive
  BY <1>15, FindEffect DEF CounterJobButOfferIsNotActive, DoneInv, ControlInv, Paths
<1>16. CASE HandleActJob
  <2>1. Rest /\ run.pc = "check" /\ UNCHANGED job
    BY <1>2, <1>16 DEF HandleActJob, Fetched, steam
  <2>2. Reached(type, LoadOfferWithCaching(FALSE).state) => HasReached
    BY LoadedReached DEF DoneInv
  <2> QED BY <1>5, <1>16, <2>1, <2>2 DEF HandleActJob, Pcs
<1>17. CASE AnswerFromCache
  <2>1. Rest /\ run.pc = "answer" /\ Ok BY <1>2, <1>17 DEF AnswerFromCache
  <2>2. type \in Acts /\ HasReached BY <2>1 DEF DoneInv, ControlInv, Paths, Effect
  <2> QED BY <1>5, <2>1, <2>2 DEF Ok, Pcs
<1>18. CASE Act BY <1>18, ActEffect
<1>19. CASE RefreshTrade
  <2>1. Rest /\ run.pc = "check" /\ type = "REFRESH" /\ type \notin Acts
    BY <1>19 DEF RefreshTrade, DoneInv, Effect, Acts
  <2> QED BY <1>4, <1>5, <1>19, <2>1 DEF RefreshTrade, Ok, Pcs
<1> QED BY <1>7, <1>8, <1>9, <1>10, <1>11, <1>12, <1>13, <1>14, <1>15, <1>16, <1>17, <1>18, <1>19

LEMMA EffectStep == MaxAttempts \in Nat \ {0} /\ DoneInv /\ [Next]_vars => Effect'
<1> SUFFICES ASSUME MaxAttempts \in Nat \ {0}, DoneInv, [Next]_vars PROVE Effect'
  OBVIOUS
<1>1. CASE UNCHANGED vars
  BY <1>1, EffectsStay DEF vars, DoneInv, Effect
<1>2. CASE Next BY <1>2, AttemptEffect, SlotEffect, OtherEffect DEF Next
<1> QED BY <1>1, <1>2

\* A job that completes has done what it was for: an offer was created, or the offer has been
\* accepted, removed or confirmed - or, if the bot made it, is not to be confirmed any more.
\* Whatever fails, and however old the cache is.
THEOREM CompletedIsDone == Spec => []DoneMeansDone
<1>1. Init => DoneInv BY MaxAttemptsAssumption, Initially, EffectInitially DEF DoneInv
<1>2. DoneInv /\ [Next]_vars => DoneInv' BY MaxAttemptsAssumption, ControlStep, EffectStep DEF DoneInv
<1>3. DoneInv => DoneMeansDone BY DEF DoneInv, Effect, DoneMeansDone, HasReached, Reached, Acts, Created
<1> QED BY <1>1, <1>2, <1>3, PTL DEF Spec

-------------------------------------------------------------------------------
(* One offer *)

LEMMA AloneInitially == MaxAttempts \in Nat \ {0} /\ Init => Alone
<1> SUFFICES ASSUME Init PROVE Alone
  OBVIOUS
<1>1. Active = {} BY DEF Init, Active, None
<1>2. ~Creating BY DEF Init, Creating, Resting
<1> QED BY <1>1, <1>2, GoneType DEF Init, Alone, Resting, None

\* An offer that is created while there is none is the only one.
LEMMA CreatesAlone ==
  ASSUME Types, Creates, Active = {}
  PROVE  \A k, l \in Active' : k = l
BY DEF Types, Creates, Active, None

\* Steps that look for a matching offer go on to create one only if there is none.
LEMMA FindAlone ==
  ASSUME OneInv, NEW useCache, FindMatchingTrades(useCache),
         \/ run.pc = "check" /\ type = "CREATE" /\ useCache = (job.attempts = 0)
         \/ run.pc = "find" /\ useCache = FALSE
  PROVE  Alone'
<1>1. /\ UNCHANGED <<type, own, job, req, theirs, made, cached>>
      /\ Go("publish") \/ (Go("post") /\ GetActiveTrades(useCache) = {})
  BY DEF FindMatchingTrades, Ok, steam
<1>2. Active' = Active BY <1>1 DEF Active
<1>3. Go("post") => Active = {} /\ theirs # "active"
  BY <1>1 DEF GetActiveTrades, OneInv, Alone, ControlInv, Types, Control, Go, Pcs, None
<1>4. run'.pc \in {"publish", "post"} /\ (run'.pc = "post" => Go("post"))
  BY <1>1, Goings DEF OneInv, Pcs
<1>5. \A s \in Slot : req[s] # "create" BY DEF OneInv, Alone
<1> QED BY <1>1, <1>2, <1>3, <1>4, <1>5 DEF OneInv, Alone, Creating, ControlInv, Types, Control

\* A request is answered: whoever sent it does not wait any more.
LEMMA AnswerAlone ==
  ASSUME MaxAttempts \in Nat \ {0}, OneInv, NEW s \in Slot, UNCHANGED <<type, own>>,
         req' = [req EXCEPT ![s] = "idle"],
         Answer(s, Ok) \/ Answer(s, Retry) \/ Answer(s, Unrecoverable)
  PROVE  /\ \A t \in Slot : req'[t] = "create" => run'.pc = "wait" /\ run'.slot = t
         /\ \A t \in Slot : req'[t] = "counter" => type' = "COUNTER"
         /\ Creating' => Creating /\ req[s] # "create"
         /\ run'.pc \in {"find", "counter", "check"} => run' = run
         /\ job'.state = "waiting" /\ job'.attempts = 0 => job' = job
         /\ run' = run => job' = job
<1>1. \A t \in Slot : req'[t] = IF t = s THEN "idle" ELSE req[t] BY DEF OneInv, ControlInv, Types
<1>2. CASE run.pc = "wait" /\ run.slot = s
  <2>1. Ok \/ Retry \/ Unrecoverable BY <1>2 DEF Answer
  <2>2. run'.pc \in {"publish", "idle"} /\ (job'.state = "waiting" => job'.attempts # 0)
    <3>1. CASE Ok BY <1>2, <3>1, Goings DEF Ok, Pcs, OneInv, ControlInv, Types, Control
    <3>2. CASE Retry BY <1>2, <3>2, Endings, EffectAfterEnd DEF OneInv
    <3>3. CASE Unrecoverable BY <1>2, <3>3, EffectAfterEnd, Endings DEF OneInv, Unrecoverable, ControlInv, Types
    <3> QED BY <2>1, <3>1, <3>2, <3>3
  <2>3. \A t \in Slot : req'[t] # "create" BY <1>1, <1>2 DEF OneInv, Alone
  <2> QED BY <1>1, <1>2, <2>2, <2>3 DEF OneInv, Alone, Creating
<1>3. CASE ~(run.pc = "wait" /\ run.slot = s)
  <2>1. UNCHANGED <<job, run>> BY <1>3 DEF Answer
  <2>2. req[s] # "create" BY <1>3 DEF OneInv, Alone
  <2>3. run.pc = "wait" => req'[run.slot] = req[run.slot]
    BY <1>1, <1>3 DEF OneInv, ControlInv, Control
  <2> QED BY <1>1, <2>1, <2>2, <2>3 DEF OneInv, Alone, Creating
<1> QED BY <1>2, <1>3

\* Steps of the bot that answer a request
LEMMA SlotAlone ==
  ASSUME MaxAttempts \in Nat \ {0}, OneInv, NEW s \in Slot,
         Sent(s) \/ SentWithError(s) \/ NotSent(s) \/ Refused(s)
  PROVE  Alone'
<1>1. /\ UNCHANGED <<type, own>> /\ req' = [req EXCEPT ![s] = "idle"]
      /\ Answer(s, Ok) \/ Answer(s, Retry) \/ Answer(s, Unrecoverable)
  BY DEF Sent, SentWithError, NotSent, Refused
<1>2. /\ \A t \in Slot : req'[t] = "create" => run'.pc = "wait" /\ run'.slot = t
      /\ \A t \in Slot : req'[t] = "counter" => type' = "COUNTER"
      /\ Creating' => Creating /\ req[s] # "create"
      /\ run'.pc \in {"find", "counter", "check"} => run' = run
      /\ job'.state = "waiting" /\ job'.attempts = 0 => job' = job
      /\ run' = run => job' = job
  BY <1>1, AnswerAlone
<1>3. CASE Sent(s) \/ SentWithError(s)
  <2>1. /\ req[s] # "idle" /\ MayCreate(s) /\ Creates /\ Countered(s)
        /\ cached' = cached
    BY <1>3 DEF Sent, SentWithError, cache
  <2>2. CASE req[s] = "create"
    <3>1. /\ Active = {} /\ theirs # "active" /\ run.pc = "wait" /\ run.slot = s
          /\ type \in {"CREATE", "COUNTER"}
      BY <2>2 DEF OneInv, Alone, Creating, ControlInv, Paths
    <3>2. theirs' = theirs /\ cached' = cached BY <2>1, <2>2 DEF Countered, Becomes
    <3>3. \A k, l \in Active' : k = l BY <2>1, <3>1, CreatesAlone DEF OneInv, ControlInv
    <3>4. job.state = "active" BY <3>1 DEF OneInv, ControlInv, Control
    <3> QED BY <1>1, <1>2, <2>2, <3>1, <3>2, <3>3, <3>4 DEF OneInv, Alone
  <2>3. CASE req[s] = "counter"
    <3>1. theirs = "active" /\ Active = {} /\ ~Creating /\ type = "COUNTER"
      BY <2>1, <2>3 DEF MayCreate, OneInv, Alone
    <3>2. theirs' = "countered" BY <2>1, <2>3 DEF Countered, Becomes
    <3>3. \A k, l \in Active' : k = l BY <2>1, <3>1, CreatesAlone DEF OneInv, ControlInv
    <3> QED BY <1>1, <1>2, <3>1, <3>2, <3>3 DEF Alone
  <2> QED BY <2>1, <2>2, <2>3 DEF OneInv, ControlInv, Types
<1>4. CASE NotSent(s) \/ Refused(s)
  <2>1. UNCHANGED <<theirs, made, cached>> BY <1>4 DEF NotSent, Refused, steam, cache
  <2>2. Active' = Active BY <2>1 DEF Active
  <2> QED BY <1>1, <1>2, <2>1, <2>2 DEF OneInv, Alone
<1> QED BY <1>3, <1>4

\* Steps of the bot, the partner and the user
LEMMA OtherAlone ==
  ASSUME MaxAttempts \in Nat \ {0}, OneInv, BotPolls \/ Ages \/ PartnerActs \/ BotRestarts \/ RemoveJob
  PROVE  Alone'
<1>1. CASE BotPolls \/ Ages
  <2>1. UNCHANGED <<type, own, job, run, req, theirs, made>> BY <1>1 DEF BotPolls, Ages, steam
  <2>2. cached'.there /\ cached'.state = "countered" => theirs = "countered"
    BY <1>1, GoneType DEF BotPolls, Ages, OneInv, Alone, ControlInv, Types, CachedType
  <2>3. Active' = Active BY <2>1 DEF Active
  <2> QED BY <2>1, <2>2, <2>3 DEF OneInv, Alone, Creating
<1>2. CASE PartnerActs
  <2>1. /\ UNCHANGED <<type, own, job, run, req, cached>>
        /\ theirs' = theirs \/ (theirs \in {"active", "confirm"} /\ theirs' # "active")
    BY <1>2 DEF PartnerActs, Becomes, cache
  <2>2. Active' \subseteq Active
    BY <1>2 DEF PartnerActs, Active, OneInv, ControlInv, Types
  <2>3. theirs = "active" \/ theirs' # "active" BY <2>1
  <2>4. Creating' <=> Creating BY <2>1 DEF Creating
  <2>5. type = "CREATE" => theirs' = theirs BY <2>1 DEF OneInv, Alone, None
  <2>6. theirs = "countered" => theirs' = theirs BY <2>1
  <2> QED BY <2>1, <2>2, <2>3, <2>4, <2>5, <2>6 DEF OneInv, Alone
<1>3. CASE BotRestarts
  <2>1. /\ UNCHANGED <<type, own>> /\ cached' = Gone /\ req' = [s \in Slot |-> "idle"]
        /\ IF run.pc = "wait" THEN Retry ELSE UNCHANGED <<job, run>>
        /\ \/ UNCHANGED steam
           \/ \E s \in Slot : req[s] # "idle" /\ MayCreate(s) /\ Creates /\ Countered(s)
    BY <1>3 DEF BotRestarts
  <2>2. \/ run'.pc = "idle" /\ run.pc = "wait" /\ (job'.state = "waiting" => job'.attempts # 0)
        \/ run.pc # "wait" /\ UNCHANGED <<job, run>>
    BY <2>1, Endings, EffectAfterEnd DEF OneInv
  <2>3. Creating' => Creating /\ run.pc = "post" BY <2>1, <2>2 DEF Creating
  <2>4. CASE UNCHANGED steam
    <3>1. Active' = Active /\ theirs' = theirs BY <2>4 DEF Active, steam
    <3> QED BY <2>1, <2>2, <2>3, <3>1, GoneType DEF OneInv, Alone
  <2>5. CASE \E s \in Slot : req[s] # "idle" /\ MayCreate(s) /\ Creates /\ Countered(s)
    <3>1. PICK s \in Slot : req[s] # "idle" /\ MayCreate(s) /\ Creates /\ Countered(s) BY <2>5
    <3>2. CASE req[s] = "create"
      <4>1. Active = {} /\ theirs # "active" /\ run.pc = "wait" /\ type \in {"CREATE", "COUNTER"}
        BY <3>2 DEF OneInv, Alone, Creating, ControlInv, Paths
      <4>2. theirs' = theirs BY <3>1, <3>2 DEF Countered, Becomes
      <4>3. \A k, l \in Active' : k = l BY <3>1, <4>1, CreatesAlone DEF OneInv, ControlInv
      <4> QED BY <2>1, <2>2, <2>3, <4>1, <4>2, <4>3, GoneType DEF OneInv, Alone
    <3>3. CASE req[s] = "counter"
      <4>1. theirs = "active" /\ Active = {} /\ ~Creating /\ type = "COUNTER"
        BY <3>1, <3>3 DEF MayCreate, OneInv, Alone
      <4>2. theirs' = "countered" BY <3>1, <3>3 DEF Countered, Becomes
      <4>3. \A k, l \in Active' : k = l BY <3>1, <4>1, CreatesAlone DEF OneInv, ControlInv
      <4> QED BY <2>1, <2>2, <2>3, <4>1, <4>2, <4>3, GoneType DEF Alone
    <3> QED BY <3>1, <3>2, <3>3 DEF OneInv, ControlInv, Types
  <2> QED BY <2>1, <2>4, <2>5
<1>4. CASE RemoveJob
  <2>1. UNCHANGED <<type, own, run, req, steam, cache>> BY <1>4 DEF RemoveJob
  <2>2. job'.state = "error" BY <1>4 DEF RemoveJob, OneInv, ControlInv, Types
  <2>3. job.state = "waiting" /\ run.pc # "check"
    BY <1>4 DEF RemoveJob, OneInv, ControlInv, Control, Types
  <2>4. Active' = Active /\ theirs' = theirs /\ cached' = cached BY <2>1 DEF Active, steam, cache
  <2> QED BY <2>1, <2>2, <2>3, <2>4 DEF OneInv, Alone, Creating
<1> QED BY <1>1, <1>2, <1>3, <1>4

\* A step that acts on the offer does not take back that it was countered; there is no offer
\* of the job then.
LEMMA ActAlone ==
  ASSUME MaxAttempts \in Nat \ {0}, OneInv, Act
  PROVE  Alone'
<1>1. run.pc = "act" /\ type \in Acts /\ UNCHANGED <<type, own, req, made>>
  BY DEF Act, OneInv, ControlInv, Paths
<1>2. "countered" \notin Results BY DEF Results
<1>3. /\ theirs' = theirs \/ Ready(type, theirs)
      /\ \/ \E useCache \in BOOLEAN : cached' = LoadOfferWithCaching(useCache)
         \/ cached' = Gone
         \/ \E result \in Results : cached' = [there |-> TRUE, state |-> result, recent |-> TRUE]
      /\ Unrecoverable \/ Retry \/ Ok
  BY DEF Act, SteamRefuses, Becomes
<1>4. type \notin {"CREATE", "COUNTER"} BY <1>1 DEF Acts
<1>5. theirs = "countered" => theirs' = "countered" BY <1>3 DEF Ready
<1>6. run'.pc \in {"idle", "publish"}
  BY <1>1, <1>3, Endings, EffectAfterEnd, Goings DEF OneInv, Ok, Pcs
<1>7. cached'.there /\ cached'.state = "countered" => theirs' = "countered"
  <2>1. CASE \E useCache \in BOOLEAN : cached' = LoadOfferWithCaching(useCache)
    <3>1. cached'.there /\ cached'.state = "countered" => theirs = "countered"
      BY <2>1 DEF LoadOfferWithCaching, OneInv, Alone
    <3> QED BY <1>5, <3>1
  <2>2. CASE cached' = Gone BY <2>2, GoneType
  <2>3. CASE \E result \in Results : cached' = [there |-> TRUE, state |-> result, recent |-> TRUE]
    BY <1>2, <2>3
  <2> QED BY <1>3, <2>1, <2>2, <2>3
<1>8. Active' = Active /\ Active = {} BY <1>1, <1>4 DEF Active, OneInv, Alone
<1>9. \A s \in Slot : req[s] # "create" /\ req[s] # "counter" BY <1>1, <1>4 DEF OneInv, Alone
<1> QED BY <1>1, <1>4, <1>6, <1>7, <1>8, <1>9 DEF Alone, Creating

\* Steps of an attempt
LEMMA AttemptAlone ==
  ASSUME MaxAttempts \in Nat \ {0}, "cut create" \notin Fault, OneInv,
         \/ Start \/ Complete \/ RunFails \/ HandleCreateJob \/ Intercept \/ Cut
         \/ HandleCounterJob \/ CounterTrade \/ CounterJobButOfferIsNotActive
         \/ HandleActJob \/ AnswerFromCache \/ Act \/ RefreshTrade
  PROVE  Alone'
<1> DEFINE Rest ==
      /\ UNCHANGED <<type, own, theirs, made>>
      /\ cached'.there /\ cached'.state = "countered" => theirs = "countered"
<1>1. ASSUME NEW useCache, cached' = LoadOfferWithCaching(useCache)
      PROVE  cached'.there /\ cached'.state = "countered" => theirs = "countered"
  BY <1>1 DEF LoadOfferWithCaching, OneInv, Alone
<1>2. ASSUME cached' = cached
      PROVE  cached'.there /\ cached'.state = "countered" => theirs = "countered"
  BY <1>2 DEF OneInv, Alone
<1>3. Rest => Active' = Active BY DEF Active
\* what is to be shown of a step of an attempt that does not wait: it ends, or goes on
<1>4. ASSUME Rest, UNCHANGED req, run.pc # "wait", run'.pc \in {"idle", "publish", "act", "answer"},
             job'.state = "waiting" => job'.attempts # 0
      PROVE  Alone'
  <2>1. \A s \in Slot : req[s] # "create" BY <1>4 DEF OneInv, Alone
  <2> QED BY <1>3, <1>4, <2>1 DEF OneInv, Alone, Creating
<1>5. ASSUME Rest, UNCHANGED req, run.pc \notin {"wait", "idle"}, Retry \/ Unrecoverable
      PROVE  Alone'
  <2>1. run'.pc = "idle" /\ (job'.state = "waiting" => job'.attempts # 0)
    BY <1>5, Endings, EffectAfterEnd DEF OneInv, Unrecoverable, ControlInv, Types
  <2> QED BY <1>4, <1>5, <2>1
<1>6. ASSUME Rest, UNCHANGED req, run.pc \notin {"wait", "idle"}, job' = job,
             NEW pc \in {"publish", "act", "answer"}, Go(pc)
      PROVE  Alone'
  <2>1. run'.pc = pc /\ job'.state = "active"
    BY <1>6, Goings DEF Pcs, OneInv, ControlInv, Control
  <2> QED BY <1>4, <1>6, <2>1
<1>7. CASE Start
  <2>1. UNCHANGED <<type, own, req, theirs, made, cached>> /\ run'.pc = "check" /\ job'.state = "active"
        /\ job'.attempts = job.attempts /\ job.state = "waiting"
    BY <1>7, Goings DEF Start, Pcs, OneInv, ControlInv, Types, steam, cache
  <2>2. \A s \in Slot : req[s] # "create" BY <2>1 DEF OneInv, Alone, ControlInv, Control
  <2> QED BY <1>2, <1>3, <2>1, <2>2 DEF OneInv, Alone, Creating
<1>8. CASE Complete
  <2>1. Rest /\ UNCHANGED req /\ run.pc = "publish" BY <1>2, <1>8 DEF Complete, steam, cache
  <2>2. CASE Retry BY <1>5, <2>1, <2>2
  <2>3. CASE job' = [job EXCEPT !.state = "done"] /\ run' = Resting
    <3>1. run'.pc = "idle" /\ job'.state = "done" BY <2>3 DEF Resting, OneInv, ControlInv, Types
    <3> QED BY <1>4, <2>1, <3>1
  <2> QED BY <1>8, <2>2, <2>3 DEF Complete
<1>9. CASE RunFails BY <1>2, <1>5, <1>9 DEF RunFails, steam, cache
<1>10. CASE HandleCreateJob BY <1>10, FindAlone DEF HandleCreateJob
<1>11. CASE Intercept
  <2>1. Rest /\ run.pc = "post" BY <1>2, <1>11 DEF Intercept, steam, cache
  <2>2. CASE Ok /\ UNCHANGED req BY <1>6, <2>1, <2>2 DEF Ok
  <2>3. CASE Unrecoverable /\ UNCHANGED req BY <1>5, <2>1, <2>3
  <2>4. CASE \E s \in Slot : /\ req[s] = "idle"
                             /\ req' = [req EXCEPT ![s] = "create"]
                             /\ run' = [pc |-> "wait", slot |-> s]
                             /\ UNCHANGED job
    <3>1. PICK s \in Slot : /\ req' = [req EXCEPT ![s] = "create"]
                            /\ run' = [pc |-> "wait", slot |-> s]
                            /\ UNCHANGED job
      BY <2>4
    <3>2. Active = {} /\ theirs # "active" /\ \A t \in Slot : req[t] # "create"
      BY <2>1 DEF OneInv, Alone, Creating
    <3>3. \A t \in Slot : req'[t] = IF t = s THEN "create" ELSE req[t]
      BY <3>1 DEF OneInv, ControlInv, Types
    <3>4. run'.pc = "wait" /\ run'.slot = s BY <3>1
    <3>5. job.state = "active" BY <2>1 DEF OneInv, ControlInv, Control
    <3>6. Active' = {} /\ theirs' # "active" BY <1>3, <2>1, <3>2
    <3>7. \A t \in Slot : (req'[t] = "create" => t = s) /\ (req'[t] = "counter" => type' = "COUNTER")
      BY <2>1, <3>2, <3>3 DEF OneInv, Alone
    <3>8. type' = "CREATE" => theirs' = None BY <2>1 DEF OneInv, Alone
    <3>9. job' = job BY <3>1
    <3> QED BY <2>1, <3>4, <3>5, <3>6, <3>7, <3>8, <3>9 DEF Alone
  <2> QED BY <1>11, <2>2, <2>3, <2>4 DEF Intercept
<1>12. CASE Cut
  <2>1. Rest /\ UNCHANGED req /\ run.pc = "wait" BY <1>2, <1>12 DEF Cut, steam, cache
  <2>2. req[run.slot] # "create" BY <1>12 DEF Cut, Faulty
  <2>3. run.slot \in Slot /\ req[run.slot] = "counter"
    BY <2>1, <2>2 DEF OneInv, ControlInv, Control, Types
  <2>4. type = "COUNTER" /\ \A s \in Slot : req[s] # "create" BY <2>2, <2>3 DEF OneInv, Alone
  <2>5. run' = Resting BY <1>12 DEF Cut, Retry
  <2>6. run'.pc = "idle" BY <2>5 DEF Resting
  <2> QED BY <1>3, <2>1, <2>4, <2>6 DEF OneInv, Alone, Creating
<1>13. CASE HandleCounterJob
  <2>1. Rest /\ UNCHANGED req /\ run.pc = "check" /\ type = "COUNTER"
    BY <1>1, <1>13 DEF HandleCounterJob, Fetched, steam
  <2>2. CASE Unrecoverable BY <1>5, <2>1, <2>2
  <2>3. CASE \/ LoadOfferWithCaching(FALSE).state = "active" /\ Go("counter") /\ UNCHANGED job
             \/ LoadOfferWithCaching(FALSE).state = "countered" /\ Go("find") /\ UNCHANGED job
    <3>1. run'.pc \in {"counter", "find"} /\ job'.state = "active"
      BY <2>1, <2>3, Goings DEF Pcs, OneInv, ControlInv, Control
    <3>2. run'.pc = "find" => theirs = "countered"
      BY <2>3, Goings DEF OneInv, Alone, LoadOfferWithCaching, Pcs
    <3>3. \A s \in Slot : req[s] # "create" BY <2>1 DEF OneInv, Alone
    <3> QED BY <1>3, <2>1, <3>1, <3>2, <3>3 DEF OneInv, Alone, Creating
  <2> QED BY <1>13, <2>2, <2>3 DEF HandleCounterJob
<1>14. CASE CounterTrade
  <2>1. Rest /\ run.pc = "counter" BY <1>1, <1>14, GoneType DEF CounterTrade, steam
  <2>2. CASE Unrecoverable /\ UNCHANGED req BY <1>5, <2>1, <2>2
  <2>3. CASE \E s \in Slot : /\ req' = [req EXCEPT ![s] = "counter"]
                             /\ run' = [pc |-> "wait", slot |-> s]
                             /\ UNCHANGED job
    <3>1. PICK s \in Slot : /\ req' = [req EXCEPT ![s] = "counter"]
                            /\ run' = [pc |-> "wait", slot |-> s]
                            /\ UNCHANGED job
      BY <2>3
    <3>2. type = "COUNTER" BY <2>1 DEF OneInv, ControlInv, Paths, Alone
    <3>3. \A t \in Slot : req[t] # "create" BY <2>1 DEF OneInv, Alone
    <3>4. \A t \in Slot : req'[t] = IF t = s THEN "counter" ELSE req[t]
      BY <3>1 DEF OneInv, ControlInv, Types
    <3>5. run'.pc = "wait" /\ run'.slot = s BY <3>1
    <3> QED BY <1>3, <2>1, <3>2, <3>3, <3>4, <3>5 DEF OneInv, Alone, Creating
  <2> QED BY <1>14, <2>2, <2>3 DEF CounterTrade
<1>15. CASE CounterJobButOfferIsNotActive
  BY <1>15, FindAlone DEF CounterJobButOfferIsNotActive
<1>16. CASE HandleActJob
  <2>1. Rest /\ UNCHANGED <<req, job>> /\ run.pc = "check"
    BY <1>1, <1>16 DEF HandleActJob, Fetched, steam
  <2> QED BY <1>6, <1>16, <2>1 DEF HandleActJob
<1>17. CASE AnswerFromCache
  <2>1. Rest /\ UNCHANGED req /\ run.pc = "answer" /\ Ok
    BY <1>1, <1>17 DEF AnswerFromCache, steam
  <2> QED BY <1>6, <2>1 DEF Ok
<1>18. CASE Act BY <1>18, ActAlone
<1>19. CASE RefreshTrade
  <2>1. Rest /\ UNCHANGED req /\ run.pc = "check"
    BY <1>19 DEF RefreshTrade, steam
  <2> QED BY <1>5, <1>6, <1>19, <2>1 DEF RefreshTrade, Ok
<1> QED BY <1>7, <1>8, <1>9, <1>10, <1>11, <1>12, <1>13, <1>14, <1>15, <1>16, <1>17, <1>18, <1>19

LEMMA AloneStep ==
  MaxAttempts \in Nat \ {0} /\ "cut create" \notin Fault /\ OneInv /\ [Next]_vars => Alone'
<1> SUFFICES ASSUME MaxAttempts \in Nat \ {0}, "cut create" \notin Fault, OneInv, [Next]_vars PROVE Alone'
  OBVIOUS
<1>1. CASE UNCHANGED vars
  <2>1. Active' = Active BY <1>1 DEF vars, Active
  <2> QED BY <1>1, <2>1 DEF vars, OneInv, Alone, Creating
<1>2. CASE Next BY <1>2, AttemptAlone, SlotAlone, OtherAlone DEF Next
<1> QED BY <1>1, <1>2

\* There are never two offers of a job to be accepted, however many attempts, requests and
\* offers there are, if no connection breaks while the bot works on a request to create:
\* answers that are wrong or lost, the bot's restarts and caches that lag do no harm.
THEOREM NoSecondOffer ==
  ASSUME "cut create" \notin Fault
  PROVE  Spec => []OneOffer
<1>1. Init => OneInv BY MaxAttemptsAssumption, Initially, AloneInitially DEF OneInv
<1>2. OneInv /\ [Next]_vars => OneInv' BY MaxAttemptsAssumption, ControlStep, AloneStep DEF OneInv
<1>3. OneInv => OneOffer BY DEF OneInv, Alone, OneOffer
<1> QED BY <1>1, <1>2, <1>3, PTL DEF Spec
-------------------------------------------------------------------------------
(* The tasks of the game coordinator *)

CONSTANTS MaxTasks, MaxGameFaults

VARIABLES game, session, backpack, timer, refreshQueued, manuallyDisconnectedFromGC, rejoin, queue,
          task, tasks, gameFaults

Game == INSTANCE GameQueue WITH faults <- gameFaults, MaxFaults <- MaxGameFaults

GameBounds == MaxTasks \in Nat /\ MaxGameFaults \in Nat

LEMMA NoGameTask == Game!NoTask.type = "sort" /\ Game!NoTask.step = "none"
  BY DEF Game!NoTask

LEMMA GameTypeStep == ASSUME GameBounds, Game!TypeOK, [Game!Next]_(Game!vars) PROVE Game!TypeOK'
<1> USE DEF Game!TypeOK
<1>1. ASSUME NEW what \in Game!TaskType, Game!Push(what) PROVE Game!TypeOK'
  <2>1. Append(queue, what) \in Seq(Game!TaskType) BY AppendProperties
  <2>2. tasks' \in 0..MaxTasks BY <1>1 DEF Game!Push, GameBounds
  <2> QED BY <1>1, <2>1, <2>2 DEF Game!Push, Game!connection
<1>2. CASE Game!ItemChanged
  <2>1. tasks' \in 0..MaxTasks BY <1>2 DEF Game!ItemChanged, GameBounds
  <2> QED BY <1>2, <2>1 DEF Game!ItemChanged, Game!connection
<1>3. CASE Game!TimerFires
  <2>1. Append(queue, "refresh") \in Seq(Game!TaskType) BY AppendProperties DEF Game!TaskType
  <2> QED BY <1>3, <2>1 DEF Game!TimerFires, Game!connection
<1>4. CASE Game!Take
  <2>1. Head(queue) \in Game!TaskType /\ Tail(queue) \in Seq(Game!TaskType)
    BY <1>4, HeadTailProperties DEF Game!Take
  <2> QED BY <1>4, <2>1 DEF Game!Take, Game!connection
<1>5. Game!NoTask \in [type : Game!TaskType, step : {"none", "start", "backpack"} \cup Game!Waits]
  BY DEF Game!NoTask, Game!TaskType
<1>6. CASE Game!ConnectToGC \/ Game!ProcessTask \/ Game!ProcessRefresh \/ Game!Answered \/ Game!TimesOut
  BY <1>5, <1>6 DEF Game!ConnectToGC, Game!ProcessTask, Game!ProcessRefresh, Game!Answered, Game!TimesOut,
     Game!AwaitBackpack, Game!Step, Game!Idle, Game!JoinGame, Game!connection, Game!pending, Game!Waits
<1>7. CASE Game!Steam \/ Game!Rejoin \/ Game!SessionLost
  <2>1. gameFaults' \in 0..MaxGameFaults
    BY <1>7 DEF Game!Steam, Game!ConnectedToGC, Game!BackpackLoaded, Game!AppQuit, Game!Rejoin,
                Game!SessionLost, GameBounds
  <2> QED
    BY <1>5, <1>7, <2>1 DEF Game!Steam, Game!ConnectedToGC, Game!BackpackLoaded, Game!AppQuit,
       Game!Rejoin, Game!SessionLost, Game!Disconnected, Game!Step, Game!Idle, Game!JoinGame,
       Game!pending, Game!Waits
<1>8. CASE UNCHANGED Game!vars BY <1>8 DEF Game!vars
<1> QED BY <1>1, <1>2, <1>3, <1>4, <1>6, <1>7, <1>8 DEF Game!Next, Game!Process

LEMMA RefreshedStep ==
  ASSUME Game!TypeOK, Game!RefreshedOnce, [Game!Next]_(Game!vars) PROVE Game!RefreshedOnce'
<1> USE DEF Game!TypeOK, Game!RefreshedOnce, Game!Queued
<1>1. ASSUME NEW what \in Game!TaskType, what # "refresh" \/ ~refreshQueued,
             queue' = Append(queue, what), UNCHANGED task,
             refreshQueued' = (refreshQueued \/ what = "refresh")
      PROVE  Game!RefreshedOnce'
  <2>1. /\ Len(queue) \in Nat /\ DOMAIN queue = 1..Len(queue) /\ DOMAIN queue' = 1..(Len(queue) + 1)
        /\ queue'[Len(queue) + 1] = what /\ \A n \in DOMAIN queue : queue'[n] = queue[n]
    BY <1>1, AppendProperties, LenProperties
  <2>2. Game!Queued' => Game!Queued \/ what = "refresh" BY <2>1
  <2>3. what = "refresh" => ~Game!Queued BY <1>1
  <2>4. ASSUME NEW m \in DOMAIN queue', NEW n \in DOMAIN queue', queue'[m] = "refresh", queue'[n] = "refresh"
        PROVE  m = n
    <3>1. \A k \in DOMAIN queue' : k \in DOMAIN queue \/ k = Len(queue) + 1 BY <2>1
    <3> QED BY <2>1, <2>3, <2>4, <3>1
  <2> QED BY <1>1, <2>2, <2>3, <2>4
<1>2. CASE Game!Take
  <2> DEFINE rest == Tail(queue)
  <2>1. /\ Len(queue) \in Nat \ {0} /\ DOMAIN queue = 1..Len(queue) /\ DOMAIN rest = 1..(Len(queue) - 1)
        /\ Head(queue) = queue[1] /\ \A n \in DOMAIN rest : rest[n] = queue[n + 1]
    BY <1>2, EmptySeq, HeadTailProperties, LenProperties DEF Game!Take
  <2>2. queue' = rest /\ task'.type = queue[1] /\ UNCHANGED refreshQueued BY <1>2, <2>1 DEF Game!Take
  <2>3. \A n \in DOMAIN rest : n + 1 \in DOMAIN queue /\ 1 \in DOMAIN queue /\ n + 1 # 1 BY <2>1
  <2> HIDE DEF rest
  <2>4. Game!Queued' => Game!Queued BY <2>1, <2>2, <2>3
  <2>5. queue[1] = "refresh" => ~Game!Queued' /\ Game!Queued BY <2>1, <2>2, <2>3
  <2>6. ASSUME NEW m \in DOMAIN rest, NEW n \in DOMAIN rest, rest[m] = "refresh", rest[n] = "refresh"
        PROVE  m = n
    <3>1. m + 1 = n + 1 BY <2>1, <2>3, <2>6
    <3> QED BY <2>1, <3>1
  <2> QED BY <2>2, <2>4, <2>5, <2>6
\* what else becomes of a task
<1> DEFINE Moves == \/ task' = task \/ task'.type # "refresh" \/ task'.step = "event"
                    \/ task.type = "refresh" /\ task.step # "event"
<1>3. ASSUME UNCHANGED <<queue, refreshQueued>>, Moves PROVE Game!RefreshedOnce'
  <2>1. Game!Queued' <=> Game!Queued BY <1>3
  <2>2. \A m, n \in DOMAIN queue' : queue'[m] = "refresh" /\ queue'[n] = "refresh" => m = n BY <1>3
  <2> QED BY <1>3, <2>1, <2>2
<1>s. ASSUME NEW s, Game!Step(s) PROVE task'.type = task.type /\ task'.step = s
  BY <1>s DEF Game!Step
<1>i. Game!Idle => task'.type # "refresh" BY NoGameTask DEF Game!Idle
<1>4. CASE Game!ConnectToGC
  <2>1. task.step = "start" /\ (Game!Idle \/ \E s : Game!Step(s)) BY <1>4 DEF Game!ConnectToGC
  <2>2. Moves BY <2>1, <1>s, <1>i
  <2> QED BY <1>3, <1>4, <2>2 DEF Game!ConnectToGC, Game!pending
<1>5. CASE Game!ProcessTask \/ (Game!ProcessRefresh /\ backpack = "none")
  <2>1. task.step = "backpack" /\ (Game!Idle \/ \E s : Game!Step(s))
    BY <1>5 DEF Game!ProcessTask, Game!ProcessRefresh, Game!AwaitBackpack
  <2>2. Moves BY <2>1, <1>s, <1>i
  <2> QED BY <1>3, <1>5, <2>2 DEF Game!ProcessTask, Game!ProcessRefresh, Game!pending
<1>6. CASE Game!ProcessRefresh /\ backpack # "none"
  <2>1. queue' = queue /\ ~Game!Queued /\ task'.step = "event"
    BY <1>6, <1>s DEF Game!ProcessRefresh
  <2> QED BY <2>1
<1>7. CASE Game!Answered \/ Game!TimesOut \/ Game!Rejoin \/ Game!ItemChanged \/ UNCHANGED Game!vars
  <2>1. UNCHANGED <<queue, refreshQueued>> /\ (Game!Idle \/ task' = task)
    BY <1>7 DEF Game!Answered, Game!TimesOut, Game!Rejoin, Game!ItemChanged, Game!pending, Game!vars
  <2> QED BY <1>3, <1>i, <2>1
<1>8. CASE Game!Steam \/ Game!SessionLost
  <2>1. UNCHANGED <<queue, refreshQueued>>
    BY <1>8 DEF Game!Steam, Game!ConnectedToGC, Game!BackpackLoaded, Game!AppQuit, Game!SessionLost,
                Game!pending
  <2>2. \/ Game!Idle \/ task' = task
        \/ task.step \in {"connecting", "loading"} /\ Game!Step("backpack")
    BY <1>8 DEF Game!Steam, Game!ConnectedToGC, Game!BackpackLoaded, Game!AppQuit, Game!SessionLost,
                Game!Disconnected
  <2>3. Moves BY <2>2, <1>s, <1>i
  <2> QED BY <1>3, <2>1, <2>3
<1>9. CASE Game!TimerFires
  <2>1. CASE refreshQueued BY <1>9, <2>1 DEF Game!TimerFires
  <2>2. CASE ~refreshQueued BY <1>1, <1>9, <2>2 DEF Game!TimerFires, Game!TaskType
  <2> QED BY <2>1, <2>2
<1>10. ASSUME NEW what \in Game!TaskType, Game!Push(what) PROVE Game!RefreshedOnce'
  BY <1>1, <1>10 DEF Game!Push
<1> HIDE DEF Moves, Game!TypeOK, Game!RefreshedOnce, Game!Queued
<1>11. CASE Game!Process BY <1>2, <1>4, <1>5, <1>6, <1>7, <1>11 DEF Game!Process
<1>12. CASE \E what \in Game!TaskType : Game!Push(what) BY <1>10, <1>12
<1>13. CASE Game!ItemChanged \/ Game!TimesOut \/ Game!Rejoin \/ UNCHANGED Game!vars BY <1>7, <1>13
<1>14. CASE Game!Steam \/ Game!SessionLost BY <1>8, <1>14
<1> QED BY <1>9, <1>11, <1>12, <1>13, <1>14 DEF Game!Next

LEMMA GameInit == ASSUME GameBounds PROVE Game!Init => Game!TypeOK /\ Game!RefreshedOnce
<1> SUFFICES ASSUME Game!Init PROVE Game!TypeOK /\ Game!RefreshedOnce OBVIOUS
<1>1. queue \in Seq(Game!TaskType) /\ DOMAIN queue = {} BY EmptySeq DEF Game!Init
<1>2. 0 \in 0..MaxTasks /\ 0 \in 0..MaxGameFaults BY DEF GameBounds
<1> QED BY <1>1, <1>2 DEF Game!Init, Game!TypeOK, Game!RefreshedOnce, Game!Queued, Game!NoTask,
                          Game!TaskType, Game!Waits

\* The connection and the tasks keep their types, whatever becomes of the session.
THEOREM GameTypeCorrect == ASSUME GameBounds PROVE Game!Spec => []Game!TypeOK
BY GameInit, GameTypeStep, PTL DEF Game!Spec

\* One refresh is queued at most, however many items come and go, and as long as it is to
\* come no other is queued.
THEOREM OneRefresh == ASSUME GameBounds PROVE Game!Spec => []Game!RefreshedOnce
BY GameInit, GameTypeStep, RefreshedStep, PTL DEF Game!Spec
===============================================================================

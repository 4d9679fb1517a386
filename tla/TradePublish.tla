------------------------------ MODULE TradePublish ------------------------------
(***************************************************************************)
(* How the bot tells what happens to its offers.  Whatever it learns of an *)
(* offer, from a poll or from any other request to Steam, goes to its      *)
(* cache and to a queue, which publishes the state when it is not the one  *)
(* published last, and remembers that in the poll data.  After a poll, the *)
(* poll data is searched for offers whose state has not been published.    *)
(*                                                                         *)
(* Answers arrive in any order.  What Steam knows of an offer is its       *)
(* stage; two stages can have one state.  When a process is started again, *)
(* it has the poll data of the last time that was saved.                   *)
(***************************************************************************)
EXTENDS Naturals, Sequences, SequencesExt, FiniteSets

CONSTANTS
  Offer,
  Request,     \* requests to Steam that can be in hand at once
  Kind,        \* the kinds of request that are made
  Fault,       \* the faults that may happen
  MaxQueue,    \* bound on the queue of offers to be published
  MaxFaults

VARIABLES
  ours,        \* whether the bot sent the offer or received it
  stage,       \* of each offer, at Steam
  req,         \* the requests, with what Steam answers
  before,      \* of each request, those in hand that were made before it
  newer,       \* of each request, the offers of which a later request has been cached
  cache,       \* what the bot has cached
  polled,      \* the poll data: the states as polls saw them,
  data,        \*   and what the bot remembers to have published
  saved,       \* the poll data that was saved
  missing,     \* offers that are in the poll data and not in a full poll
  queue,       \* offers to be published, as they were learnt
  pub,         \* the offer that the queue is publishing
  last,        \* history: the state told last of each offer, and if its confirmation was
  floor,       \* history: how far each offer was when the last request that is cached was made
  doubt,       \* history: something went wrong, or the offer was asked to be told again
  repeated,    \* history: offers told again without doubt
  deaf,        \* history: offers whose acceptance the bot did not learn
  faults

vars == <<ours, stage, req, before, newer, cache, polled, data, saved, missing, queue, pub,
          last, floor, doubt, repeated, deaf, faults>>
requests == <<req, before, newer>>
pollData == <<polled, data, missing>>
output == <<pub, last, doubt, repeated>>

Nil == "none"
NotThere == 0
Over == 3
Unlisted == 4
Stages == 0..4

\* Ours are confirmed, then active; theirs are active, and then may have to be confirmed
StateOf(o, s) ==
  CASE s = NotThere -> Nil
    [] s = 1 -> IF ours[o] THEN "confirm" ELSE "active"
    [] s = 2 -> "active"
    [] OTHER -> "over"

NeedsConfirmation(o, s) == s = IF ours[o] THEN 1 ELSE 2

Idle == [kind |-> Nil, offer |-> Nil, served |-> FALSE, from |-> [o \in Offer |-> 0], got |-> [o \in Offer |-> 0]]
NoData == [published |-> Nil, accept |-> FALSE, conf |-> FALSE]
NoPub == [offer |-> Nil, stage |-> 0, old |-> Nil]
Poll == {"poll"}
Lists == {"poll", "list"}

Init ==
  /\ ours \in [Offer -> BOOLEAN]
  /\ stage = [o \in Offer |-> NotThere]
  /\ req = [r \in Request |-> Idle]
  /\ before = [r \in Request |-> {}]
  /\ newer = [r \in Request |-> {}]
  /\ cache = [o \in Offer |-> NotThere]
  /\ polled = [o \in Offer |-> Nil]
  /\ data = [o \in Offer |-> NoData]
  /\ saved = [polled |-> polled, data |-> data]
  /\ missing = {}
  /\ queue = <<>>
  /\ pub = NoPub
  /\ last = [o \in Offer |-> [state |-> Nil, conf |-> FALSE]]
  /\ floor = [o \in Offer |-> NotThere]
  /\ doubt = {}
  /\ repeated = {}
  /\ deaf = {}
  /\ faults = 0

Faulty(f) == f \in Fault /\ faults < MaxFaults /\ faults' = faults + 1

InHand == {r \in Request : req[r].kind # Nil}

State == {Nil, "confirm", "active", "over"}

TypeOK ==
  /\ stage \in [Offer -> Stages]
  /\ \A r \in Request : req[r].got \in [Offer -> Stages] /\ newer[r] \subseteq Offer
  /\ \A r \in Request : before[r] \subseteq InHand
  /\ cache \in [Offer -> Stages]
  /\ polled \in [Offer -> State]
  /\ \A o \in Offer : data[o].published \in State
  /\ Len(queue) <= MaxQueue
  /\ pub.stage \in Stages
  /\ missing \subseteq Offer

-------------------------------------------------------------------------------
(* Steam *)

\* no request is in hand and nothing waits to be published
Quiet == InHand = {} /\ queue = <<>> /\ pub = NoPub

\* a partner sends an offer, an offer moves on, or is no longer listed (weeks after it ended)
Moves(o) ==
  /\ \/ stage[o] = NotThere /\ ~ours[o] /\ stage' = [stage EXCEPT ![o] = 1]
     \/ stage[o] \in 1..2 /\ stage' = [stage EXCEPT ![o] = Over]
     \/ stage[o] = 1 /\ ours[o] /\ stage' = [stage EXCEPT ![o] = 2]
     \/ stage[o] = Over /\ Quiet /\ polled[o] = "over" /\ stage' = [stage EXCEPT ![o] = Unlisted]
  /\ UNCHANGED <<ours, requests, cache, pollData, saved, queue, output, floor, deaf, faults>>

-------------------------------------------------------------------------------
(* Requests to Steam.  One poll at a time, and one load of each offer. *)

Single(kind, o) == \A r \in Request : req[r].kind = kind => req[r].offer # o

\* an offer is accepted if, to the bot, that has not been done
MayMake(kind, o) ==
  CASE kind = "poll" -> o = Nil /\ Single(kind, o)
    [] kind = "list" -> o = Nil
    [] kind = "load" -> o # Nil /\ stage[o] # NotThere /\ Single(kind, o)
    [] kind = "send" -> o # Nil /\ ours[o] /\ stage[o] = NotThere /\ Single(kind, o)
    [] kind = "accept" -> o # Nil /\ ~ours[o] /\ cache[o] = 1

Make(r, kind, o) ==
  /\ req[r].kind = Nil /\ r = CHOOSE x \in Request : req[x].kind = Nil
  /\ MayMake(kind, o)
  /\ req' = [req EXCEPT ![r] = [Idle EXCEPT !.kind = kind, !.offer = o, !.from = stage]]
  /\ before' = [before EXCEPT ![r] = InHand]
  /\ newer' = [newer EXCEPT ![r] = {}]
  /\ UNCHANGED <<ours, stage, cache, pollData, saved, queue, output, floor, deaf, faults>>

\* what it does at Steam
Effect(r) ==
  LET o == req[r].offer IN
  CASE req[r].kind = "send" /\ stage[o] = NotThere -> {[stage EXCEPT ![o] = s] : s \in 1..2}
    [] req[r].kind = "accept" /\ stage[o] = 1 -> {[stage EXCEPT ![o] = s] : s \in 2..3}
    [] OTHER -> {stage}

\* offers the answer tells of
Tells(r) ==
  IF req[r].kind \in Lists THEN {o \in Offer : stage'[o] \in 1..Over} ELSE {req[r].offer}

Serve(r) ==
  /\ req[r].kind # Nil /\ ~req[r].served
  /\ req[r].kind = "accept" => stage[req[r].offer] = 1
  /\ stage' \in Effect(r)
  /\ req' = [req EXCEPT ![r].served = TRUE,
                        ![r].got = [o \in Offer |-> IF o \in Tells(r) THEN stage'[o] ELSE NotThere]]
  /\ UNCHANGED <<ours, before, newer, cache, pollData, saved, queue, output, floor, deaf, faults>>

Ends(r) ==
  /\ req' = [req EXCEPT ![r] = Idle]
  /\ before' = [x \in Request |-> IF x = r THEN {} ELSE before[x] \ {r}]

-------------------------------------------------------------------------------
(* The cache *)

\* Mutation: whatever arrives is cached
SetCacheAlways(r) == {o \in Offer : req[r].got[o] # NotThere}

\* offers that are cached: not when a request made later has been
SetCache(r) == {o \in Offer : req[r].got[o] # NotThere} \ newer[r]

CacheOffers(r) ==
  /\ cache' = [o \in Offer |-> IF o \in SetCache(r) THEN req[r].got[o] ELSE cache[o]]
  /\ newer' = [x \in Request |-> IF x \in before[r] THEN newer[x] \cup SetCache(r)
                                 ELSE IF x = r THEN {} ELSE newer[x]]
  /\ floor' = [o \in Offer |-> IF req[r].got[o] # NotThere /\ req[r].from[o] > floor[o]
                               THEN req[r].from[o] ELSE floor[o]]

\* an entry expires, after longer than any request takes
Uncache(o) ==
  /\ cache[o] # NotThere /\ InHand = {}
  /\ cache' = [cache EXCEPT ![o] = NotThere]
  /\ floor' = [floor EXCEPT ![o] = NotThere]
  /\ UNCHANGED <<ours, stage, requests, pollData, saved, queue, output, deaf, faults>>

-------------------------------------------------------------------------------
(* Answers *)

Push(os, got) == queue \o [n \in 1..Cardinality(os) |-> LET o == SetToSeq(os)[n] IN [offer |-> o, stage |-> got[o]]]

Told(r) == {o \in Offer : req[r].got[o] # NotThere}

\* a full poll finds offers of the poll data missing, or back
Cleanup(found, known) == (missing \cup {o \in Offer : known[o] # Nil}) \ found

\* handleOffer of every offer of the answer; a poll has put the states in the poll data,
\* and an offer that the bot has accepted is to be confirmed once more
Arrive(r) ==
  /\ req[r].served
  /\ Len(queue) + Cardinality(Told(r)) <= MaxQueue
  /\ CacheOffers(r)
  /\ queue' = Push(Told(r), req[r].got)
  /\ polled' = IF req[r].kind \in Poll
               THEN [o \in Offer |-> IF o \in Told(r) THEN StateOf(o, req[r].got[o]) ELSE polled[o]]
               ELSE polled
  /\ missing' = IF req[r].kind \in Poll THEN Cleanup(Told(r), polled) ELSE missing
  /\ data' = IF req[r].kind = "accept" THEN [data EXCEPT ![req[r].offer].accept = TRUE] ELSE data
  /\ Ends(r)
  /\ UNCHANGED <<ours, stage, saved, output, deaf, faults>>

\* the bot learns nothing, and not of its own acceptance either
Lost(r) ==
  /\ deaf' = IF req[r].kind = "accept" THEN deaf \cup {req[r].offer} ELSE deaf
  /\ Ends(r)
  /\ newer' = [newer EXCEPT ![r] = {}]
  /\ UNCHANGED <<ours, stage, cache, pollData, saved, queue, output, floor>>

\* Steam refuses, for the offer is not what the bot takes it for
Refused(r) ==
  /\ req[r].kind = "accept" /\ ~req[r].served /\ stage[req[r].offer] # 1
  /\ Lost(r)
  /\ UNCHANGED faults

\* Steam answers with an error, be it done or not
AnswerFails(r) == req[r].kind # Nil /\ Faulty("answer") /\ Lost(r)

\* Mutation: an offer is forgotten once Steam has ended it
MayForgetOver(o) == polled[o] = "over"

\* the offer has been missing for long, and the last state that was published is a final
\* one; one that has data and was never published passes for such
MayForget(o) ==
  \/ data[o].published = "over"
  \/ data[o].published = Nil /\ data[o] # NoData

Forget(o) ==
  /\ o \in missing /\ Quiet
  /\ MayForget(o)
  /\ polled' = [polled EXCEPT ![o] = Nil]
  /\ data' = [data EXCEPT ![o] = NoData]
  /\ missing' = missing \ {o}
  /\ doubt' = doubt \cup {o}
  /\ UNCHANGED <<ours, stage, requests, cache, saved, queue, pub, last, repeated, floor, deaf, faults>>

\* after a poll: an offer of the poll data whose state has not been published is looked up
\* in the cache, if it was put there recently (or else loaded)
EnsurePolldataPublished(o) ==
  /\ polled[o] # Nil /\ polled[o] # data[o].published
  /\ cache[o] # NotThere
  /\ Len(queue) < MaxQueue
  /\ queue' = Append(queue, [offer |-> o, stage |-> cache[o]])
  /\ UNCHANGED <<ours, stage, requests, cache, pollData, saved, output, floor, deaf, faults>>

-------------------------------------------------------------------------------
(* The queue, which publishes one offer at a time *)

\* Mutation: what was published is not compared
UnpublishedAll(o, s) == TRUE

Unpublished(o, s) == StateOf(o, s) # data[o].published

\* the confirmation of an offer is published once, and again after it is accepted
ConfirmationDue(o, s) ==
  /\ NeedsConfirmation(o, s)
  /\ IF ours[o] THEN ~data[o].conf ELSE data[o].conf # data[o].accept

Take ==
  /\ queue # <<>> /\ pub = NoPub
  /\ queue' = Tail(queue)
  /\ pub' = LET p == Head(queue) IN
            IF Unpublished(p.offer, p.stage) THEN [offer |-> p.offer, stage |-> p.stage, old |-> "state"]
            ELSE IF ConfirmationDue(p.offer, p.stage) THEN [offer |-> p.offer, stage |-> p.stage, old |-> "conf"]
            ELSE NoPub
  /\ UNCHANGED <<ours, stage, requests, cache, pollData, saved, last, floor, doubt, repeated, deaf, faults>>

Tell(o, s) ==
  /\ last' = [last EXCEPT ![o].state = s]
  /\ repeated' = IF last[o].state = s /\ o \notin doubt THEN repeated \cup {o} ELSE repeated

\* the event is out, which is remembered; an error is not, and the event may be out as well
PublishOffer ==
  LET o == pub.offer
      s == StateOf(o, pub.stage)
  IN
  /\ pub.old = "state"
  /\ \/ /\ Tell(o, s)
        /\ data' = [data EXCEPT ![o].published = s]
        /\ doubt' = doubt \ {o}
        /\ pub' = IF ConfirmationDue(o, pub.stage) THEN [pub EXCEPT !.old = "conf"] ELSE NoPub
        /\ UNCHANGED faults
     \/ /\ Tell(o, s) \/ UNCHANGED <<last, repeated>>
        /\ Faulty("publish")
        /\ doubt' = doubt \cup {o}
        /\ pub' = IF ConfirmationDue(o, pub.stage) THEN [pub EXCEPT !.old = "conf"] ELSE NoPub
        /\ UNCHANGED data
  /\ UNCHANGED <<ours, stage, requests, cache, polled, missing, saved, queue, floor, deaf>>

PublishConfirmation ==
  LET o == pub.offer IN
  /\ pub.old = "conf"
  /\ \/ /\ last' = [last EXCEPT ![o].conf = TRUE]
        /\ data' = [data EXCEPT ![o].conf = TRUE]
        /\ UNCHANGED faults
     \/ Faulty("publish") /\ UNCHANGED <<data, last>>
  /\ pub' = NoPub
  /\ UNCHANGED <<ours, stage, requests, cache, polled, missing, saved, queue, doubt, repeated, floor, deaf>>

\* a refresh loads the offer and publishes it, published or not, beside the queue
RefreshTrade(o) ==
  /\ "refresh" \in Kind
  /\ cache[o] # NotThere
  /\ last' = [last EXCEPT ![o].state = StateOf(o, cache[o])]
  /\ data' = [data EXCEPT ![o].published = StateOf(o, cache[o])]
  /\ doubt' = doubt \cup {o}
  /\ UNCHANGED <<ours, stage, requests, cache, polled, missing, saved, queue, pub, repeated, floor, deaf, faults>>

-------------------------------------------------------------------------------
(* The process *)

\* (what is saved is looked at by a restart only)
Save ==
  /\ "restart" \in Fault /\ faults < MaxFaults
  /\ saved # [polled |-> polled, data |-> data]
  /\ saved' = [polled |-> polled, data |-> data]
  /\ UNCHANGED <<ours, stage, requests, cache, pollData, queue, output, floor, deaf, faults>>

Restart ==
  /\ Faulty("restart")
  /\ polled' = saved.polled
  /\ data' = saved.data
  /\ missing' = {}
  /\ cache' = [o \in Offer |-> NotThere]
  /\ floor' = cache'
  /\ req' = [r \in Request |-> Idle]
  /\ before' = [r \in Request |-> {}]
  /\ newer' = [r \in Request |-> {}]
  /\ queue' = <<>>
  /\ pub' = NoPub
  /\ doubt' = Offer
  /\ deaf' = Offer
  /\ UNCHANGED <<ours, stage, saved, last, repeated>>

Next ==
  \/ \E o \in Offer : \/ Moves(o) \/ Uncache(o) \/ Forget(o)
                      \/ EnsurePolldataPublished(o) \/ RefreshTrade(o)
  \/ \E r \in Request : \/ \E kind \in Kind \ {"refresh"}, o \in Offer \cup {Nil} : Make(r, kind, o)
                        \/ Serve(r) \/ Arrive(r) \/ Refused(r) \/ AnswerFails(r)
  \/ Take \/ PublishOffer \/ PublishConfirmation
  \/ Save \/ Restart

Spec == Init /\ [][Next]_vars

\* Polls go on, requests are answered, what has not been published is looked up, and the
\* queue is worked off.  Slots for requests are a bound of the model.
FairSpec ==
  /\ Spec
  /\ SF_vars(\E r \in Request : Make(r, "poll", Nil))
  /\ \A o \in Offer : /\ SF_vars(\E r \in Request : polled[o] # data[o].published /\ Make(r, "load", o))
                      /\ SF_vars(EnsurePolldataPublished(o))
  /\ \A r \in Request : WF_vars(Serve(r) \/ Refused(r)) /\ SF_vars(Arrive(r))
  /\ WF_vars(Take) /\ WF_vars(PublishOffer) /\ WF_vars(PublishConfirmation)

-------------------------------------------------------------------------------
(* Properties *)

\* However answers and publications interleave, and what fails or stops: what was told
\* last of an offer comes to be what it is at Steam, and that it waits to be confirmed is
\* told (unless the bot did not learn that it accepted the offer).
AllTold ==
  \A o \in Offer :
    /\ last[o].state = StateOf(o, stage[o])
    /\ NeedsConfirmation(o, stage[o]) /\ o \notin deaf => last[o].conf

ToldInTheEnd == []<>AllTold

\* No change is told twice in a row, although every answer passes the queue, unless a
\* publication failed, the process was started again, or somebody asked for it.
NoRepeat == repeated = {}

\* An answer that was asked for earlier does not replace a newer one: what is cached is
\* never behind the offer as it was when any of the answers was asked for.
CacheNotBehind == \A o \in Offer : cache[o] # NotThere => cache[o] >= floor[o]

===============================================================================

--------------------------------- MODULE Pending ---------------------------------
(***************************************************************************)
(* The offers of a bot that are pending, as the bot-manager remembers      *)
(* them: a hash of offers for the bot, and for each partner a hash that    *)
(* tells whose offers to look up.  Both are written by the events of the   *)
(* bot (an offer was sent, received or changed) and by polls of all its    *)
(* active offers.  Only polls take a lock, events arrive in any order and  *)
(* more than once, and every hash expires when it is not written.          *)
(*                                                                         *)
(* One bot.  The lifetime of a hash is counted in ticks of a clock that    *)
(* all hashes share.                                                       *)
(***************************************************************************)
EXTENDS Integers

CONSTANTS
  Offer,
  Partner,
  PartnerOf,   \* the partner of each offer
  Poll,        \* the polls that can be handled at once
  Life,        \* the lifetime of a hash that is written
  MaxFaults    \* bound on events that are handled again and on polls that fail

VARIABLES
  state,       \* of each offer, at the bot: "none", "active", "done"
  events,      \* events to be handled: what they say of which offer
  polled,      \* the event of a poll: "none", "fresh", or "old" after a heartbeat
  poll,        \* each poll in hand
  locked,      \* the poll that holds the lock of the bot
  ours,        \* the offers in the hash of the bot
  theirs,      \* the offers in the hashes of partners
  ttl,         \* what is left of the lifetime of each hash
  lapsed,      \* history: partners whose hash expired since all offers were saved
  faults

vars == <<state, events, polled, poll, locked, ours, theirs, ttl, lapsed, faults>>
steam == <<state, events>>
store == <<ours, theirs, ttl, lapsed>>

Bot == "bot"
None == "none"
Active == {o \in Offer : state[o] = "active"}
With(p) == {o \in Offer : PartnerOf[o] = p}
NoPoll == [pc |-> "idle", list |-> {}, existing |-> {}]

Init ==
  /\ state = [o \in Offer |-> "none"]
  /\ events = {}
  /\ polled = "none"
  /\ poll = [i \in Poll |-> NoPoll]
  /\ locked = None
  /\ ours = {}
  /\ theirs = {}
  /\ ttl = [k \in Partner \cup {Bot} |-> 0]
  /\ lapsed = {}
  /\ faults = 0

Fault == faults < MaxFaults /\ faults' = faults + 1

TypeOK ==
  /\ state \in [Offer -> {"none", "active", "done"}]
  /\ events \subseteq [offer : Offer, active : BOOLEAN]
  /\ polled \in {"none", "fresh", "old"}
  /\ poll \in [Poll -> [pc : {"idle", "fetch", "lock", "save"}, list : SUBSET Offer, existing : SUBSET Offer]]
  /\ locked \in Poll \cup {None}
  /\ \A i \in Poll : (locked = i) = (poll[i].pc = "save")
  /\ ours \subseteq Offer /\ theirs \subseteq Offer
  /\ ttl \in [Partner \cup {Bot} -> 0..Life]
  /\ ours # {} => ttl[Bot] > 0
  /\ lapsed \subseteq Partner

-------------------------------------------------------------------------------
(* The bot, which publishes what happens to its offers *)

Changes(o, from, to) ==
  /\ state[o] = from
  /\ state' = [state EXCEPT ![o] = to]
  /\ events' = events \cup {[offer |-> o, active |-> to = "active"]}
  /\ UNCHANGED <<polled, poll, locked, store, faults>>

Polled ==
  /\ polled = "none"
  /\ polled' = "fresh"
  /\ UNCHANGED <<steam, poll, locked, store, faults>>

\* the bot is seen after it published the event
Heartbeat ==
  /\ polled = "fresh"
  /\ polled' = "old"
  /\ UNCHANGED <<steam, poll, locked, store, faults>>

-------------------------------------------------------------------------------
(* What a transaction does to the hashes *)

\* adds offers to both hashes, and starts the lifetime of every hash it wrote
SaveOffers(mine, yours, new) ==
  /\ ours' = mine \cup new
  /\ theirs' = yours \cup new
  /\ ttl' = [k \in DOMAIN ttl |->
               IF k = Bot /\ mine \cup new = {} THEN 0
               ELSE IF k = Bot \/ new \cap With(k) # {} THEN Life
               ELSE ttl[k]]

DeleteOffers(gone) ==
  /\ ours' = ours \ gone
  /\ theirs' = theirs \ gone
  /\ UNCHANGED ttl

-------------------------------------------------------------------------------
(* Events of offers *)

HandleOffers(e) ==
  /\ e \in events
  /\ IF e.active THEN SaveOffers(ours, theirs, {e.offer}) ELSE DeleteOffers({e.offer})
  /\ UNCHANGED <<state, polled, poll, locked, lapsed>>

Handled(e) ==
  /\ HandleOffers(e)
  /\ events' = events \ {e}
  /\ UNCHANGED faults

\* handled, but not acknowledged: it will be delivered again
Redelivered(e) ==
  /\ HandleOffers(e)
  /\ UNCHANGED events
  /\ Fault

-------------------------------------------------------------------------------
(* Polls *)

Set(i, p) == poll' = [poll EXCEPT ![i] = p]

HandlePoll(i) ==
  /\ poll[i].pc = "idle"
  /\ polled # "none"
  /\ polled' = "none"
  /\ IF polled = "old" THEN UNCHANGED poll ELSE Set(i, [NoPoll EXCEPT !.pc = "fetch"])
  /\ UNCHANGED <<steam, locked, store, faults>>

\* asks the bot for its active offers
GetActiveOffers(i) ==
  /\ poll[i].pc = "fetch"
  /\ Set(i, [NoPoll EXCEPT !.pc = "lock", !.list = Active])
  /\ UNCHANGED <<steam, polled, locked, store, faults>>

ReadExisting(i) ==
  /\ poll[i].pc = "lock"
  /\ locked = None
  /\ locked' = i
  /\ Set(i, [poll[i] EXCEPT !.pc = "save", !.existing = ours])
  /\ UNCHANGED <<steam, polled, store, faults>>

\* Mutation: the offers that were there are deleted, and only the others are added
SavePolledNew(list, existing) == SaveOffers(list \cap existing, theirs \ existing, list \ existing)

\* Mutation: the hash of the bot is not made anew
SavePolledKeeping(list, existing) == SaveOffers(ours, theirs \ (existing \ list), list)

\* what was there and has not been polled goes from the partners, and the hash of the
\* bot is made anew
SavePolled(list, existing) == SaveOffers({}, theirs \ (existing \ list), list)

SavePolledOffers(i) ==
  /\ poll[i].pc = "save"
  /\ SavePolled(poll[i].list, poll[i].existing)
  /\ lapsed' = {}
  /\ locked' = None
  /\ Set(i, NoPoll)
  /\ UNCHANGED <<steam, polled, faults>>

\* Mutation: the lock stays
PollFailsLocked(i) ==
  /\ poll[i].pc # "idle"
  /\ Fault
  /\ Set(i, NoPoll)
  /\ UNCHANGED <<steam, polled, locked, store>>

\* a request or the lock fails, and the event is not retried
PollFails(i) ==
  /\ poll[i].pc # "idle"
  /\ Fault
  /\ locked' = IF locked = i THEN None ELSE locked
  /\ Set(i, NoPoll)
  /\ UNCHANGED <<steam, polled, store>>

\* time passes for all hashes
Tick ==
  /\ \E k \in DOMAIN ttl : ttl[k] > 0
  /\ ttl' = [k \in DOMAIN ttl |-> IF ttl[k] > 0 THEN ttl[k] - 1 ELSE 0]
  /\ LET over == {k \in DOMAIN ttl : ttl'[k] = 0} IN
     /\ ours' = IF Bot \in over THEN {} ELSE ours
     /\ theirs' = {o \in theirs : PartnerOf[o] \notin over}
     /\ lapsed' = lapsed \cup {p \in over \ {Bot} : ttl[p] > 0}
  /\ UNCHANGED <<steam, polled, poll, locked, faults>>

Next ==
  \/ \E o \in Offer : Changes(o, "none", "active") \/ Changes(o, "active", "done")
  \/ Polled
  \/ Heartbeat
  \/ \E e \in events : Handled(e) \/ Redelivered(e)
  \/ \E i \in Poll : HandlePoll(i) \/ GetActiveOffers(i) \/ ReadExisting(i) \/ SavePolledOffers(i) \/ PollFails(i)
  \/ Tick

Spec == Init /\ [][Next]_vars

\* Bots poll regularly.  An event that is delivered over and over is handled in the end,
\* and a poll is often handled before the next heartbeat.
SomePollIsHandled == \E i \in Poll : HandlePoll(i)
SomePollGoesOn == \E i \in Poll : GetActiveOffers(i) \/ ReadExisting(i) \/ SavePolledOffers(i)

FairSpec ==
  /\ Spec
  /\ WF_vars(\E e \in events : Handled(e))
  /\ WF_vars(Polled)
  /\ WF_vars(SomePollIsHandled)
  /\ SF_vars(polled = "fresh" /\ SomePollIsHandled)
  /\ WF_vars(SomePollGoesOn)

-------------------------------------------------------------------------------
(* Who asks *)

GetPendingBotOffers == ours

\* the hash of the partner tells where to look; what is not found there is skipped
GetPendingPartnerOffers(p) == theirs \cap With(p) \cap ours

-------------------------------------------------------------------------------
(* Properties *)

\* A partner is shown every pending offer the bot has with it: events and polls that
\* write the two hashes at the same time never make one forget what the other has.
\* Only the hash of a partner that expired, which a poll refreshes, may show less.
ViewsAgree ==
  \A p \in Partner \ lapsed :
    GetPendingPartnerOffers(p) = GetPendingBotOffers \cap With(p)

\* Polls repair what events and older polls have done in the wrong order: again and
\* again, the pending offers are the active ones, for the bot and for its partners.
InSync ==
  /\ GetPendingBotOffers = Active
  /\ \A p \in Partner : GetPendingPartnerOffers(p) = Active \cap With(p)

Repaired == []<>InSync

===============================================================================

------------------------------ MODULE MCDelivery ------------------------------
(***************************************************************************)
(* Small instances, above all for what happens in the end, of parts that   *)
(* have to get something done elsewhere: the jobs of trades (the constants *)
(* of TradeJobs are given values by the configuration), what the bot tells *)
(* of its offers, the agent of an account, and the tasks of the game       *)
(* coordinator.  They share nothing, so a behaviour is one of one of them, *)
(* which is chosen at the start, and the others stay as they begin.        *)
(***************************************************************************)
EXTENDS TradeJobs

VARIABLES
  component,   \* the one that was chosen
  ours, stage, request, before, newer, seen, polled, data, saved, missing, queue, pub, last,
  floor, doubt, repeated, deaf, tellFaults,
  agent, token, schedules, agentJob, register, unregister, cleanup, cleaner, completed,
  unneeded, started, shown, requests, agentFaults,
  game, session, backpack, clock, refreshQueued, manuallyDisconnectedFromGC, rejoin, asked, task,
  tasks, gameFaults

offers == <<ours, stage, request, before, newer, seen, polled, data, saved, missing, queue, pub,
            last, floor, doubt, repeated, deaf, tellFaults>>
agents == <<agent, token, schedules, agentJob, register, unregister, cleanup, cleaner, completed,
            unneeded, started, shown, requests, agentFaults>>
played == <<game, session, backpack, clock, refreshQueued, manuallyDisconnectedFromGC, rejoin, asked,
            task, tasks, gameFaults>>

Offers == INSTANCE TradePublish WITH
  req <- request, cache <- seen, faults <- tellFaults,
  Offer <- {"o"}, Request <- {1}, Kind <- {"poll", "load", "accept"},
  Fault <- {"answer", "publish", "restart"}, MaxQueue <- 1, MaxFaults <- 1

TheAgent == INSTANCE Agents WITH
  job <- agentJob, faults <- agentFaults,
  Fault <- {"pulse", "stop"}, MaxRequests <- 3

Game == INSTANCE GameQueue WITH
  queue <- asked, timer <- clock, faults <- gameFaults, MaxTasks <- 3, MaxFaults <- 1

\* of those that are not chosen, one initial state is enough
MCInit ==
  /\ component \in {"trades", "offers", "agent", "game"}
  /\ Init /\ Offers!Init /\ TheAgent!Init /\ Game!Init
  /\ component # "trades" => type = "CREATE"
  /\ component # "offers" => ours = [o \in {"o"} |-> TRUE]
  /\ component # "agent" => schedules = {"new"}

\* a step of one of them
OfTrades(A) == component = "trades" /\ A /\ UNCHANGED <<component, offers, agents, played>>
OfOffers(A) == component = "offers" /\ A /\ UNCHANGED <<component, vars, agents, played>>
OfAgent(A) == component = "agent" /\ A /\ UNCHANGED <<component, vars, offers, played>>
OfGame(A) == component = "game" /\ A /\ UNCHANGED <<component, vars, offers, agents>>

MCNext ==
  \/ OfTrades(Next) \/ OfOffers(Offers!Next)
  \/ OfAgent(TheAgent!Next) \/ OfGame(Game!Next)

\* The fairness of TradePublish, Agents and GameQueue; a behaviour is of one of them, so
\* that what is fair in one can be stated together with what is in another.
MCFairness ==
  LET all == <<component, vars, offers, agents, played>> IN
  /\ WF_all(\/ OfOffers(Offers!Serve(1) \/ Offers!Refused(1))
            \/ OfAgent(TheAgent!Registering \/ TheAgent!Unregistering))
  /\ WF_all(OfOffers(Offers!Take) \/ OfAgent(TheAgent!OnCompleted))
  /\ WF_all(OfOffers(Offers!PublishOffer) \/ OfAgent(TheAgent!RemoveUnregister) \/ OfGame(Game!Process))
  /\ WF_all(OfOffers(Offers!PublishConfirmation) \/ OfAgent(TheAgent!SlotComes) \/ OfGame(Game!TimesOut))
  /\ WF_all(OfAgent(TheAgent!Pulsing))
  /\ SF_all(OfOffers(Offers!Make(1, "poll", Offers!Nil)) \/ OfAgent(TheAgent!UnregisterJob))
  /\ SF_all(\/ OfOffers(polled["o"] # data["o"].published /\ Offers!Make(1, "load", "o"))
            \/ OfAgent(TheAgent!CleanUp))
  /\ SF_all(OfOffers(Offers!EnsurePolldataPublished("o")) \/ OfAgent(TheAgent!StartPulse("pulse")))
  /\ SF_all(OfOffers(Offers!Arrive(1)) \/ OfAgent(TheAgent!StartPulse("slot")))

MCSpec == MCInit /\ [][MCNext]_<<component, vars, offers, agents, played>> /\ MCFairness

\* What was told last of an offer comes to be what it is at Steam (TradePublish)
ToldInTheEnd == Offers!ToldInTheEnd

\* An agent that stays away is stopped on backpack.tf (Agents)
StoppedInTheEnd == TheAgent!StoppedInTheEnd

\* Every task comes to its end, and so does everything behind it (GameQueue)
QueueMoves == Game!QueueMoves
===============================================================================

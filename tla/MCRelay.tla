-------------------------------- MODULE MCRelay --------------------------------
(***************************************************************************)
(* Small instances of two parts that have to keep going: the relay of the  *)
(* outbox (the constants of Relay are given values by the configuration),  *)
(* and the heartbeats of a bot, for what happens to it in the end.  They   *)
(* share nothing, so a behaviour is one of one of them, which is chosen at *)
(* the start, and the other stays as it begins.                            *)
(***************************************************************************)
EXTENDS Relay

VARIABLES
  component,   \* the one that was chosen
  record, job, call, lock, aborted, up, host, connected, ready, beating, beatTimer, posting, beatFaults

bot == <<record, job, call, lock, aborted, up, host, connected, ready, beating, beatTimer, posting,
         beatFaults>>

Bot == INSTANCE Heartbeats WITH
  timer <- beatTimer, faults <- beatFaults,
  Host <- {"h"}, Beat <- {"b"}, Nobody <- "nobody", MaxSeen <- 2, Attempts <- 1, MaxFaults <- 1

MCInit == component \in {"relay", "bot"} /\ Init /\ Bot!Init

OfRelay(A) == component = "relay" /\ A /\ UNCHANGED <<component, bot>>
OfBot(A) == component = "bot" /\ A /\ UNCHANGED <<component, vars>>

MCNext == OfRelay(Next) \/ OfBot(Bot!Next)

\* The fairness of Relay and of Heartbeats
MCFairness ==
  /\ WF_vars(OfRelay(LeaseExpires)) /\ WF_vars(OfRelay(\E i \in Instance : Elected(i)))
  /\ \A i \in Instance : WF_vars(OfRelay(Demoted(i))) /\ WF_vars(OfRelay(Work(i)))
  /\ SF_bot(OfBot(Bot!Beats)) /\ SF_bot(OfBot(\E l \in Bot!Seen : Bot!RunCheck(l)))
  /\ \A c \in Bot!Call : SF_bot(OfBot(Bot!Goes(c)))

MCSpec == MCInit /\ [][MCNext]_<<component, vars, bot>> /\ MCFairness

\* A bot that is gone is recorded as stopped in the end (Heartbeats)
GoneIsNoticed == Bot!GoneIsNoticed

\* A bot that stays connected comes to be recorded as running (Heartbeats)
BeatsOn == Bot!BeatsOn
===============================================================================

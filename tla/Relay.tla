--------------------------------- MODULE Relay ---------------------------------
(***************************************************************************)
(* The transactional outbox: events are pushed on a Redis list in the      *)
(* transaction that changes what they tell of, and relays publish them.    *)
(* Every instance of a service has a relay; the leader among them takes    *)
(* the oldest event, publishes it and removes it, over and over.           *)
(*                                                                         *)
(* The leader is the one whose name a Redis key with an expiry holds (the  *)
(* library ts-safe-redis-leader), so it may stop being the leader at any   *)
(* moment and find out later.  Events are numbered in the order they are   *)
(* written in.                                                             *)
(***************************************************************************)
EXTENDS Integers

CONSTANTS
  Instance,    \* the relays that share an outbox
  None,        \* no relay
  MaxEvents,   \* bound on the number of events
  MaxFaults    \* bound on leaders that are late, failed calls and stopped processes

ASSUME NoneAssumption == None \notin Instance
ASSUME BoundAssumption == MaxEvents \in Nat /\ MaxFaults \in Nat

VARIABLES
  written,     \* number of events written
  outbox,      \* the events in the outbox
  published,   \* the events that have been published
  lease,       \* the relay the key names
  elected,     \* the relays told that they are elected, and not yet that they are demoted
  isLeader,    \* the relays that take themselves for the leader
  step,        \* what the loop of each relay waits for; idle: it is not working
  message,     \* the event it has read
  timer,       \* the relays whose loop is to run in a second
  faults

vars == <<written, outbox, published, lease, elected, isLeader, step, message, timer, faults>>
leadership == <<lease, elected>>

Event == 1..MaxEvents
Oldest(e) == e \in outbox /\ \A o \in outbox : e <= o

Init ==
  /\ written = 0
  /\ outbox = {}
  /\ published = {}
  /\ lease = None
  /\ elected = {}
  /\ isLeader = {}
  /\ step = [i \in Instance |-> "idle"]
  /\ message = [i \in Instance |-> 0]
  /\ timer = {}
  /\ faults = 0

Fault == faults < MaxFaults /\ faults' = faults + 1

\* publishEvent, as part of the transaction of the caller
Write ==
  /\ written < MaxEvents
  /\ written' = written + 1
  /\ outbox' = outbox \cup {written + 1}
  /\ UNCHANGED <<published, leadership, isLeader, step, message, timer, faults>>

-------------------------------------------------------------------------------
(* Leadership *)

\* loop: it does nothing while it works already, or when it does not lead
Loop(i, leads) ==
  step' = IF i \in leads /\ step[i] = "idle" THEN [step EXCEPT ![i] = "check"] ELSE step

Elected(i) ==
  /\ i \notin elected
  /\ lease = None
  /\ lease' = i
  /\ elected' = elected \cup {i}
  /\ isLeader' = isLeader \cup {i}
  /\ Loop(i, isLeader')
  /\ UNCHANGED <<written, outbox, published, message, timer, faults>>

\* Found out when the key is to be renewed
Demoted(i) ==
  /\ i \in elected
  /\ lease # i
  /\ elected' = elected \ {i}
  /\ isLeader' = isLeader \ {i}
  /\ timer' = timer \ {i}
  /\ UNCHANGED <<written, outbox, published, lease, step, message, faults>>

\* The key expires when its relay is gone ...
LeaseExpires ==
  /\ lease \in Instance \ elected
  /\ lease' = None
  /\ UNCHANGED <<written, outbox, published, elected, isLeader, step, message, timer, faults>>

\* ... or when it is late
LeaseLost ==
  /\ Fault
  /\ lease \in elected
  /\ lease' = None
  /\ UNCHANGED <<written, outbox, published, elected, isLeader, step, message, timer>>

-------------------------------------------------------------------------------
(* The loop *)

Timer(i) ==
  /\ i \in timer
  /\ timer' = timer \ {i}
  /\ Loop(i, isLeader)
  /\ UNCHANGED <<written, outbox, published, leadership, isLeader, message, faults>>

\* Having processed an event, the loop runs again at once, else in a second
Again(i) ==
  /\ step' = [step EXCEPT ![i] = IF i \in isLeader THEN "check" ELSE "idle"]
  /\ UNCHANGED timer

Later(i) ==
  /\ step' = [step EXCEPT ![i] = "idle"]
  /\ timer' = timer \cup {i}

CheckLeader(i) ==
  /\ step[i] = "check"
  /\ isLeader' = IF lease = i THEN isLeader \cup {i} ELSE isLeader \ {i}
  /\ IF lease = i
     THEN step' = [step EXCEPT ![i] = "read"] /\ UNCHANGED timer
     ELSE Later(i)
  /\ UNCHANGED <<written, outbox, published, leadership, message, faults>>

\* Mutant: the newest event is taken
ReadNewest(i) ==
  /\ step[i] = "read"
  /\ IF outbox = {}
     THEN Later(i) /\ UNCHANGED message
     ELSE /\ \E e \in outbox : message' = [message EXCEPT ![i] = e] /\ \A o \in outbox : o <= e
          /\ step' = [step EXCEPT ![i] = "publish"]
          /\ UNCHANGED timer
  /\ UNCHANGED <<written, outbox, published, leadership, isLeader, faults>>

ReadMessage(i) ==
  /\ step[i] = "read"
  /\ IF outbox = {}
     THEN Later(i) /\ UNCHANGED message
     ELSE /\ \E e \in outbox : Oldest(e) /\ message' = [message EXCEPT ![i] = e]
          /\ step' = [step EXCEPT ![i] = "publish"]
          /\ UNCHANGED timer
  /\ UNCHANGED <<written, outbox, published, leadership, isLeader, faults>>

PublishMessage(i) ==
  /\ step[i] = "publish"
  /\ published' = published \cup {message[i]}
  /\ step' = [step EXCEPT ![i] = "remove"]
  /\ UNCHANGED <<written, outbox, leadership, isLeader, message, timer, faults>>

\* lrem removes the event itself, if it is still there
RemoveMessage(i) ==
  /\ step[i] = "remove"
  /\ outbox' = outbox \ {message[i]}
  /\ message' = [message EXCEPT ![i] = 0]
  /\ Again(i)
  /\ UNCHANGED <<written, published, leadership, isLeader, faults>>

-------------------------------------------------------------------------------
(* Faults *)

\* A call fails, and may have had its effect or not.  (Node stops the process
\* for a rejection nobody handles, unless it is told not to.)
CallFails(i) ==
  /\ Fault
  /\ step[i] # "idle"
  /\ \/ UNCHANGED <<published, outbox>>
     \/ step[i] = "publish" /\ published' = published \cup {message[i]} /\ UNCHANGED outbox
     \/ step[i] = "remove" /\ outbox' = outbox \ {message[i]} /\ UNCHANGED published
  /\ message' = [message EXCEPT ![i] = 0]
  /\ Later(i)
  /\ UNCHANGED <<written, leadership, isLeader>>

\* The process stops and starts again; one that is shut down gives up its lead
Stop(i) ==
  /\ Fault
  /\ lease' \in IF lease = i THEN {i, None} ELSE {lease}
  /\ elected' = elected \ {i}
  /\ isLeader' = isLeader \ {i}
  /\ step' = [step EXCEPT ![i] = "idle"]
  /\ message' = [message EXCEPT ![i] = 0]
  /\ timer' = timer \ {i}
  /\ UNCHANGED <<written, outbox, published>>

-------------------------------------------------------------------------------
Work(i) == Timer(i) \/ CheckLeader(i) \/ ReadMessage(i) \/ PublishMessage(i) \/ RemoveMessage(i)

Next ==
  \/ Write \/ LeaseExpires \/ LeaseLost
  \/ \E i \in Instance : Elected(i) \/ Demoted(i) \/ Work(i) \/ CallFails(i) \/ Stop(i)

Spec == Init /\ [][Next]_vars

\* The loop and the library go on; keys expire
Fairness ==
  /\ WF_vars(LeaseExpires)
  /\ WF_vars(\E i \in Instance : Elected(i))
  /\ \A i \in Instance : WF_vars(Demoted(i)) /\ WF_vars(Work(i))

FairSpec == Spec /\ Fairness

-------------------------------------------------------------------------------
(* Properties *)

\* A type invariant; an event waits, is read, is published as one of those written.
TypeOK ==
  /\ written \in 0..MaxEvents
  /\ outbox \subseteq 1..written
  /\ published \subseteq 1..written
  /\ lease \in Instance \cup {None}
  /\ elected \subseteq Instance
  /\ isLeader \subseteq Instance
  /\ step \in [Instance -> {"idle", "check", "read", "publish", "remove"}]
  /\ message \in [Instance -> 0..written]
  /\ timer \subseteq Instance
  /\ faults \in 0..MaxFaults

\* An event that is not in the outbox any more has been published: nothing that
\* was written with the state is lost, whoever leads and whatever fails.
NothingLost == (1..written) \ outbox \subseteq published

\* The relay delivers every event, and in order, as EventLog says: whatever two
\* leaders do at the same time, a first delivery is never ahead of an older event.
Log == INSTANCE EventLog WITH delivered <- published
Implements == Log!FairSpec

\* What makes it hold: an event that is in the hands of a relay is not ahead of
\* any event that was not published, and one to be removed was published.
RelayInv ==
  /\ NothingLost
  /\ \A e \in published : 1..e \subseteq published
  /\ \A i \in Instance :
       /\ step[i] \in {"publish", "remove"} => message[i] \in 1..written
       /\ step[i] = "publish" => 1..(message[i] - 1) \subseteq published
       /\ step[i] = "remove" => message[i] \in published
===============================================================================

------------------------------- MODULE EventLog -------------------------------
(***************************************************************************)
(* What the transactional outbox promises of the events of a service:      *)
(* events are numbered as they are written, each one is delivered, and no  *)
(* event is delivered for the first time before those written before it.   *)
(* (It may be delivered again; that changes nothing here.)                 *)
(***************************************************************************)
EXTENDS Integers

CONSTANT MaxEvents   \* bound on the number of events

VARIABLES written, delivered

vars == <<written, delivered>>

Init == written = 0 /\ delivered = {}

Write ==
  /\ written < MaxEvents
  /\ written' = written + 1
  /\ UNCHANGED delivered

Deliver ==
  /\ \E e \in (1..written) \ delivered :
       /\ 1..(e - 1) \subseteq delivered
       /\ delivered' = delivered \cup {e}
  /\ UNCHANGED written

Next == Write \/ Deliver

Spec == Init /\ [][Next]_vars

FairSpec == Spec /\ WF_vars(Deliver)
===============================================================================

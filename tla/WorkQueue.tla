------------------------------ MODULE WorkQueue ------------------------------
(***************************************************************************)
(* What the jobs that manage listings promise of the work that is queued   *)
(* for them.  Who queues work sees to it that somebody watches the queue;  *)
(* nobody stops watching a queue with work, unless it has been left        *)
(* knowingly, and then by one who watched it; and the worker takes nothing *)
(* out of a queue but what it has sent.                                    *)
(***************************************************************************)
EXTENDS Integers

CONSTANTS
  Item,      \* what may be queued
  Queue,     \* the queues
  Optional,  \* those whose work may be left
  Wiped      \* those that are emptied when all there is was deleted

VARIABLES
  work,      \* what is in each queue
  sent,      \* what the worker has sent, and not taken out yet
  watched,   \* the queues that somebody is going to look at
  left,      \* the queues whose work has been left
  asked,     \* how often others have asked for something
  clearing,  \* the queues are going to be cleared
  wiping     \* everything was deleted

vars == <<work, sent, watched, left, asked, clearing, wiping>>

Init ==
  /\ work = [q \in Queue |-> {}] /\ sent = [q \in Queue |-> {}]
  /\ watched = {} /\ left = {}
  /\ asked = 0 /\ clearing = FALSE /\ wiping = FALSE

\* Work that comes is watched, and work that is there stays watched until it has been left.
Attended ==
  /\ work' \in [Queue -> SUBSET Item]
  /\ watched' \subseteq Queue /\ left' \subseteq Optional
  /\ \A q \in Queue : work'[q] \subseteq work[q] \/ q \in watched'
  /\ \A q \in watched \ watched' : work'[q] = {} \/ q \in left'
  /\ left \ left' \subseteq watched'

\* Others ask for work, or take it back.
Ask == Attended /\ asked' = asked + 1 /\ UNCHANGED <<sent, left, clearing, wiping>>

\* More is found to do.
Find ==
  /\ Attended /\ \A q \in Queue : work[q] \subseteq work'[q]
  /\ UNCHANGED <<sent, left, asked, clearing, wiping>>

\* Somebody comes to watch a queue, goes, or leaves what is in it.
Look ==
  /\ Attended /\ left' \ left \subseteq watched
  /\ UNCHANGED <<work, sent, asked, clearing, wiping>>

Send ==
  /\ \E q \in Queue : sent[q] = {} /\ \E b \in SUBSET Item : sent' = [sent EXCEPT ![q] = b]
  /\ UNCHANGED <<work, watched, left, asked, clearing, wiping>>

\* What was sent is taken out; some of it may become work of another queue.
Settle ==
  /\ Attended
  /\ \E q \in Queue :
       /\ sent' = [sent EXCEPT ![q] = {}]
       /\ work'[q] = work[q] \ sent[q]
       /\ \A r \in Queue \ {q} : work[r] \subseteq work'[r] /\ work'[r] \subseteq work[r] \cup sent[q]
  /\ UNCHANGED <<left, asked, clearing, wiping>>

Unregister ==
  /\ ~clearing /\ clearing' = TRUE
  /\ UNCHANGED <<work, sent, watched, left, asked, wiping>>

Clear ==
  /\ clearing /\ clearing' = FALSE
  /\ work' = [q \in Queue |-> {}]
  /\ UNCHANGED <<sent, watched, left, asked, wiping>>

Delete == wiping' = TRUE /\ UNCHANGED <<work, sent, watched, left, asked, clearing>>

Wipe ==
  /\ wiping /\ wiping' = FALSE
  /\ work' = [q \in Queue |-> IF q \in Wiped THEN {} ELSE work[q]]
  /\ UNCHANGED <<sent, watched, left, asked, clearing>>

Next == Ask \/ Find \/ Look \/ Send \/ Settle \/ Unregister \/ Clear \/ Delete \/ Wipe

Spec == Init /\ [][Next]_vars

\* Work is watched, or has been left.
NothingForgotten == \A q \in Queue : work[q] # {} => q \in watched \cup left
===============================================================================

------------------------------ MODULE FreshCache ------------------------------
(***************************************************************************)
(* What a cache of things that move on elsewhere promises, whichever way   *)
(* and in whichever order it learns of them: what is cached of a thing is  *)
(* a stage that it was at after it was asked for, and it is never replaced *)
(* by one that is known to be behind that.                                 *)
(***************************************************************************)
EXTENDS Naturals

CONSTANT Thing

VARIABLES
  stage,    \* how far each thing is
  cached,   \* how far it is as the cache has it, 0 when it has not
  asked     \* how far it was when it was asked for, of the latest that has been learnt of it

vars == <<stage, cached, asked>>

Nothing == [t \in Thing |-> 0]

Init == stage = Nothing /\ cached = Nothing /\ asked = Nothing

\* Things move on.
Move ==
  /\ stage' \in [Thing -> Nat] /\ \A t \in Thing : stage[t] <= stage'[t]
  /\ UNCHANGED <<cached, asked>>

\* Something is learnt of some of them, at once: it may be that what is cached is newer
\* already, but then it is not older than what was asked for now.
Learn ==
  /\ cached' \in [Thing -> Nat] /\ asked' \in [Thing -> Nat]
  /\ \A t \in Thing :
       \/ cached'[t] = cached[t] /\ asked'[t] = asked[t]
       \/ /\ asked[t] <= asked'[t] /\ asked'[t] <= cached'[t]
          /\ cached'[t] # 0 /\ cached'[t] <= stage[t]
  /\ UNCHANGED stage

\* Some of them leave the cache, and what was known of them is forgotten.
Drop ==
  /\ \E ts \in SUBSET Thing :
       /\ cached' = [t \in Thing |-> IF t \in ts THEN 0 ELSE cached[t]]
       /\ asked' = [t \in Thing |-> IF t \in ts THEN 0 ELSE asked[t]]
  /\ UNCHANGED stage

Next == Move \/ Learn \/ Drop

Spec == Init /\ [][Next]_vars

\* What is cached of a thing is a stage that it was at since it was asked for.
Fresh ==
  /\ stage \in [Thing -> Nat] /\ cached \in [Thing -> Nat] /\ asked \in [Thing -> Nat]
  /\ \A t \in Thing : asked[t] <= cached[t] /\ cached[t] <= stage[t]
===============================================================================

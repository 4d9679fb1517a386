------------------------------ MODULE MCListings ------------------------------
(***************************************************************************)
(* Two parts that repeat their work until it fits: desired listings and    *)
(* their plans, and the schemas of TF2 (the configuration gives the        *)
(* constants of both their values, small ones, for what is the case in the *)
(* end).  They share nothing, so a behaviour is one of one of them, which  *)
(* is chosen at the start, and the other stays as it begins.  The proofs   *)
(* are of this composition, for all values of the constants.               *)
(***************************************************************************)
EXTENDS Listings

CONSTANTS Worker, LastPage, LastVersion, MaxTime, MaxExtra, MaxDeletes, MaxFaults, Fault   \* of Schema

VARIABLES
  component,   \* the one that was chosen
  steam, recent, clock, flows, jobs, run, saved, schemas, told, deleted, extra, faults

downloads == <<steam, recent, clock, flows, jobs, run, saved, schemas, told, deleted, extra, faults>>

Schemas == INSTANCE Schema WITH MaxVersion <- LastVersion

MCInit == component \in {"listings", "schemas"} /\ Init /\ Schemas!Init

\* a step of one of them
OfListings(A) == component = "listings" /\ A /\ UNCHANGED <<component, downloads>>
OfSchemas(A) == component = "schemas" /\ A /\ UNCHANGED <<component, vars>>

MCNext == OfListings(Next) \/ OfSchemas(Schemas!Next)

\* The fairness of Listings and of Schema; a behaviour is of one of them, so that what is
\* fair in one can be stated together with what is in the other.
MCFairness ==
  LET all == <<component, vars, downloads>> IN
  /\ \A h \in Hash : /\ WF_all(OfListings(\E e \in events : e.hash = h /\ Handle(e)))
                     /\ SF_all(OfListings(StartCreate(h))) /\ SF_all(OfListings(StartUpdate(h)))
  /\ \A i \in Id : SF_all(OfListings(StartDelete(i)))
  /\ \A w \in Worker : WF_all(OfListings(Proceed) \/ OfSchemas(Schemas!Works(w)))
  /\ WF_all(OfListings(RefreshCurrent) \/ OfSchemas(Schemas!Elapse))
  /\ WF_all(OfListings(MakePlan) \/ OfSchemas(Schemas!BotSchema(steam)))

MCSpec == MCInit /\ [][MCNext]_<<component, vars, downloads>> /\ MCFairness

\* The types of both
TypesOK == TypeOK /\ Schemas!TypeOK

\* A schema that is looked up has all of its parts, of its version (Schema)
Whole == Schemas!Whole

\* The newest schema becomes the one that Steam serves (Schema)
CaughtUp == <>[](component = "schemas" /\ deleted = {} => Schemas!UpToDate)
===============================================================================

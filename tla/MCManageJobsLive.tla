---------------------------- MODULE MCManageJobsLive ----------------------------
(***************************************************************************)
(* Small instances, above all for what happens in the end, of two parts    *)
(* that share nothing: prices of assets (the constants of Prices are given *)
(* values by the configuration), and the jobs that manage listings.  Of    *)
(* the jobs there are two, deleting in batches, and creating under a       *)
(* listing cap with plans and a fault.  A behaviour is one of one of them, *)
(* which is chosen at the start, and the others stay as they begin.        *)
(***************************************************************************)
EXTENDS Prices

VARIABLES
  component,   \* the one that was chosen
  agent, queue, pending, job, batch, call, free, unregistering, wiping, parked, passed,
  jobRequests, jobFaults

managed == <<agent, queue, pending, job, batch, call, free, unregistering, wiping, parked, passed,
             jobRequests, jobFaults>>

Drain == INSTANCE ManageJobs WITH
  requests <- jobRequests, faults <- jobFaults,
  Listing <- {"l", "m"}, Slot <- {"c"}, BatchSize <- 1, MaxFree <- 1, MaxFaults <- 0, MaxRequests <- 2,
  Source <- {"removed", "agent"}, Kind <- {"delete", "delete-all"}

Jobs == INSTANCE ManageJobs WITH
  requests <- jobRequests, faults <- jobFaults,
  Listing <- {"l"}, Slot <- {"c"}, BatchSize <- 1, MaxFree <- 1, MaxFaults <- 1, MaxRequests <- 1,
  Source <- {"added", "refreshed", "limits"}, Kind <- {"create", "plan"}

deleting == component = "delete"
creating == component = "create"

\* of those that are not chosen, one initial state is enough
MCInit ==
  /\ component \in {"delete", "create", "prices"}
  /\ IF deleting THEN Drain!Init ELSE Jobs!Init
  /\ deleting \/ creating \/ (agent /\ free = 0)
  /\ Init

\* a step of one of them
OfDrain(A) == deleting /\ A /\ UNCHANGED <<component, vars>>
OfJobs(A) == creating /\ A /\ UNCHANGED <<component, vars>>
OfPrices(A) == component = "prices" /\ A /\ UNCHANGED <<component, managed>>

MCNext == OfDrain(Drain!Next) \/ OfJobs(Jobs!Next) \/ OfPrices(Next)

\* The fairness of all of them; a behaviour is of one of them, so that what is fair in
\* one can be stated together with what is in another.
MCFairness ==
  LET all == <<component, managed, vars>>
      Kinds == {<<"delete", "create">>, <<"delete-all", "plan">>}
  IN
  /\ WF_all(\/ OfDrain(Drain!Call("c", "delete")) \/ OfJobs(Jobs!Call("c", "create"))
            \/ OfPrices(Changes))
  /\ WF_all(\/ OfDrain(Drain!Call("c", "delete-all")) \/ OfJobs(Jobs!Call("c", "plan"))
            \/ OfPrices(\E i \in Item : Saves(i)))
  /\ WF_all(OfDrain(Drain!DeletedCurrentListings("c")) \/ OfPrices(Saves("a")))
  /\ WF_all(OfDrain(Drain!ClearQueues("c")) \/ OfPrices(Load("o")))
  /\ WF_all(\/ OfDrain(Drain!DeletedAllCurrentListings)
            \/ OfJobs(Jobs!RefreshedCurrentListings("c"))
            \/ OfPrices(HandleLoaded("o")))
  /\ \A t \in Kinds :
       /\ WF_all(OfDrain(Drain!ClearPending(t[1])) \/ OfJobs(Jobs!ClearPending(t[2])))
       /\ SF_all(OfDrain(Drain!Work("c", t[1])) \/ OfJobs(Jobs!Work("c", t[2])))
       /\ SF_all(OfDrain(Drain!Read("c", t[1])) \/ OfJobs(Jobs!Read("c", t[2])))
       /\ SF_all(OfDrain(Drain!Send("c", t[1])) \/ OfJobs(Jobs!Send("c", t[2])))
  /\ SF_all(\/ OfDrain(Drain!DeleteAllListings("c"))
            \/ OfJobs(\E new, changed, old \in SUBSET {"l"} :
                        Jobs!PlanListings("c", new, changed, old)))

MCSpec == MCInit /\ [][MCNext]_<<component, managed, vars>> /\ MCFairness

\* Every listing queued for deletion leaves the queue in the end (there is no crash
\* and no error in a completion handler): batches, retries, an agent that comes and
\* goes and the deletion of everything strand none.  (It is stated for one of two
\* listings, which are treated alike.)
DeletesDrain == (deleting /\ "l" \in queue["delete"]) ~> (deleting => "l" \notin queue["delete"])

\* A listing to create is taken in the end when the agent stays registered and there is
\* always a free listing slot, if plans do not pass it over: the plan made at the next
\* refresh wakes what the limits, or a fault, had left lying.  A plan does pass over a
\* forced recreate, and an error that is not to be tried again; of those nothing is
\* said, and when the completion handler that should wake them is lost, they wait for
\* the next request to create (manage-listings.service.ts, planListings).
CreatesDrain ==
  (<>[](creating /\ agent /\ free > 0 /\ "l" \notin passed)) =>
    []<>(~creating \/ "l" \notin queue["create"])
===============================================================================

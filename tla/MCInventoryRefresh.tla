-------------------------- MODULE MCInventoryRefresh --------------------------
(***************************************************************************)
(* Small instances of two parts of the bptf-manager that refresh what it   *)
(* knows of backpack.tf: refreshes of an inventory, and whether the record *)
(* of the listings becomes right in the end (the configuration gives the   *)
(* constants of both their values).  They share nothing, so a behaviour is *)
(* one of one of them, which is chosen at the start, and the other stays   *)
(* as it begins.                                                           *)
(***************************************************************************)
EXTENDS InventoryRefresh

CONSTANTS Listing, Refresh, Part, PageSize, Operation, Problem, MaxChanges   \* of ListingRefresh

VARIABLES
  component,   \* the one that was chosen
  live, lingering, current, temp, tempKeys, tempDeleted, phase, walk, op, fate, changes

listings == <<live, lingering, current, temp, tempKeys, tempDeleted, phase, walk, op, fate, changes>>

Listings == INSTANCE ListingRefresh WITH Fault <- Problem

\* of the one that is not chosen, one initial state is enough
MCInit ==
  /\ component \in {"inventory", "listings"}
  /\ Init /\ Listings!Init
  /\ component # "listings" => current = {}

OfListings(A) == component = "listings" /\ A /\ UNCHANGED <<component, vars>>

MCNext ==
  \/ component = "inventory" /\ Next /\ UNCHANGED <<component, listings>>
  \/ OfListings(Listings!Next)

\* The fairness of ListingRefresh
MCFairness ==
  /\ WF_listings(OfListings(Listings!Refreshing("r")))
  /\ WF_listings(OfListings(Listings!Write))
  /\ WF_listings(OfListings(\E l \in Listing : Listings!Vanish(l)))
  /\ WF_listings(OfListings(Listings!ExpireTempDeleted))

MCSpec == MCInit /\ [][MCNext]_<<component, vars, listings>> /\ MCFairness

\* The history variable fate is only read to keep itself, and no property of this
\* configuration names it: states that differ in it alone have the same behaviours
View == <<component, vars, live, lingering, current, temp, tempKeys, tempDeleted, phase, walk, op, changes>>

\* The record of the listings becomes, and stays, what backpack.tf has (ListingRefresh)
Convergence == Listings!Convergence
===============================================================================

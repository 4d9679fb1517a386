--------------------------- MODULE MCListingRefresh ---------------------------
(* Model checking of ListingRefresh: refreshes are interchangeable; listings *)
(* are not, their order is the order of the pages                            *)
EXTENDS ListingRefresh, TLC

Symmetry == Permutations(Refresh)

\* the listings that are at backpack.tf, in the records, or about to be
Involved == Live \cup lingering \cup current \cup tempDeleted \cup UNION {op[s].listings : s \in Slot}

\* Two refreshes at once are looked at with one listing only, two listings with one refresh
Bound == Cardinality({r \in Refresh : phase[r] # "idle"}) <= 1 \/ Cardinality(Involved) <= 1

\* A state beyond the bound is looked at, and not continued
MCNext == (Bound /\ Next) \/ (~Bound /\ UNCHANGED vars)

MCSpec == Init /\ [][MCNext]_vars
===============================================================================

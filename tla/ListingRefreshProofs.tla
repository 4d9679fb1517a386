------------------------- MODULE ListingRefreshProofs -------------------------
(***************************************************************************)
(* What is deleted stays out of the record of an account's listings, and   *)
(* what is created stays in it: for any listings, refreshes that overlap,  *)
(* pages and changes.  For both, no job that ends a refresh is done twice; *)
(* for the second, no temp key expires between a look at it and a write.   *)
(*                                                                         *)
(* A deletion is first noted among the deleted listings, then made in the  *)
(* temp keys and at last in the record.  When that has been done the       *)
(* listing is forgotten: no temp key has it, and what a page would bring   *)
(* is filtered out of it.  A creation goes the same way.  When it has been *)
(* recorded, every refresh has the listing, or has lost its temp key and   *)
(* will give up, or is going to find it: its place among the listings is   *)
(* behind the pages that were fetched, and it stays there since deletions  *)
(* before it would have been noticed (fate).                               *)
(***************************************************************************)
EXTENDS ListingRefresh, FiniteSetTheorems, TLAPS

\* A temp key is tracked until it is copied, and it is copied when both walks have ended.

Tracked ==
  \A r \in Refresh :
    /\ r \in tempKeys <=> phase[r] \in {"running", "fetched"}
    /\ phase[r] # "running" => \A p \in Part : walk[<<r, p>>].step = "end"

\* Which requests run where.  A deletion is sent to backpack.tf before anything is written, so
\* that its listing is not active, and of the listing in hand nothing else is recorded since.
Slots ==
  /\ \A s \in Slot : op[s].step # "idle" => SlotOf(op[s].kind) = s
  /\ op["archive"].step \in {"idle", "current"} /\ op["archive"].keys = {}
  /\ op["batch"].kind = "delete" => op["batch"].step \in {"keys", "write", "current"}
  /\ \A l \in op["batch"].listings :
       /\ fate[l] # "deleted"
       /\ op["batch"].kind \in {"create", "delete"} => fate[l] \notin {"created", "wiped"}
       /\ op["batch"].kind = "delete" => l \notin live["active"]
       /\ op["batch"].kind = "create" /\ fate[l] = "other" => l \in Live

\* No temp key has it, or will get it from a page.
Forgotten(l) ==
  /\ ~InPages(l)
  /\ \A r \in tempKeys : l \notin temp[r]
  /\ \A w \in Refresh \X Part : walk[w].step = "filter" /\ l \in walk[w].page => l \in tempDeleted
  /\ l \in lingering => l \in tempDeleted

\* It is being deleted, and is gone from backpack.tf.
Going(l) ==
  /\ op["batch"].kind = "delete"
  /\ l \in op["batch"].listings
  /\ fate[l] = "other"
  /\ l \notin Live

\* After each of the steps of its deletion
Deleting ==
  \A l \in Listing : Going(l) =>
    /\ ~InPages(l)
    /\ op["batch"].step = "write" =>
         \A r \in tempKeys : l \in temp[r] => r \in op["batch"].keys
    /\ op["batch"].step = "current" => Forgotten(l)

\* When it has been deleted; a copy in the other part may be left, which keeps it alive.
Deleted ==
  \A l \in Listing : fate[l] = "deleted" =>
    /\ l \notin live["active"]
    /\ l \notin Live => l \notin current /\ Forgotten(l)

\* When it has been deleted without being remembered: there are no temp keys, and nobody brings
\* one back; or a refresh has started since, and then no page would bring the listing.
Wiped ==
  \A l \in Listing : fate[l] = "wiped" /\ l \notin Live =>
    /\ l \notin current
    /\ NoTempKeys \/ Forgotten(l)
    /\ l \in op["batch"].listings => op["batch"].kind # "update"

\* The inductive invariant of deletions
GoneInv == TypeOK /\ Tracked /\ Slots /\ Deleting /\ Deleted /\ Wiped

\* A walk through S has not passed l: it is behind the pages, or on the one in hand.
Reaches(w, l, S) ==
  \/ w.step = "request" /\ Rank(l, S) > w.skip
  \/ /\ w.step \in {"filter", "keys", "write"}
     /\ Rank(l, S) > w.skip
     /\ l \in w.page \/ (w.more /\ Rank(l, S) > w.skip + PageSize)

\* A refresh will find l where it is; the placeholder keeps its temp key in being till then.
Finds(r, l) ==
  /\ Placeholder \in temp[r]
  /\ \A k \in lingering : l <= k
  /\ \A p \in Part : l \in live[p] =>
       /\ Reaches(walk[<<r, p>>], l, live[p])
       /\ walk[<<r, p>>].step = "write" /\ l \in walk[<<r, p>>].page => r \in walk[<<r, p>>].keys

\* It has l, has no temp key to copy, or will find l.
Covered(r, l) ==
  \/ l \in temp[r]
  \/ ~Exists(r) /\ ~Held(r)
  \/ Finds(r, l)

\* It is being created.
Coming(l) ==
  /\ op["batch"].kind = "create"
  /\ l \in op["batch"].listings
  /\ fate[l] = "other"

\* After each of the steps of its creation
Creating ==
  \A l \in Listing : Coming(l) =>
    /\ op["batch"].step = "write" =>
         \A r \in tempKeys : r \in op["batch"].keys \/ Covered(r, l)
    /\ op["batch"].step = "current" =>
         l \notin tempDeleted /\ \A r \in tempKeys : Covered(r, l)

\* When it has been recorded
Created ==
  \A l \in Listing : fate[l] = "created" =>
    /\ l \in current
    /\ l \in Live
    /\ l \notin tempDeleted
    /\ \A r \in tempKeys : Covered(r, l)

\* The inductive invariant of creations
KeptInv == GoneInv /\ Creating /\ Created

-------------------------------------------------------------------------------
(* Types *)

\* The records that the steps start from have their types.
LEMMA Records ==
  /\ FirstPage \in Walk /\ Ended \in Walk /\ Idle \in Op
  /\ \A w \in Walk : AfterPage(w) \in Walk
<1>1. FirstPage \in Walk
  BY DEF FirstPage, Walk
<1>2. Ended \in Walk
  BY <1>1 DEF Ended, FirstPage, Walk
<1>3. Idle \in Op
  BY DEF Idle, Op, Operations
<1>4. ASSUME NEW w \in Walk PROVE AfterPage(w) \in Walk
  <2>1. w.skip + PageSize \in Nat
    BY PageSizeAssumption DEF Walk
  <2>2. ASSUME NEW n \in Nat PROVE [FirstPage EXCEPT !.skip = n] \in Walk
    BY DEF FirstPage, Walk
  <2> QED BY <1>2, <2>1, <2>2 DEF AfterPage
<1> QED BY <1>1, <1>2, <1>3, <1>4

\* A listing is alive that is in some part, before a step and after it.
LEMMA InLive ==
  ASSUME NEW l
  PROVE  /\ l \in Live <=> \E p \in Part : l \in live[p]
         /\ l \in Live' <=> \E p \in Part : l \in live'[p]
BY DEF Live

\* The types hold at the start.
LEMMA InitType == Init => TypeOK
<1> SUFFICES ASSUME Init PROVE TypeOK
  OBVIOUS
<1>1. PICK a \in SUBSET Listing : live = [p \in Part |-> IF p = "active" THEN a ELSE {}]
  BY DEF Init
<1>2. live \in [Part -> SUBSET Listing]
  BY <1>1
<1>3. Live \subseteq Listing
  BY <1>2, InLive
<1>4. op \in [Slot -> Op] /\ walk \in [Refresh \X Part -> Walk]
  BY Records DEF Init
<1> QED BY <1>2, <1>3, <1>4, MaxChangesAssumption DEF Init, TypeOK, Fate

\* What shifts the pages leaves fates.
LEMMA ShiftedType ==
  ASSUME TypeOK, NEW gone
  PROVE  Shifted(gone) \in [Listing -> Fate] /\ ShiftPages(gone) \in [Listing -> Fate]
BY DEF TypeOK, Shifted, ShiftPages, Fate

\* Every step keeps the types.
LEMMA TypeStep == TypeOK /\ [Next]_vars => TypeOK'
<1> SUFFICES ASSUME TypeOK, [Next]_vars PROVE TypeOK'
  OBVIOUS
<1> USE Records, MaxChangesAssumption
<1>t. Change => changes' \in 0 .. MaxChanges
  BY DEF TypeOK, Change
<1>1. ASSUME NEW r \in Refresh, RefreshListings(r) PROVE TypeOK'
  BY <1>1, ShiftedType DEF RefreshListings, TypeOK, Fate
<1>2. ASSUME NEW r \in Refresh, CheckTempKey(r) PROVE TypeOK'
  BY <1>2 DEF CheckTempKey, TypeOK
<1>3. ASSUME NEW r \in Refresh, CopyTempKey(r) PROVE TypeOK'
  BY <1>3 DEF CopyTempKey, TypeOK
<1>4. ASSUME NEW r \in Refresh, Refreshed(r) PROVE TypeOK'
  BY <1>4 DEF Refreshed, TypeOK
<1>5. ASSUME NEW r \in Refresh, RetryDone(r) PROVE TypeOK'
  BY <1>5, <1>t DEF RetryDone, TypeOK
<1>6. ASSUME NEW r \in Refresh, ExpireTempKey(r) PROVE TypeOK'
  BY <1>6, <1>t DEF ExpireTempKey, TypeOK
<1>7. ASSUME NEW r \in Refresh, NEW p \in Part, FetchPage(r, p) PROVE TypeOK'
  <2>1. PICK ghosts \in SUBSET lingering :
          walk' = [walk EXCEPT ![<<r, p>>] =
                     [FirstPage EXCEPT !.step = "filter", !.skip = walk[<<r, p>>].skip,
                                       !.page = PageOf(live[p] \cup ghosts, walk[<<r, p>>].skip),
                                       !.more = walk[<<r, p>>].skip + PageSize < Cardinality(live[p] \cup ghosts)]]
    BY <1>7 DEF FetchPage
  <2>2. PageOf(live[p] \cup ghosts, walk[<<r, p>>].skip) \in SUBSET Listing
    BY DEF PageOf, TypeOK
  <2>3. walk[<<r, p>>].skip \in Nat
    BY DEF TypeOK, Walk
  <2>4. [FirstPage EXCEPT !.step = "filter", !.skip = walk[<<r, p>>].skip,
                          !.page = PageOf(live[p] \cup ghosts, walk[<<r, p>>].skip),
                          !.more = walk[<<r, p>>].skip + PageSize < Cardinality(live[p] \cup ghosts)] \in Walk
    <3>1. ASSUME NEW n \in Nat, NEW S \in SUBSET Listing, NEW b \in BOOLEAN
          PROVE  [FirstPage EXCEPT !.step = "filter", !.skip = n, !.page = S, !.more = b] \in Walk
      BY DEF Walk, FirstPage
    <3> DEFINE m == walk[<<r, p>>].skip + PageSize < Cardinality(live[p] \cup ghosts)
    <3>2. m \in BOOLEAN
      <4>1. live[p] \cup ghosts \subseteq Listing
        BY DEF TypeOK
      <4>2. Cardinality(live[p] \cup ghosts) \in Nat
        BY <4>1, ListingAssumption, FS_Subset, FS_CardinalityType
      <4> QED BY <4>2, <2>3, PageSizeAssumption
    <3> HIDE DEF m
    <3>3. [FirstPage EXCEPT !.step = "filter", !.skip = walk[<<r, p>>].skip,
                            !.page = PageOf(live[p] \cup ghosts, walk[<<r, p>>].skip), !.more = m] \in Walk
      BY <2>2, <2>3, <3>1, <3>2, Zenon
    <3> QED BY <3>3 DEF m
  <2>5. walk' \in [Refresh \X Part -> Walk]
    BY <2>1, <2>4 DEF TypeOK
  <2> QED BY <1>7, <2>5 DEF FetchPage, TypeOK
<1>8. ASSUME NEW r \in Refresh, NEW p \in Part, FilterDeleted(r, p) PROVE TypeOK'
  <2>1. walk[<<r, p>>] \in Walk
    BY DEF TypeOK
  <2>2. walk' \in [Refresh \X Part -> Walk]
    BY <1>8, <2>1 DEF FilterDeleted, TypeOK, Walk
  <2>3. fate' \in [Listing -> Fate]
    BY <1>8 DEF FilterDeleted, TypeOK, Fate
  <2> QED BY <1>8, <2>2, <2>3 DEF FilterDeleted, TypeOK
<1>9. ASSUME NEW r \in Refresh, NEW p \in Part, ReadTempKeys(r, p) PROVE TypeOK'
  <2>1. walk[<<r, p>>] \in Walk /\ TempKeys \in SUBSET Refresh
    BY DEF TypeOK, TempKeys
  <2>2. walk' \in [Refresh \X Part -> Walk]
    BY <1>9, <2>1 DEF ReadTempKeys, TypeOK, Walk
  <2> QED BY <1>9, <2>2 DEF ReadTempKeys, TypeOK
<1>10. ASSUME NEW r \in Refresh, NEW p \in Part, SavePage(r, p) PROVE TypeOK'
  <2>1. walk[<<r, p>>] \in Walk
    BY DEF TypeOK
  <2>2. walk' \in [Refresh \X Part -> Walk]
    BY <1>10, <2>1 DEF SavePage, TypeOK
  <2>3. walk[<<r, p>>].page \subseteq Listing
    BY <2>1 DEF Walk
  <2> QED BY <1>10, <2>2, <2>3 DEF SavePage, SaveTemp, TypeOK
<1>11. ASSUME NEW r \in Refresh, NEW p \in Part, RetryPage(r, p) PROVE TypeOK'
  <2>1. walk[<<r, p>>] \in Walk
    BY DEF TypeOK
  <2>2. walk' \in [Refresh \X Part -> Walk]
    BY <1>11, <2>1 DEF RetryPage, TypeOK, Walk, FirstPage
  <2> QED BY <1>11, <2>2, <1>t DEF RetryPage, TypeOK
<1>12. ASSUME NEW kind \in Operations, NEW ls \in SUBSET Listing, NEW step \in {"keys", "read", "current"},
              Answered(kind, ls, step)
       PROVE  op' \in [Slot -> Op]
  BY <1>12 DEF Answered, TypeOK, Op, SlotOf, Slot
<1>s. ASSUME NEW kind, NEW ls, Starts(kind, ls) PROVE changes' \in 0 .. MaxChanges
  BY <1>s, <1>t DEF Starts
<1>13. ASSUME NEW l \in Listing, NEW p \in Part, CreateListing(l, p) PROVE TypeOK'
  BY <1>13, <1>12, <1>s DEF CreateListing, TypeOK, Operations, Fate
<1>14. ASSUME NEW l \in Listing, NEW p \in Part, ExternalChange(l, p) PROVE TypeOK'
  BY <1>14, <1>t, ShiftedType DEF ExternalChange, TypeOK, Fate
<1>15. ASSUME NEW l \in Listing, UpdateListing(l) PROVE TypeOK'
  BY <1>15, <1>12, <1>s DEF UpdateListing, TypeOK, Operations
<1>16. ASSUME NEW l \in Listing, DeleteListing(l) PROVE TypeOK'
  BY <1>16, <1>12, <1>s, ShiftedType, InstanceAssumption DEF DeleteListing, TypeOK, Operations, Fate
<1>17. ASSUME NEW l \in Listing, DeleteActiveCopy(l) PROVE TypeOK'
  BY <1>17, <1>s, ShiftedType DEF DeleteActiveCopy, TypeOK
<1>18. ASSUME NEW l \in Listing, DeleteArchivedListing(l) PROVE TypeOK'
  BY <1>18, <1>12, <1>s, ShiftedType DEF DeleteArchivedListing, TypeOK, Operations, Fate
<1>19. ASSUME NEW l \in Listing, Vanish(l) PROVE TypeOK'
  BY <1>19 DEF Vanish, TypeOK
<1>20. ASSUME DeleteAllListings PROVE TypeOK'
  <2>1. Live \subseteq Listing
    BY InLive DEF TypeOK
  <2> QED BY <1>20, <2>1, <1>12, <1>s DEF DeleteAllListings, TypeOK, Operations, Fate
<1>g. ASSUME NEW s \in Slot, NEW step \in {"script", "keys", "current"}, GoTo(s, step)
      PROVE  op' \in [Slot -> Op]
  BY <1>g DEF GoTo, TypeOK, Op
<1>f. ASSUME NEW s \in Slot, Finish(s) PROVE op' \in [Slot -> Op]
  BY <1>f DEF Finish, TypeOK
<1>b. "batch" \in Slot /\ "all" \in Slot
  BY DEF Slot
<1>c. op["batch"].listings \subseteq Listing /\ op["all"].keys \subseteq Refresh
  BY <1>b DEF TypeOK, Op
<1>21. ASSUME ReadCurrent PROVE TypeOK'
  BY <1>21, <1>b, <1>f, <1>g DEF ReadCurrent, TypeOK
<1>22. ASSUME UpdateExisting PROVE TypeOK'
  BY <1>22, <1>b, <1>f, <1>g DEF UpdateExisting, TypeOK
<1>23. ASSUME OpSaveTemp PROVE TypeOK'
  <2>1. op' \in [Slot -> Op]
    BY <1>23, <1>b, <1>f, <1>g DEF OpSaveTemp
  <2> QED BY <1>23, <1>c, <2>1 DEF OpSaveTemp, SaveTemp, TypeOK
<1>24. ASSUME DeleteTempListings PROVE TypeOK'
  <2>1. op' \in [Slot -> Op]
    BY <1>24, <1>b, <1>g DEF DeleteTempListings
  <2> QED BY <1>24, <1>c, <2>1 DEF DeleteTempListings, DeleteTemp, TypeOK
<1>25. ASSUME SaveCurrent PROVE TypeOK'
  BY <1>25, <1>b, <1>c, <1>f DEF SaveCurrent, TypeOK, Outcome, Fate
<1>26. ASSUME DeleteAllCurrent PROVE TypeOK'
  <2>1. fate' \in [Listing -> Fate]
    BY <1>26 DEF DeleteAllCurrent, Fate
  <2> QED BY <1>26, <2>1, <1>b, <1>f DEF DeleteAllCurrent, TypeOK
<1>27. ASSUME NEW s \in Slot, OpReadTempKeys(s) PROVE TypeOK'
  <2>1. op[s] \in Op /\ TempKeys \in SUBSET Refresh
    BY DEF TypeOK, TempKeys
  <2>2. op' \in [Slot -> Op]
    BY <1>27, <2>1 DEF OpReadTempKeys, TypeOK, Op
  <2>3. fate' \in [Listing -> Fate]
    BY <1>27 DEF OpReadTempKeys, TypeOK, Fate
  <2> QED BY <1>27, <2>2, <2>3 DEF OpReadTempKeys, TypeOK
<1>28. ASSUME NEW s \in Slot, DeleteCurrent(s) PROVE TypeOK'
  BY <1>28, <1>f DEF DeleteCurrent, TypeOK, Outcome, Fate
<1>29. ASSUME ExpireTempDeleted PROVE TypeOK'
  BY <1>29 DEF ExpireTempDeleted, TypeOK
<1>30. CASE UNCHANGED vars
  BY <1>30 DEF vars, TypeOK
<1> QED
  BY <1>1, <1>2, <1>3, <1>4, <1>5, <1>6, <1>7, <1>8, <1>9, <1>10, <1>11, <1>13, <1>14, <1>15,
     <1>16, <1>17, <1>18, <1>19, <1>20, <1>21, <1>22, <1>23, <1>24, <1>25, <1>26, <1>27, <1>28,
     <1>29, <1>30
  DEF Next, Done, Page, Write

\* Only listings are recorded, and the placeholder never is
THEOREM TypeCorrect == Spec => []TypeOK
BY InitType, TypeStep, PTL DEF Spec


-------------------------------------------------------------------------------
(* What a deletion leaves behind *)

\* At the start nothing was deleted and no refresh runs.
LEMMA InitGone == Init => GoneInv
<1> SUFFICES ASSUME Init PROVE GoneInv
  OBVIOUS
<1>1. TypeOK
  BY InitType
<1>2. Tracked
  BY DEF Init, Tracked, Ended
<1>3. Slots
  BY DEF Init, Slots, Slot, Idle
<1>4. Deleting
  BY DEF Init, Deleting, Going, Slot, Idle
<1>5. Deleted /\ Wiped
  BY DEF Init, Deleted, Wiped
<1> QED BY <1>1, <1>2, <1>3, <1>4, <1>5 DEF GoneInv

\* Without a job that is done twice a temp key is tracked just as long as its
\* refresh is under way
LEMMA TrackedStep ==
  ASSUME TypeOK, Tracked, [Next]_vars, "done" \notin Fault
  PROVE  Tracked'
<1>0. Tracked /\ TypeOK
  OBVIOUS
<1>1. ASSUME NEW r \in Refresh, RefreshListings(r) PROVE Tracked'
  BY <1>1 DEF RefreshListings, Tracked, TypeOK
<1>2. ASSUME NEW r \in Refresh, CheckTempKey(r) PROVE Tracked'
  BY <1>2 DEF CheckTempKey, Tracked, TypeOK
<1>3. ASSUME NEW r \in Refresh, CopyTempKey(r) PROVE Tracked'
  BY <1>3 DEF CopyTempKey, Tracked, TypeOK
<1>4. ASSUME NEW r \in Refresh, Refreshed(r) PROVE Tracked'
  BY <1>4 DEF Refreshed, Tracked, TypeOK
<1>5. ASSUME NEW r \in Refresh, RetryDone(r) PROVE Tracked'
  BY <1>5 DEF RetryDone
<1>w. ASSUME UNCHANGED <<phase, tempKeys>>, NEW r \in Refresh, NEW p \in Part, walk[<<r, p>>].step # "end",
             \A v \in Refresh \X Part : v # <<r, p>> => walk'[v] = walk[v]
      PROVE  Tracked'
  BY <1>w DEF Tracked
<1>6. ASSUME NEW r \in Refresh, NEW p \in Part, Page(r, p) \/ RetryPage(r, p) PROVE Tracked'
  <2>1. UNCHANGED <<phase, tempKeys>> /\ walk[<<r, p>>].step # "end"
    BY <1>6 DEF Page, FetchPage, FilterDeleted, ReadTempKeys, SavePage, RetryPage
  <2>2. \A v \in Refresh \X Part : v # <<r, p>> => walk'[v] = walk[v]
    BY <1>6 DEF Page, FetchPage, FilterDeleted, ReadTempKeys, SavePage, RetryPage, TypeOK
  <2> QED BY <2>1, <2>2, <1>w
<1>7. CASE UNCHANGED <<phase, tempKeys, walk>>
  BY <1>7 DEF Tracked
<1> QED
  BY <1>1, <1>2, <1>3, <1>4, <1>5, <1>6, <1>7
  DEF Next, Done, Write, ExpireTempKey, CreateListing, ExternalChange, UpdateListing, DeleteListing,
      DeleteActiveCopy, DeleteArchivedListing, Vanish, DeleteAllListings, ReadCurrent, UpdateExisting,
      OpSaveTemp, DeleteTempListings, SaveCurrent, DeleteAllCurrent, OpReadTempKeys, DeleteCurrent,
      ExpireTempDeleted, vars

\* What shifts the pages makes nothing created, deleted or wiped
LEMMA ShiftedFate ==
  ASSUME TypeOK, NEW gone, NEW l \in Listing, NEW f \in {Shifted(gone), ShiftPages(gone)}
  PROVE  \/ f[l] = fate[l]
         \/ fate[l] = "created" /\ f[l] = "mixed"
         \/ fate[l] = "other" /\ op["batch"].kind = "create" /\ f[l] = "overlapping"
BY DEF Shifted, ShiftPages

\* Every step keeps what is known of the requests: a listing is deleted by backpack.tf before
\* anything else, and comes back only by another creation.
LEMMA SlotsStep ==
  ASSUME TypeOK, Slots, Deleted, [Next]_vars
  PROVE  Slots'
<1> DEFINE o == op["batch"]
           Right(s) ==
             /\ op'[s].step # "idle" => SlotOf(op'[s].kind) = s
             /\ s = "archive" => op'[s].step \in {"idle", "current"} /\ op'[s].keys = {}
             /\ s = "batch" /\ op'[s].kind = "delete" => op'[s].step \in {"keys", "write", "current"}
           Fits(l) ==
             l \in op'["batch"].listings =>
             /\ fate'[l] # "deleted"
             /\ op'["batch"].kind \in {"create", "delete"} => fate'[l] \notin {"created", "wiped"}
             /\ op'["batch"].kind = "delete" => l \notin live'["active"]
             /\ op'["batch"].kind = "create" /\ fate'[l] = "other" => \E p \in Part : l \in live'[p]
<1>0. /\ TypeOK
      /\ Slots
      /\ "batch" \in Slot /\ "all" \in Slot /\ "archive" \in Slot
      /\ o.listings \subseteq Listing
      /\ "active" \in Part
      /\ \A l \in o.listings : l \in Live <=> \E p \in Part : l \in live[p]
  BY InstanceAssumption, InLive DEF Slot, TypeOK, Op
<1>1. SUFFICES ASSUME NEW s \in Slot, NEW l PROVE Right(s) /\ Fits(l)
  <2>1. Slots' <=> /\ \A s \in Slot : Right(s)
                   /\ \A l : Fits(l)
    BY <1>0, InLive DEF Slots
  <2> QED BY <2>1, <1>0
<1>2. ASSUME NEW r \in Refresh, RefreshListings(r) PROVE Right(s) /\ Fits(l)
  BY <1>2, <1>0, <1>1, ShiftedFate, ShiftedType DEF RefreshListings, Slots, SlotOf, TypeOK, Op
<1>3. ASSUME NEW r \in Refresh, NEW p \in Part, FilterDeleted(r, p) PROVE Right(s) /\ Fits(l)
  BY <1>3, <1>0, <1>1 DEF FilterDeleted, Slots, SlotOf, TypeOK, Op
<1>4. ASSUME NEW k \in Listing, NEW p \in Part, CreateListing(k, p) PROVE Right(s) /\ Fits(l)
  BY <1>4, <1>0, <1>1 DEF CreateListing, Answered, Slots, SlotOf, TypeOK, Op
<1>5. ASSUME NEW k \in Listing, NEW p \in Part, ExternalChange(k, p) PROVE Right(s) /\ Fits(l)
  BY <1>5, <1>0, <1>1, ShiftedFate, ShiftedType DEF ExternalChange, Slots, SlotOf, TypeOK, Op
<1>6. ASSUME NEW k \in Listing, UpdateListing(k) PROVE Right(s) /\ Fits(l)
  BY <1>6, <1>0, <1>1 DEF UpdateListing, Answered, Deleted, Slots, SlotOf, TypeOK, Op
<1>7. ASSUME NEW k \in Listing, DeleteListing(k) PROVE Right(s) /\ Fits(l)
  BY <1>7, <1>0, <1>1, ShiftedType DEF DeleteListing, Answered, Slots, SlotOf, TypeOK, Op
<1>8. ASSUME NEW k \in Listing, DeleteActiveCopy(k) PROVE Right(s) /\ Fits(l)
  BY <1>8, <1>0, <1>1, ShiftedFate, ShiftedType DEF DeleteActiveCopy, Slots, SlotOf, TypeOK, Op
<1>9. ASSUME NEW k \in Listing, DeleteArchivedListing(k) PROVE Right(s) /\ Fits(l)
  BY <1>9, <1>0, <1>1, ShiftedFate, ShiftedType DEF DeleteArchivedListing, Answered, Slots, SlotOf, TypeOK, Op
<1>10. ASSUME DeleteAllListings PROVE Right(s) /\ Fits(l)
  BY <1>10, <1>0, <1>1 DEF DeleteAllListings, Answered, Slots, SlotOf, TypeOK, Op
<1>11. ASSUME ReadCurrent PROVE Right(s) /\ Fits(l)
  BY <1>11, <1>0, <1>1 DEF ReadCurrent, GoTo, Finish, Idle, Slots, SlotOf, TypeOK, Op
<1>12. ASSUME UpdateExisting PROVE Right(s) /\ Fits(l)
  BY <1>12, <1>0, <1>1 DEF UpdateExisting, GoTo, Finish, Idle, Slots, SlotOf, TypeOK, Op
<1>13. ASSUME OpSaveTemp PROVE Right(s) /\ Fits(l)
  BY <1>13, <1>0, <1>1 DEF OpSaveTemp, GoTo, Finish, Idle, Slots, SlotOf, TypeOK, Op
<1>14. ASSUME DeleteTempListings PROVE Right(s) /\ Fits(l)
  BY <1>14, <1>0, <1>1 DEF DeleteTempListings, GoTo, Slots, SlotOf, TypeOK, Op
<1>15. ASSUME SaveCurrent PROVE Right(s) /\ Fits(l)
  BY <1>15, <1>0, <1>1 DEF SaveCurrent, Finish, Idle, Slots, SlotOf, TypeOK, Op
<1>16. ASSUME DeleteAllCurrent PROVE Right(s) /\ Fits(l)
  BY <1>16, <1>0, <1>1 DEF DeleteAllCurrent, Finish, Idle, Slots, SlotOf, TypeOK, Op
<1>17. ASSUME NEW t \in Slot, OpReadTempKeys(t) PROVE Right(s) /\ Fits(l)
  BY <1>17, <1>0, <1>1 DEF OpReadTempKeys, Slots, SlotOf, TypeOK, Op
<1>18. ASSUME NEW t \in Slot, DeleteCurrent(t) PROVE Right(s) /\ Fits(l)
  BY <1>18, <1>0, <1>1 DEF DeleteCurrent, Finish, Idle, Slots, SlotOf, TypeOK, Op
<1>19. CASE UNCHANGED <<op, fate, live>>
  BY <1>19, <1>0, <1>1 DEF Slots
<1> QED
  BY <1>2, <1>3, <1>4, <1>5, <1>6, <1>7, <1>8, <1>9, <1>10, <1>11, <1>12, <1>13, <1>14, <1>15, <1>16, <1>17, <1>18, <1>19
  DEF Next, Done, Page, Write, CheckTempKey, CopyTempKey, Refreshed, RetryDone, ExpireTempKey, FetchPage,
      ReadTempKeys, SavePage, RetryPage, Vanish, ExpireTempDeleted, vars

\* A page gets past the filter only without what is among the deleted listings
LEMMA PagesStep ==
  ASSUME TypeOK, [Next]_vars, NEW l \in Listing, InPages(l)', ~InPages(l)
  PROVE  \E r \in Refresh, p \in Part :
           FilterDeleted(r, p) /\ l \in walk[<<r, p>>].page /\ l \notin tempDeleted
<1>0. TypeOK
  OBVIOUS
<1>1. PICK v \in Refresh \X Part : walk'[v].step \in {"keys", "write"} /\ l \in walk'[v].page
  BY DEF InPages
<1>2. walk[v].step \notin {"keys", "write"} \/ l \notin walk[v].page
  BY DEF InPages
<1>3. ASSUME NEW r \in Refresh, RefreshListings(r) PROVE FALSE
  BY <1>0, <1>1, <1>2, <1>3 DEF RefreshListings, FirstPage
<1>4. ASSUME NEW r \in Refresh, NEW p \in Part, FetchPage(r, p) PROVE FALSE
  BY <1>0, <1>1, <1>2, <1>4 DEF FetchPage, FirstPage, TypeOK
<1>5. ASSUME NEW r \in Refresh, NEW p \in Part, FilterDeleted(r, p)
      PROVE  l \in walk[<<r, p>>].page /\ l \notin tempDeleted
  <2>1. v = <<r, p>>
    BY <1>0, <1>1, <1>2, <1>5 DEF FilterDeleted, TypeOK
  <2> QED BY <1>0, <1>1, <1>2, <1>5, <2>1 DEF FilterDeleted, AfterPage, FirstPage, Ended, TypeOK, Walk
<1>6. ASSUME NEW r \in Refresh, NEW p \in Part, ReadTempKeys(r, p) PROVE FALSE
  BY <1>0, <1>1, <1>2, <1>6 DEF ReadTempKeys, TypeOK, Walk
<1>7. ASSUME NEW r \in Refresh, NEW p \in Part, SavePage(r, p) PROVE FALSE
  BY <1>0, <1>1, <1>2, <1>7 DEF SavePage, AfterPage, FirstPage, Ended, TypeOK
<1>8. ASSUME NEW r \in Refresh, NEW p \in Part, RetryPage(r, p) PROVE FALSE
  BY <1>0, <1>1, <1>2, <1>8 DEF RetryPage, FirstPage, TypeOK
<1>9. CASE UNCHANGED walk
  BY <1>9, <1>1, <1>2
<1> QED
  BY <1>3, <1>4, <1>5, <1>6, <1>7, <1>8, <1>9
  DEF Next, Done, Page, Write, CheckTempKey, CopyTempKey, Refreshed, RetryDone, ExpireTempKey,
      CreateListing, ExternalChange, UpdateListing, DeleteListing, DeleteActiveCopy,
      DeleteArchivedListing, Vanish, DeleteAllListings, ReadCurrent, UpdateExisting, OpSaveTemp,
      DeleteTempListings, SaveCurrent, DeleteAllCurrent, OpReadTempKeys, DeleteCurrent,
      ExpireTempDeleted, vars

\* A listing goes from backpack.tf when it is deleted, or is changed there
LEMMA LiveStep ==
  ASSUME TypeOK, [Next]_vars, NEW l \in Listing, l \in Live, l \notin Live'
  PROVE  fate'[l] = "mixed" \/ DeleteListing(l)
<1>0. TypeOK /\ "active" \in Part
  BY InstanceAssumption
<1>1. PICK q \in Part : l \in live[q]
  BY InLive
<1>2. \A p \in Part : l \notin live'[p]
  BY InLive
<1>3. ASSUME NEW k \in Listing, NEW p \in Part, CreateListing(k, p) PROVE FALSE
  BY <1>0, <1>1, <1>2, <1>3 DEF CreateListing, TypeOK
<1>4. ASSUME NEW k \in Listing, NEW p \in Part, ExternalChange(k, p) PROVE fate'[l] = "mixed"
  BY <1>0, <1>1, <1>2, <1>4, ShiftedType DEF ExternalChange, TypeOK
<1>5. ASSUME NEW k \in Listing, DeleteListing(k) PROVE k = l
  BY <1>0, <1>1, <1>2, <1>5 DEF DeleteListing, TypeOK
<1>6. ASSUME NEW k \in Listing, DeleteActiveCopy(k) PROVE FALSE
  BY <1>0, <1>1, <1>2, <1>6 DEF DeleteActiveCopy, TypeOK
<1>7. ASSUME NEW k \in Listing, DeleteArchivedListing(k) PROVE fate'[l] = "mixed"
  BY <1>0, <1>1, <1>2, <1>7, ShiftedType DEF DeleteArchivedListing, TypeOK
<1>8. ASSUME DeleteAllListings PROVE fate'[l] = "mixed"
  BY <1>8 DEF DeleteAllListings
<1>9. CASE UNCHANGED live
  BY <1>9, <1>1, <1>2
<1> QED
  BY <1>3, <1>4, <1>5, <1>6, <1>7, <1>8, <1>9
  DEF Next, Done, Page, Write, RefreshListings, CheckTempKey, CopyTempKey, Refreshed, RetryDone,
      ExpireTempKey, FetchPage, FilterDeleted, ReadTempKeys, SavePage, RetryPage, UpdateListing, Vanish,
      ReadCurrent, UpdateExisting, OpSaveTemp, DeleteTempListings, SaveCurrent, DeleteAllCurrent,
      OpReadTempKeys, DeleteCurrent, ExpireTempDeleted, vars

\* What is in no temp key, and in no page on its way to one, comes into no temp key
LEMMA TempStep ==
  ASSUME TypeOK, [Next]_vars, NEW l \in Listing, ~InPages(l),
         l \in op["batch"].listings => op["batch"].kind \notin {"create", "update"},
         NEW r \in tempKeys', l \in temp'[r]
  PROVE  r \in tempKeys /\ l \in temp[r]
<1>0. /\ TypeOK
      /\ l # Placeholder
      /\ \A w \in Refresh \X Part : walk[w].step \in {"keys", "write"} => l \notin walk[w].page
      /\ l \in op["batch"].listings => op["batch"].kind \notin {"create", "update"}
  BY ListingAssumption DEF InPages, Placeholder
<1>1. ASSUME NEW q \in Refresh, RefreshListings(q) PROVE r \in tempKeys /\ l \in temp[r]
  BY <1>0, <1>1 DEF RefreshListings, TypeOK
<1>2. ASSUME NEW q \in Refresh, CheckTempKey(q) \/ CopyTempKey(q) PROVE r \in tempKeys /\ l \in temp[r]
  BY <1>0, <1>2 DEF CheckTempKey, CopyTempKey, TypeOK
<1>3. ASSUME NEW q \in Refresh, ExpireTempKey(q) PROVE r \in tempKeys /\ l \in temp[r]
  BY <1>0, <1>3 DEF ExpireTempKey, TypeOK
<1>4. ASSUME NEW q \in Refresh, NEW p \in Part, SavePage(q, p) PROVE r \in tempKeys /\ l \in temp[r]
  BY <1>0, <1>4 DEF SavePage, SaveTemp, TypeOK
<1>5. ASSUME OpSaveTemp PROVE r \in tempKeys /\ l \in temp[r]
  BY <1>0, <1>5 DEF OpSaveTemp, SaveTemp, TypeOK
<1>6. ASSUME DeleteTempListings PROVE r \in tempKeys /\ l \in temp[r]
  BY <1>0, <1>6 DEF DeleteTempListings, DeleteTemp, TypeOK
<1>7. ASSUME DeleteAllCurrent PROVE r \in tempKeys /\ l \in temp[r]
  BY <1>0, <1>7 DEF DeleteAllCurrent, TypeOK
<1>8. CASE UNCHANGED <<temp, tempKeys>>
  BY <1>8
<1> QED
  BY <1>1, <1>2, <1>3, <1>4, <1>5, <1>6, <1>7, <1>8
  DEF Next, Done, Page, Write, Refreshed, RetryDone, FetchPage, FilterDeleted, ReadTempKeys, RetryPage,
      CreateListing, ExternalChange, UpdateListing, DeleteListing, DeleteActiveCopy,
      DeleteArchivedListing, Vanish, DeleteAllListings, ReadCurrent, UpdateExisting, SaveCurrent,
      OpReadTempKeys, DeleteCurrent, ExpireTempDeleted, vars

\* A deleted listing that neither a temp key nor a page on its way to one has stays forgotten
LEMMA ForgottenStep ==
  ASSUME TypeOK, [Next]_vars, NEW l \in Listing, Forgotten(l), l \notin Live, l \notin Live',
         l \in op["batch"].listings => op["batch"].kind \notin {"create", "update"}
  PROVE  Forgotten(l)'
<1> DEFINE Waiting == \E w \in Refresh \X Part : walk[w].step = "filter" /\ l \in walk[w].page
<1>0. /\ TypeOK
      /\ "active" \in Part
      /\ l \notin Live
      /\ \A p \in Part : l \notin live[p] /\ l \notin live'[p]
      /\ \A w \in Refresh \X Part : walk[w].step \in {"keys", "write"} => l \notin walk[w].page
      /\ Waiting => l \in tempDeleted
      /\ l \in lingering => l \in tempDeleted
      /\ l \in op["batch"].listings => op["batch"].kind \notin {"create", "update"}
  BY InstanceAssumption, InLive DEF Forgotten, InPages
<1>1. ~InPages(l)'
  BY <1>0, PagesStep DEF Forgotten, FilterDeleted
<1>2. \A r \in tempKeys' : l \notin temp'[r]
  BY TempStep DEF Forgotten
<1>3. l \in lingering' => l \in lingering
  <2>1. ASSUME NEW k \in Listing, DeleteListing(k) PROVE l \in lingering' => l \in lingering
    BY <1>0, <2>1 DEF DeleteListing
  <2>2. ASSUME NEW k \in Listing, DeleteArchivedListing(k) PROVE l \in lingering' => l \in lingering
    BY <1>0, <2>2 DEF DeleteArchivedListing
  <2>3. ASSUME DeleteAllListings PROVE l \in lingering' => l \in lingering
    BY <1>0, <2>3 DEF DeleteAllListings
  <2>4. ASSUME NEW k \in Listing, NEW p \in Part, CreateListing(k, p) PROVE l \in lingering' => l \in lingering
    BY <2>4 DEF CreateListing
  <2>5. ASSUME NEW k \in Listing, Vanish(k) PROVE l \in lingering' => l \in lingering
    BY <2>5 DEF Vanish
  <2>6. CASE UNCHANGED lingering
    BY <2>6
  <2> QED
    BY <2>1, <2>2, <2>3, <2>4, <2>5, <2>6
    DEF Next, Done, Page, Write, RefreshListings, CheckTempKey, CopyTempKey, Refreshed, RetryDone,
        ExpireTempKey, FetchPage, FilterDeleted, ReadTempKeys, SavePage, RetryPage, ExternalChange,
        UpdateListing, DeleteActiveCopy, ReadCurrent, UpdateExisting, OpSaveTemp, DeleteTempListings,
        SaveCurrent, DeleteAllCurrent, OpReadTempKeys, DeleteCurrent, ExpireTempDeleted, vars
<1>4. Waiting' => Waiting \/ l \in lingering
  <2>1. SUFFICES ASSUME NEW v \in Refresh \X Part, walk'[v].step = "filter", l \in walk'[v].page,
                        ~(walk[v].step = "filter" /\ l \in walk[v].page)
                 PROVE  l \in lingering
    OBVIOUS
  <2>2. ASSUME NEW r \in Refresh, RefreshListings(r) PROVE FALSE
    BY <1>0, <2>1, <2>2 DEF RefreshListings, FirstPage
  <2>3. ASSUME NEW r \in Refresh, NEW p \in Part, FetchPage(r, p) PROVE l \in lingering
    BY <1>0, <2>1, <2>3 DEF FetchPage, FirstPage, PageOf, TypeOK
  <2>4. ASSUME NEW r \in Refresh, NEW p \in Part, FilterDeleted(r, p) PROVE FALSE
    BY <1>0, <2>1, <2>4 DEF FilterDeleted, AfterPage, FirstPage, Ended, TypeOK, Walk
  <2>a. ASSUME NEW r \in Refresh, NEW p \in Part, ReadTempKeys(r, p) PROVE FALSE
    BY <1>0, <2>1, <2>a DEF ReadTempKeys, TypeOK, Walk
  <2>b. ASSUME NEW r \in Refresh, NEW p \in Part, SavePage(r, p) PROVE FALSE
    BY <1>0, <2>1, <2>b DEF SavePage, AfterPage, FirstPage, Ended, TypeOK, Walk
  <2>c. ASSUME NEW r \in Refresh, NEW p \in Part, RetryPage(r, p) PROVE FALSE
    BY <1>0, <2>1, <2>c DEF RetryPage, FirstPage, TypeOK, Walk
  <2>5. CASE UNCHANGED walk
    BY <2>1, <2>5
  <2> QED
    BY <2>2, <2>3, <2>4, <2>a, <2>b, <2>c, <2>5
    DEF Next, Done, Page, Write, CheckTempKey, CopyTempKey, Refreshed, RetryDone, ExpireTempKey,
        CreateListing, ExternalChange, UpdateListing, DeleteListing, DeleteActiveCopy,
        DeleteArchivedListing, Vanish, DeleteAllListings, ReadCurrent, UpdateExisting, OpSaveTemp,
        DeleteTempListings, SaveCurrent, DeleteAllCurrent, OpReadTempKeys, DeleteCurrent,
        ExpireTempDeleted, vars
<1>5. ASSUME l \in tempDeleted, l \notin tempDeleted'
      PROVE  ~Waiting' /\ l \notin lingering'
  <2>1. ASSUME NEW r \in Refresh, NEW p \in Part, SavePage(r, p) PROVE FALSE
    BY <1>0, <1>5, <2>1 DEF SavePage
  <2>2. ASSUME OpSaveTemp PROVE FALSE
    BY <1>0, <1>5, <2>2 DEF OpSaveTemp
  <2>3. ASSUME ExpireTempDeleted PROVE ~Waiting' /\ l \notin lingering'
    BY <1>0, <1>5, <2>3, InLive DEF ExpireTempDeleted
  <2> QED
    BY <1>5, <2>1, <2>2, <2>3
    DEF Next, Done, Page, Write, RefreshListings, CheckTempKey, CopyTempKey, Refreshed, RetryDone,
        ExpireTempKey, FetchPage, FilterDeleted, ReadTempKeys, RetryPage, CreateListing, ExternalChange,
        UpdateListing, DeleteListing, DeleteActiveCopy, DeleteArchivedListing, Vanish, DeleteAllListings,
        ReadCurrent, UpdateExisting, DeleteTempListings, SaveCurrent, DeleteAllCurrent, OpReadTempKeys,
        DeleteCurrent, vars
<1> QED BY <1>0, <1>1, <1>2, <1>3, <1>4, <1>5 DEF Forgotten

\* What happens to the request that runs under the limiter of the batches
LEMMA BatchStep ==
  ASSUME TypeOK, Slots, [Next]_vars
  PROVE  LET o == op["batch"]
             n == op'["batch"]
         IN  \/ n = o
             \/ n.listings = {} /\ n.kind = "external" /\ n.keys = {}
             \/ /\ \E k \in Listing :
                     /\ n.listings = {k}
                     /\ \/ n.kind = "create" /\ n.step = "keys" /\ \E p \in Part : CreateListing(k, p)
                        \/ n.kind = "update" /\ n.step = "read" /\ UpdateListing(k)
                        \/ n.kind = "delete" /\ n.step = "keys" /\ DeleteListing(k)
                /\ n.keys = {}
             \/ /\ n.kind = o.kind
                /\ n.listings = o.listings
                /\ \/ n.step = "script" /\ o.step = "read" /\ n.keys = o.keys
                   \/ n.step = "keys" /\ o.step = "script" /\ n.keys = o.keys
                   \/ OpReadTempKeys("batch") /\ n.step = "write" /\ o.step = "keys" /\ n.keys = TempKeys
                   \/ OpSaveTemp /\ n.step = "current" /\ o.kind = "create" /\ n.keys = o.keys
                   \/ DeleteTempListings /\ n.step = "current" /\ o.kind = "delete" /\ n.keys = o.keys
<1> DEFINE o == op["batch"]
           n == op'["batch"]
           Begun == /\ \E k \in Listing :
                         /\ n.listings = {k}
                         /\ \/ n.kind = "create" /\ n.step = "keys" /\ \E p \in Part : CreateListing(k, p)
                            \/ n.kind = "update" /\ n.step = "read" /\ UpdateListing(k)
                            \/ n.kind = "delete" /\ n.step = "keys" /\ DeleteListing(k)
                    /\ n.keys = {}
           Same == n.kind = o.kind /\ n.listings = o.listings
           Over == n.listings = {} /\ n.kind = "external" /\ n.keys = {}
<1>0. /\ TypeOK
      /\ "batch" \in Slot /\ "all" \in Slot /\ "archive" \in Slot
  BY DEF Slot
<1>1. ASSUME NEW k \in Listing, NEW p \in Part, CreateListing(k, p) PROVE Begun
  BY <1>0, <1>1 DEF CreateListing, Answered, SlotOf, TypeOK
<1>2. ASSUME NEW k \in Listing, UpdateListing(k) PROVE Begun
  BY <1>0, <1>2 DEF UpdateListing, Answered, SlotOf, TypeOK
<1>3. ASSUME NEW k \in Listing, DeleteListing(k) PROVE Begun
  BY <1>0, <1>3 DEF DeleteListing, Answered, SlotOf, TypeOK
<1>4. ASSUME NEW k \in Listing, DeleteArchivedListing(k) PROVE n = o
  BY <1>0, <1>4 DEF DeleteArchivedListing, Answered, SlotOf, TypeOK
<1>5. ASSUME DeleteAllListings PROVE n = o
  BY <1>0, <1>5 DEF DeleteAllListings, Answered, SlotOf, TypeOK
<1>6. ASSUME ReadCurrent
      PROVE  Over \/ (Same /\ n.step = "script" /\ o.step = "read" /\ n.keys = o.keys)
  BY <1>0, <1>6 DEF ReadCurrent, GoTo, Finish, Idle, TypeOK, Op
<1>7. ASSUME UpdateExisting
      PROVE  Over \/ (Same /\ n.step = "keys" /\ o.step = "script" /\ n.keys = o.keys)
  BY <1>0, <1>7 DEF UpdateExisting, GoTo, Finish, Idle, TypeOK, Op
<1>8. ASSUME OpSaveTemp
      PROVE  Over \/ (Same /\ n.step = "current" /\ o.kind = "create" /\ n.keys = o.keys)
  BY <1>0, <1>8 DEF OpSaveTemp, GoTo, Finish, Idle, TypeOK, Op
<1>9. ASSUME DeleteTempListings
      PROVE  Same /\ n.step = "current" /\ o.kind = "delete" /\ n.keys = o.keys
  BY <1>0, <1>9 DEF DeleteTempListings, GoTo, TypeOK, Op
<1>10. ASSUME SaveCurrent PROVE Over
  BY <1>0, <1>10 DEF SaveCurrent, Finish, Idle, TypeOK
<1>11. ASSUME DeleteAllCurrent PROVE n = o
  BY <1>0, <1>11 DEF DeleteAllCurrent, Finish, TypeOK
<1>12. ASSUME NEW s \in Slot, OpReadTempKeys(s)
       PROVE  n = o \/ (s = "batch" /\ Same /\ n.step = "write" /\ o.step = "keys" /\ n.keys = TempKeys)
  BY <1>0, <1>12 DEF OpReadTempKeys, TypeOK, Op
<1>13. ASSUME NEW s \in Slot, DeleteCurrent(s) PROVE n = o \/ Over
  BY <1>0, <1>13 DEF DeleteCurrent, Finish, Idle, TypeOK
<1>14. CASE UNCHANGED op
  BY <1>14
<1> QED
  BY <1>1, <1>2, <1>3, <1>4, <1>5, <1>6, <1>7, <1>8, <1>9, <1>10, <1>11, <1>12, <1>13, <1>14
  DEF Next, Done, Page, Write, RefreshListings, CheckTempKey, CopyTempKey, Refreshed, RetryDone,
      ExpireTempKey, FetchPage, FilterDeleted, ReadTempKeys, SavePage, RetryPage, ExternalChange,
      DeleteActiveCopy, Vanish, ExpireTempDeleted, vars

\* How the fate of a listing is decided
LEMMA FateStep ==
  ASSUME TypeOK, [Next]_vars, NEW l \in Listing, fate'[l] # fate[l]
  PROVE  \/ fate'[l] \in {"mixed", "overlapping", "overlapped"}
         \/ fate'[l] = "other" /\ (DeleteListing(l) \/ \E p \in Part : CreateListing(l, p))
         \/ fate'[l] = "created" /\ SaveCurrent /\ l \in op["batch"].listings /\ fate[l] = "other"
         \/ /\ fate'[l] = "deleted" /\ fate[l] = "other"
            /\ \E s \in Slot : DeleteCurrent(s) /\ s # "archive" /\ l \in op[s].listings
         \/ fate'[l] = "wiped" /\ DeleteAllCurrent
         \/ /\ fate'[l] = "wiped" /\ DeleteCurrent("archive")
            /\ l \in op["archive"].listings /\ l \notin op["batch"].listings /\ NoTempKeys
<1> DEFINE Mixed == fate'[l] \in {"mixed", "overlapping", "overlapped"}
<1>0. TypeOK /\ fate'[l] # fate[l]
  OBVIOUS
<1>1. ASSUME NEW gone, fate'[l] = Shifted(gone)[l] \/ fate'[l] = ShiftPages(gone)[l] PROVE Mixed
  BY <1>0, <1>1, ShiftedFate
<1>2. ASSUME NEW r \in Refresh, RefreshListings(r) PROVE Mixed
  BY <1>0, <1>1, <1>2 DEF RefreshListings
<1>3. ASSUME NEW r \in Refresh, NEW p \in Part, FilterDeleted(r, p) PROVE Mixed
  BY <1>0, <1>3 DEF FilterDeleted
<1>4. ASSUME NEW k \in Listing, NEW p \in Part, CreateListing(k, p) PROVE k = l /\ fate'[l] = "other"
  BY <1>0, <1>4 DEF CreateListing, TypeOK
<1>5. ASSUME NEW k \in Listing, NEW p \in Part, ExternalChange(k, p) PROVE Mixed
  BY <1>0, <1>1, <1>5, ShiftedType DEF ExternalChange
<1>6. ASSUME NEW k \in Listing, DeleteListing(k) PROVE Mixed \/ (k = l /\ fate'[l] = "other")
  BY <1>0, <1>1, <1>6, ShiftedType DEF DeleteListing
<1>7. ASSUME NEW k \in Listing, DeleteActiveCopy(k) PROVE Mixed
  BY <1>0, <1>1, <1>7 DEF DeleteActiveCopy
<1>8. ASSUME NEW k \in Listing, DeleteArchivedListing(k) PROVE Mixed
  BY <1>0, <1>1, <1>8, ShiftedType DEF DeleteArchivedListing
<1>9. ASSUME DeleteAllListings PROVE Mixed
  BY <1>9 DEF DeleteAllListings
<1>10. ASSUME SaveCurrent
       PROVE  Mixed \/ (fate'[l] = "created" /\ l \in op["batch"].listings /\ fate[l] = "other")
  BY <1>0, <1>10 DEF SaveCurrent, Outcome, TypeOK, Fate
<1>11. ASSUME NEW s \in Slot, DeleteCurrent(s)
       PROVE  \/ Mixed
              \/ fate'[l] = "deleted" /\ fate[l] = "other" /\ s # "archive" /\ l \in op[s].listings
              \/ /\ fate'[l] = "wiped" /\ s = "archive"
                 /\ l \in op[s].listings /\ l \notin op["batch"].listings /\ NoTempKeys
  BY <1>0, <1>11 DEF DeleteCurrent, Outcome, TypeOK, Fate
<1>12. ASSUME DeleteAllCurrent PROVE Mixed \/ fate'[l] = "wiped"
  BY <1>12 DEF DeleteAllCurrent
<1>13. ASSUME NEW s \in Slot, OpReadTempKeys(s) PROVE Mixed
  BY <1>0, <1>13 DEF OpReadTempKeys
<1> QED
  BY <1>0, <1>2, <1>3, <1>4, <1>5, <1>6, <1>7, <1>8, <1>9, <1>10, <1>11, <1>12, <1>13
  DEF Next, Done, Page, Write, CheckTempKey, CopyTempKey, Refreshed, RetryDone, ExpireTempKey, FetchPage,
      ReadTempKeys, SavePage, RetryPage, UpdateListing, Vanish, ReadCurrent, UpdateExisting, OpSaveTemp,
      DeleteTempListings, ExpireTempDeleted, vars

\* A deletion leaves behind what its steps are for, although temp keys and pages come and go.
LEMMA DeletingStep ==
  ASSUME TypeOK, Slots, Deleting, [Next]_vars
  PROVE  Deleting'
<1>1. SUFFICES ASSUME NEW l \in Listing, Going(l)'
               PROVE  /\ ~InPages(l)'
                      /\ op'["batch"].step = "write" =>
                           \A r \in tempKeys' : l \in temp'[r] => r \in op'["batch"].keys
                      /\ op'["batch"].step = "current" => Forgotten(l)'
  BY DEF Deleting
<1>0. /\ TypeOK
      /\ op'["batch"].kind = "delete" /\ l \in op'["batch"].listings /\ fate'[l] = "other" /\ l \notin Live'
      /\ "batch" \in Slot /\ "all" \in Slot /\ "archive" \in Slot
      /\ \A s \in Slot : op[s].step # "idle" => SlotOf(op[s].kind) = s
  BY <1>1 DEF Going, Slot, Slots
<1>2. CASE DeleteListing(l)
  <2>1. op'["batch"].step = "keys"
    BY <1>0, <1>2 DEF DeleteListing, Answered, SlotOf, TypeOK
  <2>2. ~InPages(l)'
    BY <1>0, <1>2, ShiftedType DEF DeleteListing, InPages, TypeOK
  <2> QED BY <2>1, <2>2
<1>n. ASSUME ~DeleteListing(l) PROVE Going(l)
  <2>1. op["batch"].kind = "delete" /\ l \in op["batch"].listings
    BY <1>0, <1>n, BatchStep
  <2>2. fate[l] = "other"
    <3>1. ASSUME NEW p \in Part, CreateListing(l, p) PROVE FALSE
      BY <1>0, <3>1 DEF CreateListing, Answered, SlotOf, TypeOK
    <3> QED BY <1>0, <1>n, <3>1, FateStep
  <2>3. l \notin Live
    BY <1>0, <1>n, LiveStep
  <2> QED BY <2>1, <2>2, <2>3 DEF Going
<1>3. ASSUME Going(l) PROVE ~InPages(l)'
  <2>1. SUFFICES ASSUME NEW r \in Refresh, NEW p \in Part, FilterDeleted(r, p),
                        l \in walk[<<r, p>>].page, l \notin tempDeleted
                 PROVE  FALSE
    BY <1>3, PagesStep DEF Deleting
  <2>2. CASE op["batch"].step = "current"
    BY <1>3, <2>1, <2>2 DEF Deleting, Forgotten, FilterDeleted
  <2>3. CASE op["batch"].step \in {"keys", "write"}
    BY <1>0, <1>3, <2>1, <2>3 DEF Going, FilterDeleted, Unwritten
  <2> QED BY <1>3, <2>2, <2>3 DEF Slots, Going
<1>4. ASSUME Going(l), op'["batch"].step = "write", NEW r \in tempKeys', l \in temp'[r]
      PROVE  r \in op'["batch"].keys
  <2>1. r \in tempKeys /\ l \in temp[r]
    BY <1>3, <1>4, TempStep DEF Going, Deleting
  <2>2. CASE op["batch"].step = "write" /\ op'["batch"].keys = op["batch"].keys
    BY <1>4, <2>1, <2>2 DEF Deleting
  <2>3. CASE OpReadTempKeys("batch")
    BY <1>0, <2>1, <2>3 DEF OpReadTempKeys, TempKeys, Exists, TypeOK, Op
  <2> QED
    BY <1>0, <1>4, <2>2, <2>3, BatchStep
<1>5. ASSUME Going(l), op'["batch"].step = "current" PROVE Forgotten(l)'
  <2>1. CASE op["batch"].step = "current"
    BY <1>0, <1>5, <2>1, ForgottenStep DEF Going, Deleting
  <2>2. CASE DeleteTempListings
    <3>1. \A r \in tempKeys' : l \notin temp'[r]
      BY <1>0, <1>5, <2>2 DEF DeleteTempListings, DeleteTemp, Going, Deleting, TypeOK
    <3>2. l \in tempDeleted'
      BY <1>5, <2>2 DEF DeleteTempListings, Going
    <3> QED BY <1>3, <1>5, <3>1, <3>2 DEF Forgotten
  <2> QED
    BY <1>0, <1>5, <2>1, <2>2, BatchStep
<1> QED BY <1>2, <1>n, <1>3, <1>4, <1>5

\* A temp key that is gone, and that nobody is about to write to, does not come back
LEMMA ClearedStep ==
  ASSUME TypeOK, Slots, [Next]_vars, NEW r \in tempKeys, r \in tempKeys', ~Exists(r), ~Held(r),
         ~RefreshListings(r)
  PROVE  ~Exists(r)' /\ ~Held(r)'
<1>0. /\ TypeOK
      /\ temp[r] = {} /\ r \notin TempKeys /\ ~RefreshListings(r)
      /\ \A w \in Refresh \X Part : r \notin walk[w].keys
      /\ \A s \in Slot : r \notin op[s].keys
      /\ "batch" \in Slot
  BY DEF Exists, Held, TempKeys, Slot
<1>1. temp'[r] = {}
  <2>1. ASSUME NEW q \in Refresh, RefreshListings(q) PROVE temp'[r] = {}
    BY <1>0, <2>1 DEF RefreshListings, TypeOK
  <2>2. ASSUME NEW q \in Refresh, ExpireTempKey(q) PROVE temp'[r] = {}
    BY <1>0, <2>2 DEF ExpireTempKey, TypeOK
  <2>3. ASSUME NEW q \in Refresh, NEW p \in Part, SavePage(q, p) PROVE temp'[r] = {}
    BY <1>0, <2>3 DEF SavePage, SaveTemp, TypeOK
  <2>4. ASSUME OpSaveTemp PROVE temp'[r] = {}
    BY <1>0, <2>4 DEF OpSaveTemp, SaveTemp, TypeOK
  <2>5. ASSUME DeleteTempListings PROVE temp'[r] = {}
    BY <1>0, <2>5 DEF DeleteTempListings, DeleteTemp, TypeOK
  <2>6. ASSUME DeleteAllCurrent PROVE temp'[r] = {}
    BY <1>0, <2>6 DEF DeleteAllCurrent, TypeOK
  <2>7. CASE UNCHANGED temp
    BY <1>0, <2>7
  <2> QED
    BY <2>1, <2>2, <2>3, <2>4, <2>5, <2>6, <2>7
    DEF Next, Done, Page, Write, CheckTempKey, CopyTempKey, Refreshed, RetryDone, FetchPage,
        FilterDeleted, ReadTempKeys, RetryPage, CreateListing, ExternalChange, UpdateListing,
        DeleteListing, DeleteActiveCopy, DeleteArchivedListing, Vanish, DeleteAllListings, ReadCurrent,
        UpdateExisting, SaveCurrent, OpReadTempKeys, DeleteCurrent, ExpireTempDeleted, vars
<1>2. \A w \in Refresh \X Part : r \notin walk'[w].keys
  <2>1. ASSUME NEW q \in Refresh, RefreshListings(q) PROVE \A w \in Refresh \X Part : r \notin walk'[w].keys
    BY <1>0, <2>1 DEF RefreshListings, FirstPage
  <2>2. ASSUME NEW q \in Refresh, NEW p \in Part, FetchPage(q, p)
        PROVE  \A w \in Refresh \X Part : r \notin walk'[w].keys
    BY <1>0, <2>2 DEF FetchPage, FirstPage, TypeOK
  <2>3. ASSUME NEW q \in Refresh, NEW p \in Part, FilterDeleted(q, p)
        PROVE  \A w \in Refresh \X Part : r \notin walk'[w].keys
    BY <1>0, <2>3 DEF FilterDeleted, AfterPage, Ended, FirstPage, TypeOK, Walk
  <2>4. ASSUME NEW q \in Refresh, NEW p \in Part, ReadTempKeys(q, p)
        PROVE  \A w \in Refresh \X Part : r \notin walk'[w].keys
    BY <1>0, <2>4 DEF ReadTempKeys, TypeOK, Walk
  <2>5. ASSUME NEW q \in Refresh, NEW p \in Part, SavePage(q, p)
        PROVE  \A w \in Refresh \X Part : r \notin walk'[w].keys
    BY <1>0, <2>5 DEF SavePage, AfterPage, Ended, FirstPage, TypeOK, Walk
  <2>6. ASSUME NEW q \in Refresh, NEW p \in Part, RetryPage(q, p)
        PROVE  \A w \in Refresh \X Part : r \notin walk'[w].keys
    BY <1>0, <2>6 DEF RetryPage, FirstPage, TypeOK
  <2>7. CASE UNCHANGED walk
    BY <1>0, <2>7
  <2> QED
    BY <2>1, <2>2, <2>3, <2>4, <2>5, <2>6, <2>7
    DEF Next, Done, Page, Write, CheckTempKey, CopyTempKey, Refreshed, RetryDone, ExpireTempKey,
        CreateListing, ExternalChange, UpdateListing, DeleteListing, DeleteActiveCopy,
        DeleteArchivedListing, Vanish, DeleteAllListings, ReadCurrent, UpdateExisting, OpSaveTemp,
        DeleteTempListings, SaveCurrent, DeleteAllCurrent, OpReadTempKeys, DeleteCurrent,
        ExpireTempDeleted, vars
<1>3. \A s \in Slot : r \notin op'[s].keys
  <2>1. ASSUME NEW kind, NEW ls, NEW step, Answered(kind, ls, step) PROVE \A s \in Slot : r \notin op'[s].keys
    BY <1>0, <2>1 DEF Answered, TypeOK
  <2>2. ASSUME NEW s \in Slot, NEW step, GoTo(s, step) PROVE \A t \in Slot : r \notin op'[t].keys
    BY <1>0, <2>2 DEF GoTo, TypeOK, Op
  <2>3. ASSUME NEW s \in Slot, Finish(s) PROVE \A t \in Slot : r \notin op'[t].keys
    BY <1>0, <2>3 DEF Finish, Idle, TypeOK
  <2>4. ASSUME NEW s \in Slot, OpReadTempKeys(s) PROVE \A t \in Slot : r \notin op'[t].keys
    BY <1>0, <2>4 DEF OpReadTempKeys, TypeOK, Op
  <2>5. ASSUME NEW s \in Slot, DeleteCurrent(s) PROVE Finish(s)
    BY <2>5 DEF DeleteCurrent
  <2>6. CASE Write
    <3>1. "all" \in Slot
      BY DEF Slot
    <3> QED
      BY <1>0, <2>2, <2>3, <2>4, <2>5, <2>6, <3>1
      DEF Write, ReadCurrent, UpdateExisting, OpSaveTemp, DeleteTempListings, SaveCurrent, DeleteAllCurrent
  <2>7. CASE UNCHANGED op
    BY <1>0, <2>7
  <2> QED
    BY <2>1, <2>6, <2>7
    DEF Next, Done, Page, RefreshListings, CheckTempKey, CopyTempKey, Refreshed, RetryDone, ExpireTempKey,
        FetchPage, FilterDeleted, ReadTempKeys, SavePage, RetryPage, CreateListing, ExternalChange,
        UpdateListing, DeleteListing, DeleteActiveCopy, DeleteArchivedListing, Vanish, DeleteAllListings,
        ExpireTempDeleted, vars
<1> QED BY <1>1, <1>2, <1>3 DEF Exists, Held

\* A listing comes to be recorded when its creation is, or from the temp key of a refresh
LEMMA CurrentStep ==
  ASSUME TypeOK, Tracked, [Next]_vars, NEW l \in Listing, l \in current'
  PROVE  \/ l \in current
         \/ SaveCurrent /\ l \in op["batch"].listings /\ op["batch"].kind = "create"
         \/ \E r \in tempKeys : l \in temp[r]
<1>1. ASSUME NEW r \in Refresh, CopyTempKey(r) PROVE l \in current \/ \E q \in tempKeys : l \in temp[q]
  BY <1>1 DEF CopyTempKey, Tracked
<1>2. ASSUME SaveCurrent
      PROVE  l \in current \/ (l \in op["batch"].listings /\ op["batch"].kind = "create")
  BY <1>2 DEF SaveCurrent
<1>3. ASSUME NEW s \in Slot, DeleteCurrent(s) PROVE l \in current
  BY <1>3 DEF DeleteCurrent
<1>4. ASSUME DeleteAllCurrent PROVE FALSE
  BY <1>4 DEF DeleteAllCurrent
<1>5. CASE UNCHANGED current
  BY <1>5
<1> QED
  BY <1>1, <1>2, <1>3, <1>4, <1>5
  DEF Next, Done, Page, Write, RefreshListings, CheckTempKey, Refreshed, RetryDone, ExpireTempKey,
      FetchPage, FilterDeleted, ReadTempKeys, SavePage, RetryPage, CreateListing, ExternalChange,
      UpdateListing, DeleteListing, DeleteActiveCopy, DeleteArchivedListing, Vanish, DeleteAllListings,
      ReadCurrent, UpdateExisting, OpSaveTemp, DeleteTempListings, OpReadTempKeys, ExpireTempDeleted, vars

\* A deleted listing stays forgotten and unrecorded while it is gone.
LEMMA DeletedStep ==
  ASSUME TypeOK, Tracked, Slots, Deleting, Deleted, [Next]_vars
  PROVE  Deleted'
<1>1. SUFFICES ASSUME NEW l \in Listing, fate'[l] = "deleted"
               PROVE  /\ l \notin live'["active"]
                      /\ l \notin Live' => l \notin current' /\ Forgotten(l)'
  BY DEF Deleted
<1>0. TypeOK /\ "active" \in Part /\ "batch" \in Slot
  BY InstanceAssumption DEF Slot
<1>2. CASE fate[l] = "deleted"
  <2>1. l \notin live["active"] /\ l \notin op["batch"].listings
    BY <1>2 DEF Deleted, Slots
  <2>2. l \notin live'["active"]
    <3>1. ASSUME NEW k \in Listing, NEW p \in Part, CreateListing(k, p) PROVE l \notin live'["active"]
      BY <1>0, <1>1, <2>1, <3>1 DEF CreateListing, TypeOK
    <3>2. ASSUME NEW k \in Listing, NEW p \in Part, ExternalChange(k, p) PROVE l \notin live'["active"]
      BY <1>0, <2>1, <3>2 DEF ExternalChange, TypeOK
    <3>3. ASSUME NEW k \in Listing, DeleteListing(k) \/ DeleteActiveCopy(k) \/ DeleteArchivedListing(k)
          PROVE  l \notin live'["active"]
      BY <1>0, <2>1, <3>3 DEF DeleteListing, DeleteActiveCopy, DeleteArchivedListing, TypeOK
    <3>4. ASSUME DeleteAllListings PROVE l \notin live'["active"]
      BY <1>0, <3>4 DEF DeleteAllListings
    <3>5. CASE UNCHANGED live
      BY <2>1, <3>5
    <3> QED
      BY <3>1, <3>2, <3>3, <3>4, <3>5
      DEF Next, Done, Page, Write, RefreshListings, CheckTempKey, CopyTempKey, Refreshed, RetryDone,
          ExpireTempKey, FetchPage, FilterDeleted, ReadTempKeys, SavePage, RetryPage, UpdateListing, Vanish,
          ReadCurrent, UpdateExisting, OpSaveTemp, DeleteTempListings, SaveCurrent, DeleteAllCurrent,
          OpReadTempKeys, DeleteCurrent, ExpireTempDeleted, vars
  <2>3. l \notin Live' => l \notin Live
    <3>1. ~DeleteListing(l)
      BY <1>0, <1>1, ShiftedType DEF DeleteListing
    <3> QED BY <1>1, <3>1, LiveStep
  <2>4. ASSUME l \notin Live' PROVE l \notin current' /\ Forgotten(l)'
    <3>1. l \notin current /\ Forgotten(l)
      BY <1>2, <2>3, <2>4 DEF Deleted
    <3>2. Forgotten(l)'
      BY <2>1, <2>3, <2>4, <3>1, ForgottenStep
    <3>3. l \notin current'
      BY <2>1, <3>1, CurrentStep DEF Forgotten
    <3> QED BY <3>2, <3>3
  <2> QED BY <2>2, <2>4
<1>3. CASE fate[l] # "deleted"
  <2>1. PICK s \in Slot : DeleteCurrent(s) /\ s # "archive" /\ l \in op[s].listings
    BY <1>1, <1>3, FateStep
  <2>2. s = "batch" /\ op["batch"].kind = "delete" /\ op["batch"].step = "current" /\ fate[l] = "other"
    BY <1>0, <1>1, <1>3, <2>1, FateStep DEF DeleteCurrent, Slots, SlotOf, Slot
  <2>3. UNCHANGED live /\ l \notin current'
    BY <2>1 DEF DeleteCurrent
  <2>4. l \notin live["active"]
    BY <2>1, <2>2 DEF Slots
  <2>5. ASSUME l \notin Live' PROVE Forgotten(l)'
    <3>1. l \notin Live
      BY <2>3, <2>5 DEF Live
    <3>2. Forgotten(l)
      BY <2>1, <2>2, <3>1 DEF Deleting, Going
    <3> QED BY <2>2, <2>5, <3>1, <3>2, ForgottenStep
  <2> QED BY <2>3, <2>4, <2>5
<1> QED BY <1>2, <1>3

\* What was deleted and is not remembered stays out of the record: there are no temp keys until
\* a refresh starts, and that changes the fate of what its pages may bring.
LEMMA WipedStep ==
  ASSUME TypeOK, Tracked, Slots, Wiped, [Next]_vars
  PROVE  Wiped'
<1>1. SUFFICES ASSUME NEW l \in Listing, fate'[l] = "wiped", l \notin Live'
               PROVE  /\ l \notin current'
                      /\ NoTempKeys' \/ Forgotten(l)'
                      /\ l \in op'["batch"].listings => op'["batch"].kind # "update"
  BY DEF Wiped
<1>0. /\ TypeOK /\ Tracked /\ Slots
      /\ "batch" \in Slot /\ "all" \in Slot /\ "archive" \in Slot
  BY DEF Slot
<1>2. CASE DeleteAllCurrent
  <2>1. l \notin current' /\ l \notin op["batch"].listings
    BY <1>0, <1>1, <1>2 DEF DeleteAllCurrent
  <2>2. ASSUME NEW r \in tempKeys
        PROVE  /\ r \notin op["batch"].keys /\ \A w \in Refresh \X Part : r \notin walk[w].keys
               /\ temp'[r] = {}
    BY <1>0, <1>1, <1>2 DEF DeleteAllCurrent, Exists, TypeOK
  <2>3. op'["all"].keys = {} /\ op'["batch"] = op["batch"] /\ op'["archive"].keys = {}
    BY <1>0, <1>2 DEF DeleteAllCurrent, Finish, Idle, Slots, TypeOK
  <2>4. UNCHANGED <<tempKeys, walk>>
    BY <1>2 DEF DeleteAllCurrent
  <2> QED BY <2>1, <2>2, <2>3, <2>4 DEF NoTempKeys, Exists, Held, Slot
<1>3. CASE ~DeleteAllCurrent /\ fate[l] # "wiped"
  <2>1. /\ DeleteCurrent("archive") /\ l \in op["archive"].listings
        /\ l \notin op["batch"].listings /\ NoTempKeys
    BY <1>1, <1>3, FateStep
  <2>2. l \notin current' /\ UNCHANGED <<temp, tempKeys, walk>>
    BY <2>1 DEF DeleteCurrent
  <2>3. op' = [op EXCEPT !["archive"] = Idle]
    BY <2>1 DEF DeleteCurrent, Finish
  <2>4. op'["batch"] = op["batch"] /\ \A s \in Slot : op'[s].keys \in {{}, op[s].keys}
    BY <1>0, <2>3 DEF Idle, TypeOK
  <2>5. NoTempKeys'
    BY <2>1, <2>2, <2>4 DEF NoTempKeys, Exists, Held
  <2> QED BY <2>1, <2>2, <2>4, <2>5
<1>4. CASE ~DeleteAllCurrent /\ fate[l] = "wiped"
  <2>1. l \notin Live
    <3>1. ~DeleteListing(l)
      BY <1>0, <1>1, ShiftedType DEF DeleteListing
    <3> QED BY <1>1, <3>1, LiveStep
  <2>2. /\ l \notin current
        /\ NoTempKeys \/ Forgotten(l)
        /\ l \in op["batch"].listings => op["batch"].kind \notin {"create", "update"}
    BY <1>4, <2>1 DEF Wiped, Slots
  <2>3. l \in op'["batch"].listings => op'["batch"].kind # "update"
    <3>1. ~UpdateListing(l)
      BY <2>1, InLive, InstanceAssumption DEF UpdateListing
    <3> QED BY <1>0, <2>2, <3>1, BatchStep
  <2>4. l \notin current'
    <3>1. \A r \in tempKeys : l \notin temp[r]
      BY <2>2 DEF NoTempKeys, Exists, Forgotten
    <3> QED BY <2>2, <3>1, CurrentStep
  <2>5. CASE Forgotten(l)
    BY <1>1, <2>1, <2>2, <2>3, <2>4, <2>5, ForgottenStep
  <2>6. CASE NoTempKeys /\ \E r \in Refresh : RefreshListings(r)
    <3>1. PICK r \in Refresh : RefreshListings(r)
      BY <2>6
    <3>2. ~Returns(l)
      BY <1>1, <1>4, <3>1 DEF RefreshListings
    <3>3. \A q \in tempKeys' : l \notin temp'[q]
      BY <1>0, <2>6, <3>1, ListingAssumption DEF RefreshListings, NoTempKeys, Exists, Placeholder, TypeOK
    <3>4. \A w \in Refresh \X Part : walk'[w].step \in {"filter", "keys", "write"} => walk'[w] = walk[w]
      BY <1>0, <3>1 DEF RefreshListings, FirstPage, TypeOK
    <3>5. UNCHANGED <<tempDeleted, lingering>>
      BY <3>1 DEF RefreshListings
    <3>6. Forgotten(l)'
      BY <3>2, <3>3, <3>4, <3>5 DEF Returns, Forgotten, InPages
    <3> QED BY <2>3, <2>4, <3>6
  <2>7. CASE NoTempKeys /\ \A r \in Refresh : ~RefreshListings(r)
    <3>1. tempKeys' \subseteq tempKeys
      BY <2>7
      DEF Next, Done, Page, Write, CheckTempKey, CopyTempKey, Refreshed, RetryDone, ExpireTempKey, FetchPage,
          FilterDeleted, ReadTempKeys, SavePage, RetryPage, CreateListing, ExternalChange, UpdateListing,
          DeleteListing, DeleteActiveCopy, DeleteArchivedListing, Vanish, DeleteAllListings, ReadCurrent,
          UpdateExisting, OpSaveTemp, DeleteTempListings, SaveCurrent, DeleteAllCurrent, OpReadTempKeys,
          DeleteCurrent, ExpireTempDeleted, vars
    <3>2. NoTempKeys'
      BY <1>0, <2>7, <3>1, ClearedStep DEF NoTempKeys, TypeOK
    <3> QED BY <2>3, <2>4, <3>2
  <2> QED BY <2>2, <2>5, <2>6, <2>7
<1> QED BY <1>2, <1>3, <1>4

\* Every step keeps the invariant of deletions.
LEMMA GoneStep == ASSUME GoneInv, [Next]_vars, "done" \notin Fault PROVE GoneInv'
BY TypeStep, TrackedStep, SlotsStep, DeletingStep, DeletedStep, WipedStep DEF GoneInv

\* A deleted listing does not come back into the record, with any number of refreshes
\* and listings, whatever fails except that the end of a refresh is done twice
THEOREM DeletionsStay ==
  ASSUME "done" \notin Fault PROVE Spec => []DeletedGone
<1>1. Init => GoneInv
  BY InitGone
<1>2. GoneInv /\ [Next]_vars => GoneInv'
  BY GoneStep
<1>3. GoneInv => DeletedGone
  BY DEF GoneInv, DeletedGone, Deleted, Wiped
<1> QED BY <1>1, <1>2, <1>3, PTL DEF Spec

-------------------------------------------------------------------------------
(* What a creation can rely on *)

\* The place of a listing is a number up to how many there are, and grows with what is before it.
LEMMA RankFacts ==
  ASSUME NEW S \in SUBSET Listing, NEW T \in SUBSET Listing, NEW l \in Listing
  PROVE  /\ Rank(l, S) \in Nat
         /\ Rank(l, S) <= Cardinality(S) /\ Cardinality(S) \in Nat
         /\ l \in S => Rank(l, S) > 0
         /\ (\A k \in S : k <= l => k \in T) => Rank(l, S) <= Rank(l, T)
<1> DEFINE Up(X) == {k \in X : k <= l}
<1>1. IsFiniteSet(S) /\ IsFiniteSet(Up(S)) /\ IsFiniteSet(Up(T))
  BY ListingAssumption, FS_Subset
<1>2. Cardinality(S) \in Nat /\ Cardinality(Up(S)) \in Nat /\ Cardinality(Up(T)) \in Nat
  BY <1>1, FS_CardinalityType
<1>3. Cardinality(Up(S)) <= Cardinality(S)
  BY <1>1, FS_Subset
<1>4. ASSUME l \in S PROVE Cardinality(Up(S)) > 0
  <2>1. l \in Up(S)
    BY <1>4, ListingAssumption
  <2> QED BY <1>1, <1>2, <2>1, FS_EmptySet
<1>5. ASSUME \A k \in S : k <= l => k \in T PROVE Cardinality(Up(S)) <= Cardinality(Up(T))
  <2>1. Up(S) \subseteq Up(T)
    BY <1>5
  <2> QED BY <1>1, <2>1, FS_Subset
<1> QED BY <1>2, <1>3, <1>4, <1>5 DEF Rank

\* A walk still reaches a listing when others come before it.
LEMMA ReachesMore ==
  ASSUME NEW w \in Walk, NEW l \in Listing, NEW S \in SUBSET Listing, NEW T \in SUBSET Listing,
         Reaches(w, l, S), \A k \in S : k <= l => k \in T
  PROVE  Reaches(w, l, T)
BY RankFacts, PageSizeAssumption DEF Reaches, Walk

\* A page of the listings, lingering ones among them, holds l or comes before the one that does
LEMMA PageReaches ==
  ASSUME TypeOK, NEW r \in Refresh, NEW p \in Part, NEW l \in Listing, l \in live[p],
         \A k \in lingering : l <= k, FetchPage(r, p), Reaches(walk[<<r, p>>], l, live[p])
  PROVE  Reaches(walk'[<<r, p>>], l, live[p]) /\ walk'[<<r, p>>].step = "filter"
<1>1. PICK ghosts \in SUBSET lingering :
        walk' = [walk EXCEPT ![<<r, p>>] =
                   [FirstPage EXCEPT !.step = "filter", !.skip = walk[<<r, p>>].skip,
                                     !.page = PageOf(live[p] \cup ghosts, walk[<<r, p>>].skip),
                                     !.more = walk[<<r, p>>].skip + PageSize < Cardinality(live[p] \cup ghosts)]]
  BY DEF FetchPage
<1> DEFINE all == live[p] \cup ghosts
           skip == walk[<<r, p>>].skip
           w == walk'[<<r, p>>]
<1>2. /\ w.step = "filter" /\ w.skip = skip /\ w.page = PageOf(all, skip)
      /\ w.more = (skip + PageSize < Cardinality(all))
  BY <1>1 DEF FirstPage, TypeOK
<1>3. all \in SUBSET Listing /\ live[p] \in SUBSET Listing /\ skip \in Nat
  BY DEF TypeOK, Walk
<1>4. Rank(l, all) = Rank(l, live[p])
  <2>1. \A k \in all : k <= l => k \in live[p]
    BY <1>3, ListingAssumption DEF TypeOK
  <2> QED BY <1>3, <2>1, RankFacts
<1>5. Rank(l, all) > skip
  BY <1>4 DEF Reaches, FetchPage
<1>6. Rank(l, all) \in Nat /\ Rank(l, all) <= Cardinality(all) /\ Cardinality(all) \in Nat /\ l \in all
  BY <1>3, RankFacts
<1> HIDE DEF all, skip, w
<1>7. l \in w.page \/ Rank(l, all) > skip + PageSize
  BY <1>2, <1>3, <1>5, <1>6, PageSizeAssumption DEF PageOf
<1>8. Rank(l, all) > skip + PageSize => w.more
  <2>1. Rank(l, all) > skip + PageSize => skip + PageSize < Cardinality(all)
    BY <1>3, <1>6, PageSizeAssumption
  <2> QED BY <1>2, <2>1, Zenon
<1>9. Reaches(w, l, live[p]) /\ w.step = "filter"
  BY <1>2, <1>4, <1>5, <1>7, <1>8 DEF Reaches
<1> QED BY <1>9 DEF w

\* A refresh that can find l goes on, and finds it unless the filter takes it from the page
LEMMA WalkStep ==
  ASSUME TypeOK, [Next]_vars, NEW r \in tempKeys, NEW p \in Part, NEW l \in Listing,
         Placeholder \in temp[r], \A k \in lingering : l <= k, l \in live[p],
         Reaches(walk[<<r, p>>], l, live[p]),
         walk[<<r, p>>].step = "write" /\ l \in walk[<<r, p>>].page => r \in walk[<<r, p>>].keys,
         ~RefreshListings(r),
         FilterDeleted(r, p) /\ l \in walk[<<r, p>>].page => l \notin tempDeleted
  PROVE  \/ l \in temp'[r]
         \/ /\ Reaches(walk'[<<r, p>>], l, live[p])
            /\ walk'[<<r, p>>].step = "write" /\ l \in walk'[<<r, p>>].page => r \in walk'[<<r, p>>].keys
<1> DEFINE w == walk[<<r, p>>]
           n == walk'[<<r, p>>]
           Goal == \/ l \in temp'[r]
                   \/ /\ Reaches(n, l, live[p])
                      /\ n.step = "write" /\ l \in n.page => r \in n.keys
<1>0. /\ TypeOK
      /\ r \in Refresh /\ <<r, p>> \in Refresh \X Part
      /\ w \in Walk
      /\ live[p] \in SUBSET Listing
      /\ Reaches(w, l, live[p])
      /\ w.step = "write" /\ l \in w.page => r \in w.keys
  BY DEF TypeOK
<1>r. Rank(l, live[p]) \in Nat
  BY <1>0, RankFacts
<1>1. CASE n = w
  BY <1>0, <1>1
<1>2. CASE FetchPage(r, p)
  BY <1>0, <1>2, PageReaches
<1>3. CASE FilterDeleted(r, p)
  <2>1. w.step = "filter" /\ (l \in w.page => l \in w.page \ tempDeleted)
    BY <1>3 DEF FilterDeleted
  <2>2. CASE w.page \ tempDeleted = {}
    <3>1. n = AfterPage(w)
      BY <1>0, <1>3, <2>2 DEF FilterDeleted, TypeOK
    <3>2. n = [FirstPage EXCEPT !.skip = w.skip + PageSize]
      BY <1>0, <2>1, <2>2, <3>1 DEF Reaches, AfterPage
    <3> QED BY <1>0, <2>1, <2>2, <3>2 DEF Reaches, FirstPage
  <2>3. CASE w.page \ tempDeleted # {}
    <3>1. n = [w EXCEPT !.step = "keys", !.page = w.page \ tempDeleted]
      BY <1>0, <1>3, <2>3 DEF FilterDeleted, TypeOK
    <3>2. n.step = "keys" /\ n.page = w.page \ tempDeleted /\ n.skip = w.skip /\ n.more = w.more
      BY <1>0, <3>1 DEF Walk
    <3> QED BY <1>0, <2>1, <3>2 DEF Reaches
  <2> QED BY <2>2, <2>3
<1>4. CASE ReadTempKeys(r, p)
  <2>1. n = [w EXCEPT !.step = "write", !.keys = TempKeys] /\ w.step = "keys"
    BY <1>0, <1>4 DEF ReadTempKeys, TypeOK
  <2>2. n.step = "write" /\ n.page = w.page /\ n.skip = w.skip /\ n.more = w.more /\ n.keys = TempKeys
    BY <1>0, <2>1 DEF Walk
  <2>3. r \in TempKeys
    BY DEF TempKeys, Exists
  <2> QED BY <1>0, <2>1, <2>2, <2>3 DEF Reaches
<1>5. CASE SavePage(r, p)
  <2>1. n = AfterPage(w) /\ w.step = "write"
    BY <1>0, <1>5 DEF SavePage, TypeOK
  <2>2. CASE l \in w.page
    BY <1>0, <1>5, <2>1, <2>2 DEF SavePage, SaveTemp
  <2>3. CASE l \notin w.page
    <3>1. n = [FirstPage EXCEPT !.skip = w.skip + PageSize] /\ Rank(l, live[p]) > w.skip + PageSize
      BY <1>0, <2>1, <2>3 DEF Reaches, AfterPage
    <3> QED BY <3>1 DEF Reaches, FirstPage
  <2> QED BY <2>2, <2>3
<1>6. CASE RetryPage(r, p)
  <2>1. n = [FirstPage EXCEPT !.skip = w.skip]
    BY <1>0, <1>6 DEF RetryPage, TypeOK
  <2> QED BY <1>0, <1>6, <2>1 DEF RetryPage, Reaches, FirstPage
<1>7. ASSUME NEW q \in Refresh, NEW t \in Part, Page(q, t) \/ RetryPage(q, t), q # r \/ t # p
      PROVE  n = w
  BY <1>0, <1>7 DEF Page, FetchPage, FilterDeleted, ReadTempKeys, SavePage, RetryPage, TypeOK
<1>8. ASSUME NEW q \in Refresh, RefreshListings(q), q # r PROVE n = w
  BY <1>0, <1>8 DEF RefreshListings
<1> QED
  BY <1>0, <1>1, <1>2, <1>3, <1>4, <1>5, <1>6, <1>7, <1>8
  DEF Next, Done, Page, Write, CheckTempKey, CopyTempKey, Refreshed, RetryDone, ExpireTempKey,
      CreateListing, ExternalChange, UpdateListing, DeleteListing, DeleteActiveCopy,
      DeleteArchivedListing, Vanish, DeleteAllListings, ReadCurrent, UpdateExisting, OpSaveTemp,
      DeleteTempListings, SaveCurrent, DeleteAllCurrent, OpReadTempKeys, DeleteCurrent,
      ExpireTempDeleted, vars

\* What moves l to a page that was fetched already does not leave its fate as it was
LEMMA NotShifted ==
  ASSUME TypeOK, [Next]_vars, NEW l \in Listing, fate[l] = "created" \/ Coming(l),
         fate'[l] = fate[l], Fetching, \A k \in lingering : l <= k,
         \A p \in Part : ~CreateListing(l, p), ~DeleteListing(l)
  PROVE  /\ \A k \in lingering' : l <= k
         /\ \A p \in Part : l \in live'[p] => /\ l \in live[p]
                                              /\ \A k \in live[p] : k <= l => k \in live'[p]
<1> DEFINE Before == \A p \in Part : l \in live'[p] => /\ l \in live[p]
                                                       /\ \A k \in live[p] : k <= l => k \in live'[p]
           Behind == \A k \in lingering' : l <= k
<1>0. /\ TypeOK /\ "active" \in Part
      /\ fate'[l] = fate[l] /\ fate[l] \in {"created", "other"}
      /\ \A k \in lingering : l <= k
      /\ Listing \subseteq Nat
      /\ \A p \in Part : ~CreateListing(l, p)
      /\ ~DeleteListing(l)
  BY InstanceAssumption, ListingAssumption DEF Coming
<1>g. ASSUME NEW gone, Shifted(gone)[l] = fate[l] \/ ShiftPages(gone)[l] = fate[l] PROVE \A k \in gone : l <= k
  BY <1>g DEF Coming, Shifted, ShiftPages
<1>1. ASSUME NEW k \in Listing, NEW p \in Part, CreateListing(k, p) PROVE Before /\ Behind
  <2>1. k # l
    BY <1>0, <1>1
  <2> QED BY <1>0, <1>1, <2>1 DEF CreateListing, TypeOK
<1>2. ASSUME NEW k \in Listing, NEW p \in Part, ExternalChange(k, p) PROVE Before /\ Behind
  <2>1. k # l /\ ShiftPages({k})[l] = fate[l]
    BY <1>0, <1>2, ShiftedType DEF ExternalChange
  <2>2. l < k
    BY <1>0, <1>g, <2>1
  <2> QED BY <1>0, <1>2, <2>1, <2>2 DEF ExternalChange, TypeOK
<1>3. ASSUME NEW k \in Listing, DeleteListing(k) PROVE Before /\ Behind
  <2>1. k # l /\ ShiftPages({k} \cap live["active"])[l] = fate[l]
    BY <1>0, <1>3, ShiftedType DEF DeleteListing
  <2>2. k \in live["active"] => l < k
    BY <1>0, <1>g, <2>1
  <2> QED BY <1>0, <1>3, <2>1, <2>2 DEF DeleteListing, TypeOK
<1>4. ASSUME NEW k \in Listing, DeleteActiveCopy(k) PROVE Before /\ Behind
  <2>1. ShiftPages({k})[l] = fate[l]
    BY <1>0, <1>4 DEF DeleteActiveCopy
  <2>2. l <= k
    BY <1>0, <1>g, <2>1
  <2>3. live' = [live EXCEPT !["active"] = @ \ {k}] /\ UNCHANGED lingering
    BY <1>4 DEF DeleteActiveCopy
  <2>4. Before
    <3>1. ASSUME NEW p \in Part, l \in live'[p], NEW j \in live[p], j <= l PROVE j \in live'[p]
      <4>1. live \in [Part -> SUBSET Listing] BY <1>0 DEF TypeOK
      <4>2. CASE p # "active"
        <5>1. live'[p] = live[p] BY <2>3, <4>1, <4>2
        <5> QED BY <5>1
      <4>3. CASE p = "active"
        <5>1. live'[p] = live[p] \ {k} BY <2>3, <4>1, <4>3
        <5>2. j \in Nat /\ k \in Nat /\ l \in Nat BY <1>0, <4>1
        <5>3. l # k BY <3>1, <5>1
        <5>4. j # k BY <2>2, <3>1, <5>2, <5>3
        <5> QED BY <5>1, <5>4
      <4> QED BY <4>2, <4>3
    <3> QED BY <1>0, <2>3, <3>1 DEF TypeOK
  <2> QED BY <1>0, <2>3, <2>4
<1>5. ASSUME NEW k \in Listing, DeleteArchivedListing(k) PROVE Before /\ Behind
  <2>1. k # l /\ ShiftPages({k} \cap live["archived"])[l] = fate[l]
    BY <1>0, <1>5, ShiftedType DEF DeleteArchivedListing
  <2>2. k \in live["archived"] => l < k
    BY <1>0, <1>g, <2>1
  <2>3. Behind
    BY <1>0, <1>5, <2>2 DEF DeleteArchivedListing
  <2>4. live' = [live EXCEPT !["archived"] = @ \ {k}] /\ "archived" \in Part
    BY <1>5 DEF DeleteArchivedListing
  <2>5. Before
    BY <1>0, <2>1, <2>2, <2>4 DEF TypeOK
  <2> QED BY <2>3, <2>5
<1>6. ASSUME DeleteAllListings PROVE FALSE
  BY <1>0, <1>6 DEF DeleteAllListings
<1>7. ASSUME NEW k \in Listing, Vanish(k) PROVE Before /\ Behind
  BY <1>0, <1>7 DEF Vanish
<1>8. CASE UNCHANGED <<live, lingering>>
  BY <1>0, <1>8
<1> QED
  BY <1>1, <1>2, <1>3, <1>4, <1>5, <1>6, <1>7, <1>8
  DEF Next, Done, Page, Write, RefreshListings, CheckTempKey, CopyTempKey, Refreshed, RetryDone,
      ExpireTempKey, FetchPage, FilterDeleted, ReadTempKeys, SavePage, RetryPage, UpdateListing,
      ReadCurrent, UpdateExisting, OpSaveTemp, DeleteTempListings, SaveCurrent, DeleteAllCurrent,
      OpReadTempKeys, DeleteCurrent, ExpireTempDeleted, vars

\* What a temp key has stays in it, until the key expires or what it has is deleted
LEMMA KeptStep ==
  ASSUME TypeOK, [Next]_vars, NEW r \in tempKeys, NEW x \in temp[r], ~RefreshListings(r), ~DeleteAllCurrent,
         x \in op["batch"].listings => op["batch"].kind # "delete"
  PROVE  x \in temp'[r] \/ ExpireTempKey(r)
<1>0. /\ TypeOK /\ r \in Refresh /\ ~RefreshListings(r) /\ ~DeleteAllCurrent
      /\ x \in op["batch"].listings => op["batch"].kind # "delete"
  BY DEF TypeOK
<1>1. ASSUME NEW q \in Refresh, RefreshListings(q) PROVE x \in temp'[r]
  BY <1>0, <1>1 DEF RefreshListings, TypeOK
<1>2. ASSUME NEW q \in Refresh, ExpireTempKey(q) PROVE q = r \/ x \in temp'[r]
  BY <1>0, <1>2 DEF ExpireTempKey, TypeOK
<1>3. ASSUME NEW q \in Refresh, NEW p \in Part, SavePage(q, p) PROVE x \in temp'[r]
  BY <1>0, <1>3 DEF SavePage, SaveTemp, TypeOK
<1>4. ASSUME OpSaveTemp PROVE x \in temp'[r]
  BY <1>0, <1>4 DEF OpSaveTemp, SaveTemp, TypeOK
<1>5. ASSUME DeleteTempListings PROVE x \in temp'[r]
  BY <1>0, <1>5 DEF DeleteTempListings, DeleteTemp, TypeOK
<1>6. CASE UNCHANGED temp
  BY <1>6
<1> QED
  BY <1>0, <1>1, <1>2, <1>3, <1>4, <1>5, <1>6
  DEF Next, Done, Page, Write, CheckTempKey, CopyTempKey, Refreshed, RetryDone, FetchPage, FilterDeleted,
      ReadTempKeys, RetryPage, CreateListing, ExternalChange, UpdateListing, DeleteListing,
      DeleteActiveCopy, DeleteArchivedListing, Vanish, DeleteAllListings, ReadCurrent, UpdateExisting,
      SaveCurrent, OpReadTempKeys, DeleteCurrent, ExpireTempDeleted, vars

\* A listing that a refresh has, will find, or that does not matter to it, stays so
LEMMA CoveredStep ==
  ASSUME TypeOK, TypeOK', Tracked, Slots, [Next]_vars, "race" \notin Fault, NEW l \in Listing,
         fate[l] = "created" \/ Coming(l), fate'[l] = fate[l], l \in Live,
         \A p \in Part : ~CreateListing(l, p), ~DeleteListing(l),
         l \notin tempDeleted \/ (Coming(l) /\ op["batch"].step \in {"keys", "write"}),
         NEW r \in tempKeys', r \in tempKeys => Covered(r, l)
  PROVE  Covered(r, l)'
<1>0. /\ TypeOK /\ TypeOK' /\ Tracked /\ r \in Refresh /\ l # Placeholder /\ Placeholder \notin Listing
      /\ fate'[l] = fate[l] /\ fate[l] \in {"created", "other"}
  BY ListingAssumption DEF TypeOK, Coming, Placeholder
<1>1. CASE RefreshListings(r)
  <2>1. \A k \in lingering' : l <= k
    BY <1>0, <1>1 DEF RefreshListings, Shifted, Coming
  <2>2. temp'[r] = {Placeholder}
    BY <1>0, <1>1 DEF RefreshListings, TypeOK
  <2>3. ASSUME NEW p \in Part, l \in live'[p]
        PROVE  Reaches(walk'[<<r, p>>], l, live'[p]) /\ walk'[<<r, p>>].step = "request"
    <3>1. walk'[<<r, p>>] = FirstPage
      BY <1>0, <1>1 DEF RefreshListings
    <3>2. Rank(l, live'[p]) > 0
      BY <1>0, <2>3, RankFacts DEF TypeOK
    <3> QED BY <3>1, <3>2 DEF Reaches, FirstPage
  <2> QED BY <2>1, <2>2, <2>3 DEF Covered, Finds
<1>2. CASE ~RefreshListings(r)
  <2>1. r \in tempKeys
    <3>1. ASSUME NEW q \in Refresh, RefreshListings(q) PROVE r \in tempKeys
      BY <1>2, <3>1 DEF RefreshListings
    <3>2. ASSUME NEW q \in Refresh, CheckTempKey(q) \/ CopyTempKey(q) PROVE r \in tempKeys
      BY <3>2 DEF CheckTempKey, CopyTempKey
    <3>3. CASE UNCHANGED tempKeys
      BY <3>3
    <3> QED
      BY <3>1, <3>2, <3>3
      DEF Next, Done, Page, Write, Refreshed, RetryDone, ExpireTempKey, FetchPage, FilterDeleted,
          ReadTempKeys, SavePage, RetryPage, CreateListing, ExternalChange, UpdateListing, DeleteListing,
          DeleteActiveCopy, DeleteArchivedListing, Vanish, DeleteAllListings, ReadCurrent, UpdateExisting,
          OpSaveTemp, DeleteTempListings, SaveCurrent, DeleteAllCurrent, OpReadTempKeys, DeleteCurrent,
          ExpireTempDeleted, vars
  <2>2. ~DeleteAllCurrent
    BY <1>0 DEF DeleteAllCurrent
  <2>3. ASSUME ExpireTempKey(r) PROVE Covered(r, l)'
    BY <1>0, <2>3 DEF ExpireTempKey, Covered, Exists, Held, TypeOK
  <2>4. ASSUME l \in temp[r] PROVE Covered(r, l)'
    <3>1. l \in op["batch"].listings => op["batch"].kind # "delete"
      BY <1>0 DEF Slots, Coming
    <3> QED BY <1>2, <2>1, <2>2, <2>3, <2>4, <3>1, KeptStep DEF Covered
  <2>5. ASSUME ~Exists(r), ~Held(r) PROVE Covered(r, l)'
    BY <1>2, <2>1, <2>5, ClearedStep DEF Covered
  <2>6. ASSUME Finds(r, l) PROVE Covered(r, l)'
    <3>1. Fetching
      BY <1>0, <2>6, InLive DEF Finds, Reaches, Fetching
    <3>2. \A k \in lingering : l <= k
      BY <2>6 DEF Finds
    <3>3. /\ \A k \in lingering' : l <= k
          /\ \A p \in Part : l \in live'[p] => /\ l \in live[p]
                                               /\ \A k \in live[p] : k <= l => k \in live'[p]
      BY <1>0, <3>1, <3>2, NotShifted
    <3>4. Placeholder \in temp'[r] \/ ExpireTempKey(r)
      <4>1. Placeholder \notin op["batch"].listings
        BY <1>0 DEF TypeOK, Op, Slot
      <4> QED BY <1>2, <2>1, <2>2, <2>6, <4>1, KeptStep DEF Finds
    <3>5. ASSUME NEW p \in Part, FilterDeleted(r, p), l \in walk[<<r, p>>].page PROVE l \notin tempDeleted
      BY <1>0, <3>5 DEF FilterDeleted, Unwritten, Coming, Slot
    <3>6. ASSUME l \notin temp'[r], NEW p \in Part, l \in live'[p]
          PROVE  /\ Reaches(walk'[<<r, p>>], l, live'[p])
                 /\ walk'[<<r, p>>].step = "write" /\ l \in walk'[<<r, p>>].page => r \in walk'[<<r, p>>].keys
      <4>1. /\ Reaches(walk'[<<r, p>>], l, live[p])
            /\ walk'[<<r, p>>].step = "write" /\ l \in walk'[<<r, p>>].page => r \in walk'[<<r, p>>].keys
        BY <1>2, <2>1, <2>6, <3>2, <3>3, <3>5, <3>6, WalkStep DEF Finds
      <4>2. walk'[<<r, p>>] \in Walk /\ live[p] \in SUBSET Listing /\ live'[p] \in SUBSET Listing
        BY <1>0 DEF TypeOK
      <4> QED BY <3>3, <3>6, <4>1, <4>2, ReachesMore
    <3> QED BY <2>3, <3>3, <3>4, <3>6 DEF Covered, Finds
  <2> QED BY <2>1, <2>4, <2>5, <2>6 DEF Covered
<1> QED BY <1>1, <1>2

\* A listing that comes among the deleted ones was deleted
LEMMA DeletedNotBack ==
  ASSUME TypeOK, [Next]_vars, NEW l \in Listing, l \in tempDeleted', l \notin tempDeleted
  PROVE  op["batch"].kind = "delete" /\ l \in op["batch"].listings
<1>1. ASSUME DeleteTempListings PROVE op["batch"].kind = "delete" /\ l \in op["batch"].listings
  BY <1>1 DEF DeleteTempListings
<1> QED
  BY <1>1
  DEF Next, Done, Page, Write, RefreshListings, CheckTempKey, CopyTempKey, Refreshed, RetryDone,
      ExpireTempKey, FetchPage, FilterDeleted, ReadTempKeys, SavePage, RetryPage, CreateListing,
      ExternalChange, UpdateListing, DeleteListing, DeleteActiveCopy, DeleteArchivedListing, Vanish,
      DeleteAllListings, ReadCurrent, UpdateExisting, OpSaveTemp, SaveCurrent, DeleteAllCurrent,
      OpReadTempKeys, DeleteCurrent, ExpireTempDeleted, vars

\* A creation leaves behind what its steps are for.
LEMMA CreatingStep ==
  ASSUME TypeOK, TypeOK', Tracked, Slots, Creating, [Next]_vars, "race" \notin Fault
  PROVE  Creating'
<1>1. SUFFICES ASSUME NEW l \in Listing, Coming(l)'
               PROVE  /\ op'["batch"].step = "write" =>
                           \A r \in tempKeys' : r \in op'["batch"].keys \/ Covered(r, l)'
                      /\ op'["batch"].step = "current" =>
                           l \notin tempDeleted' /\ \A r \in tempKeys' : Covered(r, l)'
  BY DEF Creating
<1>0. /\ TypeOK /\ TypeOK' /\ "batch" \in Slot
      /\ op'["batch"].kind = "create" /\ l \in op'["batch"].listings /\ fate'[l] = "other"
  BY <1>1 DEF Coming, Slot
<1>2. CASE \E p \in Part : CreateListing(l, p)
  <2>1. op'["batch"].step = "keys"
    BY <1>0, <1>2 DEF CreateListing, Answered, SlotOf, TypeOK
  <2> QED BY <2>1
<1>3. CASE \A p \in Part : ~CreateListing(l, p)
  <2>1. ~DeleteListing(l)
    BY <1>0 DEF DeleteListing, Answered, SlotOf, TypeOK
  <2>2. fate[l] = "other"
    BY <1>0, <1>3, <2>1, FateStep
  <2>3. op["batch"].kind = "create" /\ l \in op["batch"].listings
    BY <1>0, <1>3, BatchStep
  <2>4. Coming(l) /\ l \in Live
    BY <1>0, <2>2, <2>3 DEF Coming, Slots
  <2>5. ASSUME l \notin tempDeleted \/ op["batch"].step \in {"keys", "write"},
               NEW r \in tempKeys', r \in tempKeys => Covered(r, l)
        PROVE  Covered(r, l)'
    BY <1>0, <1>3, <2>1, <2>2, <2>4, <2>5, CoveredStep
  <2>6. ASSUME op'["batch"].step = "write", NEW r \in tempKeys'
        PROVE  r \in op'["batch"].keys \/ Covered(r, l)'
    <3>1. CASE op'["batch"] = op["batch"]
      BY <2>4, <2>5, <2>6, <3>1 DEF Creating
    <3>2. CASE OpReadTempKeys("batch") /\ op'["batch"].keys = TempKeys
      <4>1. ~Returning
        BY <1>0, <2>2, <2>3, <3>2 DEF OpReadTempKeys
      <4>2. r \in tempKeys /\ (Exists(r) \/ ~Held(r))
        BY <1>0, <2>6, <3>2, <4>1 DEF OpReadTempKeys, Returning, TypeOK
      <4>3. ~RefreshListings(r)
        BY <1>0, <4>2 DEF RefreshListings, Tracked, TypeOK
      <4>4. CASE Exists(r)
        BY <3>2, <4>2, <4>4 DEF TempKeys, TypeOK
      <4>5. CASE ~Exists(r)
        BY <2>6, <4>2, <4>3, <4>5, ClearedStep DEF Covered
      <4> QED BY <4>4, <4>5
    <3> QED BY <1>0, <1>3, <2>6, <3>1, <3>2, BatchStep
  <2>7. ASSUME op'["batch"].step = "current"
        PROVE  l \notin tempDeleted' /\ \A r \in tempKeys' : Covered(r, l)'
    <3>1. CASE op'["batch"] = op["batch"]
      <4>1. l \notin tempDeleted /\ \A r \in tempKeys : Covered(r, l)
        BY <2>4, <2>7, <3>1 DEF Creating
      <4>2. l \notin tempDeleted'
        BY <2>3, <4>1, DeletedNotBack
      <4> QED BY <2>5, <4>1, <4>2
    <3>2. CASE OpSaveTemp
      <4>1. l \notin tempDeleted'
        BY <2>3, <3>2 DEF OpSaveTemp
      <4>2. ASSUME NEW r \in tempKeys', r \in op["batch"].keys PROVE l \in temp'[r]
        BY <1>0, <2>3, <3>2, <4>2 DEF OpSaveTemp, SaveTemp, TypeOK
      <4>3. op["batch"].step = "write"
        BY <3>2 DEF OpSaveTemp
      <4>4. ASSUME NEW r \in tempKeys', r \notin op["batch"].keys PROVE Covered(r, l)'
        BY <2>4, <2>5, <4>3, <4>4 DEF Creating
      <4> QED BY <4>1, <4>2, <4>4 DEF Covered
    <3> QED BY <1>0, <1>3, <2>3, <2>7, <3>1, <3>2, BatchStep
  <2> QED BY <2>6, <2>7
<1> QED BY <1>2, <1>3

\* A created listing stays recorded, and covered in every refresh.
LEMMA CreatedStep ==
  ASSUME TypeOK, TypeOK', Tracked, Slots, Creating, Created, [Next]_vars, "race" \notin Fault
  PROVE  Created'
<1>1. SUFFICES ASSUME NEW l \in Listing, fate'[l] = "created"
               PROVE  /\ l \in current'
                      /\ l \in Live'
                      /\ l \notin tempDeleted'
                      /\ \A r \in tempKeys' : Covered(r, l)'
  BY DEF Created
<1>0. TypeOK /\ "batch" \in Slot /\ l # Placeholder
  BY ListingAssumption DEF Slot, Placeholder
<1>2. (\A p \in Part : ~CreateListing(l, p)) /\ ~DeleteListing(l)
  BY <1>0, <1>1, ShiftedType DEF CreateListing, DeleteListing, TypeOK
<1>3. CASE fate[l] = "created"
  <2>1. l \in current /\ l \in Live /\ l \notin tempDeleted /\ \A r \in tempKeys : Covered(r, l)
    BY <1>3 DEF Created
  <2>2. l \in op["batch"].listings => op["batch"].kind # "delete"
    BY <1>3 DEF Slots
  <2>3. l \in Live'
    BY <1>1, <1>2, <2>1, LiveStep
  <2>4. l \notin tempDeleted'
    BY <2>1, <2>2, DeletedNotBack
  <2>5. \A r \in tempKeys' : Covered(r, l)'
    BY <1>0, <1>1, <1>2, <1>3, <2>1, CoveredStep
  <2>6. l \in current'
    <3>1. ASSUME NEW r \in Refresh, CopyTempKey(r) PROVE l \in current'
      <4>1. r \in tempKeys /\ \A p \in Part : walk[<<r, p>>].step = "end"
        BY <3>1 DEF CopyTempKey, Tracked
      <4>2. ~Finds(r, l)
        BY <2>1, <4>1, InLive DEF Finds, Reaches
      <4>3. l \in temp[r] \/ ~Exists(r)
        BY <2>1, <4>1, <4>2 DEF Covered
      <4> QED BY <1>0, <2>1, <3>1, <4>3 DEF CopyTempKey
    <3>2. ASSUME NEW s \in Slot, DeleteCurrent(s) PROVE l \in current'
      <4>1. s = "batch" \/ l \notin op[s].listings
        BY <1>1, <3>2 DEF DeleteCurrent, Slots, SlotOf, Slot
      <4> QED BY <2>1, <2>2, <3>2, <4>1 DEF DeleteCurrent, Slots, SlotOf, Slot
    <3>3. ASSUME DeleteAllCurrent PROVE FALSE
      BY <1>1, <3>3 DEF DeleteAllCurrent
    <3>4. ASSUME SaveCurrent PROVE l \in current'
      BY <2>1, <3>4 DEF SaveCurrent
    <3>5. CASE UNCHANGED current
      BY <2>1, <3>5
    <3> QED
      BY <3>1, <3>2, <3>3, <3>4, <3>5
      DEF Next, Done, Page, Write, RefreshListings, CheckTempKey, Refreshed, RetryDone, ExpireTempKey,
          FetchPage, FilterDeleted, ReadTempKeys, SavePage, RetryPage, CreateListing, ExternalChange,
          UpdateListing, DeleteListing, DeleteActiveCopy, DeleteArchivedListing, Vanish,
          DeleteAllListings, ReadCurrent, UpdateExisting, OpSaveTemp, DeleteTempListings, OpReadTempKeys,
          ExpireTempDeleted, vars
  <2> QED BY <2>3, <2>4, <2>5, <2>6
<1>4. CASE fate[l] # "created"
  <2>1. SaveCurrent /\ l \in op["batch"].listings /\ fate[l] = "other"
    BY <1>1, <1>4, FateStep
  <2>2. Coming(l) /\ op["batch"].step = "current" /\ op["batch"].kind = "create"
    BY <2>1 DEF SaveCurrent, Coming
  <2>3. l \in Live /\ l \notin tempDeleted /\ \A r \in tempKeys : Covered(r, l)
    BY <2>1, <2>2 DEF Slots, Creating
  <2>4. UNCHANGED <<live, temp, tempKeys, tempDeleted, walk, lingering>> /\ l \in current'
    BY <2>1 DEF SaveCurrent
  <2>5. \A r \in Refresh : ~Held(r) => ~Held(r)'
    BY <1>0, <2>1, <2>4 DEF SaveCurrent, Finish, Idle, Held, TypeOK
  <2>6. \A r \in tempKeys' : Covered(r, l)'
    BY <1>0, <2>3, <2>4, <2>5 DEF Covered, Finds, Exists, TypeOK
  <2> QED BY <2>3, <2>4, <2>6 DEF Live
<1> QED BY <1>3, <1>4

\* A listing that was created and recorded stays recorded, with any number of refreshes
\* and listings, and any pages
THEOREM CreationsStay ==
  ASSUME "done" \notin Fault, "race" \notin Fault PROVE Spec => []CreatedKept
<1>1. Init => KeptInv
  <2>1. Init => Creating
    BY DEF Init, Creating, Coming, Slot, Idle
  <2>2. Init => Created
    BY DEF Init, Created
  <2> QED BY <2>1, <2>2, InitGone DEF KeptInv
<1>2. KeptInv /\ [Next]_vars => KeptInv'
  BY GoneStep, CreatingStep, CreatedStep DEF KeptInv, GoneInv
<1>3. KeptInv => CreatedKept
  BY DEF KeptInv, CreatedKept, Created
<1> QED BY <1>1, <1>2, <1>3, PTL DEF Spec
===============================================================================

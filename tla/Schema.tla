-------------------------------- MODULE Schema --------------------------------
(***************************************************************************)
(* The schemas of TF2 that the item service keeps (SchemaService and       *)
(* SchemaProcessor).  A check asks Steam for the url of the schema; when   *)
(* it is new, a flow of jobs downloads the parts and saves each under the  *)
(* time of the check, and the last job of the flow lists the schema.  Jobs *)
(* are tried again until they succeed.  A url stands for the version that  *)
(* it serves, which only rises.                                            *)
(***************************************************************************)
EXTENDS Naturals, FiniteSets, FiniteSetsExt

CONSTANTS
  Worker,       \* the processes that run jobs, one job each
  LastPage,     \* the number of pages of items
  MaxVersion,   \* bound on the versions of the schema
  MaxTime,      \* bound on the checks
  MaxExtra,     \* bound on checks that are asked for without need
  MaxDeletes,   \* bound on the schemas that are deleted
  MaxFaults,    \* bound on the failures
  Fault         \* what may fail: a check, the job of a url when it has started the flow, any other job

Page == 1..LastPage
Version == 1..MaxVersion
Time == 1..MaxTime

VARIABLES
  steam,     \* the version that Steam serves
  recent,    \* LAST_CHECKED_KEY is younger than updateTimeout
  clock,     \* the time of the last check, in seconds
  flows,     \* the number of flows started
  jobs,      \* the queue
  run,       \* what each worker does
  saved,     \* the keys and files of each time
  schemas,   \* SCHEMAS_KEY: the schemas that are listed, by time
  told,      \* times of the schemas that have been published
  deleted,   \* times of the schemas that were deleted
  extra, faults

vars == <<steam, recent, clock, flows, jobs, run, saved, schemas, told, deleted, extra, faults>>

Nothing == [file |-> FALSE, overview |-> {}, itemsGame |-> {}, protoObjDefs |-> {},
            items |-> [p \in Page |-> {}], names |-> {},
            tempSpells |-> {}, spells |-> {}, scoreTypes |-> {}, tempParts |-> {}, parts |-> {}]
Unlisted == [version |-> 0, consistent |-> FALSE]
Listed == {t \in Time : schemas[t] # Unlisted}
Idle == [job |-> [name |-> "none"], step |-> "none", version |-> 0, names |-> {}]

\* getSchemaOrNull: the version of the schema with the latest time, 0 when there is none
Newest == IF Listed = {} THEN 0 ELSE schemas[Max(Listed)].version

\* getClosestSchemaByTime: the schema at that time, or else the earliest
Closest(time) ==
  LET before == {t \in Listed : t <= time} IN IF before # {} THEN Max(before) ELSE Min(Listed)

\* The jobs of a flow, and what is of them
FlowJob == [name : {"schema", "overview", "items_game", "proto_obj_defs"},
            time : Time, flow : Nat, version : Version, page : {0}]
PageJob == [name : {"items"}, time : Time, flow : Nat, version : Version, page : Page]
UrlJob == [name : {"url"}, time : Time, force : BOOLEAN]

TypeOK ==
  /\ steam \in Version /\ recent \in BOOLEAN /\ clock \in Time \cup {0} /\ flows \in Nat
  /\ jobs \subseteq FlowJob \cup PageJob \cup UrlJob
  /\ run \in [Worker -> [job : jobs \cup {Idle.job}, version : Version \cup {0}, names : SUBSET Page,
                         step : {"none", "fetched", "merged", "listed"}]]
  /\ saved \in [Time -> [file : BOOLEAN, overview : SUBSET Version, itemsGame : SUBSET Version,
                         protoObjDefs : SUBSET {0}, items : [Page -> SUBSET Version],
                         names : SUBSET Page, tempSpells : SUBSET Version, spells : SUBSET Version,
                         scoreTypes : SUBSET Version, tempParts : SUBSET Version, parts : SUBSET Version]]
  /\ schemas \in [Time -> [version : Version, consistent : BOOLEAN] \cup {Unlisted}]
  /\ told \subseteq Time /\ deleted \subseteq Time
  /\ extra \in 0..MaxExtra /\ faults \in 0..MaxFaults

Init ==
  /\ steam = 1 /\ recent = FALSE /\ clock = 0 /\ flows = 0
  /\ jobs = {} /\ run = [w \in Worker |-> Idle]
  /\ saved = [t \in Time |-> Nothing] /\ schemas = [t \in Time |-> Unlisted]
  /\ told = {} /\ deleted = {} /\ extra = 0 /\ faults = 0

kept == <<saved, schemas, told, deleted>>

----
(* Checks *)

MayFail(f) == f \in Fault /\ faults < MaxFaults

\* Mutant: seconds are compared with milliseconds
MayCheckLater(action) == action # "default" \/ (~recent /\ clock = 0)

\* createJobs, by action: a check by default is dropped when the last one is recent
MayCheck(action) == action # "default" \/ ~recent

\* createJobs: the time is noted before the job is added to the jobs that stay; when adding
\* it fails, those of the caller are left.
CreateJobs(action, stay, left) ==
  /\ clock < MaxTime /\ clock' = clock + 1 /\ recent' = TRUE
  /\ \/ jobs' = stay \cup {[name |-> "url", time |-> clock', force |-> action = "force"]} /\ UNCHANGED faults
     \/ MayFail("check") /\ jobs' = left /\ faults' = faults + 1

\* Checks that are of use are not bounded: nothing is being done and Steam has a new version.
Bounded == IF jobs = {} /\ steam # Newest THEN UNCHANGED extra ELSE extra < MaxExtra /\ extra' = extra + 1

\* createJobsIfNewUrl, for an event of a bot: the url may be one that was replaced meanwhile
BotSchema(version) ==
  /\ version <= steam /\ version # Newest
  /\ MayCheck("default")
  /\ Bounded
  /\ CreateJobs("default", jobs, jobs)
  /\ UNCHANGED <<steam, flows, run, kept>>

\* A request for a check by default, for a check at any time, or for an update whether or
\* not there is a new version
RequestRefresh(action) ==
  /\ MayCheck(action)
  /\ Bounded
  /\ CreateJobs(action, jobs, jobs)
  /\ UNCHANGED <<steam, flows, run, kept>>

\* updateTimeout has passed since the last check
Elapse == recent /\ recent' = FALSE /\ UNCHANGED <<steam, clock, flows, jobs, run, kept, extra, faults>>

\* Steam has a new version
Upgrade == steam < MaxVersion /\ steam' = steam + 1
           /\ UNCHANGED <<recent, clock, flows, jobs, run, kept, extra, faults>>

\* deleteSchema: the list and the keys at once, then the files
DeleteSchema(t) ==
  /\ t \in Listed /\ Cardinality(deleted) < MaxDeletes
  /\ schemas' = [schemas EXCEPT ![t] = Unlisted]
  /\ saved' = [saved EXCEPT ![t] = [Nothing EXCEPT !.file = saved[t].file]]
  /\ deleted' = deleted \cup {t}
  /\ UNCHANGED <<steam, recent, clock, flows, jobs, run, told, extra, faults>>

DeleteFiles(t) ==
  /\ t \in deleted /\ saved[t].file
  /\ saved' = [saved EXCEPT ![t].file = FALSE]
  /\ UNCHANGED <<steam, recent, clock, flows, jobs, run, schemas, told, deleted, extra, faults>>

----
(* Jobs *)

now == <<steam, recent, clock, flows, extra>>
Taken == {run[w].job : w \in Worker}

\* The jobs that one waits for: the last job of a flow for all others of it
Children(j) == IF j.name = "schema" THEN {i \in jobs : i.name \notin {"url", "schema"} /\ i.flow = j.flow}
               ELSE {}

\* process: the processor gets what the job is about.  The items_game file has the version
\* of its url, what Steam's interfaces return has the version of the moment, and the names
\* of paint kits come from a copy of the game that has no version here.
Process(w, j) ==
  /\ run[w] = Idle /\ j \in jobs \ Taken /\ Children(j) = {}
  /\ run' = [run EXCEPT ![w] = [Idle EXCEPT !.job = j, !.step = "fetched",
                                 !.version = CASE j.name = "items_game" -> j.version
                                               [] j.name = "proto_obj_defs" -> 0
                                               [] OTHER -> steam]]
  /\ UNCHANGED <<now, jobs, kept, faults>>

\* A job fails, or its process stops: it is run again from the start.
Fail(w) ==
  /\ run[w] # Idle /\ MayFail("job") /\ faults' = faults + 1
  /\ run' = [run EXCEPT ![w] = Idle]
  /\ UNCHANGED <<now, jobs, kept>>

Done(w, others) == jobs' = others \ {run[w].job} /\ run' = [run EXCEPT ![w] = Idle]
Fetched(w, name) == run[w].step = "fetched" /\ run[w].job.name = name
Save(w, record) == saved' = [saved EXCEPT ![run[w].job.time] = record]

\* createSchemaJobs: the flow of a check
Flow(t, version) ==
  {[name |-> n, time |-> t, flow |-> flows', version |-> version, page |-> 0] :
     n \in {"schema", "overview", "items_game", "proto_obj_defs"}}
    \cup {[name |-> "items", time |-> t, flow |-> flows', version |-> version, page |-> 1]}

\* isSameItemsGameUrl
IsSame(version) == Newest = version

\* updateUrl; it may fail when the flow has been added
UpdateUrl(w) ==
  LET j == run[w].job  v == run[w].version IN
  /\ Fetched(w, "url")
  /\ IF ~j.force /\ IsSame(v)
       THEN Done(w, jobs) /\ UNCHANGED <<flows, faults>>
       ELSE /\ flows' = flows + 1
            /\ \/ Done(w, jobs \cup Flow(j.time, v)) /\ UNCHANGED faults
               \/ /\ MayFail("url") /\ faults' = faults + 1
                  /\ jobs' = jobs \cup Flow(j.time, v) /\ run' = [run EXCEPT ![w] = Idle]
  /\ UNCHANGED <<steam, recent, clock, extra, kept>>

UpdateOverview(w) ==
  LET s == saved[run[w].job.time]  v == run[w].version IN
  /\ Fetched(w, "overview")
  /\ Save(w, [s EXCEPT !.file = TRUE, !.overview = @ \cup {v}, !.scoreTypes = @ \cup {v}])
  /\ Done(w, jobs)
  /\ UNCHANGED <<now, schemas, told, deleted, faults>>

\* Mutant: the next page is a job of its own, for which the last job does not wait
NextPageApart(j) == [j EXCEPT !.page = @ + 1, !.flow = 0]

\* createItemsJob: the next page is one more job of the flow
NextPage(j) == [j EXCEPT !.page = @ + 1]

\* Mutant: there is always a next page
MergeNamesOn(w) ==
  LET j == run[w].job IN
  /\ Fetched(w, "items")
  /\ jobs' = jobs \cup {NextPage(j)}
  /\ run' = [run EXCEPT ![w].step = "merged", ![w].names = saved[j.time].names]
  /\ UNCHANGED <<now, kept, faults>>

\* updateItems: the next page is added first, and the names that are known are read
MergeNames(w) ==
  LET j == run[w].job IN
  /\ Fetched(w, "items")
  /\ jobs' = IF j.page < LastPage THEN jobs \cup {NextPage(j)} ELSE jobs
  /\ run' = [run EXCEPT ![w].step = "merged", ![w].names = saved[j.time].names]
  /\ UNCHANGED <<now, kept, faults>>

UpdateItems(w) ==
  LET j == run[w].job  s == saved[j.time]  v == run[w].version IN
  /\ run[w].step = "merged"
  /\ Save(w, [s EXCEPT !.items[j.page] = @ \cup {v}, !.tempParts = @ \cup {v},
                       !.names = run[w].names \cup {j.page}])
  /\ Done(w, jobs)
  /\ UNCHANGED <<now, schemas, told, deleted, faults>>

UpdateProtoObjDefs(w) ==
  /\ Fetched(w, "proto_obj_defs")
  /\ Save(w, [saved[run[w].job.time] EXCEPT !.protoObjDefs = {0}])
  /\ Done(w, jobs)
  /\ UNCHANGED <<now, schemas, told, deleted, faults>>

UpdateItemsGame(w) ==
  LET s == saved[run[w].job.time]  v == run[w].version IN
  /\ Fetched(w, "items_game")
  /\ Save(w, [s EXCEPT !.itemsGame = @ \cup {v}, !.tempSpells = @ \cup {v}])
  /\ Done(w, jobs)
  /\ UNCHANGED <<now, schemas, told, deleted, faults>>

\* finishSpells and finishStrangeParts: what was kept aside is completed and saved for
\* good; when there is nothing aside, as in a second attempt, what is saved stays.
Finished(s) ==
  [s EXCEPT !.spells = @ \cup s.tempSpells, !.tempSpells = {},
            !.parts = IF s.scoreTypes = {} THEN @ ELSE @ \cup s.tempParts,
            !.tempParts = {}, !.scoreTypes = {}]

\* updateSchema: spells are completed from the overview file, which must be there
ListSchema(w) ==
  LET j == run[w].job  s == saved[j.time] IN
  /\ Fetched(w, "schema") /\ s.file
  /\ Save(w, Finished(s))
  /\ schemas' = [schemas EXCEPT ![j.time] = [version |-> j.version, consistent |-> j.version = run[w].version]]
  /\ run' = [run EXCEPT ![w].step = "listed"]
  /\ UNCHANGED <<now, jobs, told, deleted, faults>>

\* updateSchema: the schema is published, and updated again when Steam's has changed
PublishSchema(w) ==
  LET j == run[w].job IN
  /\ run[w].step = "listed"
  /\ told' = told \cup {j.time}
  /\ run' = [run EXCEPT ![w] = Idle]
  /\ IF j.version # run[w].version
       THEN CreateJobs("force", jobs \ {j}, jobs)
       ELSE jobs' = jobs \ {j} /\ UNCHANGED <<recent, clock, faults>>
  /\ UNCHANGED <<steam, flows, saved, schemas, deleted, extra>>

Works(w) ==
  \/ \E j \in jobs : Process(w, j)
  \/ UpdateUrl(w) \/ UpdateOverview(w) \/ MergeNames(w) \/ UpdateItems(w)
  \/ UpdateProtoObjDefs(w) \/ UpdateItemsGame(w) \/ ListSchema(w) \/ PublishSchema(w)

Next ==
  \/ \E v \in Version : BotSchema(v)
  \/ \E action \in {"default", "check", "force"} : RequestRefresh(action)
  \/ Elapse \/ Upgrade
  \/ \E t \in Time : DeleteSchema(t) \/ DeleteFiles(t)
  \/ \E w \in Worker : Works(w) \/ Fail(w)

\* Workers go on, time passes, and a bot that connects to the coordinator tells the url it
\* is given: as bots do this again and again, one comes when nothing else goes on.
Fairness ==
  /\ \A w \in Worker : WF_vars(Works(w))
  /\ WF_vars(Elapse)
  /\ WF_vars(BotSchema(steam))

Spec == Init /\ [][Next]_vars /\ Fairness

----
(* Properties *)

\* Whatever time is asked for, the schema that is looked up has all of its parts, and when
\* it says that it is consistent, all that came from Steam is of its version.
Whole ==
  \A time \in Time : Listed \ deleted # {} =>
    LET t == Closest(time)  s == saved[t]
        fromSteam == s.overview \cup s.itemsGame \cup s.spells \cup s.parts \cup UNION {s.items[p] : p \in Page}
    IN t \notin deleted =>
         /\ s.file /\ s.protoObjDefs # {} /\ s.names = Page
         /\ {} \notin {s.overview, s.itemsGame, s.spells, s.parts} \cup {s.items[p] : p \in Page}
         /\ schemas[t].consistent => fromSteam = {schemas[t].version}

UpToDate ==
  /\ Listed # {} /\ Max(Listed) \in told
  /\ schemas[Max(Listed)] = [version |-> steam, consistent |-> TRUE]

\* When Steam's schema stops changing and none is deleted, the newest schema is in the end
\* of its version, consistent, and published.
CaughtUp == <>[](deleted = {} => UpToDate)
===============================================================================

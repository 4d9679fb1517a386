------------------------------ MODULE GameQueue ------------------------------
(***************************************************************************)
(* The tasks that the bot does with the game coordinator of TF2            *)
(* (TF2Service): a queue with one worker.  When an item has come or gone   *)
(* the backpack is loaded again, by leaving the game and joining it again; *)
(* this is a task too, which is queued ten seconds after the last change.  *)
(***************************************************************************)
EXTENDS Naturals, Sequences, SequencesExt

CONSTANTS
  MaxTasks,   \* bound on the tasks that are asked for
  MaxFaults   \* bound on the sessions that are lost

TaskType == {"change", "sort", "refresh", "backpack"}   \* change: craft, use or delete

VARIABLES
  game,            \* whether Steam has the bot play TF2
  session,         \* haveGCSession
  backpack,        \* what is known of the backpack: nothing, that of an earlier session, or of this
  timer,           \* whether reconnectTimeout is set
  refreshQueued,
  manuallyDisconnectedFromGC,
  rejoin,          \* whether the bot is about to join again
  queue, task,     \* what is queued, and what the worker does
  tasks, faults

vars == <<game, session, backpack, timer, refreshQueued, manuallyDisconnectedFromGC, rejoin, queue, task,
          tasks, faults>>

NoTask == [type |-> "sort", step |-> "none"]
Waits == {"connecting", "loading", "event"}   \* steps that wait for an event of the coordinator

TypeOK ==
  /\ game \in {"in", "leaving", "out"} /\ session \in BOOLEAN /\ backpack \in {"none", "stale", "fresh"}
  /\ timer \in BOOLEAN /\ refreshQueued \in BOOLEAN /\ manuallyDisconnectedFromGC \in BOOLEAN
  /\ rejoin \in BOOLEAN /\ queue \in Seq(TaskType)
  /\ task \in [type : TaskType, step : {"none", "start", "backpack"} \cup Waits]
  /\ tasks \in 0..MaxTasks /\ faults \in 0..MaxFaults

Init ==
  /\ game = "in" /\ session = FALSE /\ backpack = "none"
  /\ timer = FALSE /\ refreshQueued = FALSE /\ manuallyDisconnectedFromGC = FALSE /\ rejoin = FALSE
  /\ queue = << >> /\ task = NoTask
  /\ tasks = 0 /\ faults = 0

Step(s) == task' = [task EXCEPT !.step = s]
Idle == task' = NoTask

connection == <<game, session, backpack, manuallyDisconnectedFromGC, rejoin>>
pending == <<timer, refreshQueued, queue>>

----
(* What is asked for *)

\* craft, useItem, deleteItem, sortBackpack and getBackpack; a backpack that is there is
\* given without a task
Push(type) ==
  /\ tasks < MaxTasks /\ tasks' = tasks + 1
  /\ type # "refresh" /\ (type = "backpack" => ~session \/ backpack = "none")
  /\ queue' = Append(queue, type)
  /\ UNCHANGED <<connection, timer, refreshQueued, task, faults>>

\* refreshInventory: itemAcquired, or itemRemoved, sets the timer
ItemChanged ==
  /\ session /\ tasks < MaxTasks /\ tasks' = tasks + 1
  /\ timer' = TRUE
  /\ UNCHANGED <<connection, refreshQueued, queue, task, faults>>

TimerFires ==
  /\ timer /\ timer' = FALSE
  /\ refreshQueued' = TRUE
  /\ queue' = IF refreshQueued THEN queue ELSE Append(queue, "refresh")
  /\ UNCHANGED <<connection, task, tasks, faults>>

----
(* process *)

Take ==
  /\ task = NoTask /\ queue # << >>
  /\ task' = [type |-> Head(queue), step |-> "start"] /\ queue' = Tail(queue)
  /\ UNCHANGED <<connection, timer, refreshQueued, tasks, faults>>

\* joinGame: a game that is being left is not left
JoinGame == game' = "in"

\* connectToGC, and for the task that loads the backpack, which listens before it
\* connects, also what follows it
ConnectToGC ==
  /\ task.step = "start"
  /\ IF task.type = "backpack"
     THEN IF session /\ backpack # "none" THEN Idle /\ UNCHANGED game
          ELSE Step("loading") /\ IF session THEN UNCHANGED game ELSE JoinGame
     ELSE IF session THEN Step("backpack") /\ UNCHANGED game ELSE Step("connecting") /\ JoinGame
  /\ UNCHANGED <<session, backpack, manuallyDisconnectedFromGC, rejoin, pending, tasks, faults>>

\* waitForBackpack, when there is none: connectToGC, which has returned if there is a session
AwaitBackpack == Step(IF session THEN "loading" ELSE "start")

\* processCraft and its like, which wait for the event of what they ask for; an item that
\* is not in the backpack ends the task
ProcessTask ==
  /\ task.step = "backpack" /\ task.type # "refresh"
  /\ IF backpack = "none" THEN AwaitBackpack
     ELSE Step("event") \/ (task.type = "change" /\ Idle)
  /\ UNCHANGED <<connection, pending, tasks, faults>>

ProcessRefresh ==
  /\ task.step = "backpack" /\ task.type = "refresh"
  /\ IF backpack = "none"
     THEN AwaitBackpack /\ UNCHANGED <<game, refreshQueued, manuallyDisconnectedFromGC>>
     ELSE /\ Step("event") /\ refreshQueued' = FALSE
          /\ manuallyDisconnectedFromGC' = TRUE
          /\ game' = IF game = "in" THEN "leaving" ELSE game
  /\ UNCHANGED <<session, backpack, rejoin, timer, queue, tasks, faults>>

\* the event of a task comes; that of a change is one of an item
Answered ==
  /\ task.step = "event" /\ task.type \in {"change", "sort"} /\ session
  /\ Idle
  /\ timer' = (timer \/ task.type = "change")
  /\ UNCHANGED <<connection, refreshQueued, queue, tasks, faults>>

\* Mutation: waiting for the backpack has no bound
TimesOutConnecting ==
  /\ task.step \in Waits \ {"loading"}
  /\ Idle
  /\ UNCHANGED <<connection, pending, tasks, faults>>

\* an event that a task waits for, of the connection or its own, does not come in time
TimesOut ==
  /\ task.step \in Waits
  /\ Idle
  /\ UNCHANGED <<connection, pending, tasks, faults>>

----
(* Steam and the coordinator *)

ConnectedToGC ==
  /\ game = "in" /\ ~session
  /\ session' = TRUE
  /\ IF task.step = "connecting" THEN Step("backpack") ELSE UNCHANGED task
  /\ UNCHANGED <<game, backpack, manuallyDisconnectedFromGC, rejoin, pending, tasks, faults>>

\* waitForBackpack and processBackpack go on, and so does a refresh
BackpackLoaded ==
  /\ session /\ backpack # "fresh"
  /\ backpack' = "fresh"
  /\ IF task.step = "loading" /\ task.type # "backpack" THEN Step("backpack")
     ELSE IF task.step = "loading" \/ (task.type = "refresh" /\ task.step = "event") THEN Idle
     ELSE UNCHANGED task
  /\ UNCHANGED <<game, session, manuallyDisconnectedFromGC, rejoin, pending, tasks, faults>>

\* disconnectedFromGC: whatever waits for an event fails
Disconnected ==
  /\ session' = FALSE
  /\ backpack' = IF backpack = "fresh" THEN "stale" ELSE backpack
  /\ IF session /\ task.step \in Waits THEN Idle ELSE UNCHANGED task

\* appQuit: if the bot left the game itself it joins again in a second
AppQuit ==
  /\ game = "leaving" /\ game' = "out"
  /\ Disconnected
  /\ manuallyDisconnectedFromGC' = FALSE
  /\ rejoin' = (rejoin \/ manuallyDisconnectedFromGC)
  /\ UNCHANGED <<pending, tasks, faults>>

Rejoin ==
  /\ rejoin /\ rejoin' = FALSE
  /\ JoinGame
  /\ UNCHANGED <<session, backpack, manuallyDisconnectedFromGC, pending, task, tasks, faults>>

\* the coordinator restarts
SessionLost ==
  /\ session /\ faults < MaxFaults /\ faults' = faults + 1
  /\ Disconnected
  /\ UNCHANGED <<game, manuallyDisconnectedFromGC, rejoin, pending, tasks>>

----
Process == Take \/ ConnectToGC \/ ProcessTask \/ ProcessRefresh \/ Answered
Steam == ConnectedToGC \/ BackpackLoaded \/ AppQuit

Next ==
  \/ \E type \in TaskType : Push(type)
  \/ ItemChanged \/ TimerFires \/ Process \/ TimesOut \/ Steam \/ Rejoin \/ SessionLost

Spec == Init /\ [][Next]_vars

\* the worker works, and does not wait for an event for more than ten seconds
Fairness == WF_vars(Process) /\ WF_vars(TimesOut)

FairSpec == Spec /\ Fairness

----
(* Every task comes to its end, and so does everything behind it in the    *)
(* queue, whatever becomes of the connection: there is nothing that the    *)
(* worker waits for without the bound of a time or of a disconnection.     *)
QueueMoves == queue # << >> \/ task # NoTask ~> queue = << >> /\ task = NoTask

Queued == \E n \in DOMAIN queue : queue[n] = "refresh"

\* However many items come and go, one refresh is queued at most, and only while
\* refreshQueued says so; so it is until the refresh leaves the game.
RefreshedOnce ==
  /\ \A m, n \in DOMAIN queue : queue[m] = "refresh" /\ queue[n] = "refresh" => m = n
  /\ Queued => refreshQueued
  /\ task.type = "refresh" /\ task.step # "event" => refreshQueued /\ ~Queued
===============================================================================

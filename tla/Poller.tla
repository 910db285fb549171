------------------------------- MODULE Poller -------------------------------
(***************************************************************************)
(* The life of the poller task: MonitorService.start and stop, called by   *)
(* the application's lifespan and by PUT /api/settings/app when it changes *)
(* monitor_enabled.  start has no await; stop cancels the task and then    *)
(* waits for it, and other requests run while it waits.                    *)
(***************************************************************************)
EXTENDS Naturals, FiniteSets

CONSTANTS
  Request,   \* the PUT requests that can be in progress at one time
  NoTask,
  MaxTasks,  \* bound: poller tasks created
  MaxPuts    \* bound: PUT requests and restarts

Task == 1 .. MaxTasks

ASSUME PollerAssumption ==
  /\ MaxTasks \in Nat \ {0} /\ MaxPuts \in Nat
  /\ NoTask \notin Task

VARIABLES
  setting,   \* the stored monitor_enabled
  task,      \* MonitorService._task
  state,     \* state[i]: what task i is doing
  waits,     \* waits[r]: the task that r's stop() waits for
  raced,     \* history: start() calls made while a stop() was waiting
  halfSaved, \* history: a PUT stored the setting and failed before the hook
  puts

vars == <<setting, task, state, waits, raced, halfSaved, puts>>

TypeOK ==
  /\ setting \in BOOLEAN
  /\ task \in Task \cup {NoTask}
  /\ state \in [Task -> {"unborn", "running", "cancelling", "done"}]
  /\ waits \in [Request -> Task \cup {NoTask}]
  /\ raced \in 0 .. MaxPuts
  /\ halfSaved \in BOOLEAN
  /\ puts \in 0 .. MaxPuts

Live == {i \in Task : state[i] \in {"running", "cancelling"}}
Running == {i \in Task : state[i] = "running"}
Unborn == {i \in Task : state[i] = "unborn"}
Idle == [r \in Request |-> NoTask]
Waiting == {r \in Request : waits[r] # NoTask}

(* is_running: what GET /api/monitor/status reports.                       *)
is_running == task \in Live

-----------------------------------------------------------------------------
(* A new task takes the place of a finished one, or of none.               *)
Spawn(st) ==
  \E i \in Unborn :
    /\ \A j \in Unborn : i <= j
    /\ task' = i
    /\ state' = [st EXCEPT ![i] = "running"]

(* start(), whose load of the database is modelled in Monitor.             *)
start ==
  \/ ~ is_running /\ Spawn(state)
  \/ is_running /\ UNCHANGED <<task, state>>

(* stop() up to its await, for request r.                                  *)
stop(r) ==
  \/ /\ is_running
     /\ state' = [state EXCEPT ![task] = "cancelling"]
     /\ waits' = [waits EXCEPT ![r] = task]
     /\ UNCHANGED task
  \/ /\ ~ is_running
     /\ task' = NoTask
     /\ UNCHANGED <<state, waits>>

(* The rest of stop(): whatever _task is by now, it is dropped.            *)
StopReturns(r) ==
  /\ waits[r] # NoTask /\ state[waits[r]] = "done"
  /\ task' = NoTask
  /\ waits' = [waits EXCEPT ![r] = NoTask]
  /\ UNCHANGED <<setting, state, raced, halfSaved, puts>>

(* A cancelled _run leaves its loop: CancelledError is raised at the await *)
(* it is in, and every handler on its way raises it again.                 *)
TaskEnds(i) ==
  /\ state[i] = "cancelling"
  /\ state' = [state EXCEPT ![i] = "done"]
  /\ UNCHANGED <<setting, task, waits, raced, halfSaved, puts>>

-----------------------------------------------------------------------------
(* PUT /api/settings/app.  The value is stored and compared with the old   *)
(* one in the same step; the hook runs when it changed.                    *)
SwitchOn(r) ==
  /\ puts < MaxPuts /\ puts' = puts + 1
  /\ waits[r] = NoTask /\ ~ setting
  /\ setting' = TRUE
  /\ start
  /\ raced' = IF Waiting = {} THEN raced ELSE raced + 1
  /\ UNCHANGED <<waits, halfSaved>>

(* Mutant of SwitchOff: the setting is only the state at the next boot.    *)
SwitchOffAtBoot(r) ==
  /\ puts < MaxPuts /\ puts' = puts + 1
  /\ waits[r] = NoTask /\ setting
  /\ setting' = FALSE
  /\ UNCHANGED <<task, state, waits, raced, halfSaved>>

SwitchOff(r) ==
  /\ puts < MaxPuts /\ puts' = puts + 1
  /\ waits[r] = NoTask /\ setting
  /\ setting' = FALSE
  /\ stop(r)
  /\ UNCHANGED <<raced, halfSaved>>

(* The options are stored one by one, monitor_enabled first: a failing     *)
(* write of a later one ends the request before the hook.                  *)
StoreFails ==
  /\ puts < MaxPuts /\ puts' = puts + 1
  /\ setting' = ~ setting
  /\ halfSaved' = TRUE
  /\ UNCHANGED <<task, state, waits, raced>>

(* The process goes, its tasks with it, and lifespan starts the poller if  *)
(* the setting says so.                                                    *)
Restart ==
  /\ puts < MaxPuts /\ puts' = puts + 1
  /\ LET gone == [i \in Task |-> IF i \in Live THEN "done" ELSE state[i]] IN
       \/ setting /\ Spawn(gone)
       \/ ~ setting /\ task' = NoTask /\ state' = gone
  /\ waits' = Idle /\ raced' = 0 /\ halfSaved' = FALSE
  /\ UNCHANGED setting

-----------------------------------------------------------------------------
Init ==
  /\ setting \in BOOLEAN
  /\ task = IF setting THEN 1 ELSE NoTask
  /\ state = [i \in Task |-> IF i = task THEN "running" ELSE "unborn"]
  /\ waits = Idle /\ raced = 0 /\ halfSaved = FALSE /\ puts = 0

LoopStep ==
  \/ \E r \in Request : StopReturns(r)
  \/ \E i \in Task : TaskEnds(i)

Next ==
  \/ \E r \in Request : SwitchOn(r) \/ SwitchOff(r)
  \/ StoreFails
  \/ Restart
  \/ LoopStep

Spec == Init /\ [][Next]_vars

-----------------------------------------------------------------------------
(* Properties.                                                             *)

Settled == Waiting = {} /\ Live = Running

(* Between requests the poller runs exactly if the setting says so, and it *)
(* is the one that _task knows: as long as no start() came while a stop()  *)
(* was waiting, and no PUT stopped half way.                               *)
SettingIsLive ==
  Settled /\ raced = 0 /\ ~ halfSaved =>
    Live = IF setting THEN {task} ELSE {}

(* Each start() during a stop() leaves at most one poller too many.        *)
StraysNeedRaces == Cardinality(Running) <= 1 + raced

(* What polls is accounted for: by the setting, or by the races.           *)
PollersAccounted == SettingIsLive /\ StraysNeedRaces

=============================================================================

-------------------------- MODULE DeliveriesProofs --------------------------
(***************************************************************************)
(* Proofs about Poller for any number of requests, tasks and restarts, and *)
(* about the watch over delivered servers that its tasks run (Deliveries); *)
(* and about Monitor, the stock poll of the same service, for any alerts,  *)
(* accounts and plans.                                                     *)
(***************************************************************************)
EXTENDS Deliveries, Monitor, FiniteSetTheorems, TLAPS

-----------------------------------------------------------------------------
(* Types.                                                                  *)

(* raced counts SwitchOn calls only, so it stays within its range.         *)
TypeInv == TypeOK /\ raced <= puts

LEMMA SpawnType ==
  ASSUME NEW st \in [Task -> {"unborn", "running", "cancelling", "done"}],
         Spawn(st)
  PROVE  /\ task' \in Task
         /\ state' \in [Task -> {"unborn", "running", "cancelling", "done"}]
BY DEF Spawn, Unborn

LEMMA TypeInductive ==
  ASSUME TypeInv, [Next]_vars
  PROVE  TypeInv'
<1>0. ASSUME task' \in Task \cup {NoTask},
             state' \in [Task -> {"unborn", "running", "cancelling", "done"}],
             waits' \in [Request -> Task \cup {NoTask}],
             setting' \in BOOLEAN, halfSaved' \in BOOLEAN,
             raced' \in 0 .. MaxPuts, puts' \in 0 .. MaxPuts, raced' <= puts'
      PROVE  TypeInv'
  BY <1>0 DEF TypeInv, TypeOK
<1>9. ASSUME puts < MaxPuts, puts' = puts + 1, raced' \in {0, raced}
       PROVE  raced' \in 0 .. MaxPuts /\ puts' \in 0 .. MaxPuts /\ raced' <= puts'
  BY <1>9, PollerAssumption DEF TypeInv, TypeOK
<1> USE PollerAssumption DEF TypeInv, TypeOK
<1>1. ASSUME start
      PROVE  /\ task' \in Task \cup {NoTask}
             /\ state' \in [Task -> {"unborn", "running", "cancelling", "done"}]
  BY <1>1, SpawnType DEF start
<1>2. ASSUME NEW r \in Request, SwitchOn(r)
      PROVE  TypeInv'
  BY <1>1, <1>2 DEF SwitchOn
<1>3. ASSUME NEW r \in Request, SwitchOff(r)
      PROVE  TypeInv'
  <2>1. /\ puts < MaxPuts /\ puts' = puts + 1 /\ setting' = FALSE
        /\ UNCHANGED <<raced, halfSaved>>
    BY <1>3 DEF SwitchOff
  <2>2. CASE is_running
    <3>1. task \in Task
      BY <2>2 DEF is_running, Live
    <3>2. /\ state' = [state EXCEPT ![task] = "cancelling"]
          /\ waits' = [waits EXCEPT ![r] = task]
          /\ task' = task
      BY <1>3, <2>2 DEF SwitchOff, stop
    <3>3. /\ state' \in [Task -> {"unborn", "running", "cancelling", "done"}]
          /\ waits' \in [Request -> Task \cup {NoTask}]
      BY <3>1, <3>2
    <3> QED
      BY ONLY <1>0, <1>9, <2>1, <3>1, <3>2, <3>3, TypeInv DEF TypeInv, TypeOK
  <2>3. CASE ~ is_running
    <3>1. task' = NoTask /\ UNCHANGED <<state, waits>>
      BY <1>3, <2>3 DEF SwitchOff, stop
    <3> QED
      BY ONLY <1>0, <1>9, <2>1, <3>1, TypeInv DEF TypeInv, TypeOK
  <2> QED
    BY <2>2, <2>3
<1>4. CASE StoreFails
  BY <1>4 DEF StoreFails
<1>5. CASE Restart
  <2> DEFINE gone == [i \in Task |-> IF i \in Live THEN "done" ELSE state[i]]
  <2>1. gone \in [Task -> {"unborn", "running", "cancelling", "done"}]
    OBVIOUS
  <2>2. Spawn(gone) \/ (task' = NoTask /\ state' = gone)
    BY <1>5 DEF Restart
  <2> HIDE DEF gone
  <2>3. /\ task' \in Task \cup {NoTask}
        /\ state' \in [Task -> {"unborn", "running", "cancelling", "done"}]
    BY <2>1, <2>2, SpawnType
  <2>4. /\ puts < MaxPuts /\ puts' = puts + 1
        /\ waits' = [r \in Request |-> NoTask]
        /\ raced' = 0 /\ halfSaved' = FALSE /\ setting' = setting
    BY <1>5 DEF Restart, Idle
  <2>5. waits' \in [Request -> Task \cup {NoTask}]
    BY <2>4
  <2> QED
    BY ONLY <1>0, <1>9, <2>3, <2>4, <2>5, TypeInv DEF TypeInv, TypeOK
<1>6. ASSUME NEW r \in Request, StopReturns(r)
      PROVE  TypeInv'
  BY <1>6 DEF StopReturns
<1>7. ASSUME NEW i \in Task, TaskEnds(i)
      PROVE  TypeInv'
  BY <1>7 DEF TaskEnds
<1>8. CASE UNCHANGED vars
  BY <1>8 DEF vars
<1> QED
  BY <1>2, <1>3, <1>4, <1>5, <1>6, <1>7, <1>8 DEF Next, LoopStep

LEMMA TypeInvariant == Spec => []TypeInv
<1>1. Init => TypeInv
  <2> SUFFICES ASSUME Init
               PROVE  TypeInv
    OBVIOUS
  <2> USE PollerAssumption
  <2>1. 1 \in Task
    BY DEF Task
  <2>2. /\ task \in Task \cup {NoTask}
        /\ state \in [Task -> {"unborn", "running", "cancelling", "done"}]
    BY <2>1 DEF Init
  <2>3. waits \in [Request -> Task \cup {NoTask}]
    BY DEF Init, Idle
  <2>4. raced = 0 /\ puts = 0 /\ halfSaved = FALSE /\ setting \in BOOLEAN
    BY ONLY Init DEF Init
  <2>5. 0 \in 0 .. MaxPuts /\ 0 <= 0
    OBVIOUS
  <2> QED
    BY ONLY <2>2, <2>3, <2>4, <2>5 DEF TypeInv, TypeOK
<1> QED
  BY <1>1, TypeInductive, PTL DEF Spec

(* Every variable keeps its type: a stop() waits for a task, never for     *)
(* anything else, and _task names a task or none.                          *)
THEOREM TypeCorrect == Spec => []TypeOK
<1>1. TypeInv => TypeOK
  BY DEF TypeInv
<1> QED
  BY <1>1, TypeInvariant, PTL

-----------------------------------------------------------------------------
(* The setting and the poller.                                             *)

(* While nothing raced: with the setting on, one task runs and nobody      *)
(* waits; with it off, nothing runs, and a task still live is the one that *)
(* some stop() waits for.                                                  *)
SettingInv ==
  raced = 0 /\ ~ halfSaved =>
    /\ setting  => Waiting = {} /\ task \in Running /\ Live = {task}
    /\ ~ setting => \A i \in Live :
         /\ state[i] = "cancelling" /\ i = task
         /\ Waiting # {}
         /\ \A r \in Waiting : waits[r] = i

(* A task is spawned where none was live: it is then the only live one.    *)
LEMMA SpawnAlone ==
  ASSUME NEW st \in [Task -> {"unborn", "running", "cancelling", "done"}],
         \A i \in Task : st[i] \notin {"running", "cancelling"},
         Spawn(st)
  PROVE  task' \in Running' /\ Live' = {task'}
BY DEF Spawn, Unborn, Running, Live

LEMMA SettingInductive ==
  ASSUME TypeInv, SettingInv, [Next]_vars
  PROVE  SettingInv'
<1> USE PollerAssumption DEF SettingInv
<1>0. /\ state \in [Task -> {"unborn", "running", "cancelling", "done"}]
      /\ waits \in [Request -> Task \cup {NoTask}]
      /\ setting \in BOOLEAN
      /\ raced \in Nat
  BY DEF TypeInv, TypeOK
<1>1. ASSUME NEW r \in Request, SwitchOn(r)
      PROVE  SettingInv'
  <2> SUFFICES ASSUME raced' = 0, ~ halfSaved'
               PROVE  Waiting' = {} /\ task' \in Running' /\ Live' = {task'}
    BY <1>1 DEF SwitchOn
  <2>1. Waiting = {} /\ raced = 0 /\ ~ halfSaved /\ ~ setting
    BY <1>0, <1>1 DEF SwitchOn
  <2>2. Live = {}
    BY <2>1
  <2>3. Spawn(state)
    BY <1>1, <2>2 DEF SwitchOn, start, is_running
  <2>4. task' \in Running' /\ Live' = {task'}
    BY <1>0, <2>2, <2>3, SpawnAlone DEF Live
  <2> QED
    BY <1>1, <2>1, <2>4 DEF SwitchOn, Waiting
<1>2. ASSUME NEW r \in Request, SwitchOff(r)
      PROVE  SettingInv'
  <2> SUFFICES ASSUME raced' = 0, ~ halfSaved', NEW i \in Live'
               PROVE  /\ state'[i] = "cancelling" /\ i = task'
                      /\ Waiting' # {}
                      /\ \A s \in Waiting' : waits'[s] = i
    BY <1>2 DEF SwitchOff
  <2>1. Waiting = {} /\ task \in Running /\ Live = {task}
    BY <1>2 DEF SwitchOff
  <2>2. /\ state' = [state EXCEPT ![task] = "cancelling"]
        /\ waits' = [waits EXCEPT ![r] = task]
        /\ task' = task
    BY <1>2, <2>1 DEF SwitchOff, stop, is_running
  <2>3. task \in Task /\ task # NoTask
    BY <2>1 DEF Running
  <2> QED
    BY <1>0, <2>1, <2>2, <2>3 DEF Live, Waiting
<1>3. CASE StoreFails
  BY <1>3 DEF StoreFails
<1>4. CASE Restart
  <2> DEFINE gone == [i \in Task |-> IF i \in Live THEN "done" ELSE state[i]]
  <2>1. gone \in [Task -> {"unborn", "running", "cancelling", "done"}]
    BY <1>0
  <2>2. \A i \in Task : gone[i] \notin {"running", "cancelling"}
    BY <1>0 DEF Live
  <2>3. \/ setting /\ Spawn(gone)
        \/ ~ setting /\ state' = gone
    BY <1>4 DEF Restart
  <2> HIDE DEF gone
  <2>4. Waiting' = {} /\ setting' = setting
    BY <1>4 DEF Restart, Waiting, Idle
  <2>5. CASE setting /\ Spawn(gone)
    BY <2>1, <2>2, <2>4, <2>5, SpawnAlone
  <2>6. CASE ~ setting /\ state' = gone
    <3>1. Live' = {}
      BY <2>2, <2>6 DEF Live
    <3> QED
      BY <2>4, <2>6, <3>1
  <2> QED
    BY <2>3, <2>5, <2>6
<1>5. ASSUME NEW r \in Request, StopReturns(r)
      PROVE  SettingInv'
  <2> SUFFICES ASSUME raced = 0, ~ halfSaved
               PROVE  SettingInv'
    BY <1>5 DEF StopReturns
  <2>1. r \in Waiting /\ state[waits[r]] = "done"
    BY <1>5 DEF StopReturns, Waiting
  <2>2. ~ setting /\ Live = {}
    BY <1>0, <2>1
  <2> QED
    BY <1>5, <2>2 DEF StopReturns, Live
<1>6. ASSUME NEW i \in Task, TaskEnds(i)
      PROVE  SettingInv'
  <2>1. /\ state' = [state EXCEPT ![i] = "done"] /\ i \notin Running
        /\ UNCHANGED <<setting, task, waits, raced, halfSaved>>
    BY <1>6 DEF TaskEnds, Running
  <2>2. Live' = Live \ {i} /\ Running' = Running /\ Waiting' = Waiting
    BY <1>0, <2>1 DEF Live, Running, Waiting
  <2>3. i \in Live
    BY <1>6 DEF TaskEnds, Live
  <2> QED
    BY <1>0, <2>1, <2>2, <2>3 DEF Live
<1>7. CASE UNCHANGED vars
  BY <1>7 DEF vars, Waiting, Running, Live
<1> QED
  BY <1>1, <1>2, <1>3, <1>4, <1>5, <1>6, <1>7 DEF Next, LoopStep

(* Between requests the poller is what the setting says, in every history  *)
(* without a start() during a stop() and without a half-saved PUT.         *)
THEOREM SettingStaysLive == Spec => []SettingIsLive
<1>1. Init => SettingInv
  BY PollerAssumption
  DEF Init, SettingInv, Waiting, Idle, Running, Live, Task
<1>2. TypeInv /\ SettingInv => SettingIsLive
  BY DEF SettingInv, SettingIsLive, Settled, Running, TypeInv, TypeOK
<1> QED
  BY <1>1, <1>2, SettingInductive, TypeInvariant, PTL DEF Spec

-----------------------------------------------------------------------------
(* Pollers too many.                                                       *)

(* Each start() during a stop() leaves at most one poller that _task does  *)
(* not name, or that the waiting stop() will make it forget.               *)
StraysInv ==
  /\ Cardinality(Running \ {task}) <= raced
  /\ task \in Running /\ Waiting # {} => Cardinality(Running) <= raced

LEMMA RunningFinite ==
  ASSUME NEW S \in SUBSET Task
  PROVE  IsFiniteSet(S) /\ Cardinality(S) \in Nat
<1>1. IsFiniteSet(Task)
  BY FS_Interval, PollerAssumption DEF Task
<1> QED
  BY <1>1, FS_Subset, FS_CardinalityType

(* The poller that _task names counts for one.                             *)
LEMMA OneMore ==
  Cardinality(Running) <= Cardinality(Running \ {task}) + 1
<1>1. Running \in SUBSET Task
  BY DEF Running
<1> QED
  BY <1>1, RunningFinite, FS_RemoveElement

LEMMA StraysInductive ==
  ASSUME TypeInv, StraysInv, [Next]_vars
  PROVE  StraysInv'
<1> USE PollerAssumption DEF StraysInv
<1>0. /\ state \in [Task -> {"unborn", "running", "cancelling", "done"}]
      /\ waits \in [Request -> Task \cup {NoTask}]
      /\ raced \in Nat
      /\ Running \in SUBSET Task
      /\ Cardinality(Running) \in Nat
      /\ Cardinality(Running \ {task}) \in Nat
  <2>1. Running \in SUBSET Task /\ Running \ {task} \in SUBSET Task
    BY DEF Running
  <2> QED
    BY <2>1, RunningFinite DEF TypeInv, TypeOK
<1>1. ASSUME UNCHANGED <<Running, task, raced>>, Waiting' \subseteq Waiting
      PROVE  StraysInv'
  BY <1>1
(* A task that starts polls, and the one _task named polls no more.        *)
<1>2. ASSUME NEW r \in Request, SwitchOn(r)
      PROVE  StraysInv'
  <2>1. Waiting' = Waiting
    BY <1>2 DEF SwitchOn, Waiting
  <2>2. \/ Waiting = {} /\ raced' = raced
        \/ raced' = raced + 1
    BY <1>2 DEF SwitchOn
  <2>3. CASE is_running
    <3>1. UNCHANGED <<task, Running>>
      BY <1>2, <2>3 DEF SwitchOn, start, Running
    <3> QED
      BY <1>0, <2>1, <2>2, <3>1, OneMore
  <2>4. CASE ~ is_running
    <3>1. Spawn(state)
      BY <1>2, <2>4 DEF SwitchOn, start
    <3>2. Running' = Running \cup {task'} /\ task' \notin Running
      BY <1>0, <3>1 DEF Spawn, Unborn, Running
    <3>3. task \notin Running
      BY <2>4 DEF is_running, Live, Running
    <3>4. Running' \ {task'} = Running /\ Running \ {task} = Running
      BY <3>2, <3>3
    <3>5. Cardinality(Running') = Cardinality(Running) + 1
      BY <1>0, <3>2, FS_AddElement, RunningFinite
    <3>6. Cardinality(Running) <= raced
      BY <3>4
    <3> QED
      BY <1>0, <2>1, <2>2, <3>4, <3>5, <3>6
  <2> QED
    BY <2>3, <2>4
<1>3. ASSUME NEW r \in Request, SwitchOff(r)
      PROVE  StraysInv'
  <2>1. raced' = raced
    BY <1>3 DEF SwitchOff
  <2>2. CASE is_running
    <3>1. /\ state' = [state EXCEPT ![task] = "cancelling"]
          /\ task' = task
      BY <1>3, <2>2 DEF SwitchOff, stop
    <3>2. Running' = Running \ {task}
      BY <1>0, <3>1 DEF Running
    <3>3. Running' \ {task'} = Running \ {task} /\ task' \notin Running'
      BY <3>1, <3>2
    <3> QED
      BY <2>1, <3>3
  <2>3. CASE ~ is_running
    <3>1. task' = NoTask /\ UNCHANGED state
      BY <1>3, <2>3 DEF SwitchOff, stop
    <3>2. Running' = Running /\ task \notin Running /\ task' \notin Running'
      BY <2>3, <3>1 DEF Running, is_running, Live
    <3>3. Running' \ {task'} = Running \ {task}
      BY <3>2
    <3> QED
      BY <2>1, <3>2, <3>3
  <2> QED
    BY <2>2, <2>3
<1>4. CASE StoreFails
  <2>1. UNCHANGED <<Running, Waiting, task, raced>>
    BY <1>4 DEF StoreFails, Running, Waiting
  <2> QED
    BY <1>1, <2>1
<1>5. CASE Restart
  <2>1. Waiting' = {} /\ raced' = 0
    BY <1>5 DEF Restart, Waiting, Idle
  <2>2. Running' \ {task'} = {}
    <3> DEFINE gone == [i \in Task |-> IF i \in Live THEN "done" ELSE state[i]]
    <3>1. gone \in [Task -> {"unborn", "running", "cancelling", "done"}]
      BY <1>0
    <3>2. \A i \in Task : gone[i] \notin {"running", "cancelling"}
      BY <1>0 DEF Live
    <3>3. Spawn(gone) \/ state' = gone
      BY <1>5 DEF Restart
    <3> HIDE DEF gone
    <3>4. CASE Spawn(gone)
      <4>1. Live' = {task'}
        BY <3>1, <3>2, <3>4, SpawnAlone
      <4> QED
        BY <4>1 DEF Live, Running
    <3>5. CASE state' = gone
      BY <3>2, <3>5 DEF Running
    <3> QED
      BY <3>3, <3>4, <3>5
  <2> QED
    BY <2>1, <2>2, FS_EmptySet
(* The stop() that returns forgets the poller it finds.                    *)
<1>6. ASSUME NEW r \in Request, StopReturns(r)
      PROVE  StraysInv'
  <2>1. /\ task' = NoTask /\ Running' = Running /\ raced' = raced
        /\ Waiting # {}
    BY <1>6 DEF StopReturns, Running, Waiting
  <2>2. task' \notin Running' /\ Running' \ {task'} = Running
    BY <1>0, <2>1
  <2>3. CASE task \in Running
    BY <2>1, <2>2, <2>3
  <2>4. CASE task \notin Running
    <3>1. Running \ {task} = Running
      BY <2>4
    <3> QED
      BY <2>1, <2>2, <3>1
  <2> QED
    BY <2>3, <2>4
<1>7. ASSUME NEW i \in Task, TaskEnds(i)
      PROVE  StraysInv'
  <2>1. UNCHANGED <<Running, Waiting, task, raced>>
    BY <1>0, <1>7 DEF TaskEnds, Running, Waiting
  <2> QED
    BY <1>1, <2>1
<1>8. CASE UNCHANGED vars
  <2>1. UNCHANGED <<Running, Waiting, task, raced>>
    BY <1>8 DEF vars, Running, Waiting
  <2> QED
    BY <1>1, <2>1
<1> QED
  BY <1>2, <1>3, <1>4, <1>5, <1>6, <1>7, <1>8 DEF Next, LoopStep

(* More than one poller at a time takes a start() during a stop(), and     *)
(* each of those accounts for at most one.                                 *)
THEOREM StraysCounted == Spec => []StraysNeedRaces
<1>1. Init => StraysInv
  <2> SUFFICES ASSUME Init
               PROVE  StraysInv
    OBVIOUS
  <2>1. Running \ {task} = {} /\ Waiting = {} /\ raced = 0
    BY DEF Init, Running, Waiting, Idle
  <2> QED
    BY <2>1, FS_EmptySet DEF StraysInv
<1>2. TypeInv /\ StraysInv => StraysNeedRaces
  <2> SUFFICES ASSUME TypeInv, StraysInv
               PROVE  StraysNeedRaces
    OBVIOUS
  <2>1. Running \in SUBSET Task /\ Running \ {task} \in SUBSET Task
    BY DEF Running
  <2>2. raced \in Nat /\ Cardinality(Running) \in Nat
        /\ Cardinality(Running \ {task}) \in Nat
    BY <2>1, RunningFinite DEF TypeInv, TypeOK
  <2> QED
    BY <2>2, OneMore DEF StraysInv, StraysNeedRaces
<1> QED
  BY <1>1, <1>2, StraysInductive, TypeInvariant, PTL DEF Spec

-----------------------------------------------------------------------------
(* Deliveries: whatever its tasks check, the poller lives as Poller says.  *)

LEMMA LifeStep == [DeliveriesNext]_allVars => [Next]_vars
<1>1. CASE UNCHANGED allVars
  BY <1>1 DEF allVars, lifeVars
<1>2. CASE DeliveriesNext
  BY <1>2 DEF DeliveriesNext, Reboot, Ends, Checks, Late, Next, LoopStep, lifeVars
<1> QED BY <1>1, <1>2

(* The poller of the composition, whose tasks run the watch, is the Poller *)
(* (start, stop and PUT /api/settings/app, monitor.py and settings.py).    *)
THEOREM DeliveriesImplementPoller == DeliveriesSpec => Spec
<1>1. DeliveriesInit => Init
  BY DEF DeliveriesInit
<1> QED BY <1>1, LifeStep, PTL DEF DeliveriesSpec, Spec

(* The poller whose tasks run the watch is what the setting says, under    *)
(* the same conditions.                                                    *)
THEOREM DeliveriesSettingLive == DeliveriesSpec => []SettingIsLive
BY DeliveriesImplementPoller, SettingStaysLive, PTL

(* There are no more of them than one and the races.                       *)
THEOREM DeliveriesStrays == DeliveriesSpec => []StraysNeedRaces
BY DeliveriesImplementPoller, StraysCounted, PTL

(* Both together, of the composition: whatever its tasks check, no poller  *)
(* runs that neither the setting nor a start() during a stop() explains.   *)
THEOREM PollersCounted == DeliveriesSpec => []PollersAccounted
<1>1. SettingIsLive /\ StraysNeedRaces => PollersAccounted
  BY DEF PollersAccounted
<1> QED BY <1>1, DeliveriesSettingLive, DeliveriesStrays, PTL

-----------------------------------------------------------------------------
(* The types of the watch.                                                 *)

WatchStep ==
  \/ \E i \in Task : Watch!Step(i) \/ Watch!Cancelled(i) \/ Watch!LateWrite(i)
  \/ Watch!Crash \/ Surroundings
  \/ UNCHANGED watchVars

LEMMA WatchSteps == [DeliveriesNext]_allVars => WatchStep
<1>1. CASE UNCHANGED allVars
  BY <1>1 DEF allVars, WatchStep
<1>2. CASE DeliveriesNext
  BY <1>2, Zenon DEF DeliveriesNext, Reboot, Ends, Checks, Late, WatchStep
<1> QED BY <1>1, <1>2

Histories == [appeared : [Server -> Nat], announced : [Server -> Nat],
              told : SUBSET Server, based : BOOLEAN, lost : SUBSET Server,
              overlap : BOOLEAN]

CheckOK == check \in [Task -> Watch!Check]
DataOK  == /\ owned \subseteq Server /\ rows \subseteq Server
           /\ marker \in BOOLEAN /\ enabled \in BOOLEAN /\ due \in BOOLEAN

LEMMA WatchParts ==
  /\ Watch!TypeOK <=> DataOK /\ CheckOK /\ hist \in Histories /\ moves \in 0 .. MaxMoves
  /\ Watch!TypeOK' <=> DataOK' /\ CheckOK' /\ hist' \in Histories /\ moves' \in 0 .. MaxMoves
BY DEF Watch!TypeOK, CheckOK, DataOK, Histories

Pcs == {"idle", "list", "load", "marker", "primeRows", "primeMarker", "apply", "publish"}

(* A check that goes on, or ends, and the others.                          *)
LEMMA Goes ==
  ASSUME CheckOK, NEW i \in Task, NEW pc \in Pcs, Watch!Goto(i, pc)
  PROVE  /\ CheckOK'
         /\ check'[i].pc = pc /\ check'[i].current = check[i].current
         /\ check'[i].snapshot = check[i].snapshot
         /\ \A j \in Task \ {i} : check'[j] = check[j]
<1> DEFINE c == [check[i] EXCEPT !.pc = pc]
<1>1. check[i] \in Watch!Check
  BY DEF CheckOK
<1>2. /\ c \in Watch!Check /\ c.pc = pc /\ c.current = check[i].current
      /\ c.snapshot = check[i].snapshot
  BY <1>1 DEF Watch!Check, Pcs
<1>3. check' = [check EXCEPT ![i] = c]
  BY DEF Watch!Goto
<1> HIDE DEF c
<1> QED BY <1>2, <1>3 DEF CheckOK

LEMMA Stops ==
  ASSUME CheckOK, NEW i \in Task, Watch!Over(i)
  PROVE  /\ CheckOK' /\ check'[i].pc = "idle"
         /\ \A j \in Task \ {i} : check'[j] = check[j]
<1>1. Watch!Idle \in Watch!Check /\ Watch!Idle.pc = "idle"
  BY DEF Watch!Idle, Watch!Check
<1> QED BY <1>1 DEF Watch!Over, CheckOK

LEMMA DiffType ==
  ASSUME CheckOK, NEW i \in Task
  PROVE  /\ Watch!Added(i) = check[i].current \ check[i].snapshot
         /\ Watch!Added(i) \subseteq Server /\ Watch!Removed(i) \subseteq Server
         /\ check[i].current \subseteq Server /\ check[i].snapshot \subseteq Server
BY DEF CheckOK, Watch!Check, Watch!Added, Watch!Removed

(* What a write leaves in the database.                                    *)
LEMMA Writ ==
  ASSUME CheckOK, DataOK, NEW i \in Task, Watch!Writing(i),
         rows' = Watch!Written(i).rows, marker' = Watch!Written(i).marker
  PROVE  /\ rows' \subseteq Server /\ marker' \in BOOLEAN
         /\ check[i].pc = "primeRows" => marker' = marker
                                         /\ rows' = rows \cup check[i].current
         /\ check[i].pc = "primeMarker" => marker' = TRUE /\ rows' = rows
         /\ check[i].pc = "apply" => marker' = marker
                /\ rows' = (rows \cup (check[i].current \ check[i].snapshot))
                             \ (check[i].snapshot \ check[i].current)
<1>1. /\ rows' = IF check[i].pc = "primeRows" THEN rows \cup check[i].current
                 ELSE IF check[i].pc = "apply"
                      THEN (rows \cup (check[i].current \ check[i].snapshot))
                             \ (check[i].snapshot \ check[i].current)
                      ELSE rows
      /\ marker' = IF check[i].pc = "primeMarker" THEN TRUE ELSE marker
  BY DEF Watch!Written, Watch!At, Watch!apply_server_diff, Watch!Added, Watch!Removed
<1> QED BY <1>1, DiffType DEF DataOK

(* A history that has only more to be lost.                                *)
Same(h) == /\ h \in Histories /\ h.announced = hist.announced
           /\ h.appeared = hist.appeared /\ h.overlap = hist.overlap

LEMMA LostType ==
  ASSUME CheckOK, hist \in Histories, NEW i \in Task
  PROVE  /\ Same(hist) /\ Same(Watch!Based(i))
         /\ Same([Watch!Based(i) EXCEPT !.lost =
                    IF Watch!At(i, "apply") THEN @ \cup Watch!Added(i) ELSE @])
         /\ Same([hist EXCEPT !.lost = @ \cup Watch!Added(i)])
<1>1. Same(hist)
  BY DEF Same
<1>2. check[i].current \ rows \subseteq Server /\ Watch!Added(i) \subseteq Server
  BY DiffType
<1>3. Same(Watch!Based(i))
  BY <1>2 DEF Watch!Based, Same, Histories
<1>4. ASSUME NEW h, Same(h), NEW X \in SUBSET Server
      PROVE  Same([h EXCEPT !.lost = @ \cup X]) /\ Same([h EXCEPT !.lost = @])
  BY <1>4 DEF Same, Histories
<1> QED BY <1>1, <1>2, <1>3, <1>4

-----------------------------------------------------------------------------
(* Nothing is announced that was not delivered.  While one check is at     *)
(* work at a time, a server that OVH lists and the rows do not, or that    *)
(* the check has not seen, was announced less often than it came.          *)
Behind(s) == hist.announced[s] < hist.appeared[s]

Held(i) ==
  LET c == check[i] IN
  /\ c.pc \notin {"idle", "list"} => \A s \in owned \ c.current : Behind(s)
  /\ c.pc \in {"marker", "apply"} => c.snapshot = rows
  /\ c.pc \in {"load", "marker", "apply"} /\ marker = TRUE
       => \A s \in c.current \ rows : Behind(s)
  /\ c.pc = "primeMarker" => c.current \subseteq rows
  /\ c.pc \in {"apply", "publish"} => marker = TRUE
  /\ c.pc = "publish" => /\ c.current = rows
                         /\ \A s \in c.current \ c.snapshot : Behind(s)

Alone ==
  /\ \A i, j \in Task : check[i].pc # "idle" /\ check[j].pc # "idle" => i = j
  /\ \A s \in Server : hist.announced[s] <= hist.appeared[s]
  /\ marker = TRUE => \A s \in owned \ rows : Behind(s)
  /\ \A i \in Task : Held(i)

AnnInv == Watch!TypeOK /\ (hist.overlap = FALSE => Alone)

LEMMA AnnInit == DeliveriesInit => AnnInv
<1> SUFFICES ASSUME DeliveriesInit PROVE AnnInv
  OBVIOUS
<1>0. Watch!Init
  BY DEF DeliveriesInit
<1>1. Watch!Idle \in Watch!Check /\ \A i \in Task : check[i].pc = "idle"
  BY <1>0 DEF Watch!Init, Watch!Idle, Watch!Check
<1>2. CheckOK /\ DataOK /\ hist \in Histories /\ moves \in 0 .. MaxMoves
  <2>1. CheckOK
    BY <1>0, <1>1 DEF Watch!Init, CheckOK
  <2>2. DataOK
    BY <1>0 DEF Watch!Init, DataOK
  <2>3. hist \in Histories
    BY <1>0 DEF Watch!Init, Histories
  <2>4. moves \in 0 .. MaxMoves
    BY <1>0, DeliveriesAssumption DEF Watch!Init
  <2> QED BY <2>1, <2>2, <2>3, <2>4
<1>3. Alone
  BY <1>0, <1>1 DEF Watch!Init, Alone, Held
<1> QED BY <1>2, <1>3, WatchParts DEF AnnInv

LEMMA MovesType ==
  ASSUME moves \in 0 .. MaxMoves, Watch!Move \/ Watch!Still \/ moves' = moves
  PROVE  moves' \in 0 .. MaxMoves
BY DeliveriesAssumption DEF Watch!Move, Watch!Still

(* What goes on around the checks.                                         *)
LEMMA AnnAround ==
  ASSUME AnnInv, Surroundings \/ UNCHANGED watchVars PROVE AnnInv'
<1>t. CheckOK /\ DataOK /\ hist \in Histories /\ moves \in 0 .. MaxMoves
  BY WatchParts DEF AnnInv
<1>n. \A s \in Server : hist.announced[s] \in Nat /\ hist.appeared[s] \in Nat
  BY <1>t DEF Histories
<1>1. ASSUME NEW s \in Server, Watch!Delivered(s) PROVE AnnInv'
  <2>1. /\ owned' = owned \cup {s} /\ UNCHANGED <<rows, marker, enabled, due, check>>
        /\ moves' \in 0 .. MaxMoves
    BY <1>t, <1>1, MovesType DEF Watch!Delivered
  <2>2. /\ hist' \in Histories /\ hist'.overlap = hist.overlap
        /\ hist'.announced = hist.announced
        /\ hist'.appeared[s] = hist.appeared[s] + 1
        /\ \A x \in Server \ {s} : hist'.appeared[x] = hist.appeared[x]
    <3>1. hist' = [hist EXCEPT !.appeared = [hist.appeared EXCEPT ![s] = @ + 1],
                               !.told = @ \ {s},
                               !.lost = IF s \in rows THEN @ \cup {s} ELSE @ \ {s}]
      BY <1>t, <1>1 DEF Watch!Delivered, Histories
    <3>2. [hist.appeared EXCEPT ![s] = @ + 1] \in [Server -> Nat]
      BY <1>t DEF Histories
    <3> QED BY <1>t, <3>1, <3>2 DEF Histories
  <2>3. \A x \in Server :
          /\ Behind(x) => Behind(x)'
          /\ (hist.announced[x] <= hist.appeared[x])
               => (hist'.announced[x] <= hist'.appeared[x])
    BY <1>n, <2>2 DEF Behind
  <2>4. ASSUME Alone PROVE Alone'
    <3>1. Behind(s)'
      BY <1>n, <2>2, <2>4 DEF Alone, Behind
    <3>2. ASSUME NEW i \in Task PROVE Held(i)'
      <4>1. Held(i) /\ check[i].current \subseteq Server /\ owned \subseteq Server
        BY <1>t, <2>4, DiffType DEF Alone, DataOK
      <4>2. check' = check /\ rows' = rows /\ marker' = marker
        BY <2>1
      <4> QED BY <2>1, <2>3, <3>1, <4>1, <4>2 DEF Held
    <3>3. \A x \in owned' \ rows' : x = s \/ (x \in owned \ rows /\ x \in Server)
      BY <1>t, <2>1 DEF DataOK
    <3> QED BY <2>1, <2>2, <2>3, <2>4, <3>1, <3>2, <3>3 DEF Alone
  <2>5. CheckOK' /\ DataOK'
    BY <1>t, <2>1 DEF CheckOK, DataOK
  <2> QED BY <2>1, <2>2, <2>4, <2>5, WatchParts DEF AnnInv
<1>2. ASSUME NEW s \in Server, Watch!Terminated(s) PROVE AnnInv'
  <2>1. /\ owned' = owned \ {s} /\ UNCHANGED <<rows, marker, enabled, due, check, hist>>
        /\ moves' \in 0 .. MaxMoves
    BY <1>t, <1>2, MovesType DEF Watch!Terminated
  <2>2. ASSUME Alone PROVE Alone'
    BY <2>1, <2>2 DEF Alone, Held, Behind
  <2>3. CheckOK' /\ DataOK'
    BY <1>t, <2>1 DEF CheckOK, DataOK
  <2> QED BY <1>t, <2>1, <2>2, <2>3, WatchParts DEF AnnInv
<1>3. CASE Watch!Switch \/ Watch!IntervalPasses \/ UNCHANGED watchVars
  <2>1. UNCHANGED <<owned, rows, marker, check, hist>>
    BY <1>3 DEF Watch!Switch, Watch!IntervalPasses, watchVars
  <2>2. enabled' \in BOOLEAN /\ due' \in BOOLEAN /\ moves' \in 0 .. MaxMoves
    BY <1>3, <1>t, MovesType
       DEF Watch!Switch, Watch!IntervalPasses, watchVars, DataOK
  <2>3. ASSUME Alone PROVE Alone'
    BY <2>1, <2>3 DEF Alone, Held, Behind
  <2>4. CheckOK' /\ DataOK'
    BY <1>t, <2>1, <2>2 DEF CheckOK, DataOK
  <2> QED BY <1>t, <2>1, <2>2, <2>3, <2>4, WatchParts DEF AnnInv
<1> QED BY <1>1, <1>2, <1>3 DEF Surroundings

(* A check that starts, or reads.                                          *)
LEMMA AnnReads ==
  ASSUME AnnInv, NEW i \in Task,
         Watch!Starts(i) \/ Watch!List(i) \/ Watch!load_owned_servers(i) \/ Watch!AsksMarker(i)
  PROVE  AnnInv'
<1>t. CheckOK /\ DataOK /\ hist \in Histories /\ moves \in 0 .. MaxMoves
  BY WatchParts DEF AnnInv
<1>m. moves' \in 0 .. MaxMoves /\ UNCHANGED <<owned, rows, marker, enabled>>
      /\ due' \in BOOLEAN
  BY <1>t, MovesType DEF Watch!Starts, Watch!List, Watch!load_owned_servers,
                         Watch!AsksMarker, DataOK
<1>d. DataOK'
  BY <1>t, <1>m DEF DataOK
<1>1. CASE Watch!Starts(i)
  <2>1. /\ check[i].pc = "idle" /\ CheckOK' /\ check'[i].pc = "list"
        /\ \A j \in Task \ {i} : check'[j] = check[j]
    BY <1>t, <1>1, Goes DEF Watch!Starts, Watch!At, Pcs
  <2>2. /\ hist' \in Histories /\ hist'.announced = hist.announced
        /\ hist'.appeared = hist.appeared
        /\ hist'.overlap = FALSE =>
             hist.overlap = FALSE /\ \A j \in Task : check[j].pc = "idle"
    <3>1. hist' = [hist EXCEPT !.overlap = IF \E j \in Task : ~ (check[j].pc = "idle")
                                           THEN TRUE ELSE @]
      BY <1>1 DEF Watch!Starts, Watch!At
    <3>2. CASE \E j \in Task : ~ (check[j].pc = "idle")
      BY <1>t, <3>1, <3>2 DEF Histories
    <3>3. CASE ~ \E j \in Task : ~ (check[j].pc = "idle")
      BY <1>t, <3>1, <3>3 DEF Histories
    <3> QED BY <3>2, <3>3
  <2>3. ASSUME Alone, \A j \in Task : check[j].pc = "idle" PROVE Alone'
    BY <1>m, <2>1, <2>2, <2>3 DEF Alone, Held, Behind
  <2> QED BY <1>m, <1>d, <2>1, <2>2, <2>3, WatchParts DEF AnnInv
<1>2. CASE Watch!List(i)
  <2>1. /\ check[i].pc = "list" /\ hist' = hist
        /\ check' = [check EXCEPT ![i] = [check[i] EXCEPT !.pc = "load", !.current = owned]]
    BY <1>t, <1>2 DEF Watch!List, Watch!At, CheckOK
  <2>2. /\ CheckOK' /\ check'[i].pc = "load" /\ check'[i].current = owned
        /\ \A j \in Task \ {i} : check'[j] = check[j]
    <3> DEFINE c == [check[i] EXCEPT !.pc = "load", !.current = owned]
    <3>1. c \in Watch!Check /\ c.pc = "load" /\ c.current = owned
      BY <1>t DEF CheckOK, DataOK, Watch!Check
    <3> HIDE DEF c
    <3> QED BY <1>t, <2>1, <3>1 DEF CheckOK, c
  <2>3. ASSUME Alone PROVE Alone'
    BY <1>m, <2>1, <2>2, <2>3 DEF Alone, Held, Behind
  <2> QED BY <1>t, <1>m, <1>d, <2>1, <2>2, <2>3, WatchParts DEF AnnInv
<1>3. CASE Watch!load_owned_servers(i)
  <2>1. /\ check[i].pc = "load" /\ hist' = hist
        /\ check' = [check EXCEPT ![i] = [check[i] EXCEPT !.pc = "marker", !.snapshot = rows]]
    BY <1>t, <1>3 DEF Watch!load_owned_servers, Watch!At, CheckOK
  <2>2. /\ CheckOK' /\ check'[i].pc = "marker" /\ check'[i].snapshot = rows
        /\ check'[i].current = check[i].current
        /\ \A j \in Task \ {i} : check'[j] = check[j]
    <3> DEFINE c == [check[i] EXCEPT !.pc = "marker", !.snapshot = rows]
    <3>1. c \in Watch!Check /\ c.pc = "marker" /\ c.snapshot = rows
          /\ c.current = check[i].current
      BY <1>t DEF CheckOK, DataOK, Watch!Check
    <3> HIDE DEF c
    <3> QED BY <1>t, <2>1, <3>1 DEF CheckOK, c
  <2>3. ASSUME Alone PROVE Alone'
    BY <1>m, <2>1, <2>2, <2>3 DEF Alone, Held, Behind
  <2> QED BY <1>t, <1>m, <1>d, <2>1, <2>2, <2>3, WatchParts DEF AnnInv
<1>4. CASE Watch!AsksMarker(i)
  <2>1. check[i].pc = "marker" /\ hist' = hist
    BY <1>4 DEF Watch!AsksMarker, Watch!At
  <2>2. /\ CheckOK' /\ check'[i].pc \in {"idle", "primeRows", "apply"}
        /\ check'[i].pc # "idle" => /\ check'[i].current = check[i].current
                                    /\ check'[i].snapshot = check[i].snapshot
        /\ check'[i].pc = "apply" => marker = TRUE
        /\ \A j \in Task \ {i} : check'[j] = check[j]
    <3>1. CASE ~ marker /\ Watch!Goto(i, "primeRows")
      BY <1>t, <3>1, Goes DEF Pcs
    <3>2. CASE marker /\ Watch!Goto(i, "apply")
      BY <1>t, <3>2, Goes DEF Pcs, DataOK
    <3>3. CASE Watch!Over(i)
      BY <1>t, <3>3, Stops
    <3> QED BY <1>4, <3>1, <3>2, <3>3 DEF Watch!AsksMarker
  <2>3. ASSUME Alone PROVE Alone'
    <3>1. ASSUME NEW j \in Task PROVE Held(j)'
      BY <1>m, <2>1, <2>2, <2>3 DEF Alone, Held, Behind
    <3> QED BY <1>m, <2>1, <2>2, <2>3, <3>1 DEF Alone, Behind
  <2> QED BY <1>t, <1>m, <1>d, <2>1, <2>2, <2>3, WatchParts DEF AnnInv
<1> QED BY <1>1, <1>2, <1>3, <1>4

(* A write, after which the check goes on or is over.                      *)
LEMMA AnnWrite ==
  ASSUME AnnInv, NEW i \in Task, Watch!Writing(i),
         rows' = Watch!Written(i).rows, marker' = Watch!Written(i).marker,
         Same(hist'), UNCHANGED <<owned, enabled, due>>, moves' \in 0 .. MaxMoves,
         \/ check[i].pc = "primeRows" /\ Watch!Goto(i, "primeMarker")
         \/ check[i].pc = "apply" /\ Watch!Goto(i, "publish")
         \/ Watch!Over(i)
  PROVE  AnnInv'
<1>t. CheckOK /\ DataOK /\ hist \in Histories
  BY WatchParts DEF AnnInv
<1>h. /\ hist' \in Histories /\ hist'.announced = hist.announced
      /\ hist'.appeared = hist.appeared /\ hist'.overlap = hist.overlap
  BY DEF Same
<1>1. /\ rows' \subseteq Server /\ marker' \in BOOLEAN
      /\ check[i].pc = "primeRows" => marker' = marker
                                      /\ rows' = rows \cup check[i].current
      /\ check[i].pc = "primeMarker" => marker' = TRUE /\ rows' = rows
      /\ check[i].pc = "apply" => marker' = marker
             /\ rows' = (rows \cup (check[i].current \ check[i].snapshot))
                          \ (check[i].snapshot \ check[i].current)
  BY <1>t, Writ
<1>2. check[i].pc \in {"primeRows", "primeMarker", "apply"}
  BY DEF Watch!Writing
<1>3. /\ CheckOK'
      /\ \/ check'[i].pc = "idle"
         \/ /\ check[i].pc = "primeRows" /\ check'[i].pc = "primeMarker"
            /\ check'[i].current = check[i].current
         \/ /\ check[i].pc = "apply" /\ check'[i].pc = "publish"
            /\ check'[i].current = check[i].current
            /\ check'[i].snapshot = check[i].snapshot
      /\ \A j \in Task \ {i} : check'[j] = check[j]
  BY <1>t, Goes, Stops DEF Pcs
<1>4. DataOK'
  BY <1>t, <1>1 DEF DataOK
<1>5. ASSUME Alone PROVE Alone'
  <2>1. \A j \in Task \ {i} : check'[j].pc = "idle"
    BY <1>2, <1>3, <1>5 DEF Alone
  <2>2. \A s \in Server : Behind(s)' <=> Behind(s)
    BY <1>h DEF Behind
  <2>3. Held(i) /\ check[i].current \subseteq Server /\ owned \subseteq Server
    BY <1>t, <1>5, DiffType DEF Alone, DataOK
  <2>4. marker' = TRUE => \A s \in owned \ rows' : Behind(s)
    <3>1. CASE check[i].pc = "primeRows"
      BY <1>1, <1>5, <3>1 DEF Alone
    <3>2. CASE check[i].pc = "primeMarker"
      BY <1>1, <2>3, <3>2 DEF Held
    <3>3. CASE check[i].pc = "apply"
      <4>1. rows' = check[i].current
        BY <1>1, <2>3, <3>3 DEF Held
      <4> QED BY <2>3, <3>3, <4>1 DEF Held
    <3> QED BY <1>2, <3>1, <3>2, <3>3
  <2>5. Held(i)'
    <3>1. CASE check'[i].pc = "idle"
      BY <3>1 DEF Held
    <3>2. CASE check[i].pc = "primeRows" /\ check'[i].pc = "primeMarker"
               /\ check'[i].current = check[i].current
      BY <1>1, <2>2, <2>3, <3>2 DEF Held
    <3>3. CASE check[i].pc = "apply" /\ check'[i].pc = "publish"
               /\ check'[i].current = check[i].current
               /\ check'[i].snapshot = check[i].snapshot
      <4>1. rows' = check[i].current /\ marker' = TRUE
        BY <1>1, <2>3, <3>3 DEF Held
      <4>2. \A s \in check[i].current \ check[i].snapshot : Behind(s)
        BY <2>3, <3>3 DEF Held
      <4>3. \A s \in owned \ check[i].current : Behind(s)
        BY <2>3, <3>3 DEF Held
      <4> QED BY <2>2, <2>3, <3>3, <4>1, <4>2, <4>3 DEF Held
    <3> QED BY <1>3, <3>1, <3>2, <3>3
  <2>6. \A j \in Task : Held(j)'
    BY <2>1, <2>5 DEF Held
  <2> QED BY <1>t, <1>h, <1>5, <2>1, <2>2, <2>3, <2>4, <2>6 DEF Alone
<1> QED BY <1>h, <1>3, <1>4, <1>5, WatchParts DEF AnnInv

(* A check that ends with nothing written, and nothing announced.          *)
LEMMA AnnEnds ==
  ASSUME AnnInv, NEW i \in Task, Watch!Over(i) \/ UNCHANGED check,
         Same(hist'), UNCHANGED <<owned, rows, marker, enabled, due>>,
         moves' \in 0 .. MaxMoves
  PROVE  AnnInv'
<1>t. CheckOK /\ DataOK /\ hist \in Histories
  BY WatchParts DEF AnnInv
<1>h. /\ hist' \in Histories /\ hist'.announced = hist.announced
      /\ hist'.appeared = hist.appeared /\ hist'.overlap = hist.overlap
  BY DEF Same
<1>1. /\ CheckOK' /\ \A j \in Task : check'[j] = check[j] \/ check'[j].pc = "idle"
  BY <1>t, Stops DEF CheckOK
<1>2. ASSUME Alone PROVE Alone'
  <2>1. ASSUME NEW j \in Task PROVE Held(j)'
    BY <1>h, <1>1, <1>2 DEF Alone, Held, Behind
  <2> QED BY <1>h, <1>1, <1>2, <2>1 DEF Alone, Behind
<1>3. DataOK'
  BY <1>t DEF DataOK
<1> QED BY <1>h, <1>1, <1>2, <1>3, WatchParts DEF AnnInv

LEMMA AnnPublishes ==
  ASSUME AnnInv, NEW i \in Task, Watch!Publishes(i) PROVE AnnInv'
<1>t. CheckOK /\ DataOK /\ hist \in Histories /\ moves \in 0 .. MaxMoves
  BY WatchParts DEF AnnInv
<1>n. \A s \in Server : hist.announced[s] \in Nat /\ hist.appeared[s] \in Nat
  BY <1>t DEF Histories
<1> DEFINE more == [s \in Server |-> IF s \in Watch!Added(i) THEN hist.announced[s] + 1
                                     ELSE hist.announced[s]]
<1>1. /\ check[i].pc = "publish" /\ Watch!Over(i)
      /\ hist' = [hist EXCEPT !.told = @ \cup Watch!Added(i), !.announced = more]
      /\ UNCHANGED <<owned, rows, marker, enabled, due>> /\ moves' \in 0 .. MaxMoves
  BY <1>t, MovesType DEF Watch!Publishes, Watch!At
<1>2. /\ CheckOK' /\ check'[i].pc = "idle"
      /\ \A j \in Task \ {i} : check'[j] = check[j]
  BY <1>t, <1>1, Stops
<1>3. more \in [Server -> Nat]
  BY <1>n
<1>4. /\ hist' \in Histories /\ hist'.announced = more
      /\ hist'.appeared = hist.appeared /\ hist'.overlap = hist.overlap
  BY <1>t, <1>1, <1>3, DiffType DEF Histories
<1>5. ASSUME Alone PROVE Alone'
  <2>1. \A j \in Task : check'[j].pc = "idle"
    BY <1>1, <1>2, <1>5 DEF Alone
  <2>2. /\ check[i].current = rows
        /\ \A s \in Watch!Added(i) : Behind(s) /\ s \in rows
    BY <1>t, <1>1, <1>5, DiffType DEF Alone, Held
  <2>3. \A s \in Server : more[s] <= hist.appeared[s]
    BY <1>n, <1>5, <2>2 DEF Alone, Behind
  <2>4. \A s \in owned \ rows : more[s] = hist.announced[s]
    BY <1>t, <2>2 DEF DataOK
  <2>5. \A j \in Task : Held(j)'
    BY <2>1 DEF Held
  <2> HIDE DEF more
  <2> QED BY <1>1, <1>4, <1>5, <2>1, <2>3, <2>4, <2>5 DEF Alone, Behind
<1>6. DataOK'
  BY <1>t, <1>1 DEF DataOK
<1> QED BY <1>1, <1>2, <1>4, <1>5, <1>6, WatchParts DEF AnnInv

LEMMA AnnCrash ==
  ASSUME AnnInv, Watch!Crash PROVE AnnInv'
<1>t. CheckOK /\ DataOK /\ hist \in Histories /\ moves \in 0 .. MaxMoves
  BY WatchParts DEF AnnInv
<1>1. CheckOK' /\ \A i \in Task : check'[i].pc = "idle"
  BY DEF Watch!Crash, Watch!Idle, Watch!Check, CheckOK
<1>2. /\ hist' \in Histories /\ hist'.announced = hist.announced
      /\ hist'.appeared = hist.appeared /\ hist'.overlap = hist.overlap
  <2>1. UNION {Watch!Added(i) : i \in {j \in Task : Watch!At(j, "publish")}} \subseteq Server
    BY <1>t, DiffType
  <2> QED BY <1>t, <2>1 DEF Watch!Crash, Histories
<1>3. UNCHANGED <<owned, rows, marker, enabled, moves>> /\ due' = TRUE
  BY DEF Watch!Crash
<1>4. ASSUME Alone PROVE Alone'
  BY <1>1, <1>2, <1>3, <1>4 DEF Alone, Held, Behind
<1>5. DataOK'
  BY <1>t, <1>3 DEF DataOK
<1> QED BY <1>t, <1>1, <1>2, <1>3, <1>4, <1>5, WatchParts DEF AnnInv

LEMMA AnnStep ==
  ASSUME AnnInv, [DeliveriesNext]_allVars PROVE AnnInv'
<1>t. CheckOK /\ hist \in Histories /\ moves \in 0 .. MaxMoves
  BY WatchParts DEF AnnInv
<1>1. ASSUME NEW i \in Task, Watch!Writes(i) PROVE AnnInv'
  <2>1. /\ Watch!Writing(i) /\ UNCHANGED <<owned, enabled, due>>
        /\ rows' = Watch!Written(i).rows /\ marker' = Watch!Written(i).marker
        /\ moves' \in 0 .. MaxMoves /\ hist' = Watch!Based(i)
    BY <1>t, <1>1, MovesType DEF Watch!Writes
  <2>2. \/ check[i].pc = "primeRows" /\ Watch!Goto(i, "primeMarker")
        \/ check[i].pc = "apply" /\ Watch!Goto(i, "publish")
        \/ Watch!Over(i)
    BY <1>1 DEF Watch!Writes, Watch!At
  <2>3. Same(hist')
    BY <1>t, <2>1, LostType
  <2> QED BY <2>1, <2>2, <2>3, AnnWrite
<1>2. ASSUME NEW i \in Task, Watch!Breaks(i) \/ Watch!LateWrite(i) PROVE AnnInv'
  <2>1. UNCHANGED <<owned, enabled, due>> /\ Watch!Over(i) /\ moves' \in 0 .. MaxMoves
    BY <1>t, <1>2, MovesType DEF Watch!Breaks, Watch!LateWrite
  <2>2. CASE UNCHANGED <<rows, marker, hist>>
    BY <1>t, <2>1, <2>2, LostType, AnnEnds
  <2>3. CASE /\ Watch!Writing(i)
             /\ rows' = Watch!Written(i).rows /\ marker' = Watch!Written(i).marker
             /\ hist' = [Watch!Based(i) EXCEPT !.lost =
                           IF Watch!At(i, "apply") THEN @ \cup Watch!Added(i) ELSE @]
    BY <1>t, <2>1, <2>3, LostType, AnnWrite
  <2> QED BY <1>2, <2>2, <2>3 DEF Watch!Breaks, Watch!LateWrite
<1>3. ASSUME NEW i \in Task, Watch!Cancelled(i) PROVE AnnInv'
  <2>1. /\ UNCHANGED <<owned, rows, marker, enabled, due, moves>>
        /\ Watch!Over(i) \/ UNCHANGED check
        /\ hist' = hist \/ hist' = [hist EXCEPT !.lost = @ \cup Watch!Added(i)]
    BY <1>3 DEF Watch!Cancelled
  <2>2. Same(hist')
    BY <1>t, <2>1, LostType
  <2> QED BY <1>t, <2>1, <2>2, AnnEnds
<1> QED BY <1>1, <1>2, <1>3, WatchSteps, AnnAround, AnnReads, AnnPublishes, AnnCrash,
       Zenon DEF WatchStep, Watch!Step

LEMMA AnnInvariant == DeliveriesSpec => []AnnInv
<1>1. AnnInv /\ [DeliveriesNext]_allVars => AnnInv'
  BY AnnStep
<1> QED BY AnnInit, <1>1, PTL DEF DeliveriesSpec

(* Every variable of the poller and of its watch keeps its type.           *)
THEOREM DeliveriesTypes == DeliveriesSpec => []DeliveriesTypeOK
<1>1. AnnInv /\ TypeOK => DeliveriesTypeOK
  BY DEF AnnInv, DeliveriesTypeOK
<1> QED BY AnnInvariant, DeliveriesImplementPoller, TypeCorrect, <1>1, PTL

(* No crash, stop, failing write or late write makes the watch announce a  *)
(* server that was there before it, or one delivery twice, as long as no   *)
(* two checks are at work at once (_check_servers, monitor.py).            *)
THEOREM AnnouncementsAreTrue == DeliveriesSpec => []AnnouncedWasDelivered
<1>1. AnnInv => AnnouncedWasDelivered
  <2>1. ASSUME AnnInv, ~ hist.overlap
        PROVE  \A s \in Server : hist.announced[s] <= hist.appeared[s]
    <3>1. hist.overlap = FALSE
      <4>1. hist.overlap \in BOOLEAN
        BY <2>1, WatchParts DEF AnnInv, Histories
      <4> QED BY <2>1, <4>1
    <3> QED BY <2>1, <3>1 DEF AnnInv, Alone
  <2> QED BY <2>1 DEF AnnouncedWasDelivered, Watch!AnnouncedWasDelivered
<1> QED BY AnnInvariant, <1>1, PTL

-----------------------------------------------------------------------------
(* No delivery is swallowed.  A check that is about to take a baseline has *)
(* seen no marker, and none is written before it does, unless checks       *)
(* overlap; so it swallows only what a baseline may.                       *)
Priming ==
  hist.overlap = FALSE => \A i \in Task : check[i].pc = "primeRows" => marker = FALSE

ToBeTold(s) ==
  \E i \in Task : check[i].pc = "publish" /\ s \in check[i].current \ check[i].snapshot

Accounted == \A s \in rows \cap owned : s \in hist.told \cup hist.lost \/ ToBeTold(s)

LEMMA AccountedSays == RecordedIsTold <=> Accounted
BY DEF RecordedIsTold, Watch!RecordedIsTold, Accounted, ToBeTold, Watch!At, Watch!Added

(* What a write makes of those lost before.                                *)
LEMMA Swallowed ==
  ASSUME AnnInv, Priming, NEW i \in Task
  PROVE  LET h == Watch!Based(i) IN
         /\ h \in Histories /\ h.told = hist.told /\ h.overlap = hist.overlap
         /\ check[i].pc = "primeRows" => hist.lost \cup (check[i].current \ rows) \subseteq h.lost
         /\ check[i].pc = "primeMarker" => h.lost = hist.lost
         /\ check[i].pc = "apply" =>
              h.lost = hist.lost \ (check[i].snapshot \ check[i].current)
<1>t. CheckOK /\ DataOK /\ hist \in Histories
  BY WatchParts DEF AnnInv
<1> DEFINE swallowed == IF Watch!Swallows(i) THEN check[i].current \ rows ELSE {}
           gone == IF check[i].pc = "apply" THEN Watch!Removed(i) ELSE {}
           more == (hist.lost \cup swallowed) \ gone
<1>1. Watch!Based(i) = [hist EXCEPT !.based = @ \/ check[i].pc = "primeRows", !.lost = more]
  BY DEF Watch!Based, Watch!At
<1>2. more \subseteq Server
  BY <1>t, DiffType DEF Histories
<1>3. check[i].pc = "primeRows" => swallowed = check[i].current \ rows
  BY <1>t DEF Watch!Swallows, Watch!At, Priming, Histories, DataOK
<1>4. check[i].pc # "primeRows" => swallowed = {}
  BY DEF Watch!Swallows, Watch!At
<1>5. /\ check[i].pc = "primeRows" => hist.lost \cup (check[i].current \ rows) \subseteq more
      /\ check[i].pc = "primeMarker" => more = hist.lost
      /\ check[i].pc = "apply" => more = hist.lost \ (check[i].snapshot \ check[i].current)
  BY <1>3, <1>4 DEF Watch!Removed
<1> HIDE DEF more
<1>6. hist.based \in BOOLEAN
  BY <1>t DEF Histories
<1>7. LET h == Watch!Based(i) IN
      /\ h \in Histories /\ h.told = hist.told /\ h.overlap = hist.overlap /\ h.lost = more
  BY <1>t, <1>1, <1>2, <1>6 DEF Histories
<1> QED BY <1>5, <1>7

(* A write of check i that goes on to publish, or whose additions are lost. *)
LEMMA KeepWrite ==
  ASSUME AnnInv, Priming, Accounted, NEW i \in Task, Watch!Writing(i),
         rows' = Watch!Written(i).rows, marker' = Watch!Written(i).marker,
         owned' = owned,
         hist'.told = hist.told, hist'.overlap = hist.overlap,
         Watch!Based(i).lost \subseteq hist'.lost,
         \/ check[i].pc = "primeRows" /\ Watch!Goto(i, "primeMarker")
         \/ check[i].pc = "primeMarker" /\ Watch!Over(i)
         \/ check[i].pc = "apply" /\ Watch!Goto(i, "publish")
         \/ /\ Watch!Over(i)
            /\ check[i].pc = "apply" => Watch!Added(i) \subseteq hist'.lost
  PROVE  Priming' /\ Accounted'
<1>t. CheckOK /\ DataOK /\ hist \in Histories
  BY WatchParts DEF AnnInv
<1>1. /\ check[i].pc = "primeRows" => marker' = marker
                                      /\ rows' = rows \cup check[i].current
      /\ check[i].pc = "primeMarker" => marker' = TRUE /\ rows' = rows
      /\ check[i].pc = "apply" => marker' = marker
             /\ rows' = (rows \cup (check[i].current \ check[i].snapshot))
                          \ (check[i].snapshot \ check[i].current)
  BY <1>t, Writ
<1>2. check[i].pc \in {"primeRows", "primeMarker", "apply"}
  BY DEF Watch!Writing
<1>3. /\ \/ check'[i].pc \in {"idle", "primeMarker"}
         \/ /\ check[i].pc = "apply" /\ check'[i].pc = "publish"
            /\ check'[i].current = check[i].current
            /\ check'[i].snapshot = check[i].snapshot
      /\ \A j \in Task \ {i} : check'[j] = check[j]
  BY <1>t, Goes, Stops DEF Pcs
<1>4. Priming'
  BY <1>1, <1>2, <1>3 DEF Priming, AnnInv, Alone
<1>5. \A s \in Server : ToBeTold(s) => ToBeTold(s)'
  BY <1>2, <1>3 DEF ToBeTold
<1>6. check[i].pc = "apply" =>
        \A s \in check[i].current \ check[i].snapshot : ToBeTold(s)' \/ s \in hist'.lost
  <2>1. CASE check[i].pc = "apply" /\ Watch!Goto(i, "publish")
    BY <1>t, <2>1, Goes DEF ToBeTold, Pcs
  <2>2. CASE check[i].pc = "apply" /\ Watch!Added(i) \subseteq hist'.lost
    BY <2>2 DEF Watch!Added
  <2> QED BY <2>1, <2>2
<1>7. ASSUME NEW s \in rows' \cap owned'
      PROVE  s \in hist'.told \cup hist'.lost \/ ToBeTold(s)'
  <2>1. s \in Server
    BY <1>t, <1>7 DEF DataOK
  <2>2. CASE check[i].pc = "primeRows"
    BY <1>1, <1>5, <1>7, <2>1, <2>2, Swallowed DEF Accounted
  <2>3. CASE check[i].pc = "primeMarker"
    BY <1>1, <1>5, <1>7, <2>1, <2>3, Swallowed DEF Accounted
  <2>4. CASE check[i].pc = "apply"
    BY <1>1, <1>5, <1>6, <1>7, <2>1, <2>4, Swallowed DEF Accounted
  <2> QED BY <1>2, <2>2, <2>3, <2>4
<1> QED BY <1>4, <1>7 DEF Accounted

(* Deliveries, and what leaves servers, rows and reports alone.            *)
LEMMA KeepAround ==
  ASSUME AnnInv, Priming, Accounted, Surroundings \/ UNCHANGED watchVars
  PROVE  Priming' /\ Accounted'
<1>t. CheckOK /\ DataOK /\ hist \in Histories
  BY WatchParts DEF AnnInv
<1>1. ASSUME NEW s \in Server, Watch!Delivered(s) PROVE Priming' /\ Accounted'
  <2>1. /\ owned' = owned \cup {s} /\ UNCHANGED <<rows, marker, check>>
        /\ hist'.overlap = hist.overlap /\ hist'.told = hist.told \ {s}
        /\ hist'.lost = IF s \in rows THEN hist.lost \cup {s} ELSE hist.lost \ {s}
    BY <1>t, <1>1 DEF Watch!Delivered, Histories
  <2> QED BY <2>1 DEF Priming, Accounted, ToBeTold
<1>2. ASSUME NEW s \in Server, Watch!Terminated(s) PROVE Priming' /\ Accounted'
  BY <1>2 DEF Watch!Terminated, Priming, Accounted, ToBeTold
<1>3. CASE Watch!Switch \/ Watch!IntervalPasses \/ UNCHANGED watchVars
  BY <1>3 DEF Watch!Switch, Watch!IntervalPasses, watchVars, Priming, Accounted, ToBeTold
<1> QED BY <1>1, <1>2, <1>3 DEF Surroundings

(* A check that starts, or reads.                                          *)
LEMMA KeepReads ==
  ASSUME AnnInv, Priming, Accounted, NEW i \in Task,
         Watch!Starts(i) \/ Watch!List(i) \/ Watch!load_owned_servers(i) \/ Watch!AsksMarker(i)
  PROVE  Priming' /\ Accounted'
<1>t. CheckOK /\ DataOK /\ hist \in Histories
  BY WatchParts DEF AnnInv
<1>1. UNCHANGED <<owned, rows, marker>>
  BY DEF Watch!Starts, Watch!List, Watch!load_owned_servers, Watch!AsksMarker
<1>2. /\ hist'.told = hist.told /\ hist'.lost = hist.lost
      /\ hist'.overlap = FALSE => hist.overlap = FALSE
  BY <1>t DEF Watch!Starts, Watch!List, Watch!load_owned_servers, Watch!AsksMarker, Histories
<1>3. /\ check[i].pc # "publish" /\ \A j \in Task \ {i} : check'[j] = check[j]
      /\ check'[i].pc = "primeRows" => marker = FALSE
  <2>1. CASE Watch!Starts(i)
    BY <1>t, <2>1, Goes DEF Watch!Starts, Watch!At, Pcs
  <2>2. CASE Watch!List(i)
    BY <1>t, <2>2 DEF Watch!List, Watch!At, CheckOK, Watch!Check
  <2>3. CASE Watch!load_owned_servers(i)
    BY <1>t, <2>3 DEF Watch!load_owned_servers, Watch!At, CheckOK, Watch!Check
  <2>4. CASE Watch!AsksMarker(i)
    <3>1. check[i].pc = "marker"
      BY <2>4 DEF Watch!AsksMarker, Watch!At
    <3>2. CASE ~ marker /\ Watch!Goto(i, "primeRows")
      BY <1>t, <3>1, <3>2, Goes DEF Pcs, DataOK
    <3>3. CASE Watch!Goto(i, "apply")
      BY <1>t, <3>1, <3>3, Goes DEF Pcs
    <3>4. CASE Watch!Over(i)
      BY <1>t, <3>1, <3>4, Stops
    <3> QED BY <2>4, <3>2, <3>3, <3>4 DEF Watch!AsksMarker
  <2> QED BY <2>1, <2>2, <2>3, <2>4
<1>4. \A s \in Server : ToBeTold(s) => ToBeTold(s)'
  BY <1>3 DEF ToBeTold
<1>5. Priming'
  BY <1>1, <1>2, <1>3 DEF Priming
<1> QED BY <1>t, <1>1, <1>2, <1>4, <1>5 DEF Accounted, DataOK

(* A check that ends, with what it had to announce told or lost.           *)
LEMMA KeepEnds ==
  ASSUME AnnInv, Priming, Accounted, UNCHANGED <<owned, rows, marker>>,
         hist'.overlap = hist.overlap,
         hist.told \subseteq hist'.told, hist.lost \subseteq hist'.lost,
         NEW S \in SUBSET Task,
         \A j \in Task \ S : check'[j] = check[j],
         \A j \in S : /\ check'[j].pc = "idle"
                      /\ check[j].pc = "publish"
                           => Watch!Added(j) \subseteq hist'.told \cup hist'.lost
  PROVE  Priming' /\ Accounted'
<1>1. ASSUME NEW s, ToBeTold(s)
      PROVE  ToBeTold(s)' \/ s \in hist'.told \cup hist'.lost
  <2>1. PICK j \in Task : check[j].pc = "publish" /\ s \in check[j].current \ check[j].snapshot
    BY <1>1 DEF ToBeTold
  <2>2. CASE j \in S
    BY <2>1, <2>2 DEF Watch!Added
  <2>3. CASE j \notin S
    BY <2>1, <2>3 DEF ToBeTold
  <2> QED BY <2>2, <2>3
<1>2. Accounted'
  BY <1>1 DEF Accounted
<1>3. Priming'
  BY DEF Priming
<1> QED BY <1>2, <1>3

LEMMA KeepStep ==
  ASSUME AnnInv, Priming, Accounted, [DeliveriesNext]_allVars
  PROVE  Priming' /\ Accounted'
<1>t. CheckOK /\ DataOK /\ hist \in Histories
  BY WatchParts DEF AnnInv
<1>1. ASSUME NEW i \in Task, Watch!Writes(i) PROVE Priming' /\ Accounted'
  <2>1. /\ Watch!Writing(i) /\ owned' = owned
        /\ rows' = Watch!Written(i).rows /\ marker' = Watch!Written(i).marker
        /\ hist' = Watch!Based(i)
        /\ \/ check[i].pc = "primeRows" /\ Watch!Goto(i, "primeMarker")
           \/ check[i].pc = "primeMarker" /\ Watch!Over(i)
           \/ check[i].pc = "apply" /\ Watch!Goto(i, "publish")
    BY <1>1 DEF Watch!Writes, Watch!At
  <2>2. hist'.told = hist.told /\ hist'.overlap = hist.overlap
    BY <2>1, Swallowed
  <2> QED BY <2>1, <2>2, KeepWrite
<1>2. ASSUME NEW i \in Task, Watch!Breaks(i) \/ Watch!LateWrite(i)
      PROVE  Priming' /\ Accounted'
  <2>1. owned' = owned /\ Watch!Over(i)
    BY <1>2 DEF Watch!Breaks, Watch!LateWrite
  <2>2. CASE UNCHANGED <<rows, marker, hist>>
    <3>1. check[i].pc # "publish"
      BY <1>2 DEF Watch!Breaks, Watch!LateWrite, Watch!Writing
    <3>2. check'[i].pc = "idle" /\ \A j \in Task \ {i} : check'[j] = check[j]
      BY <1>t, <2>1, Stops
    <3>3. {i} \in SUBSET Task /\ \A j \in {i} : j = i
      OBVIOUS
    <3> QED BY <2>1, <2>2, <3>1, <3>2, <3>3, KeepEnds
  <2>3. CASE /\ Watch!Writing(i)
             /\ rows' = Watch!Written(i).rows /\ marker' = Watch!Written(i).marker
             /\ hist' = [Watch!Based(i) EXCEPT !.lost =
                           IF Watch!At(i, "apply") THEN @ \cup Watch!Added(i) ELSE @]
    <3>1. Watch!Based(i) \in Histories
      BY Swallowed
    <3>2. /\ hist'.told = hist.told /\ hist'.overlap = hist.overlap
          /\ hist'.lost = IF check[i].pc = "apply" THEN Watch!Based(i).lost \cup Watch!Added(i)
                          ELSE Watch!Based(i).lost
      BY <2>3, <3>1, Swallowed DEF Watch!At, Histories
    <3> QED BY <2>1, <2>3, <3>2, KeepWrite
  <2> QED BY <1>2, <2>2, <2>3 DEF Watch!Breaks, Watch!LateWrite
<1>3. ASSUME NEW i \in Task, Watch!Cancelled(i) \/ Watch!Publishes(i)
      PROVE  Priming' /\ Accounted'
  <2>1. UNCHANGED <<owned, rows, marker>>
    BY <1>3 DEF Watch!Cancelled, Watch!Publishes
  <2>2. /\ hist'.overlap = hist.overlap
        /\ hist.told \subseteq hist'.told /\ hist.lost \subseteq hist'.lost
        /\ check[i].pc = "publish" => Watch!Added(i) \subseteq hist'.told \cup hist'.lost
    <3>1. CASE hist' = hist /\ check[i].pc # "publish"
      BY <3>1
    <3>2. CASE hist' = [hist EXCEPT !.lost = @ \cup Watch!Added(i)]
      BY <1>t, <3>2 DEF Histories
    <3>3. CASE \E n : hist' = [hist EXCEPT !.told = @ \cup Watch!Added(i), !.announced = n]
      BY <1>t, <3>3 DEF Histories
    <3> QED BY <1>3, <3>1, <3>2, <3>3 DEF Watch!Cancelled, Watch!Publishes, Watch!At
  <2>3. CASE Watch!Over(i)
    <3>1. check'[i].pc = "idle" /\ \A j \in Task \ {i} : check'[j] = check[j]
      BY <1>t, <2>3, Stops
    <3>2. {i} \in SUBSET Task /\ \A j \in {i} : j = i
      OBVIOUS
    <3> QED BY <2>1, <2>2, <3>1, <3>2, KeepEnds
  <2>4. CASE UNCHANGED check
    BY <2>1, <2>2, <2>4 DEF Priming, Accounted, ToBeTold
  <2> QED BY <1>3, <2>3, <2>4 DEF Watch!Cancelled, Watch!Publishes
<1>4. CASE Watch!Crash
  <2>1. /\ UNCHANGED <<owned, rows, marker>>
        /\ \A j \in Task : check'[j].pc = "idle"
    BY <1>4 DEF Watch!Crash, Watch!Idle
  <2>2. /\ hist'.overlap = hist.overlap /\ hist'.told = hist.told
        /\ hist'.lost =
             hist.lost \cup UNION {Watch!Added(i) : i \in {j \in Task : Watch!At(j, "publish")}}
    BY <1>t, <1>4 DEF Watch!Crash, Histories
  <2>3. \A j \in Task : check[j].pc = "publish" => Watch!Added(j) \subseteq hist'.lost
    BY <2>2 DEF Watch!At
  <2> QED BY <2>1, <2>2, <2>3, KeepEnds
<1> QED BY <1>1, <1>2, <1>3, <1>4, WatchSteps, KeepAround, KeepReads
    DEF WatchStep, Watch!Step

(* What the rows have was announced, is about to be, or was lost in a way  *)
(* the watch has for it, whatever stops, fails or crashes, and however     *)
(* many checks overlap (_check_servers, monitor.py).                       *)
THEOREM NoDeliveryIsSwallowed == DeliveriesSpec => []RecordedIsTold
<1>1. DeliveriesInit => Priming /\ Accounted
  BY DEF DeliveriesInit, Watch!Init, Watch!Idle, Priming, Accounted
<1> QED BY AnnInvariant, <1>1, KeepStep, AccountedSays, PTL DEF DeliveriesSpec

-----------------------------------------------------------------------------
(* The stock poller that the life cycle starts, and its registry of        *)
(* alerts: Monitor.  Types first.                                          *)
(* Every handler and every step of reload and poll keeps the types.        *)
LEMMA MonitorTypeKept ==
  ASSUME MonitorTypeOK, [MonitorNext]_monitorVars PROVE MonitorTypeOK'
<1> USE MonitorAssumption DEF MonitorAssumption
<1>o. /\ ops \in 0 .. MaxOps /\ reloads \in 0 .. MaxReloads
      /\ Op => ops' \in 0 .. MaxOps /\ reloads' = reloads
  BY DEF MonitorTypeOK, Op
<1>1. CASE UNCHANGED monitorVars
  BY <1>1 DEF MonitorTypeOK, monitorVars, base, poll, memory, db, history
<1>p. ASSUME NEW W, NEW x \in Alert \cup Account, Persist(W, x),
             W => dbAlerts' \in [Alert -> AlertState] /\ dbMon' \in [Account -> BOOLEAN]
      PROVE  /\ dbAlerts' \in [Alert -> AlertState] /\ dbMon' \in [Account -> BOOLEAN]
             /\ {touched', unsaved', overrun'} \subseteq SUBSET (Alert \cup Account)
  BY <1>p DEF Persist, MonitorTypeOK
<1>f. ASSUME NEW S, Forget(S)
      PROVE  last' \in [Key -> SUBSET Fqn] /\ primed' \subseteq Key
  BY <1>f DEF Forget, MonitorTypeOK
<1>2. ASSUME NEW a \in Alert, add_alert(a) PROVE MonitorTypeOK'
  <2>1. /\ alerts' \in [Alert -> AlertState]
        /\ [dbAlerts EXCEPT ![a] = "on"] \in [Alert -> AlertState]
    BY <1>2 DEF add_alert, MonitorTypeOK, AlertState
  <2> QED BY <1>2, <1>o, <1>p, <2>1 DEF add_alert, MonitorTypeOK, base, poll
<1>3. ASSUME NEW a \in Alert, remove_alert(a) PROVE MonitorTypeOK'
  <2>1. /\ alerts' \in [Alert -> AlertState]
        /\ [dbAlerts EXCEPT ![a] = "absent"] \in [Alert -> AlertState]
    BY <1>3 DEF remove_alert, MonitorTypeOK, AlertState
  <2> QED BY <1>3, <1>o, <1>p, <1>f, <2>1 DEF remove_alert, MonitorTypeOK, poll
<1>4. ASSUME NEW a \in Alert, NEW e \in BOOLEAN, set_alert_enabled(a, e)
      PROVE  MonitorTypeOK'
  <2> DEFINE new == IF e THEN "on" ELSE "paused"
  <2>1. /\ alerts' \in [Alert -> AlertState]
        /\ [dbAlerts EXCEPT ![a] = IF @ = "absent" THEN @ ELSE new]
             \in [Alert -> AlertState]
    BY <1>4 DEF set_alert_enabled, MonitorTypeOK, AlertState
  <2> QED BY <1>4, <1>o, <1>p, <2>1 DEF set_alert_enabled, MonitorTypeOK, base, poll
<1>5. ASSUME NEW c \in Account, NEW e \in BOOLEAN, set_monitoring_enabled(c, e)
      PROVE  MonitorTypeOK'
  <2>1. /\ mon' \in [Account -> BOOLEAN]
        /\ [dbMon EXCEPT ![c] = e] \in [Account -> BOOLEAN]
    BY <1>5 DEF set_monitoring_enabled, MonitorTypeOK
  <2> QED BY <1>5, <1>o, <1>p, <1>f, <2>1
          DEF set_monitoring_enabled, _set_account_flag, MonitorTypeOK, poll
<1>6. ASSUME NEW c \in Account, delete_account(c) PROVE MonitorTypeOK'
  BY <1>6, <1>o DEF delete_account, MonitorTypeOK, base, poll, memory
<1>r. ASSUME NEW R \in [Alert -> AlertState], NEW C \in SUBSET Account,
             NEW F \in [Account -> BOOLEAN]
      PROVE  /\ _alerts_from_rows(R, C) \in [Alert -> AlertState]
             /\ _refresh_accounts(C, F) \in [Account -> BOOLEAN]
  BY DEF _alerts_from_rows, _refresh_accounts, AlertState
<1>7. CASE ReloadStart
  BY <1>7, <1>o DEF ReloadStart, MonitorTypeOK, base, poll, memory, db, history
<1>8. CASE ReloadReadsAlerts \/ ReloadReadsAccounts
  <2>1. /\ touched' \subseteq touched
        /\ UNCHANGED <<stock, db, memory, base, poll, born, observed, midCycle, unsaved,
                       overrun, ops, reloads>>
    BY <1>8 DEF ReloadReadsAlerts, ReloadReadsAccounts
  <2>2. reload' \in [pc : {"idle", "started", "alertsRead", "accountsRead"},
                     rows : [Alert -> AlertState],
                     known : SUBSET Account, flags : [Account -> BOOLEAN]]
    <3>1. CASE ReloadReadsAlerts
      BY <3>1 DEF ReloadReadsAlerts, MonitorTypeOK
    <3>2. CASE ReloadReadsAccounts
      BY <3>2 DEF ReloadReadsAccounts, MonitorTypeOK
    <3> QED BY <1>8, <3>1, <3>2
  <2> QED BY <2>1, <2>2 DEF MonitorTypeOK, base, poll, memory, db
<1>9. NoReload \in [pc : {"idle", "started", "alertsRead", "accountsRead"},
                    rows : [Alert -> AlertState],
                    known : SUBSET Account, flags : [Account -> BOOLEAN]]
  BY DEF NoReload, AlertState
<1>10. CASE ReloadApplies
  <2>1. /\ reload.rows \in [Alert -> AlertState] /\ reload.known \in SUBSET Account
        /\ reload.flags \in [Account -> BOOLEAN]
    BY DEF MonitorTypeOK
  <2>2. alerts' \in [Alert -> AlertState] /\ mon' \in [Account -> BOOLEAN]
    BY <1>10, <1>r, <2>1 DEF ReloadApplies
  <2> QED BY <1>10, <1>9, <1>f, <1>o, <2>2 DEF ReloadApplies, MonitorTypeOK, poll, db
<1>11. CASE ReloadFails
  BY <1>11, <1>9 DEF ReloadFails, MonitorTypeOK, base, poll, memory, db, history
<1>12. CASE CycleStart
  BY <1>12 DEF CycleStart, Pollable, Polled, MonitorTypeOK, base, memory, db
<1>13. ASSUME NEW c \in Account, Fetch(c) \/ FetchFails(c) PROVE MonitorTypeOK'
  <2>1. KeysOf(c) \subseteq Key
    BY DEF KeysOf
  <2>2. CASE Fetch(c)
    <3>1. answer' \in [Key -> SUBSET Fqn]
      BY <2>2 DEF Fetch, get_availability, MonitorTypeOK
    <3> QED BY <2>1, <2>2, <3>1 DEF Fetch, MonitorTypeOK, base, memory, db, history
  <2>3. CASE FetchFails(c)
    BY <2>1, <2>3 DEF FetchFails, MonitorTypeOK, base, memory, db, history
  <2> QED BY <1>13, <2>2, <2>3
<1>14. ASSUME NEW k \in Key, Process(k) PROVE MonitorTypeOK'
  <2>1. last' \in [Key -> SUBSET Fqn] /\ answer' \in [Key -> SUBSET Fqn]
    BY <1>14 DEF Process, get_stock_diff, MonitorTypeOK
  <2> QED BY <1>14, <2>1 DEF Process, MonitorTypeOK, memory, db
<1>15. ASSUME NEW k \in Key, StockMoves(k) PROVE MonitorTypeOK'
  <2>1. stock' \in [Key -> SUBSET Fqn]
    BY <1>15 DEF StockMoves, MonitorTypeOK
  <2> QED BY <1>15, <1>o, <2>1 DEF StockMoves, MonitorTypeOK, base, poll, memory, db, history
<1>16. CASE MonitorRestart
  <2>1. /\ alerts' \in [Alert -> AlertState] /\ mon' \in [Account -> BOOLEAN]
    BY <1>16, <1>r DEF MonitorRestart, MonitorTypeOK
  <2> QED BY <1>16, <1>9, <1>o, <2>1 DEF MonitorRestart, MonitorTypeOK, db
<1> QED BY <1>1, <1>2, <1>3, <1>4, <1>5, <1>6, <1>7, <1>8, <1>10, <1>11, <1>12, <1>13,
           <1>14, <1>15, <1>16 DEF MonitorNext, PollStep, ReloadStep

-----------------------------------------------------------------------------
(* Baselines.  A key counts as primed only if it was polled in its watch   *)
(* period, or was let go during a cycle; and a running cycle covers no     *)
(* other unwatched key than those.                                         *)
BaselineInv ==
  /\ primed \subseteq observed \cup midCycle
  /\ todo \ Watched \subseteq midCycle

LEMMA BaselinesKept ==
  ASSUME MonitorTypeOK, BaselineInv, MonitorNext PROVE BaselineInv'
<1> USE MonitorAssumption DEF MonitorAssumption
<1>t. primed \subseteq Key /\ todo \subseteq Key /\ fetched \subseteq todo
      /\ alerts \in [Alert -> AlertState]
  BY DEF MonitorTypeOK
<1>1. ASSUME UNCHANGED <<alerts, base, observed, midCycle>>, todo' \subseteq todo
      PROVE  BaselineInv'
  BY <1>1 DEF BaselineInv, Watched, WatchedBy, base
<1>2. ASSUME NEW a \in Alert, add_alert(a) PROVE BaselineInv'
  <2>1. Watched \subseteq Watched'
    BY <1>2, <1>t DEF add_alert, Watched, WatchedBy
  <2> QED BY <1>2, <2>1 DEF add_alert, BaselineInv, base, poll
<1>3. ASSUME NEW ended, Key \ Watched' = ended \/ Watched \ Watched' = ended,
             Forget(ended), observed' = observed \ ended,
             midCycle' = midCycle \cup (ended \cap todo), todo' = todo
      PROVE  BaselineInv'
  BY <1>3, <1>t DEF BaselineInv, Forget
<1>4. ASSUME NEW a \in Alert, remove_alert(a) PROVE BaselineInv'
  <2>1. {watches[a]} \ WatchedBy(alerts') = Watched \ Watched'
    BY <1>4, <1>t DEF remove_alert, Watched, WatchedBy
  <2> QED BY <1>3, <1>4, <2>1 DEF remove_alert, poll
<1>5. ASSUME NEW a \in Alert, NEW e \in BOOLEAN, set_alert_enabled(a, e)
      PROVE  BaselineInv'
  <2>1. Watched' = Watched
    BY <1>5, <1>t DEF set_alert_enabled, Watched, WatchedBy
  <2> QED BY <1>5, <2>1 DEF set_alert_enabled, BaselineInv, base, poll
<1>6. ASSUME NEW c \in Account, NEW e \in BOOLEAN, set_monitoring_enabled(c, e)
      PROVE  BaselineInv'
  BY <1>6 DEF set_monitoring_enabled, Forget, BaselineInv, Watched, WatchedBy, poll
<1>7. ASSUME NEW c \in Account, delete_account(c) PROVE BaselineInv'
  BY <1>1, <1>7 DEF delete_account, memory, poll
<1>8. CASE ReloadStart \/ ReloadReadsAlerts \/ ReloadReadsAccounts \/ ReloadFails
  BY <1>1, <1>8 DEF ReloadStart, ReloadReadsAlerts, ReloadReadsAccounts, ReloadFails,
       memory, poll, history
<1>9. CASE ReloadApplies
  BY <1>3, <1>9 DEF ReloadApplies, Watched, poll
<1>10. CASE CycleStart
  <2>1. todo' \subseteq Watched
    BY <1>10, <1>t DEF CycleStart, Pollable, Polled, Watched, WatchedBy
  <2>2. Watched' = Watched
    BY <1>10 DEF CycleStart, Watched, memory
  <2> QED BY <1>10, <2>1, <2>2 DEF CycleStart, BaselineInv, base
<1>11. ASSUME NEW c \in Account, Fetch(c) \/ FetchFails(c) PROVE BaselineInv'
  BY <1>1, <1>11 DEF Fetch, FetchFails, memory, history
<1>12. ASSUME NEW k \in Key, Process(k) PROVE BaselineInv'
  <2>1. Watched' = Watched
    BY <1>12 DEF Process, Watched, memory
  <2> QED BY <1>12, <1>t, <2>1 DEF Process, BaselineInv
<1>13. ASSUME NEW k \in Key, StockMoves(k) PROVE BaselineInv'
  BY <1>1, <1>13 DEF StockMoves, memory, poll, history
<1>14. CASE MonitorRestart
  BY <1>14 DEF MonitorRestart, BaselineInv
<1> QED BY <1>2, <1>4, <1>5, <1>6, <1>7, <1>8, <1>9, <1>10, <1>11, <1>12, <1>13, <1>14
     DEF MonitorNext, PollStep, ReloadStep

-----------------------------------------------------------------------------
(* Memory and database.  What a running reload has read is what the        *)
(* database holds, but for what changed since.                             *)
ReloadInv ==
  /\ reload.pc \in {"alertsRead", "accountsRead"} =>
       \A a \in Alert : reload.rows[a] # dbAlerts[a] => a \in touched
  /\ reload.pc = "accountsRead" =>
       /\ accounts \subseteq reload.known
       /\ \A c \in Account :
            reload.flags[c] # dbMon[c] \/ c \in reload.known \ accounts => c \in touched
       /\ \A a \in Alert :
            acct[watches[a]] \in reload.known \ accounts => a \in touched

LEMMA ReloadKept ==
  ASSUME MonitorTypeOK, ReloadInv, MonitorNext PROVE ReloadInv'
<1> USE MonitorAssumption DEF MonitorAssumption
<1>t. /\ dbAlerts \in [Alert -> AlertState] /\ dbMon \in [Account -> BOOLEAN]
      /\ accounts \subseteq Account
  BY DEF MonitorTypeOK
<1>1. ASSUME UNCHANGED <<reload, db, touched>> PROVE ReloadInv'
  BY <1>1 DEF ReloadInv, db
<1>2. ASSUME UNCHANGED <<reload, accounts>>, touched \subseteq touched',
             \A a \in Alert : dbAlerts'[a] # dbAlerts[a] => a \in touched',
             \A c \in Account : dbMon'[c] # dbMon[c] => c \in touched'
      PROVE  ReloadInv'
  BY <1>2 DEF ReloadInv
<1>3. ASSUME NEW a \in Alert, add_alert(a) PROVE ReloadInv'
  BY <1>2, <1>3, <1>t DEF add_alert, Persist
<1>4. ASSUME NEW a \in Alert, remove_alert(a) PROVE ReloadInv'
  BY <1>2, <1>4, <1>t DEF remove_alert, Persist
<1>5. ASSUME NEW a \in Alert, NEW e \in BOOLEAN, set_alert_enabled(a, e)
      PROVE  ReloadInv'
  BY <1>2, <1>5, <1>t DEF set_alert_enabled, Persist
<1>6. ASSUME NEW c \in Account, NEW e \in BOOLEAN, set_monitoring_enabled(c, e)
      PROVE  ReloadInv'
  BY <1>2, <1>6, <1>t DEF set_monitoring_enabled, _set_account_flag, Persist
<1>7. ASSUME NEW c \in Account, delete_account(c) PROVE ReloadInv'
  <2>1. /\ UNCHANGED <<reload, dbAlerts, dbMon>> /\ accounts' = accounts \ {c}
        /\ touched' = touched \cup {c} \cup {a \in Alert : acct[watches[a]] = c}
    BY <1>7 DEF delete_account
  <2> QED BY <2>1 DEF ReloadInv
<1>8. CASE ReloadStart
  <2>1. reload'.pc = "started"
    BY <1>8 DEF ReloadStart, MonitorTypeOK
  <2> QED BY <2>1 DEF ReloadInv
<1>9. CASE ReloadReadsAlerts
  <2>1. reload'.pc = "alertsRead" /\ reload'.rows = dbAlerts /\ UNCHANGED db
    BY <1>9 DEF ReloadReadsAlerts, MonitorTypeOK
  <2> QED BY <2>1 DEF ReloadInv, db
<1>10. CASE ReloadReadsAccounts
  <2>1. /\ reload.pc = "alertsRead"
        /\ reload'.pc = "accountsRead" /\ reload'.rows = reload.rows /\ UNCHANGED db
        /\ reload'.known = accounts /\ reload'.flags = dbMon
        /\ touched' = touched \ Account
    BY <1>10 DEF ReloadReadsAccounts, MonitorTypeOK
  <2> QED BY <2>1 DEF ReloadInv, db
<1>11. CASE ReloadApplies \/ ReloadFails \/ MonitorRestart
  <2>1. reload' = NoReload
    BY <1>11 DEF ReloadApplies, ReloadFails, MonitorRestart
  <2> QED BY <2>1 DEF ReloadInv, NoReload
<1>12. CASE CycleStart
  BY <1>1, <1>12 DEF CycleStart
<1>13. ASSUME NEW c \in Account, Fetch(c) \/ FetchFails(c) PROVE ReloadInv'
  BY <1>1, <1>13 DEF Fetch, FetchFails, history
<1>14. ASSUME NEW k \in Key, Process(k) \/ StockMoves(k) PROVE ReloadInv'
  BY <1>1, <1>14 DEF Process, StockMoves, history
<1> QED BY <1>3, <1>4, <1>5, <1>6, <1>7, <1>8, <1>9, <1>10, <1>11, <1>12, <1>13, <1>14
     DEF MonitorNext, PollStep, ReloadStep

LEMMA DivergenceKept ==
  ASSUME MonitorTypeOK, ReloadInv, DivergenceHasCause, MonitorNext
  PROVE  DivergenceHasCause'
<1> USE MonitorAssumption DEF MonitorAssumption
<1>t. /\ dbAlerts \in [Alert -> AlertState] /\ dbMon \in [Account -> BOOLEAN]
      /\ alerts \in [Alert -> AlertState] /\ mon \in [Account -> BOOLEAN]
      /\ accounts \subseteq Account
  BY DEF MonitorTypeOK
<1>1. ASSUME UNCHANGED <<memory, db, unsaved, overrun>> PROVE DivergenceHasCause'
  BY <1>1 DEF DivergenceHasCause, _alerts_from_rows, _refresh_accounts, memory, db
<1>2. ASSUME NEW a \in Alert, add_alert(a) PROVE DivergenceHasCause'
  <2>1. \/ dbAlerts' = [dbAlerts EXCEPT ![a] = "on"] /\ dbMon' = dbMon /\ unsaved' = unsaved
        \/ dbAlerts' = dbAlerts /\ dbMon' = dbMon /\ unsaved' = unsaved \cup {a}
    BY <1>2 DEF add_alert, Persist
  <2>2. /\ alerts' = [alerts EXCEPT ![a] = "on"] /\ UNCHANGED <<accounts, mon, overrun>>
        /\ acct[watches[a]] \in accounts
    BY <1>2 DEF add_alert, Persist
  <2> QED BY <1>t, <2>1, <2>2 DEF DivergenceHasCause, _alerts_from_rows, _refresh_accounts
<1>3. ASSUME NEW a \in Alert, remove_alert(a) PROVE DivergenceHasCause'
  <2>1. \/ dbAlerts' = [dbAlerts EXCEPT ![a] = "absent"] /\ dbMon' = dbMon /\ unsaved' = unsaved
        \/ dbAlerts' = dbAlerts /\ dbMon' = dbMon /\ unsaved' = unsaved \cup {a}
    BY <1>3 DEF remove_alert, Persist
  <2>2. alerts' = [alerts EXCEPT ![a] = "absent"] /\ UNCHANGED <<accounts, mon, overrun>>
    BY <1>3 DEF remove_alert, Persist
  <2> QED BY <1>t, <2>1, <2>2 DEF DivergenceHasCause, _alerts_from_rows, _refresh_accounts
<1>4. ASSUME NEW a \in Alert, NEW e \in BOOLEAN, set_alert_enabled(a, e)
      PROVE  DivergenceHasCause'
  <2> DEFINE new == IF e THEN "on" ELSE "paused"
  <2>1. \/ /\ dbAlerts' = [dbAlerts EXCEPT ![a] = IF @ = "absent" THEN @ ELSE new]
           /\ dbMon' = dbMon /\ unsaved' = unsaved
        \/ dbAlerts' = dbAlerts /\ dbMon' = dbMon /\ unsaved' = unsaved \cup {a}
    BY <1>4 DEF set_alert_enabled, Persist
  <2>2. /\ alerts' = [alerts EXCEPT ![a] = new] /\ UNCHANGED <<accounts, mon, overrun>>
        /\ alerts[a] # "absent"
    BY <1>4 DEF set_alert_enabled, Persist
  <2> QED BY <1>t, <2>1, <2>2 DEF DivergenceHasCause, _alerts_from_rows, _refresh_accounts
<1>5. ASSUME NEW c \in Account, NEW e \in BOOLEAN, set_monitoring_enabled(c, e)
      PROVE  DivergenceHasCause'
  <2>1. \/ dbMon' = [dbMon EXCEPT ![c] = e] /\ dbAlerts' = dbAlerts /\ unsaved' = unsaved
        \/ dbAlerts' = dbAlerts /\ dbMon' = dbMon /\ unsaved' = unsaved \cup {c}
    BY <1>5 DEF set_monitoring_enabled, _set_account_flag, Persist
  <2>2. /\ mon' = [mon EXCEPT ![c] = e] /\ UNCHANGED <<accounts, alerts, overrun>>
        /\ c \in accounts
    BY <1>5 DEF set_monitoring_enabled, Persist
  <2> QED BY <1>t, <2>1, <2>2 DEF DivergenceHasCause, _alerts_from_rows, _refresh_accounts
<1>6. ASSUME NEW c \in Account, delete_account(c) PROVE DivergenceHasCause'
  <2>1. /\ UNCHANGED <<dbAlerts, dbMon, memory, unsaved>> /\ accounts' = accounts \ {c}
        /\ overrun' = overrun \cup {c} \cup {a \in Alert : acct[watches[a]] = c}
    BY <1>6 DEF delete_account
  <2> QED BY <2>1 DEF DivergenceHasCause, _alerts_from_rows, _refresh_accounts, memory
<1>7. CASE ReloadStart \/ ReloadReadsAlerts \/ ReloadReadsAccounts \/ ReloadFails
  BY <1>1, <1>7 DEF ReloadStart, ReloadReadsAlerts, ReloadReadsAccounts, ReloadFails, history
<1>8. CASE ReloadApplies
  <2>1. /\ reload.pc = "accountsRead" /\ UNCHANGED db /\ overrun' = touched
        /\ alerts' = _alerts_from_rows(reload.rows, reload.known)
        /\ mon' = _refresh_accounts(reload.known, reload.flags)
    BY <1>8 DEF ReloadApplies
  <2> QED BY <2>1 DEF ReloadInv, DivergenceHasCause, _alerts_from_rows, _refresh_accounts, db
<1>9. CASE MonitorRestart
  BY <1>9 DEF MonitorRestart, DivergenceHasCause, _alerts_from_rows, _refresh_accounts, db
<1>10. CASE CycleStart
  BY <1>1, <1>10 DEF CycleStart
<1>11. ASSUME NEW c \in Account, Fetch(c) \/ FetchFails(c) PROVE DivergenceHasCause'
  BY <1>1, <1>11 DEF Fetch, FetchFails, history
<1>12. ASSUME NEW k \in Key, Process(k) \/ StockMoves(k) PROVE DivergenceHasCause'
  BY <1>1, <1>12 DEF Process, StockMoves, history
<1> QED BY <1>2, <1>3, <1>4, <1>5, <1>6, <1>7, <1>8, <1>9, <1>10, <1>11, <1>12
     DEF MonitorNext, PollStep, ReloadStep

MonitorInv == MonitorTypeOK /\ BaselineInv /\ ReloadInv /\ DivergenceHasCause

LEMMA MonitorStarts == ASSUME MonitorInit PROVE MonitorInv
<1> USE MonitorAssumption DEF MonitorAssumption
<1>1. MonitorTypeOK
  BY DEF MonitorInit, MonitorTypeOK, NoReload, AlertState
<1>2. BaselineInv /\ ReloadInv
  BY DEF MonitorInit, BaselineInv, ReloadInv, NoReload
<1>3. DivergenceHasCause
  BY DEF MonitorInit, DivergenceHasCause, _alerts_from_rows, _refresh_accounts
<1> QED BY <1>1, <1>2, <1>3 DEF MonitorInv

LEMMA MonitorKept ==
  ASSUME MonitorInv, [MonitorNext]_monitorVars PROVE MonitorInv'
<1>1. CASE UNCHANGED monitorVars
  <2>1. MonitorTypeOK'
    BY MonitorTypeKept DEF MonitorInv
  <2> QED BY <1>1, <2>1 DEF MonitorInv, monitorVars, base, poll, memory, db, history,
       BaselineInv, ReloadInv, DivergenceHasCause, Watched, WatchedBy, _alerts_from_rows,
       _refresh_accounts
<1>2. CASE MonitorNext
  BY <1>2, MonitorTypeKept, BaselinesKept, ReloadKept, DivergenceKept DEF MonitorInv
<1> QED BY <1>1, <1>2

(* Every variable of the poller and its registry keeps its type.           *)
THEOREM MonitorTypes == MonitorSpec => []MonitorTypeOK
<1>1. ASSUME MonitorInv, [MonitorNext]_monitorVars PROVE MonitorInv'
  BY <1>1, MonitorKept
<1>2. MonitorInv => MonitorTypeOK
  BY DEF MonitorInv
<1> QED BY MonitorStarts, <1>1, <1>2, PTL DEF MonitorSpec

(* A watched plan that counts as primed was polled in its present watch    *)
(* period, or was let go of and taken up again while a cycle covered it    *)
(* (_poll_account marks what it polled, remove_alert and reload forget).   *)
THEOREM BaselinesAreObserved == MonitorSpec => []PrimedWasObserved
<1>1. ASSUME MonitorInv, [MonitorNext]_monitorVars PROVE MonitorInv'
  BY <1>1, MonitorKept
<1>2. MonitorInv => PrimedWasObserved
  BY DEF MonitorInv, BaselineInv, PrimedWasObserved
<1> QED BY MonitorStarts, <1>1, <1>2, PTL DEF MonitorSpec

(* Where memory and database differ, a write failed or the change came     *)
(* after the last reload had read the row: a reload repairs all else.      *)
THEOREM DivergencesHaveCause == MonitorSpec => []DivergenceHasCause
<1>1. ASSUME MonitorInv, [MonitorNext]_monitorVars PROVE MonitorInv'
  BY <1>1, MonitorKept
<1>2. MonitorInv => DivergenceHasCause
  BY DEF MonitorInv
<1> QED BY MonitorStarts, <1>1, <1>2, PTL DEF MonitorSpec

=============================================================================

------------------------------- MODULE Sniper -------------------------------
(***************************************************************************)
(* The auto-order engine: SniperService (app/services/monitor.py) together *)
(* with every handler that arms or disarms it.                             *)
(*                                                                         *)
(* Everything runs on one asyncio loop, so a step is the code between two  *)
(* suspension points.  SniperService.maybe_fire has no await: it decides   *)
(* and marks in one step, and leaves a task (_fire) behind that suspends   *)
(* once, inside _execute_rush_order.  Between the task's creation, its     *)
(* first step, OVH's decision and its last step every other handler may    *)
(* run.  The order itself is abstract here: see OrderAttempt, RushOrder.   *)
(***************************************************************************)
EXTENDS Naturals

CONSTANTS
  Alert,      \* alert ids (uuid4: an id is never used twice)
  Fqn,        \* hardware configurations an alert can match
  Profile,    \* checkout profile ids
  Account,    \* stored credential sets
  owner,      \* owner[a]: StockAlert.account_id, fixed when a is created
  Reload,     \* MonitorService.reload calls at work at the same time
  NoArm,      \* "alert_id not in _armed"
  MaxArms,    \* bound: arm calls in a behaviour
  MaxFires    \* bound: _fire tasks in a behaviour

VARIABLES
  alertState, \* MonitorService._alerts: "unborn" (no such id yet), "on",
              \*   "paused" or "gone" (not in memory)
  rows,       \* the alerts table
  reload,     \* each running reload: how far it is and what it has read
  profiles,   \* checkout_profiles rows: "unborn", "stored" or "gone"
  configured, \* accounts whose OVHService is_configured()
  armed,      \* SniperService._armed
  inFlight,   \* SniperService._in_flight
  results,    \* SniperService._results: the status shown per alert
  targets,    \* snipe_targets of the running poll cycle, at most one per alert
  fires,      \* the _fire tasks that have not ended
  orders,     \* the orders OVH has accepted (OVH's state, not the program's)
  ended,      \* history: every _fire task that ended, and how
  nextArm,    \* number of arm calls so far: names the arm cycles
  nextFire,   \* number of _fire tasks so far: names the tasks
  revoked,    \* history: cycles below revoked[a] were called off by the user
  asleep,     \* history: cycles that began while their alert was paused
  crossed     \* history: alerts that changed while a reload held older rows,
              \*   or whose row was not written, since the process started

registry == <<rows, reload, crossed>>
vars == <<alertState, profiles, configured, armed, inFlight, results, targets,
          fires, orders, ended, nextArm, nextFire, revoked, asleep, registry>>

SniperAssumption ==
  /\ owner \in [Alert -> Account]
  /\ MaxArms \in Nat
  /\ MaxFires \in Nat

-----------------------------------------------------------------------------
(* The values the variables range over.                                    *)

Outcome == {"ordered", "failed", "failedButPlaced", "setupError"}

Arm    == [profile : Profile, seen : SUBSET Fqn, cycle : Nat]
Fire   == [id : Nat, alert : Alert, fqn : Fqn, profile : Profile, cycle : Nat,
           pc : {"created", "ordering", "accepted"}]
Order  == [id : Nat, alert : Alert, cycle : Nat]
Ended  == [id : Nat, alert : Alert, fqn : Fqn, cycle : Nat, outcome : Outcome]
Target == [alert : Alert, fqns : SUBSET Fqn]
Row    == {"absent", "on", "paused"}

NoReload == [pc |-> "idle", rows |-> [a \in Alert |-> "absent"], known |-> {}]

ASSUME SniperConstants == SniperAssumption /\ NoArm \notin Arm

TypeOK ==
  /\ alertState \in [Alert -> {"unborn", "on", "paused", "gone"}]
  /\ profiles \in [Profile -> {"unborn", "stored", "gone"}]
  /\ configured \subseteq Account
  /\ armed \in [Alert -> Arm \cup {NoArm}]
  /\ inFlight \subseteq Alert
  /\ results \in [Alert -> {"none", "ordered", "error"}]
  /\ targets \subseteq Target
  /\ fires \subseteq Fire
  /\ orders \subseteq Order
  /\ ended \subseteq Ended
  /\ nextArm \in Nat
  /\ nextFire \in Nat
  /\ revoked \in [Alert -> Nat]
  /\ asleep \subseteq Nat
  /\ rows \in [Alert -> Row]
  /\ reload \in [Reload -> [pc : {"idle", "alertsRead", "accountsRead"},
                            rows : [Alert -> Row], known : SUBSET Account]]
  /\ crossed \subseteq Alert

IsArmed(a) == armed[a] # NoArm

Init ==
  /\ alertState = [a \in Alert |-> "unborn"]
  /\ profiles = [p \in Profile |-> "unborn"]
  /\ configured = Account
  /\ armed = [a \in Alert |-> NoArm]
  /\ inFlight = {}
  /\ results = [a \in Alert |-> "none"]
  /\ targets = {}
  /\ fires = {}
  /\ orders = {}
  /\ ended = {}
  /\ nextArm = 0
  /\ nextFire = 0
  /\ revoked = [a \in Alert |-> 0]
  /\ asleep = {}
  /\ rows = [a \in Alert |-> "absent"]
  /\ reload = [r \in Reload |-> NoReload]
  /\ crossed = {}

-----------------------------------------------------------------------------
(* The alerts table.  A handler changes memory and row in one step; a      *)
(* write that fails is logged and swallowed.                               *)

Overtaken == \E r \in Reload : reload[r].pc # "idle"

Persist(a, row) ==
  /\ \/ /\ rows' = [rows EXCEPT ![a] = row]
        /\ crossed' = IF Overtaken THEN crossed \cup {a} ELSE crossed
     \/ UNCHANGED rows /\ crossed' = crossed \cup {a}
  /\ UNCHANGED reload

-----------------------------------------------------------------------------
(* Arming.                                                                 *)

(* SniperService.arm: a fresh entry replaces any older one, whatever that  *)
(* one's task is doing, and the last result is forgotten.                  *)
arm(a, p) ==
  /\ nextArm < MaxArms
  /\ armed' = [armed EXCEPT ![a] =
                 [profile |-> p, seen |-> {}, cycle |-> nextArm]]
  /\ results' = [results EXCEPT ![a] = "none"]
  /\ nextArm' = nextArm + 1
  /\ asleep' = IF alertState[a] = "paused" THEN asleep \cup {nextArm} ELSE asleep

(* POST /api/sniper/arm: any alert in memory, paused or not, and any       *)
(* profile still stored.                                                   *)
ArmEndpoint(a, p) ==
  /\ alertState[a] \in {"on", "paused"}
  /\ profiles[p] = "stored"
  /\ arm(a, p)
  /\ UNCHANGED <<alertState, profiles, configured, inFlight, targets, fires,
                 orders, ended, nextFire, revoked, registry>>

(* MonitorService.add_alert.  Its row may be refused also because memory   *)
(* no longer had the alert that the row of the same configuration is of.   *)
add_alert(a) ==
  /\ alertState[a] = "unborn"
  /\ owner[a] \in configured
  /\ alertState' = [alertState EXCEPT ![a] = "on"]
  /\ Persist(a, "on")

(* _arm_sniper_from_rush: save a profile, reuse the alert on the same      *)
(* configuration (also a paused one) or create it, and arm.                *)
ArmFromRush(a, p) ==
  /\ \/ alertState[a] \in {"on", "paused"} /\ UNCHANGED <<alertState, registry>>
     \/ add_alert(a)
  /\ profiles[p] = "unborn"
  /\ profiles' = [profiles EXCEPT ![p] = "stored"]
  /\ arm(a, p)
  /\ UNCHANGED <<configured, inFlight, targets, fires, orders, ended, nextFire,
                 revoked>>

(* POST /api/alerts.                                                       *)
AddAlert(a) ==
  /\ add_alert(a)
  /\ UNCHANGED <<profiles, configured, armed, inFlight, results, targets,
                 fires, orders, ended, nextArm, nextFire, revoked, asleep>>

-----------------------------------------------------------------------------
(* Disarming.  None of these touches a task that is already in flight.     *)

DisarmAll(S) == armed' = [a \in Alert |-> IF a \in S THEN NoArm ELSE armed[a]]
Revoke(S) ==
  revoked' = [a \in Alert |-> IF a \in S THEN nextArm ELSE revoked[a]]

(* POST /api/sniper/disarm.                                                *)
Disarm(a) ==
  /\ IsArmed(a)
  /\ DisarmAll({a})
  /\ Revoke({a})
  /\ UNCHANGED <<alertState, profiles, configured, inFlight, results, targets,
                 fires, orders, ended, nextArm, nextFire, asleep, registry>>

(* UPDATE alerts SET enabled ... WHERE id = ?: no row, no effect.          *)
SetEnabled(a, state) ==
  /\ alertState' = [alertState EXCEPT ![a] = state]
  /\ Persist(a, IF rows[a] = "absent" THEN "absent" ELSE state)

(* Mutant of SetAlertEnabled: the armed entry stays.                       *)
SetAlertEnabledKeepsArm(a, enabled) ==
  /\ alertState[a] \in {"on", "paused"}
  /\ SetEnabled(a, IF enabled THEN "on" ELSE "paused")
  /\ Revoke(IF enabled THEN {} ELSE {a})
  /\ UNCHANGED <<profiles, configured, armed, inFlight, results, targets,
                 fires, orders, ended, nextArm, nextFire, asleep>>

(* MonitorService.set_alert_enabled: pausing disarms, resuming does not    *)
(* arm again.                                                              *)
SetAlertEnabled(a, enabled) ==
  /\ alertState[a] \in {"on", "paused"}
  /\ SetEnabled(a, IF enabled THEN "on" ELSE "paused")
  /\ DisarmAll(IF enabled THEN {} ELSE {a})
  /\ Revoke(IF enabled THEN {} ELSE {a})
  /\ UNCHANGED <<profiles, configured, inFlight, results, targets, fires,
                 orders, ended, nextArm, nextFire, asleep>>

(* Mutant of RemoveAlert: the armed entry stays.                           *)
RemoveAlertKeepsArm(a) ==
  /\ alertState[a] \in {"on", "paused"}
  /\ alertState' = [alertState EXCEPT ![a] = "gone"]
  /\ Persist(a, "absent")
  /\ Revoke({a})
  /\ UNCHANGED <<profiles, configured, armed, inFlight, results, targets,
                 fires, orders, ended, nextArm, nextFire, asleep>>

(* MonitorService.remove_alert.                                            *)
RemoveAlert(a) ==
  /\ alertState[a] \in {"on", "paused"}
  /\ alertState' = [alertState EXCEPT ![a] = "gone"]
  /\ Persist(a, "absent")
  /\ DisarmAll({a})
  /\ Revoke({a})
  /\ UNCHANGED <<profiles, configured, inFlight, results, targets, fires,
                 orders, ended, nextArm, nextFire, asleep>>

(* DELETE /api/accounts/{id} up to its await: the credentials, the cached  *)
(* service and the armed entries go in one step ...                        *)
DeleteAccount(acc) ==
  /\ acc \in configured
  /\ configured' = configured \ {acc}
  /\ DisarmAll({a \in Alert : owner[a] = acc})
  /\ Revoke({a \in Alert : owner[a] = acc})
  /\ UNCHANGED <<alertState, profiles, inFlight, results, targets, fires,
                 orders, ended, nextArm, nextFire, asleep, registry>>

(* ... and the alerts when the reload it then awaits is done.              *)

-----------------------------------------------------------------------------
(* MonitorService.reload, which also a switch of the active account calls: *)
(* two reads in worker threads (a third, of the active account's id, only  *)
(* matters to rows without one), and then memory is overwritten.           *)

SetReload(r, s) ==
  /\ reload' = [reload EXCEPT ![r] = s]
  /\ UNCHANGED <<profiles, configured, armed, inFlight, results, targets,
                 fires, orders, ended, nextArm, nextFire, revoked, asleep,
                 rows, crossed>>

ReloadReadsAlerts(r) ==
  /\ reload[r].pc = "idle"
  /\ SetReload(r, [NoReload EXCEPT !.pc = "alertsRead", !.rows = rows])
  /\ UNCHANGED alertState

ReloadReadsAccounts(r) ==
  /\ reload[r].pc = "alertsRead"
  /\ SetReload(r, [reload[r] EXCEPT !.pc = "accountsRead", !.known = configured])
  /\ UNCHANGED alertState

(* Rows of a deleted account are skipped.  Whatever else memory had is     *)
(* dropped, and an alert that memory had lost comes back.                  *)
_alerts_from_rows(stored, known) ==
  [a \in Alert |->
     IF alertState[a] = "unborn" THEN "unborn"
     ELSE IF stored[a] = "absent" \/ owner[a] \notin known THEN "gone"
     ELSE stored[a]]

(* The sniper is not asked: its entries stay as they are.                  *)
ReloadApplies(r) ==
  /\ reload[r].pc = "accountsRead"
  /\ alertState' = _alerts_from_rows(reload[r].rows, reload[r].known)
  /\ SetReload(r, NoReload)

(* A read that raises is logged, and memory stays as it is.                *)
ReloadFails(r) ==
  /\ reload[r].pc # "idle"
  /\ SetReload(r, NoReload)
  /\ UNCHANGED alertState

(* MonitorService.start when the setting comes on: its _load_from_storage  *)
(* has no await, and updates memory with the rows, whatever else it has.   *)
StartMonitor ==
  LET loaded == _alerts_from_rows(rows, configured) IN
  /\ alertState' = [a \in Alert |->
       IF loaded[a] \in {"on", "paused"} THEN loaded[a] ELSE alertState[a]]
  /\ UNCHANGED <<profiles, configured, armed, inFlight, results, targets,
                 fires, orders, ended, nextArm, nextFire, revoked, asleep,
                 registry>>

(* POST and DELETE /api/profiles: deleting a profile leaves a sniper that   *)
(* uses it armed.                                                          *)
CreateProfile(p) ==
  /\ profiles[p] = "unborn"
  /\ profiles' = [profiles EXCEPT ![p] = "stored"]
  /\ UNCHANGED <<alertState, configured, armed, inFlight, results, targets,
                 fires, orders, ended, nextArm, nextFire, revoked, asleep,
                 registry>>

DeleteProfile(p) ==
  /\ profiles[p] = "stored"
  /\ profiles' = [profiles EXCEPT ![p] = "gone"]
  /\ UNCHANGED <<alertState, configured, armed, inFlight, results, targets,
                 fires, orders, ended, nextArm, nextFire, revoked, asleep,
                 registry>>

-----------------------------------------------------------------------------
(* Firing.                                                                 *)

(* The locked section of _poll_account: an armed alert that is on becomes  *)
(* a snipe target for the configurations in stock now.  The account was    *)
(* configured when the cycle began, and need not be any more.  One poller  *)
(* finishes an alert's target before it looks at the alert again.          *)
PollMatches(a, fqns) ==
  /\ alertState[a] = "on"
  /\ IsArmed(a)
  /\ \A t \in targets : t.alert # a
  /\ targets' = targets \cup {[alert |-> a, fqns |-> fqns]}
  /\ UNCHANGED <<alertState, profiles, configured, armed, inFlight, results,
                 fires, orders, ended, nextArm, nextFire, revoked, asleep,
                 registry>>

(* maybe_fire decides on the state at the time of the call, which is some  *)
(* awaits (event log, notifications) after the match.                      *)
NewFqns(t) == t.fqns \ armed[t.alert].seen

CanFire(t) ==
  /\ IsArmed(t.alert)
  /\ t.alert \notin inFlight
  /\ NewFqns(t) # {}

maybe_fire(t) ==
  LET a == t.alert IN
  /\ t \in targets
  /\ CanFire(t)
  /\ nextFire < MaxFires
  /\ \E q \in NewFqns(t) :
       /\ armed' = [armed EXCEPT ![a].seen = @ \cup {q}]
       /\ fires' = fires \cup
            {[id |-> nextFire, alert |-> a, fqn |-> q, pc |-> "created",
              profile |-> armed[a].profile, cycle |-> armed[a].cycle]}
  /\ inFlight' = inFlight \cup {a}
  /\ nextFire' = nextFire + 1
  /\ targets' = targets \ {t}
  /\ UNCHANGED <<alertState, profiles, configured, results, orders, ended,
                 nextArm, revoked, asleep, registry>>

(* The early returns of maybe_fire; the poll may also fail before it.      *)
DropTarget(t) ==
  /\ t \in targets
  /\ targets' = targets \ {t}
  /\ UNCHANGED <<alertState, profiles, configured, armed, inFlight, results,
                 fires, orders, ended, nextArm, nextFire, revoked, asleep,
                 registry>>

(* What every way out of _fire does: the finally clause.                   *)
EndFire(f, outcome) ==
  /\ fires' = fires \ {f}
  /\ inFlight' = inFlight \ {f.alert}
  /\ ended' = ended \cup {[id |-> f.id, alert |-> f.alert, fqn |-> f.fqn,
                           cycle |-> f.cycle, outcome |-> outcome]}

(* Whether the profile of a task is still to be found.                     *)
load_profile(p) == profiles[p] = "stored"

CanOrder(f) == load_profile(f.profile) /\ owner[f.alert] \in configured

(* The task's first step: no profile or no credentials ends it at once,    *)
(* through the returns that do not give the configuration back.            *)
FireSetupError(f) ==
  /\ f.pc = "created"
  /\ ~ CanOrder(f)
  /\ results' = [results EXCEPT ![f.alert] = "error"]
  /\ EndFire(f, "setupError")
  /\ UNCHANGED <<alertState, profiles, configured, armed, targets, orders,
                 nextArm, nextFire, revoked, asleep, registry>>

FireStart(f) ==
  /\ f.pc = "created"
  /\ CanOrder(f)
  /\ fires' = (fires \ {f}) \cup {[f EXCEPT !.pc = "ordering"]}
  /\ UNCHANGED <<alertState, profiles, configured, armed, inFlight, results,
                 targets, orders, ended, nextArm, nextFire, revoked, asleep,
                 registry>>

(* OVH processes the checkout.                                             *)
OvhAccepts(f) ==
  /\ f.pc = "ordering"
  /\ fires' = (fires \ {f}) \cup {[f EXCEPT !.pc = "accepted"]}
  /\ orders' = orders \cup {[id |-> f.id, alert |-> f.alert, cycle |-> f.cycle]}
  /\ UNCHANGED <<alertState, profiles, configured, armed, inFlight, results,
                 targets, ended, nextArm, nextFire, revoked, asleep, registry>>

(* Mutants of FireSucceeds: a failed order call counts as an order; the    *)
(* alert stays armed after its order.                                      *)
FireSucceedsBlind(f) ==
  /\ f.pc \in {"ordering", "accepted"}
  /\ results' = [results EXCEPT ![f.alert] = "ordered"]
  /\ DisarmAll({f.alert})
  /\ EndFire(f, "ordered")
  /\ UNCHANGED <<alertState, profiles, configured, targets, orders, nextArm,
                 nextFire, revoked, asleep, registry>>

FireSucceedsArmed(f) ==
  /\ f.pc = "accepted"
  /\ results' = [results EXCEPT ![f.alert] = "ordered"]
  /\ EndFire(f, "ordered")
  /\ UNCHANGED <<alertState, profiles, configured, armed, targets, orders,
                 nextArm, nextFire, revoked, asleep, registry>>

(* The reply arrives and log_order succeeds: the alert is disarmed,        *)
(* whichever arm call made the entry that is there now.                    *)
FireSucceeds(f) ==
  /\ f.pc = "accepted"
  /\ results' = [results EXCEPT ![f.alert] = "ordered"]
  /\ DisarmAll({f.alert})
  /\ EndFire(f, "ordered")
  /\ UNCHANGED <<alertState, profiles, configured, targets, orders, nextArm,
                 nextFire, revoked, asleep, registry>>

(* Mutant of FireFails: the configuration stays in fqns_seen.              *)
FireFailsBlocks(f) ==
  /\ results' = [results EXCEPT ![f.alert] = "error"]
  /\ EndFire(f, IF f.pc = "accepted" THEN "failedButPlaced" ELSE "failed")
  /\ UNCHANGED <<alertState, profiles, configured, armed, targets, orders,
                 nextArm, nextFire, revoked, asleep, registry>>

(* The except clause: any exception in the task, so also a checkout reply  *)
(* lost after OVH took the order and a log_order that raises.              *)
FireFails(f) ==
  LET a == f.alert IN
  /\ results' = [results EXCEPT ![a] = "error"]
  /\ armed' = IF IsArmed(a)
              THEN [armed EXCEPT ![a].seen = @ \ {f.fqn}]
              ELSE armed
  /\ EndFire(f, IF f.pc = "accepted" THEN "failedButPlaced" ELSE "failed")
  /\ UNCHANGED <<alertState, profiles, configured, targets, orders, nextArm,
                 nextFire, revoked, asleep, registry>>

(* The process dies and starts again: arms, results and tasks were only in *)
(* memory.  _load_from_storage takes the alerts from their rows; if it     *)
(* fails, there are none until the next reload.                            *)
Restart ==
  /\ \/ /\ alertState' = _alerts_from_rows(rows, configured)
        /\ crossed' = {}
     \/ /\ alertState' = _alerts_from_rows(rows, {})
        /\ crossed' = {a \in Alert : rows[a] # "absent"}
  /\ armed' = [a \in Alert |-> NoArm]
  /\ inFlight' = {}
  /\ results' = [a \in Alert |-> "none"]
  /\ targets' = {}
  /\ fires' = {}
  /\ reload' = [r \in Reload |-> NoReload]
  /\ UNCHANGED <<profiles, configured, orders, ended, nextArm, nextFire,
                 revoked, asleep, rows>>

-----------------------------------------------------------------------------
FireStep(f) ==
  \/ FireSetupError(f)
  \/ FireStart(f)
  \/ OvhAccepts(f)
  \/ FireSucceeds(f)
  \/ FireFails(f)

ReloadStep(r) ==
  \/ ReloadReadsAlerts(r)
  \/ ReloadReadsAccounts(r)
  \/ ReloadApplies(r)
  \/ ReloadFails(r)

Next ==
  \/ \E a \in Alert :
       \/ \E p \in Profile : ArmEndpoint(a, p) \/ ArmFromRush(a, p)
       \/ AddAlert(a)
       \/ Disarm(a)
       \/ \E e \in BOOLEAN : SetAlertEnabled(a, e)
       \/ RemoveAlert(a)
       \/ \E Q \in SUBSET Fqn : Q # {} /\ PollMatches(a, Q)
  \/ \E acc \in Account : DeleteAccount(acc)
  \/ \E r \in Reload : ReloadStep(r)
  \/ StartMonitor
  \/ \E p \in Profile : CreateProfile(p) \/ DeleteProfile(p)
  \/ \E t \in targets : maybe_fire(t) \/ DropTarget(t)
  \/ \E f \in fires : FireStep(f)
  \/ Restart

Spec == Init /\ [][Next]_vars

-----------------------------------------------------------------------------
(* Properties.                                                             *)

(* "prevents overlapping fires": _in_flight names exactly the alerts that  *)
(* have a _fire task, and an alert never has two tasks.                    *)
InFlightExact ==
  /\ inFlight = {f.alert : f \in fires}
  /\ \A f, g \in fires : f.alert = g.alert => f = g

FailedButPlaced(id) ==
  \E e \in ended : e.id = id /\ e.outcome = "failedButPlaced"

(* What the one-shot rule really gives: a second order in one arm cycle    *)
(* comes only after an attempt that OVH accepted and the program took for  *)
(* a failure, because the reply or the log_order write was lost.           *)
DuplicateNeedsLostReply ==
  \A o1, o2 \in orders :
    o1.cycle = o2.cycle /\ o1.id < o2.id => FailedButPlaced(o1.id)

(* fqns_seen blocks a configuration only while it is being ordered, or     *)
(* after a task of this arm cycle gave up for want of profile or           *)
(* credentials: a transient failure never stops the sniper for good.       *)
BlockedHasCause ==
  \A a \in Alert : IsArmed(a) =>
    \A q \in armed[a].seen :
      \/ \E f \in fires : f.alert = a /\ f.fqn = q /\ f.cycle = armed[a].cycle
      \/ \E e \in ended : /\ e.cycle = armed[a].cycle /\ e.fqn = q
                          /\ e.outcome = "setupError"

(* "A paused alert must never silently auto-order" (monitor.py:705), and   *)
(* neither does a disarmed or deleted one: a poll cycle that matched       *)
(* before the user called the sniper off creates no task for that arm.     *)
RevokedNeverFires ==
  [][\A t \in targets :
       maybe_fire(t) => armed[t.alert].cycle >= revoked[t.alert]]_vars

(* "Pausing an alert therefore disarms" (monitor.py:703), removing one and *)
(* deleting its account too, so that none sits "armed but dead": an entry  *)
(* of an alert that no poll looks at was made after all of these, and has  *)
(* one of three causes.  It was armed while paused, which ArmEndpoint and  *)
(* ArmFromRush allow; its account is deleted; or a reload took the alert   *)
(* out of memory or put it back to paused (which a start of the monitor    *)
(* can do too), and that takes an alert that changed after the reload had  *)
(* read its row, or a row that was not written.                            *)
DeadArmHasCause ==
  \A a \in Alert : IsArmed(a) /\ alertState[a] # "on" =>
    /\ armed[a].cycle >= revoked[a]
    /\ \/ alertState[a] = "paused" /\ armed[a].cycle \in asleep
       \/ owner[a] \notin configured
       \/ a \in crossed

-----------------------------------------------------------------------------
(* The i-th task is one order attempt, as its caller sees it: it is        *)
(* pending until the task ends, and a task that a crash took with it has   *)
(* failed.                                                                 *)
Pending(i) == i >= nextFire \/ \E f \in fires : f.id = i
Placed(i)  == \E o \in orders : o.id = i
Succeeded(i) == \E e \in ended : e.id = i /\ e.outcome = "ordered"
Status(i)  ==
  IF Pending(i) THEN "pending" ELSE IF Succeeded(i) THEN "ordered" ELSE "failed"

Attempt(i) ==
  INSTANCE OrderAttempt WITH status <- Status(i), placed <- Placed(i)

(* Every task keeps the promise of OrderAttempt: one outcome, at most one  *)
(* order, "ordered" only if OVH took it.                                   *)
FiresAreAttempts ==
  /\ \A i \in 0 .. MaxFires - 1 : Attempt(i)!Init
  /\ [][\A i \in 0 .. MaxFires - 1 :
          [Attempt(i)!Next]_<<Status(i), Placed(i)>>]_vars

=============================================================================

---------------------------- MODULE SniperProofs ----------------------------
(***************************************************************************)
(* Proofs about Sniper for any set of alerts, configurations, profiles and *)
(* accounts and any bounds.  Each section states one inductive invariant   *)
(* and the properties of Sniper that follow from it.                       *)
(***************************************************************************)
EXTENDS Sniper, RushOrder, TLAPS

-----------------------------------------------------------------------------
(* Types.                                                                  *)

(* A new arm entry, and one whose fqns_seen changes, is an arm entry.      *)
LEMMA ArmEntry ==
  ASSUME NEW p \in Profile, NEW S \in SUBSET Fqn, NEW n \in Nat
  PROVE  [profile |-> p, seen |-> S, cycle |-> n] \in Arm
BY DEF Arm

LEMMA SeenEntry ==
  ASSUME NEW A \in [Alert -> Arm \cup {NoArm}], NEW a \in Alert,
         A[a] \in Arm, NEW S \in SUBSET Fqn
  PROVE  [A EXCEPT ![a].seen = S] \in [Alert -> Arm \cup {NoArm}]
<1> DEFINE e == [A[a] EXCEPT !.seen = S]
<1>1. e \in Arm
  BY DEF Arm
<1>2. [A EXCEPT ![a] = e] \in [Alert -> Arm \cup {NoArm}]
  <2> HIDE DEF e
  <2> QED
    BY <1>1
<1> QED
  BY <1>2

LEMMA TypeInductive ==
  ASSUME TypeOK, [Next]_vars
  PROVE  TypeOK'
<1> USE SniperConstants DEF SniperAssumption, TypeOK
<1> DEFINE RegistryOK == /\ rows \in [Alert -> Row]
                         /\ reload \in [Reload ->
                              [pc : {"idle", "alertsRead", "accountsRead"},
                               rows : [Alert -> Row], known : SUBSET Account]]
                         /\ crossed \subseteq Alert
<1>0. RegistryOK /\ (UNCHANGED registry => RegistryOK')
  BY DEF registry
<1>1. ASSUME NEW a \in Alert, NEW p \in Profile, arm(a, p)
      PROVE  /\ armed' \in [Alert -> Arm \cup {NoArm}]
             /\ results' \in [Alert -> {"none", "ordered", "error"}]
             /\ nextArm' \in Nat
             /\ asleep' \subseteq Nat
  <2>1. nextArm' \in Nat /\ results' \in [Alert -> {"none", "ordered", "error"}]
    BY <1>1 DEF arm
  <2>2. armed' \in [Alert -> Arm \cup {NoArm}]
    <3>1. [profile |-> p, seen |-> {}, cycle |-> nextArm] \in Arm
      BY ArmEntry
    <3> QED
      BY <1>1, <3>1 DEF arm
  <2>3. asleep' \subseteq Nat
    BY <1>1 DEF arm
  <2> QED
    BY <2>1, <2>2, <2>3
<1>p. ASSUME NEW a \in Alert, NEW row \in Row, Persist(a, row)
      PROVE  RegistryOK'
  <2>1. rows' \in [Alert -> Row]
    BY <1>p DEF Persist
  <2>2. crossed' \subseteq Alert
    BY <1>p DEF Persist
  <2>3. reload' = reload
    BY <1>p DEF Persist
  <2> QED
    BY <1>0, <2>1, <2>2, <2>3
<1>a. ASSUME NEW a \in Alert, add_alert(a)
      PROVE  alertState' \in [Alert -> {"unborn", "on", "paused", "gone"}]
             /\ RegistryOK'
  BY <1>p, <1>a DEF add_alert, Row
<1>r. ASSUME NEW r \in Reload, NEW s \in [pc : {"idle", "alertsRead", "accountsRead"},
                                        rows : [Alert -> Row], known : SUBSET Account],
             SetReload(r, s)
      PROVE  RegistryOK'
  BY <1>r DEF SetReload
<1>f. ASSUME NEW stored \in [Alert -> Row], NEW known
      PROVE  _alerts_from_rows(stored, known) \in [Alert -> {"unborn", "on", "paused", "gone"}]
  BY DEF _alerts_from_rows, Row
<1>n. NoReload \in [pc : {"idle", "alertsRead", "accountsRead"},
                   rows : [Alert -> Row], known : SUBSET Account]
  BY DEF NoReload, Row
<1>2. ASSUME NEW a \in Alert, NEW p \in Profile, ArmEndpoint(a, p)
      PROVE  TypeOK'
  BY <1>0, <1>1, <1>2 DEF ArmEndpoint
<1>3. ASSUME NEW a \in Alert, NEW p \in Profile, ArmFromRush(a, p)
      PROVE  TypeOK'
  BY <1>0, <1>1, <1>a, <1>3 DEF ArmFromRush
<1>4. ASSUME NEW a \in Alert, AddAlert(a)
      PROVE  TypeOK'
  BY <1>a, <1>4 DEF AddAlert
<1>5. ASSUME NEW a \in Alert, Disarm(a)
      PROVE  TypeOK'
  BY <1>0, <1>5 DEF Disarm, DisarmAll, Revoke
<1>6. ASSUME NEW a \in Alert, NEW e \in BOOLEAN, SetAlertEnabled(a, e)
      PROVE  TypeOK'
  BY <1>p, <1>6 DEF SetAlertEnabled, SetEnabled, DisarmAll, Revoke, Row
<1>7. ASSUME NEW a \in Alert, RemoveAlert(a)
      PROVE  TypeOK'
  BY <1>p, <1>7 DEF RemoveAlert, DisarmAll, Revoke, Row
<1>8. ASSUME NEW a \in Alert, NEW Q \in SUBSET Fqn, PollMatches(a, Q)
      PROVE  TypeOK'
  BY <1>0, <1>8 DEF PollMatches, Target
<1>9. ASSUME NEW acc \in Account, DeleteAccount(acc)
      PROVE  TypeOK'
  BY <1>0, <1>9 DEF DeleteAccount, DisarmAll, Revoke
<1>10. ASSUME NEW r \in Reload, ReloadStep(r)
       PROVE  TypeOK'
  <2>1. CASE ReloadReadsAlerts(r)
    BY <1>r, <1>n, <2>1 DEF ReloadReadsAlerts, SetReload
  <2>2. CASE ReloadReadsAccounts(r)
    BY <1>r, <2>2 DEF ReloadReadsAccounts, SetReload
  <2>3. CASE ReloadApplies(r)
    BY <1>r, <1>n, <1>f, <2>3 DEF ReloadApplies, SetReload
  <2>4. CASE ReloadFails(r)
    BY <1>r, <1>n, <2>4 DEF ReloadFails, SetReload
  <2> QED
    BY <1>10, <2>1, <2>2, <2>3, <2>4 DEF ReloadStep
<1>11. ASSUME NEW p \in Profile, CreateProfile(p) \/ DeleteProfile(p)
       PROVE  TypeOK'
  BY <1>0, <1>11 DEF CreateProfile, DeleteProfile
<1>12. ASSUME NEW t \in targets, maybe_fire(t)
       PROVE  TypeOK'
  <2>1. t.alert \in Alert /\ armed[t.alert] \in Arm
    BY <1>12 DEF maybe_fire, CanFire, IsArmed, Target
  <2>2. PICK q \in NewFqns(t) :
          /\ armed' = [armed EXCEPT ![t.alert].seen = @ \cup {q}]
          /\ fires' = fires \cup
               {[id |-> nextFire, alert |-> t.alert, fqn |-> q,
                 pc |-> "created", profile |-> armed[t.alert].profile,
                 cycle |-> armed[t.alert].cycle]}
    BY <1>12 DEF maybe_fire
  <2>3. q \in Fqn
    BY <2>1 DEF NewFqns, Target
  <2>4. armed[t.alert].seen \cup {q} \in SUBSET Fqn
    BY <2>1, <2>3 DEF Arm
  <2>5. armed' \in [Alert -> Arm \cup {NoArm}]
    BY <2>1, <2>2, <2>4, SeenEntry
  <2>6. fires' \subseteq Fire
    BY <2>1, <2>2, <2>3 DEF Fire, Arm
  <2> QED
    BY <1>0, <1>12, <2>1, <2>5, <2>6 DEF maybe_fire
<1>13. ASSUME NEW t \in targets, DropTarget(t)
       PROVE  TypeOK'
  BY <1>0, <1>13 DEF DropTarget
<1>14. ASSUME NEW f \in fires, NEW o \in Outcome, EndFire(f, o)
       PROVE  fires' \subseteq Fire /\ inFlight' \subseteq Alert
              /\ ended' \subseteq Ended
  BY <1>14 DEF EndFire, Fire, Ended
<1>15. ASSUME NEW f \in fires, FireStep(f)
       PROVE  TypeOK'
  <2>1. f.alert \in Alert /\ f \in Fire
    BY DEF Fire
  <2>2. CASE FireSetupError(f)
    BY <1>0, <1>14, <2>1, <2>2 DEF FireSetupError, Outcome
  <2>3. CASE FireStart(f)
    BY <1>0, <2>1, <2>3 DEF FireStart, Fire
  <2>4. CASE OvhAccepts(f)
    BY <1>0, <2>1, <2>4 DEF OvhAccepts, Fire, Order
  <2>5. CASE FireSucceeds(f)
    BY <1>0, <1>14, <2>1, <2>5 DEF FireSucceeds, DisarmAll, Outcome
  <2>6. CASE FireFails(f)
    <3>1. armed' \in [Alert -> Arm \cup {NoArm}]
      <4>1. CASE IsArmed(f.alert)
        <5>1. armed[f.alert] \in Arm
          BY <2>1, <4>1 DEF IsArmed
        <5>2. armed[f.alert].seen \ {f.fqn} \in SUBSET Fqn
          BY <5>1 DEF Arm
        <5> QED
          BY <2>1, <2>6, <4>1, <5>1, <5>2, SeenEntry DEF FireFails
      <4>2. CASE ~ IsArmed(f.alert)
        BY <2>6, <4>2 DEF FireFails
      <4> QED
        BY <4>1, <4>2
    <3> QED
      BY <1>0, <1>14, <2>1, <2>6, <3>1 DEF FireFails, Outcome
  <2> QED
    BY <1>15, <2>2, <2>3, <2>4, <2>5, <2>6 DEF FireStep
<1>16. CASE Restart
  BY <1>f, <1>n, <1>16 DEF Restart
<1>17. CASE StartMonitor
  BY <1>0, <1>f, <1>17 DEF StartMonitor
<1>18. CASE UNCHANGED vars
  BY <1>0, <1>18 DEF vars
<1> QED
  BY <1>2, <1>3, <1>4, <1>5, <1>6, <1>7, <1>8, <1>9, <1>10, <1>11, <1>12,
     <1>13, <1>15, <1>16, <1>17, <1>18 DEF Next

(* Every variable keeps its type: no handler leaves an entry without a     *)
(* field or a task outside its three stages.                               *)
THEOREM TypeCorrect == Spec => []TypeOK
<1>1. Init => TypeOK
  BY SniperConstants DEF Init, TypeOK, SniperAssumption, NoReload, Row
<1> QED
  BY <1>1, TypeInductive, PTL DEF Spec

-----------------------------------------------------------------------------
(* In-flight tasks.                                                        *)

(* _in_flight is exactly the alerts with a _fire task, one task each:      *)
(* maybe_fire adds both in one step, and every end of _fire removes both.  *)
THEOREM InFlightCorrect == Spec => []InFlightExact
<1>1. Init => InFlightExact
  BY DEF Init, InFlightExact
<1>2. TypeOK /\ InFlightExact /\ [Next]_vars => InFlightExact'
  <2> SUFFICES ASSUME TypeOK, InFlightExact, [Next]_vars
               PROVE  InFlightExact'
    OBVIOUS
  <2> USE DEF InFlightExact
  <2>1. ASSUME UNCHANGED <<fires, inFlight>>
        PROVE  InFlightExact'
    BY <2>1
  <2>2. ASSUME NEW t \in targets, maybe_fire(t)
        PROVE  InFlightExact'
    <3>1. t.alert \notin inFlight /\ inFlight' = inFlight \cup {t.alert}
      BY <2>2 DEF maybe_fire, CanFire
    <3>2. PICK g : g.alert = t.alert /\ fires' = fires \cup {g}
      BY <2>2 DEF maybe_fire
    <3> QED
      BY <3>1, <3>2
  <2>3. ASSUME NEW f \in fires, NEW o, EndFire(f, o)
        PROVE  InFlightExact'
    BY <2>3 DEF EndFire
  <2>4. ASSUME NEW f \in fires, FireStep(f)
        PROVE  InFlightExact'
    <3>1. ASSUME NEW g, g.alert = f.alert, inFlight' = inFlight,
                 fires' = (fires \ {f}) \cup {g}
          PROVE  InFlightExact'
      BY <3>1
    <3>2. \A s : [f EXCEPT !.pc = s].alert = f.alert
      BY DEF TypeOK, Fire
    <3> QED
      BY <2>3, <2>4, <3>1, <3>2
      DEF FireStep, FireSetupError, FireStart, OvhAccepts, FireSucceeds,
          FireFails
  <2>5. CASE Restart
    BY <2>5 DEF Restart
  <2> QED
    BY <2>1, <2>2, <2>4, <2>5
    DEF Next, vars, ArmEndpoint, ArmFromRush, AddAlert, Disarm,
        SetAlertEnabled, RemoveAlert, PollMatches, DeleteAccount,
        ReloadStep, ReloadReadsAlerts, ReloadReadsAccounts,
        ReloadApplies, ReloadFails, SetReload, StartMonitor, CreateProfile,
        DeleteProfile, DropTarget
<1> QED
  BY <1>1, <1>2, TypeCorrect, PTL DEF Spec

-----------------------------------------------------------------------------
(* Arms that were called off.                                              *)

(* An entry that is there was made after the user last called the alert    *)
(* off.                                                                    *)
ArmedSinceRevoked ==
  \A a \in Alert : /\ revoked[a] <= nextArm
                   /\ IsArmed(a) => revoked[a] <= armed[a].cycle

LEMMA ArmedSinceRevokedInductive ==
  ASSUME TypeOK, ArmedSinceRevoked, [Next]_vars
  PROVE  ArmedSinceRevoked'
<1> USE DEF ArmedSinceRevoked, IsArmed
<1>0. /\ armed \in [Alert -> Arm \cup {NoArm}]
      /\ revoked \in [Alert -> Nat]
      /\ nextArm \in Nat
      /\ targets \subseteq Target
      /\ fires \subseteq Fire
  BY DEF TypeOK
<1>1. ASSUME NEW a \in Alert, NEW p \in Profile, arm(a, p),
             UNCHANGED revoked
      PROVE  ArmedSinceRevoked'
  BY <1>0, <1>1 DEF arm
<1>2. ASSUME NEW S, DisarmAll(S), Revoke(S), UNCHANGED nextArm
      PROVE  ArmedSinceRevoked'
  BY <1>0, <1>2 DEF DisarmAll, Revoke
<1>3. ASSUME NEW S, DisarmAll(S), UNCHANGED <<nextArm, revoked>>
      PROVE  ArmedSinceRevoked'
  BY <1>0, <1>3 DEF DisarmAll
<1>4. ASSUME NEW a \in Alert, NEW S, armed[a] \in Arm,
             armed' = [armed EXCEPT ![a].seen = S],
             UNCHANGED <<nextArm, revoked>>
      PROVE  ArmedSinceRevoked'
  <2>1. armed'[a].cycle = armed[a].cycle
    BY <1>0, <1>4 DEF Arm
  <2>2. \A b \in Alert \ {a} : armed'[b] = armed[b]
    BY <1>0, <1>4
  <2> QED
    BY <1>0, <1>4, <2>1, <2>2, SniperConstants
<1>5. ASSUME UNCHANGED <<armed, nextArm, revoked>>
      PROVE  ArmedSinceRevoked'
  BY <1>5
<1>6. ASSUME NEW t \in targets, maybe_fire(t)
      PROVE  ArmedSinceRevoked'
  <2>1. t.alert \in Alert /\ armed[t.alert] \in Arm
    BY <1>0, <1>6 DEF maybe_fire, CanFire, Target
  <2> QED
    BY <1>4, <1>6, <2>1 DEF maybe_fire
<1>7. ASSUME NEW f \in fires, FireStep(f)
      PROVE  ArmedSinceRevoked'
  <2>1. f.alert \in Alert
    BY <1>0 DEF Fire
  <2>2. CASE FireFails(f) /\ IsArmed(f.alert)
    BY <1>0, <1>4, <2>1, <2>2 DEF FireFails
  <2>3. CASE FireFails(f) /\ ~ IsArmed(f.alert)
    BY <1>5, <2>3 DEF FireFails
  <2> QED
    BY <1>3, <1>5, <1>7, <2>2, <2>3
    DEF FireStep, FireSetupError, FireStart, OvhAccepts, FireSucceeds
<1>8. CASE Restart
  BY <1>0, <1>8 DEF Restart
<1> QED
  BY <1>1, <1>2, <1>5, <1>6, <1>7, <1>8
  DEF Next, vars, ArmEndpoint, ArmFromRush, AddAlert, Disarm,
      SetAlertEnabled, RemoveAlert, PollMatches, DeleteAccount,
      ReloadStep, ReloadReadsAlerts, ReloadReadsAccounts,
        ReloadApplies, ReloadFails, SetReload, StartMonitor, CreateProfile,
        DeleteProfile, DropTarget

(* Disarming, pausing or deleting an alert, or deleting its account, calls *)
(* off every arm made before it: no later maybe_fire starts an order for   *)
(* one, not even for a match the poll made first.                          *)
THEOREM CalledOffStaysOff == Spec => RevokedNeverFires
<1> DEFINE Step == \A t \in targets :
      maybe_fire(t) => armed[t.alert].cycle >= revoked[t.alert]
<1>1. Init => ArmedSinceRevoked
  <2> SUFFICES ASSUME Init, NEW a \in Alert
               PROVE  revoked[a] <= nextArm /\ ~ IsArmed(a)
    BY DEF ArmedSinceRevoked
  <2> QED
    BY DEF Init, IsArmed
<1>2. TypeOK /\ ArmedSinceRevoked => Step
  <2> SUFFICES ASSUME TypeOK, ArmedSinceRevoked,
                      NEW t \in targets, maybe_fire(t)
               PROVE  armed[t.alert].cycle >= revoked[t.alert]
    OBVIOUS
  <2>1. t.alert \in Alert /\ armed[t.alert] \in Arm /\ IsArmed(t.alert)
    BY DEF TypeOK, maybe_fire, CanFire, IsArmed, Target
  <2> QED
    BY <2>1 DEF ArmedSinceRevoked, TypeOK, Arm
<1> QED
  BY <1>1, <1>2, ArmedSinceRevokedInductive, TypeCorrect, PTL
  DEF Spec, RevokedNeverFires

-----------------------------------------------------------------------------
(* Armed alerts that no poll looks at.                                     *)

(* The row that memory's state of an alert stands for.                     *)
Memory(a) == IF alertState[a] \in {"on", "paused"} THEN alertState[a] ELSE "absent"

(* An alert of a stored account that did not change under a reload, and    *)
(* whose writes succeeded, is in its row what it is in memory, and no      *)
(* running reload has read anything else.                                  *)
SyncInv ==
  /\ \A a \in Alert : alertState[a] = "unborn" => rows[a] = "absent"
  /\ \A r \in Reload :
       reload[r].pc = "accountsRead" => configured \subseteq reload[r].known
  /\ \A a \in Alert : a \notin crossed /\ owner[a] \in configured =>
       /\ rows[a] = Memory(a)
       /\ \A r \in Reload : reload[r].pc # "idle" => reload[r].rows[a] = rows[a]

LEMMA WriteKeepsSync ==
  ASSUME TypeOK, SyncInv, NEW a \in Alert, NEW row \in Row, Persist(a, row),
         configured' = configured,
         alertState'[a] # "unborn",
         \A b \in Alert \ {a} : alertState'[b] = alertState[b],
         a \notin crossed /\ owner[a] \in configured => row = Memory(a)'
  PROVE  SyncInv'
<1>1. /\ rows \in [Alert -> Row] /\ reload' = reload
      /\ \A b \in Alert \ {a} : rows'[b] = rows[b]
  BY DEF TypeOK, Persist
<1>2. \A b \in Alert : alertState'[b] = "unborn" => rows'[b] = "absent"
  BY <1>1 DEF SyncInv
<1>3. crossed \subseteq crossed'
  BY DEF Persist
<1>4. ASSUME NEW b \in Alert, b \notin crossed', owner[b] \in configured'
      PROVE  /\ rows'[b] = Memory(b)'
             /\ \A r \in Reload : reload'[r].pc # "idle" => reload'[r].rows[b] = rows'[b]
  <2>1. CASE b = a
    BY <1>1, <1>3, <1>4, <2>1 DEF Persist, Overtaken
  <2>2. CASE b # a
    BY <1>1, <1>3, <1>4, <2>2 DEF SyncInv, Memory
  <2> QED BY <2>1, <2>2
<1> QED BY <1>1, <1>2, <1>4 DEF SyncInv

LEMMA SyncInductive ==
  ASSUME TypeOK, SyncInv, [Next]_vars
  PROVE  SyncInv'
<1>0. /\ alertState \in [Alert -> {"unborn", "on", "paused", "gone"}]
      /\ rows \in [Alert -> Row]
      /\ reload \in [Reload -> [pc : {"idle", "alertsRead", "accountsRead"},
                                rows : [Alert -> Row], known : SUBSET Account]]
  BY DEF TypeOK
<1>1. ASSUME NEW a \in Alert, add_alert(a), configured' = configured
      PROVE  SyncInv'
  BY <1>0, <1>1, WriteKeepsSync DEF add_alert, Memory, Row
<1>2. ASSUME NEW a \in Alert, NEW e \in BOOLEAN, SetAlertEnabled(a, e)
      PROVE  SyncInv'
  <2> DEFINE s == IF e THEN "on" ELSE "paused"
             w == IF rows[a] = "absent" THEN "absent" ELSE s
  <2>1. /\ Persist(a, w) /\ w \in Row
        /\ alertState' = [alertState EXCEPT ![a] = s]
        /\ configured' = configured /\ alertState[a] \in {"on", "paused"}
    BY <1>2 DEF SetAlertEnabled, SetEnabled, Row
  <2>2. a \notin crossed /\ owner[a] \in configured => w = Memory(a)'
    BY <1>0, <2>1 DEF SyncInv, Memory
  <2>3. /\ alertState'[a] # "unborn"
        /\ \A b \in Alert \ {a} : alertState'[b] = alertState[b]
    BY <1>0, <2>1
  <2> QED BY <2>1, <2>2, <2>3, WriteKeepsSync
<1>3. ASSUME NEW a \in Alert, RemoveAlert(a)
      PROVE  SyncInv'
  BY <1>0, <1>3, WriteKeepsSync DEF RemoveAlert, Memory, Row
<1>4. ASSUME NEW acc \in Account, DeleteAccount(acc)
      PROVE  SyncInv'
  BY <1>4 DEF DeleteAccount, SyncInv, Memory, registry
<1>5. ASSUME NEW r \in Reload, ReloadStep(r)
      PROVE  SyncInv'
  <2>1. /\ \A q \in Reload \ {r} : reload'[q] = reload[q]
        /\ UNCHANGED <<rows, crossed, configured>>
    BY <1>0, <1>5 DEF ReloadStep, ReloadReadsAlerts, ReloadReadsAccounts, ReloadApplies,
                      ReloadFails, SetReload
  <2>2. CASE ReloadReadsAlerts(r)
    <3>1. /\ reload'[r].pc = "alertsRead" /\ reload'[r].rows = rows
          /\ alertState' = alertState
      BY <1>0, <2>2 DEF ReloadReadsAlerts, SetReload, NoReload
    <3> QED BY <2>1, <3>1 DEF SyncInv, Memory
  <2>3. CASE ReloadReadsAccounts(r)
    <3>1. /\ reload[r].pc = "alertsRead" /\ reload'[r].rows = reload[r].rows
          /\ reload'[r].known = configured /\ alertState' = alertState
      BY <1>0, <2>3 DEF ReloadReadsAccounts, SetReload
    <3> QED BY <2>1, <3>1 DEF SyncInv, Memory
  <2>4. CASE ReloadApplies(r)
    <3>1. /\ reload[r].pc = "accountsRead" /\ reload'[r].pc = "idle"
          /\ alertState' = _alerts_from_rows(reload[r].rows, reload[r].known)
      BY <1>0, <2>4 DEF ReloadApplies, SetReload, NoReload
    <3>2. \A a \in Alert : alertState'[a] = "unborn" => alertState[a] = "unborn"
      BY <1>0, <3>1 DEF _alerts_from_rows, Row
    <3>3. \A a \in Alert : a \notin crossed /\ owner[a] \in configured =>
            Memory(a)' = Memory(a)
      BY <1>0, <3>1 DEF SyncInv, Memory, _alerts_from_rows, Row
    <3> QED BY <2>1, <3>1, <3>2, <3>3 DEF SyncInv
  <2>5. CASE ReloadFails(r)
    <3>1. reload'[r].pc = "idle" /\ alertState' = alertState
      BY <1>0, <2>5 DEF ReloadFails, SetReload, NoReload
    <3> QED BY <2>1, <3>1 DEF SyncInv, Memory
  <2> QED BY <1>5, <2>2, <2>3, <2>4, <2>5 DEF ReloadStep
<1>6. CASE Restart
  <2>1. \A r \in Reload : reload'[r].pc = "idle"
    BY <1>6 DEF Restart, NoReload
  <2>2. rows' = rows /\ configured' = configured
    BY <1>6 DEF Restart
  <2>3. CASE /\ alertState' = _alerts_from_rows(rows, configured)
             /\ crossed' = {}
    BY <1>0, <2>1, <2>2, <2>3 DEF SyncInv, Memory, _alerts_from_rows, Row
  <2>4. CASE /\ alertState' = _alerts_from_rows(rows, {})
             /\ crossed' = {a \in Alert : rows[a] # "absent"}
    BY <1>0, <2>1, <2>2, <2>4 DEF SyncInv, Memory, _alerts_from_rows, Row
  <2> QED BY <1>6, <2>3, <2>4 DEF Restart
<1>7. CASE UNCHANGED <<alertState, configured, registry>>
  BY <1>7 DEF SyncInv, Memory, registry
<1>8. ASSUME NEW a \in Alert, NEW p \in Profile, ArmFromRush(a, p)
      PROVE  SyncInv'
  BY <1>1, <1>7, <1>8 DEF ArmFromRush
<1>9. ASSUME NEW a \in Alert, AddAlert(a)
      PROVE  SyncInv'
  BY <1>1, <1>9 DEF AddAlert
<1>10. CASE StartMonitor
  <2>1. \A a \in Alert : alertState'[a] = "unborn" => alertState[a] = "unborn"
    BY <1>0, <1>10 DEF StartMonitor, _alerts_from_rows
  <2>2. \A a \in Alert : a \notin crossed /\ owner[a] \in configured =>
          Memory(a)' = Memory(a)
    BY <1>0, <1>10 DEF StartMonitor, SyncInv, Memory, _alerts_from_rows, Row
  <2>3. UNCHANGED <<rows, reload, crossed, configured>>
    BY <1>10 DEF StartMonitor, registry
  <2> QED BY <2>1, <2>2, <2>3 DEF SyncInv
<1> QED
  BY <1>2, <1>3, <1>4, <1>5, <1>6, <1>7, <1>8, <1>9, <1>10
  DEF Next, vars, ArmEndpoint, Disarm, PollMatches, CreateProfile, DeleteProfile,
      maybe_fire, DropTarget, FireStep, FireSetupError, FireStart, OvhAccepts,
      FireSucceeds, FireFails

DeadArms ==
  \A a \in Alert : IsArmed(a) /\ alertState[a] # "on" =>
    \/ alertState[a] = "paused" /\ armed[a].cycle \in asleep
    \/ owner[a] \notin configured
    \/ a \in crossed

(* An alert gets armed only while memory has it, and loses its entry in    *)
(* the step that pauses or removes it; a reload leaves the entry, but      *)
(* changes only alerts that SyncInv does not speak of.                     *)
LEMMA DeadArmsInductive ==
  ASSUME TypeOK, SyncInv, DeadArms, [Next]_vars
  PROVE  DeadArms'
<1> USE DEF DeadArms, IsArmed
<1>0. /\ armed \in [Alert -> Arm \cup {NoArm}]
      /\ alertState \in [Alert -> {"unborn", "on", "paused", "gone"}]
      /\ rows \in [Alert -> Row]
      /\ targets \subseteq Target
      /\ fires \subseteq Fire
      /\ nextArm \in Nat
  BY DEF TypeOK
<1>1. ASSUME \A a \in Alert : armed'[a] # NoArm =>
               armed[a] # NoArm /\ armed'[a].cycle = armed[a].cycle,
             UNCHANGED <<alertState, configured, asleep, crossed>>
      PROVE  DeadArms'
  BY <1>1
<1>p. ASSUME NEW a \in Alert, NEW row, Persist(a, row)
      PROVE  crossed \subseteq crossed'
  BY <1>p DEF Persist
<1>2. ASSUME NEW a \in Alert, NEW p \in Profile, ArmEndpoint(a, p) \/ ArmFromRush(a, p)
      PROVE  DeadArms'
  <2>1. /\ armed' = [armed EXCEPT ![a] = [profile |-> p, seen |-> {}, cycle |-> nextArm]]
        /\ asleep' = IF alertState[a] = "paused" THEN asleep \cup {nextArm} ELSE asleep
        /\ configured' = configured
    BY <1>2 DEF ArmEndpoint, ArmFromRush, arm
  <2>2. /\ \A b \in Alert \ {a} : alertState'[b] = alertState[b]
        /\ \/ alertState'[a] = "on"
           \/ alertState[a] = "paused" /\ alertState'[a] = "paused"
        /\ crossed \subseteq crossed'
    BY <1>0, <1>2, <1>p DEF ArmEndpoint, ArmFromRush, add_alert, registry
  <2>3. \A b \in Alert \ {a} : armed'[b] = armed[b]
    BY <1>0, <2>1
  <2>4. armed'[a].cycle = nextArm /\ (alertState[a] = "paused" => nextArm \in asleep')
    BY <1>0, <2>1
  <2>5. asleep \subseteq asleep'
    BY <2>1
  <2> QED BY <2>1, <2>2, <2>3, <2>4, <2>5
<1>3. ASSUME NEW a \in Alert, AddAlert(a)
      PROVE  DeadArms'
  BY <1>0, <1>3, <1>p DEF AddAlert, add_alert
<1>4. ASSUME NEW a \in Alert, NEW e \in BOOLEAN, SetAlertEnabled(a, e)
      PROVE  DeadArms'
  <2>1. /\ alertState' = [alertState EXCEPT ![a] = IF e THEN "on" ELSE "paused"]
        /\ ~ e => armed'[a] = NoArm
        /\ \A b \in Alert : armed'[b] # NoArm => armed'[b] = armed[b]
        /\ UNCHANGED <<configured, asleep>>
    BY <1>0, <1>4 DEF SetAlertEnabled, SetEnabled, DisarmAll
  <2>2. crossed \subseteq crossed'
    BY <1>4, <1>p DEF SetAlertEnabled, SetEnabled
  <2> QED BY <1>0, <2>1, <2>2
<1>5. ASSUME NEW a \in Alert, RemoveAlert(a)
      PROVE  DeadArms'
  BY <1>0, <1>5, <1>p DEF RemoveAlert, DisarmAll
<1>6. ASSUME NEW acc \in Account, DeleteAccount(acc)
      PROVE  DeadArms'
  BY <1>0, <1>6 DEF DeleteAccount, DisarmAll, registry
<1>a. ASSUME NEW r \in Reload, ReloadStep(r)
      PROVE  DeadArms'
  <2>1. UNCHANGED <<armed, configured, asleep, crossed>>
    BY <1>a DEF ReloadStep, ReloadReadsAlerts, ReloadReadsAccounts, ReloadApplies,
                ReloadFails, SetReload
  <2>2. CASE ReloadApplies(r)
    <3>1. /\ reload[r].pc = "accountsRead"
          /\ alertState' = _alerts_from_rows(reload[r].rows, reload[r].known)
      BY <2>2 DEF ReloadApplies
    <3>2. \A a \in Alert : a \notin crossed /\ owner[a] \in configured =>
            \/ alertState'[a] = alertState[a]
            \/ alertState[a] \notin {"on", "paused"} /\ alertState'[a] = "gone"
      BY <1>0, <3>1 DEF SyncInv, Memory, _alerts_from_rows, Row
    <3> QED BY <2>1, <3>2
  <2>3. CASE alertState' = alertState
    BY <2>1, <2>3
  <2> QED BY <1>a, <2>2, <2>3
          DEF ReloadStep, ReloadReadsAlerts, ReloadReadsAccounts, ReloadFails
<1>7. ASSUME NEW t \in targets, maybe_fire(t)
      PROVE  DeadArms'
  <2>1. armed[t.alert] \in Arm /\ armed[t.alert] # NoArm /\ t.alert \in Alert
    BY <1>0, <1>7 DEF maybe_fire, CanFire, Target
  <2>2. PICK S : armed' = [armed EXCEPT ![t.alert].seen = S]
    BY <1>7 DEF maybe_fire
  <2>3. armed'[t.alert].cycle = armed[t.alert].cycle
    BY <1>0, <2>1, <2>2 DEF Arm
  <2>4. \A a \in Alert \ {t.alert} : armed'[a] = armed[a]
    BY <1>0, <2>2
  <2> QED BY <1>1, <1>7, <2>1, <2>3, <2>4 DEF maybe_fire, registry
<1>8. ASSUME NEW f \in fires, FireStep(f)
      PROVE  DeadArms'
  <2>1. UNCHANGED <<alertState, configured, asleep, crossed>>
    BY <1>8 DEF FireStep, FireSetupError, FireStart, OvhAccepts, FireSucceeds,
                FireFails, registry
  <2>2. CASE FireFails(f) /\ IsArmed(f.alert)
    <3>1. armed[f.alert] \in Arm /\ f.alert \in Alert
      BY <1>0, <2>2 DEF Fire
    <3>2. PICK S : armed' = [armed EXCEPT ![f.alert].seen = S]
      BY <2>2 DEF FireFails
    <3>3. armed'[f.alert].cycle = armed[f.alert].cycle
      BY <1>0, <3>1, <3>2 DEF Arm
    <3>4. \A a \in Alert \ {f.alert} : armed'[a] = armed[a]
      BY <1>0, <3>2
    <3> QED BY <1>1, <2>1, <2>2, <3>1, <3>3, <3>4
  <2>3. CASE \A a \in Alert : armed'[a] # NoArm => armed'[a] = armed[a]
    BY <1>1, <2>1, <2>3
  <2> QED BY <1>8, <2>2, <2>3
       DEF FireStep, FireSetupError, FireStart, OvhAccepts, FireSucceeds, FireFails, DisarmAll
<1>9. ASSUME NEW a \in Alert, Disarm(a)
      PROVE  DeadArms'
  BY <1>0, <1>1, <1>9 DEF Disarm, DisarmAll, registry
<1>b. CASE Restart
  BY <1>0, <1>b DEF Restart
<1>c. CASE StartMonitor
  <2>1. UNCHANGED <<armed, configured, asleep, crossed>>
    BY <1>c DEF StartMonitor, registry
  <2>2. \A a \in Alert : a \notin crossed /\ owner[a] \in configured =>
          alertState'[a] = alertState[a]
    BY <1>0, <1>c DEF StartMonitor, SyncInv, Memory, _alerts_from_rows, Row
  <2> QED BY <2>1, <2>2
<1>10. CASE UNCHANGED <<armed, alertState, configured, asleep, registry>>
  BY <1>1, <1>10 DEF registry
<1> QED
  BY <1>2, <1>3, <1>4, <1>5, <1>6, <1>a, <1>7, <1>8, <1>9, <1>b, <1>c, <1>10
  DEF Next, vars, PollMatches, CreateProfile, DeleteProfile, DropTarget

(* An entry of an alert that no poll looks at was made after the alert was *)
(* last called off, and either while it was paused, or its account is      *)
(* gone, or a write of it failed or met a reload.                          *)
THEOREM NoArmIsLeftDead == Spec => []DeadArmHasCause
<1>1. Init => ArmedSinceRevoked /\ SyncInv /\ DeadArms
  BY SniperConstants
  DEF Init, ArmedSinceRevoked, SyncInv, Memory, DeadArms, IsArmed, NoReload
<1>2. TypeOK /\ ArmedSinceRevoked /\ DeadArms => DeadArmHasCause
  <2> SUFFICES ASSUME TypeOK, ArmedSinceRevoked, DeadArms,
                      NEW a \in Alert, IsArmed(a), alertState[a] # "on"
               PROVE  /\ armed[a].cycle >= revoked[a]
                      /\ \/ alertState[a] = "paused" /\ armed[a].cycle \in asleep
                         \/ owner[a] \notin configured
                         \/ a \in crossed
    BY DEF DeadArmHasCause
  <2>1. armed[a] \in Arm
    BY DEF TypeOK, IsArmed
  <2> QED BY <2>1 DEF TypeOK, Arm, ArmedSinceRevoked, DeadArms
<1> QED
  BY <1>1, <1>2, ArmedSinceRevokedInductive, SyncInductive, DeadArmsInductive,
     TypeCorrect, PTL DEF Spec

-----------------------------------------------------------------------------
(* Orders of one arm cycle.                                                *)

(* An arm cycle belongs to one alert, in the armed entry, in the tasks and *)
(* in the orders, and a cycle not given out yet is nowhere in use.         *)
CycleUses ==
  {<<armed[a].cycle, a>> : a \in {b \in Alert : IsArmed(b)}}
    \cup {<<f.cycle, f.alert>> : f \in fires}
    \cup {<<o.cycle, o.alert>> : o \in orders}

CyclesHaveOneAlert ==
  \A u, v \in CycleUses : /\ u[1] < nextArm
                          /\ u[1] = v[1] => u[2] = v[2]

(* Tasks are numbered in the order they start, so an alert's orders are    *)
(* not later than its task.                                                *)
OrdersPrecedeFires ==
  /\ \A f \in fires : f.id < nextFire
  /\ \A o \in orders : o.id < nextFire
  /\ \A o \in orders, f \in fires : o.alert = f.alert => o.id <= f.id

(* After an order its cycle can start no other task: the order's own task  *)
(* is still running, or the cycle is armed no more - unless that task      *)
(* ended as a failure.                                                     *)
CycleIsOver(n) ==
  /\ \A a \in Alert : IsArmed(a) => armed[a].cycle # n
  /\ \A f \in fires : f.cycle # n

OrdersAreSettled ==
  \A o \in orders :
    \/ FailedButPlaced(o.id)
    \/ \E f \in fires : f.id = o.id /\ f.cycle = o.cycle /\ f.pc = "accepted"
    \/ CycleIsOver(o.cycle)

OrderInv ==
  /\ CyclesHaveOneAlert
  /\ OrdersPrecedeFires
  /\ OrdersAreSettled
  /\ DuplicateNeedsLostReply

(* What a step does to the entries, the tasks and the orders.              *)
LEMMA StepKinds ==
  ASSUME TypeOK, [Next]_vars
  PROVE  \/ /\ \E S : DisarmAll(S)
            /\ UNCHANGED <<inFlight, fires, orders, ended, nextArm, nextFire>>
         \/ /\ \E a \in Alert, p \in Profile : arm(a, p)
            /\ UNCHANGED <<inFlight, fires, orders, ended, nextFire>>
         \/ \E t \in targets : maybe_fire(t)
         \/ \E f \in fires : FireStep(f)
         \/ Restart
<1>1. ASSUME UNCHANGED armed
      PROVE  DisarmAll({})
  BY <1>1 DEF TypeOK, DisarmAll
<1> QED
  BY <1>1
  DEF Next, vars, ArmEndpoint, ArmFromRush, AddAlert, Disarm,
      SetAlertEnabled, RemoveAlert, PollMatches, DeleteAccount,
      ReloadStep, ReloadReadsAlerts, ReloadReadsAccounts,
        ReloadApplies, ReloadFails, SetReload, StartMonitor, CreateProfile,
        DeleteProfile, DropTarget

(* A match that fires adds a task g for the armed entry.                   *)
Starts(t, g) ==
  /\ t.alert \in Alert /\ IsArmed(t.alert) /\ t.alert \notin inFlight
  /\ g.id = nextFire
  /\ g.alert = t.alert
  /\ g.cycle = armed[t.alert].cycle
  /\ fires' = fires \cup {g}
  /\ nextFire' = nextFire + 1
  /\ \A a \in Alert : /\ armed'[a] = NoArm <=> armed[a] = NoArm
                      /\ armed[a] # NoArm =>
                           armed'[a].cycle = armed[a].cycle
  /\ UNCHANGED <<orders, ended, nextArm>>

LEMMA MatchKinds ==
  ASSUME TypeOK, NEW t \in targets, maybe_fire(t)
  PROVE  \E g : Starts(t, g)
<1>1. t.alert \in Alert /\ armed[t.alert] \in Arm /\ IsArmed(t.alert)
  BY DEF TypeOK, maybe_fire, CanFire, IsArmed, Target
<1>2. PICK q \in NewFqns(t) :
        /\ armed' = [armed EXCEPT ![t.alert].seen = @ \cup {q}]
        /\ fires' = fires \cup
             {[id |-> nextFire, alert |-> t.alert, fqn |-> q, pc |-> "created",
               profile |-> armed[t.alert].profile,
               cycle |-> armed[t.alert].cycle]}
  BY DEF maybe_fire
<1>3. /\ armed'[t.alert] # NoArm
      /\ armed'[t.alert].cycle = armed[t.alert].cycle
  <2>1. q \in Fqn
    BY DEF NewFqns, TypeOK, Target
  <2>2. /\ armed'[t.alert] = [armed[t.alert] EXCEPT !.seen = @ \cup {q}]
    BY <1>1, <1>2 DEF TypeOK
  <2>3. armed'[t.alert] \in Arm
    BY <1>1, <2>1, <2>2 DEF Arm
  <2> QED
    BY <1>1, <2>2, <2>3, SniperConstants DEF Arm
<1>4. \A b \in Alert \ {t.alert} : armed'[b] = armed[b]
  BY <1>2 DEF TypeOK
<1>5. \A a \in Alert : /\ armed'[a] = NoArm <=> armed[a] = NoArm
                       /\ armed[a] # NoArm =>
                            armed'[a].cycle = armed[a].cycle
  BY <1>1, <1>3, <1>4 DEF IsArmed
<1> DEFINE g == [id |-> nextFire, alert |-> t.alert, fqn |-> q, pc |-> "created",
                 profile |-> armed[t.alert].profile,
                 cycle |-> armed[t.alert].cycle]
<1>6. /\ g.id = nextFire
      /\ g.alert = t.alert
      /\ g.cycle = armed[t.alert].cycle
  OBVIOUS
<1>7. fires' = fires \cup {g}
  BY <1>2
<1>8. /\ t.alert \notin inFlight
      /\ nextFire' = nextFire + 1
      /\ UNCHANGED <<orders, ended, nextArm>>
  BY DEF maybe_fire, CanFire
<1> HIDE DEF g
<1>9. Starts(t, g)
  BY <1>1, <1>5, <1>6, <1>7, <1>8 DEF Starts
<1> QED
  BY <1>9

(* A step of a task moves it on, perhaps with orders O, or ends it.        *)
FireMoves(f, g, O) ==
  /\ g.id = f.id /\ g.alert = f.alert /\ g.cycle = f.cycle
  /\ f.pc # "accepted"
  /\ fires' = (fires \ {f}) \cup {g}
  /\ orders' = orders \cup O
  /\ \A o \in O : /\ o.id = f.id /\ o.alert = f.alert /\ o.cycle = f.cycle
                  /\ g.pc = "accepted"
  /\ UNCHANGED <<armed, ended, nextArm, nextFire>>

FireLeaves(f) ==
  /\ fires' = fires \ {f}
  /\ f.pc = "accepted" => FailedButPlaced(f.id)' \/ DisarmAll({f.alert})
  /\ ended \subseteq ended'
  /\ \A a \in Alert : armed'[a] # NoArm =>
        armed[a] # NoArm /\ armed'[a].cycle = armed[a].cycle
  /\ UNCHANGED <<orders, nextArm, nextFire>>

LEMMA FireKinds ==
  ASSUME TypeOK, NEW f \in fires, FireStep(f)
  PROVE  FireLeaves(f) \/ \E g, O : FireMoves(f, g, O)
<1>1. f \in Fire
  BY DEF TypeOK
<1>2. CASE FireSetupError(f)
  BY <1>1, <1>2 DEF FireSetupError, EndFire, FireLeaves
<1>3. CASE FireStart(f)
  <2> DEFINE g == [f EXCEPT !.pc = "ordering"]
  <2>1. FireMoves(f, g, {})
    BY <1>1, <1>3 DEF FireStart, FireMoves, Fire
  <2> QED
    BY <2>1
<1>4. CASE OvhAccepts(f)
  <2> DEFINE g == [f EXCEPT !.pc = "accepted"]
             o == [id |-> f.id, alert |-> f.alert, cycle |-> f.cycle]
  <2>1. FireMoves(f, g, {o})
    BY <1>1, <1>4 DEF OvhAccepts, FireMoves, Fire
  <2> QED
    BY <2>1
<1>5. CASE FireSucceeds(f)
  <2>1. \A a \in Alert : armed'[a] # NoArm => armed'[a] = armed[a]
    BY <1>5 DEF FireSucceeds, DisarmAll
  <2> QED
    BY <1>1, <1>5, <2>1 DEF FireSucceeds, EndFire, FireLeaves
<1>6. CASE FireFails(f)
  <2>1. ASSUME f.pc = "accepted"
        PROVE  FailedButPlaced(f.id)'
    <3> DEFINE e == [id |-> f.id, alert |-> f.alert, fqn |-> f.fqn,
                     cycle |-> f.cycle, outcome |-> "failedButPlaced"]
    <3>1. e \in ended'
      BY <1>6, <2>1 DEF FireFails, EndFire
    <3>2. e.id = f.id /\ e.outcome = "failedButPlaced"
      OBVIOUS
    <3> QED
      BY <3>1, <3>2 DEF FailedButPlaced
  <2>2. \A a \in Alert : armed'[a] # NoArm =>
          armed[a] # NoArm /\ armed'[a].cycle = armed[a].cycle
    <3>1. CASE IsArmed(f.alert)
      <4>1. f.alert \in Alert /\ armed[f.alert] \in Arm
        BY <1>1, <3>1 DEF TypeOK, Fire, IsArmed
      <4>2. armed' = [armed EXCEPT ![f.alert].seen = @ \ {f.fqn}]
        BY <1>6, <3>1 DEF FireFails
      <4>3. armed'[f.alert].cycle = armed[f.alert].cycle
        BY <4>1, <4>2 DEF TypeOK, Arm
      <4>4. \A b \in Alert \ {f.alert} : armed'[b] = armed[b]
        BY <4>2 DEF TypeOK
      <4> QED
        BY <3>1, <4>3, <4>4 DEF IsArmed
    <3>2. CASE ~ IsArmed(f.alert)
      BY <1>6, <3>2 DEF FireFails
    <3> QED
      BY <3>1, <3>2
  <2> QED
    BY <1>1, <1>6, <2>1, <2>2 DEF FireFails, EndFire, FireLeaves
<1> QED
  BY <1>2, <1>3, <1>4, <1>5, <1>6 DEF FireStep

LEMMA CyclesInductive ==
  ASSUME TypeOK, CyclesHaveOneAlert, [Next]_vars
  PROVE  CyclesHaveOneAlert'
<1>0. nextArm \in Nat
  BY DEF TypeOK
<1>1. ASSUME CycleUses' \subseteq CycleUses, UNCHANGED nextArm
      PROVE  CyclesHaveOneAlert'
  BY <1>1 DEF CyclesHaveOneAlert
<1>2. ASSUME NEW S, DisarmAll(S), UNCHANGED <<fires, orders, nextArm>>
      PROVE  CyclesHaveOneAlert'
  <2>1. CycleUses' \subseteq CycleUses
    BY <1>2 DEF CycleUses, DisarmAll, IsArmed
  <2> QED
    BY <1>1, <1>2, <2>1
<1>3. ASSUME NEW a \in Alert, NEW p \in Profile, arm(a, p),
             UNCHANGED <<fires, orders>>
      PROVE  CyclesHaveOneAlert'
  <2>1. CycleUses' \subseteq CycleUses \cup {<<nextArm, a>>}
    <3>1. armed'[a].cycle = nextArm
      BY <1>3 DEF arm, TypeOK
    <3>2. \A b \in Alert \ {a} : armed'[b] = armed[b]
      BY <1>3 DEF arm, TypeOK
    <3> QED
      BY <1>3, <3>1, <3>2 DEF CycleUses, IsArmed
  <2>2. \A u \in CycleUses : u[1] < nextArm
    BY DEF CyclesHaveOneAlert
  <2>3. \A u \in CycleUses : u[1] \in Nat
    BY DEF CycleUses, TypeOK, IsArmed, Arm, Fire, Order
  <2>4. nextArm' = nextArm + 1
    BY <1>3 DEF arm
  <2> QED
    BY <1>0, <2>1, <2>2, <2>3, <2>4 DEF CyclesHaveOneAlert
<1>4. ASSUME NEW t \in targets, maybe_fire(t)
      PROVE  CyclesHaveOneAlert'
  <2>1. PICK g : Starts(t, g)
    BY <1>4, MatchKinds
  <2>2. CycleUses' \subseteq CycleUses
    BY <2>1 DEF CycleUses, IsArmed, Starts
  <2> QED
    BY <1>1, <2>1, <2>2 DEF Starts
<1>5. ASSUME NEW f \in fires, FireStep(f)
      PROVE  CyclesHaveOneAlert'
  <2>1. CASE FireLeaves(f)
    <3>1. CycleUses' \subseteq CycleUses
      BY <2>1 DEF CycleUses, IsArmed, FireLeaves
    <3> QED
      BY <1>1, <2>1, <3>1 DEF FireLeaves
  <2>2. ASSUME NEW g, NEW O, FireMoves(f, g, O)
        PROVE  CyclesHaveOneAlert'
    <3>1. CycleUses' \subseteq CycleUses
      BY <2>2 DEF CycleUses, IsArmed, FireMoves
    <3> QED
      BY <1>1, <2>2, <3>1 DEF FireMoves
  <2> QED
    BY <1>5, <2>1, <2>2, FireKinds
<1>6. CASE Restart
  <2>1. CycleUses' \subseteq CycleUses
    BY <1>6 DEF CycleUses, IsArmed, Restart
  <2> QED
    BY <1>1, <1>6, <2>1 DEF Restart
<1> QED
  BY <1>2, <1>3, <1>4, <1>5, <1>6, StepKinds

LEMMA PrecedeInductive ==
  ASSUME TypeOK, InFlightExact, OrdersPrecedeFires, [Next]_vars
  PROVE  OrdersPrecedeFires'
<1> USE DEF OrdersPrecedeFires
<1>0. /\ nextFire \in Nat
      /\ fires \subseteq Fire
      /\ orders \subseteq Order
  BY DEF TypeOK
<1>1. ASSUME UNCHANGED <<orders, nextFire>>, fires' \subseteq fires
      PROVE  OrdersPrecedeFires'
  BY <1>1
<1>2. ASSUME NEW t \in targets, maybe_fire(t)
      PROVE  OrdersPrecedeFires'
  <2>1. PICK g : Starts(t, g)
    BY <1>2, MatchKinds
  <2>2. /\ \A f \in fires : f.id \in Nat
        /\ \A o \in orders : o.id \in Nat
    BY <1>0 DEF Fire, Order
  <2> QED
    BY <1>0, <2>1, <2>2 DEF Starts
<1>3. ASSUME NEW f \in fires, FireStep(f)
      PROVE  OrdersPrecedeFires'
  <2>1. CASE FireLeaves(f)
    BY <1>1, <2>1 DEF FireLeaves
  <2>2. ASSUME NEW g, NEW O, FireMoves(f, g, O)
        PROVE  OrdersPrecedeFires'
    <3>1. \A h \in fires : h.alert = f.alert => h = f
      BY DEF InFlightExact
    <3>2. f.id \in Nat
      BY <1>0 DEF Fire
    <3> QED
      BY <2>2, <3>1, <3>2 DEF FireMoves
  <2> QED
    BY <1>3, <2>1, <2>2, FireKinds
<1>4. CASE Restart
  BY <1>1, <1>4 DEF Restart
<1> QED
  BY <1>1, <1>2, <1>3, <1>4, StepKinds

LEMMA SettledInductive ==
  ASSUME TypeOK, InFlightExact, CyclesHaveOneAlert, OrdersPrecedeFires,
         OrdersAreSettled, DuplicateNeedsLostReply, [Next]_vars
  PROVE  OrdersAreSettled' /\ DuplicateNeedsLostReply'
<1>0. /\ armed \in [Alert -> Arm \cup {NoArm}]
      /\ orders \subseteq Order
      /\ fires \subseteq Fire
  BY DEF TypeOK
(* What CyclesHaveOneAlert and InFlightExact say of the cycles in use.     *)
<1>1. /\ \A f \in fires : <<f.cycle, f.alert>> \in CycleUses
      /\ \A o \in orders : <<o.cycle, o.alert>> \in CycleUses
      /\ \A a \in Alert : IsArmed(a) => <<armed[a].cycle, a>> \in CycleUses
  BY DEF CycleUses
<1>2. \A u, v \in CycleUses : u[1] = v[1] => u[2] = v[2]
  BY DEF CyclesHaveOneAlert
<1>3. \A f, g \in fires : f.cycle = g.cycle => f = g
  BY <1>1, <1>2 DEF InFlightExact
<1>4. \A f \in fires, a \in Alert :
        IsArmed(a) /\ armed[a].cycle = f.cycle => a = f.alert
  BY <1>1, <1>2
<1>4a. \A o \in orders : o.cycle < nextArm
  <2>1. \A o \in orders : <<o.cycle, o.alert>>[1] < nextArm
    BY <1>1 DEF CyclesHaveOneAlert
  <2> QED
    BY <2>1
<1>4b. \A o \in orders, f \in fires : o.cycle = f.cycle => o.alert = f.alert
  BY <1>1, <1>2
(* No new order, no new user of a cycle: everything stays as it was.       *)
<1>5. ASSUME orders' = orders, ended \subseteq ended',
             \A a \in Alert : armed'[a] # NoArm =>
               \/ armed'[a].cycle \notin {o.cycle : o \in orders}
               \/ armed[a] # NoArm /\ armed'[a].cycle = armed[a].cycle,
             fires' = fires
      PROVE  OrdersAreSettled' /\ DuplicateNeedsLostReply'
  BY <1>5 DEF OrdersAreSettled, DuplicateNeedsLostReply, FailedButPlaced,
              CycleIsOver, IsArmed
<1>6. ASSUME NEW S, DisarmAll(S), UNCHANGED <<fires, orders, ended>>
      PROVE  OrdersAreSettled' /\ DuplicateNeedsLostReply'
  BY <1>5, <1>6 DEF DisarmAll
<1>7. ASSUME NEW a \in Alert, NEW p \in Profile, arm(a, p),
             UNCHANGED <<fires, orders, ended>>
      PROVE  OrdersAreSettled' /\ DuplicateNeedsLostReply'
  <2>1. armed'[a].cycle = nextArm
    BY <1>0, <1>7 DEF arm
  <2>2. \A b \in Alert \ {a} : armed'[b] = armed[b]
    BY <1>0, <1>7 DEF arm
  <2>3. nextArm \notin {o.cycle : o \in orders}
    BY <1>0, <1>4a DEF TypeOK, Order
  <2> QED
    BY <1>5, <1>7, <2>1, <2>2, <2>3
<1>8. ASSUME NEW t \in targets, maybe_fire(t)
      PROVE  OrdersAreSettled' /\ DuplicateNeedsLostReply'
  <2>1. PICK g : Starts(t, g)
    BY <1>8, MatchKinds
  <2>2. \A o \in orders : CycleIsOver(o.cycle) => CycleIsOver(o.cycle)'
    BY <2>1 DEF Starts, CycleIsOver, IsArmed
  <2> QED
    BY <2>1, <2>2
    DEF Starts, OrdersAreSettled, DuplicateNeedsLostReply, FailedButPlaced
<1>9. ASSUME NEW f \in fires, FireLeaves(f)
      PROVE  OrdersAreSettled' /\ DuplicateNeedsLostReply'
  <2>1. \A n : FailedButPlaced(n) => FailedButPlaced(n)'
    BY <1>9 DEF FireLeaves, FailedButPlaced
  <2>2. \A o \in orders : CycleIsOver(o.cycle) => CycleIsOver(o.cycle)'
    BY <1>9 DEF FireLeaves, CycleIsOver, IsArmed
  <2>3. ASSUME f.pc = "accepted", ~ FailedButPlaced(f.id)'
        PROVE  CycleIsOver(f.cycle)'
    <3>1. DisarmAll({f.alert})
      BY <1>9, <2>3 DEF FireLeaves
    <3> QED
      BY <1>3, <1>4, <1>9, <3>1 DEF FireLeaves, CycleIsOver, IsArmed, DisarmAll
  <2>4. OrdersAreSettled'
    <3> SUFFICES ASSUME NEW o \in orders, ~ FailedButPlaced(o.id)',
                        ~ CycleIsOver(o.cycle)'
                 PROVE  \E g \in fires' : /\ g.id = o.id /\ g.cycle = o.cycle
                                          /\ g.pc = "accepted"
      BY <1>9 DEF FireLeaves, OrdersAreSettled
    <3>1. PICK g \in fires : /\ g.id = o.id /\ g.cycle = o.cycle
                             /\ g.pc = "accepted"
      BY <2>1, <2>2 DEF OrdersAreSettled
    <3>2. g # f
      BY <2>3, <3>1
    <3> QED
      BY <1>9, <3>1, <3>2 DEF FireLeaves
  <2> QED
    BY <1>9, <2>1, <2>4 DEF FireLeaves, DuplicateNeedsLostReply
<1>10. ASSUME NEW f \in fires, NEW g, NEW O, FireMoves(f, g, O)
       PROVE  OrdersAreSettled' /\ DuplicateNeedsLostReply'
  <2>1. \A n : FailedButPlaced(n)' <=> FailedButPlaced(n)
    BY <1>10 DEF FireMoves, FailedButPlaced
  <2>2. \A n : CycleIsOver(n) => CycleIsOver(n)'
    BY <1>10 DEF FireMoves, CycleIsOver, IsArmed
  <2>3. \A o \in orders : o.cycle = f.cycle => FailedButPlaced(o.id)
    <3> SUFFICES ASSUME NEW o \in orders, o.cycle = f.cycle
                 PROVE  FailedButPlaced(o.id)
      OBVIOUS
    <3>1. ~ CycleIsOver(o.cycle)
      BY DEF CycleIsOver
    <3>2. \A h \in fires : h.cycle = o.cycle => h.pc # "accepted"
      BY <1>3, <1>10 DEF FireMoves
    <3> QED
      BY <3>1, <3>2 DEF OrdersAreSettled
  <2>4. OrdersAreSettled'
    <3>1. ASSUME NEW o \in orders
          PROVE  \/ FailedButPlaced(o.id)'
                 \/ \E h \in fires' : /\ h.id = o.id /\ h.cycle = o.cycle
                                      /\ h.pc = "accepted"
                 \/ CycleIsOver(o.cycle)'
      BY <1>10, <2>1, <2>2, <2>3 DEF OrdersAreSettled, FireMoves
    <3>2. ASSUME NEW o \in O
          PROVE  \E h \in fires' : /\ h.id = o.id /\ h.cycle = o.cycle
                                   /\ h.pc = "accepted"
      BY <1>10, <3>2 DEF FireMoves
    <3> QED
      BY <1>10, <3>1, <3>2 DEF OrdersAreSettled, FireMoves
  <2>5. \A o \in orders : o.cycle = f.cycle => o.id <= f.id
    BY <1>4b DEF OrdersPrecedeFires
  <2>6. f.id \in Nat /\ \A o \in orders : o.id \in Nat
    BY <1>0 DEF Fire, Order
  <2>7. DuplicateNeedsLostReply'
    <3> SUFFICES ASSUME NEW o1 \in orders', NEW o2 \in orders',
                        o1.cycle = o2.cycle, o1.id < o2.id
                 PROVE  FailedButPlaced(o1.id)
      BY <2>1 DEF DuplicateNeedsLostReply
    <3>1. CASE o1 \in orders /\ o2 \in orders
      BY <3>1 DEF DuplicateNeedsLostReply
    <3>2. CASE o1 \in orders /\ o2 \in O
      BY <1>10, <2>3, <3>2 DEF FireMoves
    <3>3. CASE o1 \in O
      BY <1>10, <2>5, <2>6, <3>3 DEF FireMoves
    <3> QED
      BY <1>10, <3>1, <3>2, <3>3 DEF FireMoves
  <2> QED
    BY <2>4, <2>7
<1>11. CASE Restart
  BY <1>11 DEF Restart, OrdersAreSettled, DuplicateNeedsLostReply,
               FailedButPlaced, CycleIsOver, IsArmed
<1> QED
  BY <1>6, <1>7, <1>8, <1>9, <1>10, <1>11, FireKinds, StepKinds

(* One arm cycle orders twice only after a task that OVH accepted and the  *)
(* program took for a failure: nothing else - no overlap of polls, tasks,  *)
(* re-arms, pauses or deletions - makes a duplicate.                       *)
THEOREM OneOrderUnlessReplyLost == Spec => []DuplicateNeedsLostReply
<1>1. Init => OrderInv
  BY DEF Init, OrderInv, CyclesHaveOneAlert, CycleUses, OrdersPrecedeFires,
         OrdersAreSettled, DuplicateNeedsLostReply, IsArmed
<1>2. TypeOK /\ InFlightExact /\ OrderInv /\ [Next]_vars => OrderInv'
  BY CyclesInductive, PrecedeInductive, SettledInductive DEF OrderInv
<1>3. OrderInv => DuplicateNeedsLostReply
  BY DEF OrderInv
<1> QED
  BY <1>1, <1>2, <1>3, TypeCorrect, InFlightCorrect, PTL DEF Spec

-----------------------------------------------------------------------------
(* fqns_seen.                                                              *)

(* A configuration is kept from being ordered only by the task that orders *)
(* it, or by a task of the same arm cycle that found no profile or no      *)
(* credentials: what one failed order blocked, its except clause frees.    *)
THEOREM BlockedOnlyForCause == Spec => []BlockedHasCause
<1>1. Init => BlockedHasCause
  BY DEF Init, BlockedHasCause, IsArmed
<1>2. TypeOK /\ InFlightExact /\ BlockedHasCause /\ [Next]_vars
        => BlockedHasCause'
  <2> SUFFICES ASSUME TypeOK, InFlightExact, BlockedHasCause, [Next]_vars
               PROVE  BlockedHasCause'
    OBVIOUS
  <2> USE DEF BlockedHasCause, IsArmed
  <2>0. /\ armed \in [Alert -> Arm \cup {NoArm}]
        /\ fires \subseteq Fire
        /\ \A f, g \in fires : f.alert = g.alert => f = g
    BY DEF TypeOK, InFlightExact
  <2>1. ASSUME NEW S, DisarmAll(S), UNCHANGED <<fires, ended>>
        PROVE  BlockedHasCause'
    BY <2>0, <2>1 DEF DisarmAll
  <2>2. ASSUME NEW a \in Alert, NEW p \in Profile, arm(a, p),
               UNCHANGED <<fires, ended>>
        PROVE  BlockedHasCause'
    <3>1. armed'[a].seen = {}
      BY <2>0, <2>2 DEF arm
    <3>2. \A b \in Alert \ {a} : armed'[b] = armed[b]
      BY <2>0, <2>2 DEF arm
    <3> QED
      BY <2>2, <3>1, <3>2
  <2>3. ASSUME NEW t \in targets, maybe_fire(t)
        PROVE  BlockedHasCause'
    <3>1. t.alert \in Alert /\ armed[t.alert] \in Arm
      BY <2>0, <2>3 DEF TypeOK, maybe_fire, CanFire, Target
    <3>2. PICK q \in NewFqns(t) :
            /\ armed' = [armed EXCEPT ![t.alert].seen = @ \cup {q}]
            /\ fires' = fires \cup
                 {[id |-> nextFire, alert |-> t.alert, fqn |-> q,
                   pc |-> "created", profile |-> armed[t.alert].profile,
                   cycle |-> armed[t.alert].cycle]}
      BY <2>3 DEF maybe_fire
    <3>3. ended' = ended
      BY <2>3 DEF maybe_fire
    <3>4. \A b \in Alert \ {t.alert} : armed'[b] = armed[b]
      BY <2>0, <3>2
    <3>5. /\ armed'[t.alert].seen = armed[t.alert].seen \cup {q}
          /\ armed'[t.alert].cycle = armed[t.alert].cycle
      BY <2>0, <3>1, <3>2 DEF Arm
    <3>6. armed[t.alert] # NoArm
      BY <3>1, SniperConstants
    <3>7. \E f \in fires' : /\ f.alert = t.alert /\ f.fqn = q
                            /\ f.cycle = armed'[t.alert].cycle
      <4> DEFINE g == [id |-> nextFire, alert |-> t.alert, fqn |-> q,
                       pc |-> "created", profile |-> armed[t.alert].profile,
                       cycle |-> armed[t.alert].cycle]
      <4>1. g \in fires'
        BY <3>2
      <4>2. g.alert = t.alert /\ g.fqn = q /\ g.cycle = armed[t.alert].cycle
        OBVIOUS
      <4> QED
        BY <3>5, <4>1, <4>2
    <3>8. fires \subseteq fires'
      BY <3>2
    <3> QED
      BY <3>3, <3>4, <3>5, <3>6, <3>7, <3>8
  <2>4. ASSUME NEW f \in fires, FireStep(f)
        PROVE  BlockedHasCause'
    <3>1. f \in Fire
      BY <2>0
    <3>2. ASSUME NEW g, g.alert = f.alert, g.fqn = f.fqn, g.cycle = f.cycle,
                 fires' = (fires \ {f}) \cup {g}, UNCHANGED <<armed, ended>>
          PROVE  BlockedHasCause'
      BY <3>2
    <3>3. CASE FireStart(f) \/ OvhAccepts(f)
      <4>1. PICK s : fires' = (fires \ {f}) \cup {[f EXCEPT !.pc = s]}
        BY <3>3 DEF FireStart, OvhAccepts
      <4> DEFINE g == [f EXCEPT !.pc = s]
      <4>2. g.alert = f.alert /\ g.fqn = f.fqn /\ g.cycle = f.cycle
        BY <3>1 DEF Fire
      <4>3. fires' = (fires \ {f}) \cup {g} /\ UNCHANGED <<armed, ended>>
        BY <3>3, <4>1 DEF FireStart, OvhAccepts
      <4> HIDE DEF g
      <4> QED
        BY <3>2, <4>2, <4>3
    <3>4. CASE FireSetupError(f)
      <4> DEFINE e == [id |-> f.id, alert |-> f.alert, fqn |-> f.fqn,
                       cycle |-> f.cycle, outcome |-> "setupError"]
      <4>1. /\ fires' = fires \ {f} /\ armed' = armed
            /\ ended' = ended \cup {e}
        BY <3>4 DEF FireSetupError, EndFire
      <4>2. /\ e.fqn = f.fqn /\ e.cycle = f.cycle
            /\ e.outcome = "setupError"
        OBVIOUS
      <4> HIDE DEF e
      <4> QED
        BY <4>1, <4>2
    <3>5. CASE FireSucceeds(f)
      BY <2>0, <3>5 DEF FireSucceeds, EndFire, DisarmAll
    <3>6. CASE FireFails(f)
      <4>1. fires' = fires \ {f} /\ ended \subseteq ended'
        BY <3>6 DEF FireFails, EndFire
      <4>2. ASSUME NEW a \in Alert, armed'[a] # NoArm, NEW q \in armed'[a].seen
            PROVE  /\ armed[a] # NoArm /\ armed'[a].cycle = armed[a].cycle
                   /\ q \in armed[a].seen
                   /\ a = f.alert => q # f.fqn
        <5>1. CASE IsArmed(f.alert)
          <6>1. f.alert \in Alert /\ armed[f.alert] \in Arm
            BY <2>0, <3>1, <5>1 DEF Fire
          <6>2. armed' = [armed EXCEPT ![f.alert].seen = @ \ {f.fqn}]
            BY <3>6, <5>1 DEF FireFails
          <6>3. /\ armed'[f.alert].seen = armed[f.alert].seen \ {f.fqn}
                /\ armed'[f.alert].cycle = armed[f.alert].cycle
            BY <2>0, <6>1, <6>2 DEF Arm
          <6>4. \A b \in Alert \ {f.alert} : armed'[b] = armed[b]
            BY <2>0, <6>2
          <6> QED
            BY <4>2, <5>1, <6>3, <6>4
        <5>2. CASE ~ IsArmed(f.alert)
          BY <3>6, <4>2, <5>2 DEF FireFails
        <5> QED
          BY <5>1, <5>2
      <4> QED
        BY <2>0, <4>1, <4>2
    <3> QED
      BY <2>4, <3>3, <3>4, <3>5, <3>6 DEF FireStep
  <2>5. CASE Restart
    BY <2>5 DEF Restart
  <2> QED
    BY <2>1, <2>2, <2>3, <2>4, <2>5, StepKinds
<1> QED
  BY <1>1, <1>2, TypeCorrect, InFlightCorrect, PTL DEF Spec

-----------------------------------------------------------------------------
(* Tasks as order attempts.                                                *)

(* Every number names at most one task, running or ended; OVH has taken an *)
(* order of a running task exactly when the task is past "ordering".       *)
AttemptInv ==
  /\ \A f \in fires : f.id < nextFire
  /\ \A e \in ended : e.id < nextFire
  /\ \A o \in orders : o.id < nextFire
  /\ \A f, g \in fires : f.id = g.id => f = g
  /\ \A f \in fires, e \in ended : e.id # f.id
  /\ \A f \in fires : Placed(f.id) <=> f.pc = "accepted"

(* A step that leaves tasks, ends and orders alone leaves attempts alone.  *)
LEMMA SameAttempts ==
  ASSUME UNCHANGED <<fires, orders, ended, nextFire>>, NEW i
  PROVE  Status(i)' = Status(i) /\ Placed(i)' = Placed(i)
BY DEF Status, Succeeded, Placed, Pending

LEMMA AttemptInductive ==
  ASSUME TypeOK, AttemptInv, [Next]_vars
  PROVE  AttemptInv'
<1> USE DEF AttemptInv, Placed
<1>0. /\ nextFire \in Nat
      /\ fires \subseteq Fire
      /\ \A f \in fires : f.id \in Nat
      /\ \A e \in ended : e.id \in Nat
      /\ \A o \in orders : o.id \in Nat
  BY DEF TypeOK, Fire, Ended, Order
<1>1. ASSUME UNCHANGED <<fires, orders, ended, nextFire>>
      PROVE  AttemptInv'
  BY <1>1
<1>2. ASSUME NEW t \in targets, maybe_fire(t)
      PROVE  AttemptInv'
  <2>1. PICK g : /\ g.id = nextFire /\ g.pc = "created"
                 /\ fires' = fires \cup {g}
    BY <1>2 DEF maybe_fire
  <2>2. /\ nextFire' = nextFire + 1
        /\ UNCHANGED <<orders, ended>>
    BY <1>2 DEF maybe_fire
  <2>3. g \notin fires
    BY <1>0, <2>1
  <2> QED
    BY <1>0, <2>1, <2>2, <2>3
<1>3. ASSUME NEW f \in fires, NEW out, EndFire(f, out),
             UNCHANGED <<orders, nextFire>>
      PROVE  AttemptInv'
  <2>1. PICK e : e.id = f.id /\ ended' = ended \cup {e}
    BY <1>3 DEF EndFire
  <2>2. fires' = fires \ {f}
    BY <1>3 DEF EndFire
  <2> QED
    BY <1>3, <2>1, <2>2
<1>4. ASSUME NEW f \in fires, FireStart(f)
      PROVE  AttemptInv'
  <2> DEFINE g == [f EXCEPT !.pc = "ordering"]
  <2>1. g.id = f.id /\ g.pc = "ordering"
    BY <1>0 DEF Fire
  <2>2. /\ f.pc = "created" /\ fires' = (fires \ {f}) \cup {g}
        /\ UNCHANGED <<orders, ended, nextFire>>
    BY <1>4 DEF FireStart
  <2> HIDE DEF g
  <2> QED
    BY <2>1, <2>2
<1>5. ASSUME NEW f \in fires, OvhAccepts(f)
      PROVE  AttemptInv'
  <2> DEFINE g == [f EXCEPT !.pc = "accepted"]
             o == [id |-> f.id, alert |-> f.alert, cycle |-> f.cycle]
  <2>1. g.id = f.id /\ g.pc = "accepted" /\ o.id = f.id
    BY <1>0 DEF Fire
  <2>2. /\ fires' = (fires \ {f}) \cup {g}
        /\ orders' = orders \cup {o}
        /\ UNCHANGED <<ended, nextFire>>
    BY <1>5 DEF OvhAccepts
  <2> HIDE DEF g, o
  <2> QED
    BY <2>1, <2>2
<1>6. CASE Restart
  BY <1>6 DEF Restart
<1>7. ASSUME NEW f \in fires, FireStep(f)
      PROVE  AttemptInv'
  BY <1>3, <1>4, <1>5, <1>7
  DEF FireStep, FireSetupError, FireSucceeds, FireFails
<1> QED
  BY <1>1, <1>2, <1>6, <1>7, StepKinds

LEMMA AttemptStep ==
  ASSUME TypeOK, AttemptInv, [Next]_vars, NEW i \in Nat
  PROVE  [Attempt(i)!Next]_<<Status(i), Placed(i)>>
<1> USE DEF AttemptInv
<1>0. /\ nextFire \in Nat
      /\ fires \subseteq Fire
      /\ \A f \in fires : f.id \in Nat
  BY DEF TypeOK, Fire
<1>1. ASSUME UNCHANGED <<fires, orders, ended, nextFire>>
      PROVE  UNCHANGED <<Status(i), Placed(i)>>
  BY <1>1, SameAttempts
(* Starting the i-th task: pending before and after.                       *)
<1>2. ASSUME NEW t \in targets, maybe_fire(t)
      PROVE  UNCHANGED <<Status(i), Placed(i)>>
  <2>1. PICK g : g.id = nextFire /\ fires' = fires \cup {g}
    BY <1>2 DEF maybe_fire
  <2>2. /\ nextFire' = nextFire + 1
        /\ UNCHANGED <<orders, ended>>
    BY <1>2 DEF maybe_fire
  <2>3. Pending(i)' <=> Pending(i)
    BY <1>0, <2>1, <2>2 DEF Pending
  <2> QED
    BY <2>2, <2>3 DEF Status, Succeeded, Placed
(* A task that goes on stays pending.                                      *)
<1>3. ASSUME NEW f \in fires, NEW g, g.id = f.id,
             fires' = (fires \ {f}) \cup {g}, UNCHANGED <<ended, nextFire>>
      PROVE  Status(i)' = Status(i) /\ (Pending(i)' <=> Pending(i))
  <2>1. Pending(i)' <=> Pending(i)
    BY <1>3 DEF Pending
  <2> QED
    BY <1>3, <2>1 DEF Status, Succeeded
<1>4. ASSUME NEW f \in fires, FireStart(f)
      PROVE  UNCHANGED <<Status(i), Placed(i)>>
  <2> DEFINE g == [f EXCEPT !.pc = "ordering"]
  <2>1. g.id = f.id
    BY <1>0 DEF Fire
  <2>2. /\ fires' = (fires \ {f}) \cup {g}
        /\ UNCHANGED <<orders, ended, nextFire>>
    BY <1>4 DEF FireStart
  <2> HIDE DEF g
  <2>3. Status(i)' = Status(i)
    BY <1>3, <2>1, <2>2
  <2> QED
    BY <2>2, <2>3 DEF Placed
<1>5. ASSUME NEW f \in fires, OvhAccepts(f)
      PROVE  [Attempt(i)!Next]_<<Status(i), Placed(i)>>
  <2> DEFINE g == [f EXCEPT !.pc = "accepted"]
             o == [id |-> f.id, alert |-> f.alert, cycle |-> f.cycle]
  <2>1. g.id = f.id /\ o.id = f.id
    BY <1>0 DEF Fire
  <2>2. /\ f.pc = "ordering"
        /\ fires' = (fires \ {f}) \cup {g}
        /\ orders' = orders \cup {o}
        /\ UNCHANGED <<ended, nextFire>>
    BY <1>5 DEF OvhAccepts
  <2> HIDE DEF g, o
  <2>3. Status(i)' = Status(i)
    BY <1>3, <2>1, <2>2
  <2>4. CASE i = f.id
    <3>1. Pending(i) /\ ~ Placed(i) /\ Placed(i)'
      BY <2>1, <2>2, <2>4 DEF Pending, Placed
    <3>2. Status(i) = "pending"
      BY <3>1 DEF Status
    <3> QED
      BY <2>3, <3>1, <3>2 DEF Attempt!Next, Attempt!Accept
  <2>5. CASE i # f.id
    <3>1. Placed(i)' = Placed(i)
      BY <2>1, <2>2, <2>5 DEF Placed
    <3> QED
      BY <2>3, <3>1
  <2> QED
    BY <2>4, <2>5
(* The end of a task, in success and in failure.                           *)
<1>6. ASSUME NEW f \in fires, NEW out, EndFire(f, out),
             UNCHANGED <<orders, nextFire>>, out = "ordered" => f.pc = "accepted"
      PROVE  [Attempt(i)!Next]_<<Status(i), Placed(i)>>
  <2>1. PICK e : /\ e.id = f.id /\ e.outcome = out
                 /\ ended' = ended \cup {e}
    BY <1>6 DEF EndFire
  <2>2. fires' = fires \ {f}
    BY <1>6 DEF EndFire
  <2>3. Placed(i)' = Placed(i)
    BY <1>6 DEF Placed
  <2>4. CASE i = f.id
    <3>1. Pending(i) /\ ~ Pending(i)'
      BY <1>0, <1>6, <2>2, <2>4 DEF Pending
    <3>2. Succeeded(i)' <=> out = "ordered"
      BY <2>1, <2>4 DEF Succeeded
    <3>3. /\ Status(i) = "pending"
          /\ Status(i)' = IF out = "ordered" THEN "ordered" ELSE "failed"
      BY <3>1, <3>2 DEF Status
    <3>4. CASE out = "ordered"
      <4>1. Placed(i)
        BY <1>6, <2>4, <3>4
      <4> QED
        BY <2>3, <3>3, <3>4, <4>1 DEF Attempt!Next, Attempt!Succeed, Placed
    <3>5. CASE out # "ordered"
      BY <2>3, <3>3, <3>5 DEF Attempt!Next, Attempt!Fail
    <3> QED
      BY <3>4, <3>5
  <2>5. CASE i # f.id
    <3>1. Pending(i)' <=> Pending(i)
      BY <1>6, <2>2, <2>5 DEF Pending
    <3>2. Succeeded(i)' <=> Succeeded(i)
      BY <2>1, <2>5 DEF Succeeded
    <3>3. Status(i)' = Status(i)
      BY <3>1, <3>2 DEF Status
    <3> QED
      BY <2>3, <3>3
  <2> QED
    BY <2>4, <2>5
(* A crash fails every task it takes along.                                *)
<1>7. CASE Restart
  <2>1. fires' = {} /\ UNCHANGED <<orders, ended, nextFire>>
    BY <1>7 DEF Restart
  <2>2. Placed(i)' = Placed(i)
    BY <2>1 DEF Placed
  <2>3. CASE \E f \in fires : f.id = i
    <3>1. Status(i) = "pending" /\ Status(i)' = "failed"
      BY <1>0, <2>1, <2>3 DEF Status, Pending, Succeeded
    <3> QED
      BY <2>2, <3>1 DEF Attempt!Next, Attempt!Fail
  <2>4. CASE ~ \E f \in fires : f.id = i
    <3>1. Pending(i)' <=> Pending(i)
      BY <2>1, <2>4 DEF Pending
    <3>2. Status(i)' = Status(i)
      BY <2>1, <3>1 DEF Status, Succeeded
    <3> QED
      BY <2>2, <3>2
  <2> QED
    BY <2>3, <2>4
<1>8. ASSUME NEW f \in fires, FireStep(f)
      PROVE  [Attempt(i)!Next]_<<Status(i), Placed(i)>>
  BY <1>4, <1>5, <1>6, <1>8
  DEF FireStep, FireSetupError, FireSucceeds, FireFails
<1> QED
  BY <1>1, <1>2, <1>7, <1>8, StepKinds

(* Every task the sniper ever starts is one order attempt: it reports one  *)
(* outcome, OVH takes at most one order for it, and it reports "ordered"   *)
(* only when OVH did.                                                      *)
THEOREM SniperImplementsAttempts == Spec => FiresAreAttempts
<1> DEFINE N == 0 .. MaxFires - 1
           InitOK == \A i \in N : Attempt(i)!Init
           StepOK == \A i \in N : [Attempt(i)!Next]_<<Status(i), Placed(i)>>
<1>1. Init => AttemptInv
  BY DEF Init, AttemptInv
<1>2. Init => InitOK
  <2> SUFFICES ASSUME Init, NEW i \in N
               PROVE  Attempt(i)!Init
    OBVIOUS
  <2>1. Pending(i) /\ Placed(i) = FALSE
    BY SniperConstants DEF Init, Pending, Placed, SniperAssumption
  <2> QED
    BY <2>1 DEF Attempt!Init, Status
<1>3. TypeOK /\ AttemptInv /\ [Next]_vars => AttemptInv'
  BY AttemptInductive
<1>4. TypeOK /\ AttemptInv /\ [Next]_vars => StepOK
  <2>1. N \subseteq Nat
    BY SniperConstants DEF SniperAssumption
  <2> QED
    BY <2>1, AttemptStep
<1> QED
  BY <1>1, <1>2, <1>3, <1>4, TypeCorrect, PTL DEF Spec, FiresAreAttempts


-----------------------------------------------------------------------------
(* One order: what a _fire task and the rush route run is RushOrder, whose *)
(* variables the sniper does not have.  Its inductive invariant follows    *)
(* the saga call by call.                                                  *)

(* The cap.  From the comparison on, and as long as there is a cart, the   *)
(* price that was compared is known and within the cap.                    *)
Capped == seenPrice # NoPrice /\ seenPrice <= req.cap

CapInv ==
  /\ req.cap # NoPrice /\ (pc \in Calls \ {"price"} \/ cart.state # "none")
       => Capped
  /\ pc = "price" => cart.state = "none"

(* The cart, by the call that is to be made next: how far it has come ...  *)
CartStage ==
  /\ pc \in {"price", "discover", "create"} => cart.state = "none"
  /\ pc = "assign" => cart.state = "open"
  /\ pc \in {"server", "addon", "datacenter", "config", "checkout"}
       => cart.state = "assigned"
  /\ pc \in {"addon", "datacenter", "config", "checkout"} => cart.server
  /\ pc = "ordered" => Ordered
  /\ pc = "delete" => cart.state \in {"open", "assigned"} \/ (Ordered /\ lost)

(* ... what add-ons it has and lacks ...                                   *)
AddonStage ==
  /\ pc \in {"price", "discover", "create", "assign", "server", "addon"}
       => cart.addons + addonsLeft = req.addons
  /\ pc = "addon" => addonsLeft > 0
  /\ pc \in {"datacenter", "config", "checkout"} => cart.addons = req.addons

(* ... which datacenters were refused, and which OVH was asked for ...     *)
DatacenterStage ==
  /\ pc \in {"price", "discover", "create", "assign", "server", "addon"}
       => tried = 0 /\ refused = {} /\ cart.dcs = {}
  /\ pc = "datacenter" => refused = 1 .. tried
                          /\ cart.dcs \subseteq {datacenters[i] : i \in 1 .. tried}
  /\ pc \in {"config", "checkout"} => FirstAccepted

(* ... and which of the two settings it has: those whose call has ended.   *)
ConfigStage ==
  /\ pc \in {"price", "discover", "create", "assign", "server", "addon",
             "datacenter"} => configs = {} /\ cart.configs = {}
  /\ pc = "config" => configs # {} /\ cart.configs = Config \ configs
  /\ pc = "checkout" => configs = {} /\ cart.configs = Config
  /\ pc \in {"ordered", "dead"} => configs = {}

RushInv ==
  /\ RushTypeOK /\ CapInv /\ CartStage /\ AddonStage /\ DatacenterStage
  /\ ConfigStage /\ CleanFailure

LEMMA RushStarts == ASSUME RushInit PROVE RushInv
<1>1. RushTypeOK
  <2>1. /\ req.dcs \in Seq(Datacenter) /\ req.addons \in Nat
        /\ Len(req.dcs) \in Nat /\ req \in Request
    BY RushAssumption DEF RushInit, RushAssumption
  <2>2. tried \in 0 .. Len(datacenters) /\ refused \subseteq 1 .. tried
    BY <2>1 DEF RushInit
  <2> QED BY <2>1, <2>2 DEF RushInit, RushTypeOK, Calls
<1>2. CapInv /\ CartStage /\ AddonStage /\ CleanFailure
  BY RushAssumption DEF RushInit, RushAssumption, CapInv, CartStage, AddonStage,
         CleanFailure, Ordered
<1>3. DatacenterStage /\ ConfigStage
  BY DEF RushInit, DatacenterStage, ConfigStage
<1> QED BY <1>1, <1>2, <1>3 DEF RushInv

(* The budget guard, and what moves the prices it compares.                *)
LEMMA PriceKeeps ==
  ASSUME RushInv,
         \/ _enforce_max_price \/ DiscoverDatacenters
         \/ PriceMoves \/ CacheExpires
  PROVE  RushInv'
<1>t. RushTypeOK
  BY DEF RushInv
<1>r. /\ req.cap \in Price \cup {NoPrice} /\ Price \subseteq Int /\ NoPrice \notin Price
      /\ req.dcs \in Seq(Datacenter)
  BY <1>t, RushAssumption DEF RushTypeOK, RushAssumption
<1>1. CASE _enforce_max_price
  <2>1. /\ UNCHANGED <<req, livePrice, cart, lost, datacenters, tried, refused,
                       addonsLeft, configs>>
        /\ pc = "price" /\ pc' \in {"discover", "failed"}
        /\ cachedPrice' \in Price \cup {NoPrice}
        /\ seenPrice' \in Price \cup {NoPrice}
        /\ pc' = "discover" /\ req.cap # NoPrice
             => seenPrice' # NoPrice /\ ~ (seenPrice' > req.cap)
    BY <1>1, <1>t, <1>r
       DEF _enforce_max_price, Compare, get_plan_price,
           Priced, Local, RushTypeOK
  <2>2. RushTypeOK'
    BY <1>t, <2>1 DEF RushTypeOK, Calls, RushOutcome
  <2>3. CapInv'
    <3>1. pc' = "discover" /\ req.cap # NoPrice => seenPrice' <= req.cap
      <4> SUFFICES ASSUME pc' = "discover", req.cap # NoPrice
                   PROVE  seenPrice' <= req.cap
        OBVIOUS
      <4>1. seenPrice' \in Int /\ req.cap \in Int /\ ~ (seenPrice' > req.cap)
        BY <1>r, <2>1
      <4> QED BY <4>1
    <3>2. cart.state = "none"
      BY <2>1 DEF RushInv, CapInv
    <3> QED BY <2>1, <3>1, <3>2 DEF CapInv, Capped, Calls
  <2>4. CartStage' /\ AddonStage' /\ CleanFailure'
    BY <2>1 DEF RushInv, CartStage, AddonStage, CleanFailure, Ordered
  <2>5. DatacenterStage' /\ ConfigStage'
    BY <2>1 DEF RushInv, DatacenterStage, ConfigStage
  <2> QED BY <2>2, <2>3, <2>4, <2>5 DEF RushInv
<1>2. CASE DiscoverDatacenters
  <2>1. /\ UNCHANGED <<req, livePrice, cachedPrice, seenPrice, cart, lost, tried,
                       refused, addonsLeft, configs>>
        /\ pc = "discover" /\ pc' = "create" /\ tried = 0 /\ refused = {}
        /\ datacenters' \in Seq(Datacenter)
    BY <1>2, <1>t, <1>r, RushAssumption
       DEF DiscoverDatacenters, get_plan_datacenters, Priced,
           RushTypeOK, RushAssumption, RushInv, DatacenterStage
  <2>2. RushTypeOK'
    BY <1>t, <2>1 DEF RushTypeOK, Calls, RushOutcome
  <2>3. CapInv' /\ CartStage' /\ AddonStage' /\ CleanFailure'
    BY <2>1 DEF RushInv, CapInv, Capped, CartStage, AddonStage,
                CleanFailure, Ordered, Calls
  <2>4. DatacenterStage' /\ ConfigStage'
    BY <2>1 DEF RushInv, DatacenterStage, ConfigStage
  <2> QED BY <2>2, <2>3, <2>4 DEF RushInv
<1>3. CASE PriceMoves \/ CacheExpires
  <2>1. /\ UNCHANGED <<req, pc, seenPrice, cart, lost, datacenters, tried, refused,
                       addonsLeft, configs>>
        /\ livePrice' \in Price /\ cachedPrice' \in Price \cup {NoPrice}
    BY <1>3, <1>t DEF PriceMoves, CacheExpires, Local, RushTypeOK
  <2> QED BY <2>1
          DEF RushInv, RushTypeOK, CapInv, Capped, CartStage, AddonStage,
              DatacenterStage, ConfigStage, CleanFailure, Ordered,
              FirstAccepted
<1> QED BY <1>1, <1>2, <1>3

(* The calls that move the cart as a whole.                                *)
LEMMA CartKeeps ==
  ASSUME RushInv,
         \/ CreateCart \/ AssignCart \/ AddServer
         \/ NoDatacenter \/ CheckoutCart \/ DeleteCart
  PROVE  RushInv'
<1>t. RushTypeOK
  BY DEF RushInv
<1>1. UNCHANGED <<req, livePrice, cachedPrice, seenPrice, datacenters, tried,
                  refused, addonsLeft, configs>>
  BY DEF CreateCart, AssignCart, AddServer, NoDatacenter,
         CheckoutCart, DeleteCart, Local, Priced
<1>2. /\ cart' = [cart EXCEPT !.state = cart'.state, !.server = cart'.server]
      /\ cart'.state \in {"none", "open", "assigned", "ordered", "deleted"}
      /\ cart'.server \in BOOLEAN /\ lost' \in BOOLEAN
      /\ \/ pc = "create" /\ \/ pc' = "assign" /\ cart'.state = "open" /\ lost' = lost
                             \/ pc' = "failed" /\ lost' = TRUE
                             \/ pc' = "failed" /\ cart' = cart /\ lost' = lost
         \/ pc = "assign" /\ \/ pc' = "server" /\ cart'.state = "assigned"
                             \/ pc' = "delete" /\ cart'.state \in {"open", "assigned"}
         \/ pc = "server" /\ \/ /\ pc' = IF addonsLeft > 0 THEN "addon" ELSE "datacenter"
                                /\ cart'.state = cart.state /\ cart'.server
                             \/ pc' = "delete" /\ cart'.state = cart.state
         \/ pc = "datacenter" /\ pc' = "delete" /\ cart' = cart
         \/ pc = "checkout" /\ \/ pc' = "ordered" /\ cart'.state = "ordered"
                               \/ pc' = "delete" /\ cart'.state = "ordered" /\ lost'
                               \/ pc' = "delete" /\ cart' = cart
         \/ pc = "delete" /\ pc' = "failed"
                          /\ \/ /\ cart'.state = IF cart.state = "ordered" THEN "ordered"
                                                 ELSE "deleted"
                                /\ lost' = lost
                             \/ lost' /\ cart' = cart
  <2>1. CASE CreateCart
    BY <1>t, <2>1 DEF CreateCart, Call, RushTypeOK
  <2>2. CASE AssignCart
    BY <1>t, <2>2 DEF AssignCart, Call, RushTypeOK, RushInv, CartStage
  <2>3. CASE AddServer
    BY <1>t, <2>3 DEF AddServer, Call, RushTypeOK, Local,
                      AfterAddons, add_server_to_cart
  <2>4. CASE NoDatacenter
    BY <1>t, <2>4 DEF NoDatacenter, RushTypeOK
  <2>5. CASE CheckoutCart
    BY <1>t, <2>5 DEF CheckoutCart, Call, RushTypeOK
  <2>6. CASE DeleteCart
    BY <1>t, <2>6 DEF DeleteCart, RushTypeOK
  <2> QED BY <2>1, <2>2, <2>3, <2>4, <2>5, <2>6
<1>3. cart'.addons = cart.addons /\ cart'.dcs = cart.dcs /\ cart'.configs = cart.configs
  BY <1>2, <1>t DEF RushTypeOK
<1>4. pc' \in Calls \cup RushOutcome
  BY <1>2 DEF Calls, RushOutcome
<1>5. RushTypeOK'
  BY <1>t, <1>1, <1>2, <1>4 DEF RushTypeOK
<1>6. CapInv'
  BY <1>1, <1>2 DEF RushInv, CapInv, Capped, Calls
<1>7. CartStage' /\ CleanFailure'
  BY <1>1, <1>2 DEF RushInv, CartStage, CleanFailure, Ordered
<1>8. AddonStage'
  BY <1>t, <1>1, <1>2, <1>3 DEF RushInv, AddonStage, RushTypeOK
<1>9. DatacenterStage'
  <2>1. pc' = "datacenter" => tried = 0 /\ refused = {} /\ cart.dcs = {}
    BY <1>2 DEF RushInv, DatacenterStage
  <2>2. pc' \notin {"config", "checkout"}
    BY <1>2
  <2>3. pc' \in {"price", "discover", "create", "assign", "server", "addon"}
          => tried = 0 /\ refused = {} /\ cart.dcs = {}
    BY <1>2 DEF RushInv, DatacenterStage
  <2> QED BY <1>1, <1>3, <2>1, <2>2, <2>3 DEF DatacenterStage
<1>10. ConfigStage'
  BY <1>1, <1>2, <1>3 DEF RushInv, ConfigStage
<1> QED BY <1>5, <1>6, <1>7, <1>8, <1>9, <1>10 DEF RushInv

(* The calls for what goes into the cart.                                  *)
LEMMA OptionKeeps ==
  ASSUME RushInv, AddOption PROVE RushInv'
<1>t. RushTypeOK
  BY DEF RushInv
<1>1. /\ UNCHANGED <<req, livePrice, cachedPrice, seenPrice, datacenters, tried,
                     refused, configs>>
      /\ addonsLeft' = addonsLeft - 1 /\ pc = "addon" /\ addonsLeft > 0
  BY DEF AddOption, Priced, RushInv, AddonStage
<1>2. /\ cart' \in {cart, [cart EXCEPT !.addons = @ + 1]} /\ lost' \in BOOLEAN
      /\ \/ /\ cart' = [cart EXCEPT !.addons = @ + 1]
            /\ pc' = IF addonsLeft' > 0 THEN "addon" ELSE "datacenter"
         \/ pc' = "delete"
  BY <1>t DEF AddOption, Call, AfterAddons, RushTypeOK
<1>3. /\ cart'.state = cart.state /\ cart'.server = cart.server
      /\ cart'.dcs = cart.dcs /\ cart'.configs = cart.configs
      /\ pc' # "delete" => cart'.addons = cart.addons + 1
      /\ cart' \in [state : {"none", "open", "assigned", "ordered", "deleted"},
                    server : BOOLEAN, addons : Nat, dcs : SUBSET Datacenter,
                    configs : SUBSET Config]
  BY <1>t, <1>2 DEF RushTypeOK
<1>4. pc' \in {"addon", "datacenter", "delete"}
  BY <1>2
<1>5. RushTypeOK'
  BY <1>t, <1>1, <1>2, <1>3, <1>4 DEF RushTypeOK, Calls
<1>6. CapInv' /\ CartStage' /\ CleanFailure'
  BY <1>1, <1>3, <1>4
     DEF RushInv, CapInv, Capped, CartStage, CleanFailure, Ordered, Calls
<1>7. AddonStage'
  BY <1>t, <1>1, <1>2, <1>3 DEF RushInv, AddonStage, RushTypeOK
<1>8. DatacenterStage' /\ ConfigStage'
  BY <1>1, <1>3, <1>4 DEF RushInv, DatacenterStage, ConfigStage
<1> QED BY <1>5, <1>6, <1>7, <1>8 DEF RushInv

LEMMA DatacenterKeeps ==
  ASSUME RushInv, TryDatacenter PROVE RushInv'
<1> DEFINE d == datacenters[tried + 1]
<1>t. RushTypeOK
  BY DEF RushInv
<1>1. /\ UNCHANGED <<req, livePrice, cachedPrice, seenPrice, datacenters, addonsLeft>>
      /\ tried' = tried + 1 /\ pc = "datacenter" /\ tried < Len(datacenters)
      /\ refused' = IF pc' = "config" THEN refused ELSE refused \cup {tried + 1}
      /\ configs' = IF pc' = "config" THEN Config ELSE configs
  BY DEF TryDatacenter, Priced
<1>2. /\ cart' \in {cart, [cart EXCEPT !.dcs = @ \cup {d}]} /\ lost' \in BOOLEAN
      /\ \/ cart' = [cart EXCEPT !.dcs = @ \cup {d}] /\ pc' = "config"
         \/ pc' = "datacenter"
  BY <1>t DEF TryDatacenter, Call, RushTypeOK
<1>3. /\ tried \in Nat /\ tried + 1 \in 1 .. Len(datacenters) /\ Len(datacenters) \in Nat
      /\ d \in Datacenter
  <2>1. datacenters \in Seq(Datacenter) /\ tried \in 0 .. Len(datacenters)
        /\ Len(datacenters) \in Nat
    BY <1>t DEF RushTypeOK
  <2>2. tried + 1 \in 1 .. Len(datacenters)
    BY <1>1, <2>1
  <2> QED BY <2>1, <2>2
<1> HIDE DEF d
<1>4. /\ cart'.state = cart.state /\ cart'.server = cart.server
      /\ cart'.addons = cart.addons /\ cart'.configs = cart.configs
      /\ cart'.dcs \in {cart.dcs, cart.dcs \cup {d}}
      /\ pc' = "config" => d \in cart'.dcs
      /\ cart' \in [state : {"none", "open", "assigned", "ordered", "deleted"},
                    server : BOOLEAN, addons : Nat, dcs : SUBSET Datacenter,
                    configs : SUBSET Config]
  BY <1>t, <1>2, <1>3 DEF RushTypeOK
<1>5. /\ pc' \in {"config", "datacenter"}
      /\ refused = 1 .. tried
      /\ cart.dcs \subseteq {datacenters[i] : i \in 1 .. tried}
      /\ configs = {} /\ cart.configs = {}
  BY <1>1, <1>2 DEF RushInv, DatacenterStage, ConfigStage
<1>6. RushTypeOK'
  <2>1. tried' \in 0 .. Len(datacenters') /\ refused' \subseteq 1 .. tried'
    BY <1>1, <1>3, <1>5
  <2>2. configs' \subseteq Config
    BY <1>1, <1>5
  <2> QED BY <1>t, <1>1, <1>2, <1>4, <1>5, <2>1, <2>2 DEF RushTypeOK, Calls
<1>7. CapInv' /\ CartStage' /\ CleanFailure' /\ AddonStage'
  BY <1>1, <1>4, <1>5
     DEF RushInv, CapInv, Capped, CartStage, AddonStage, CleanFailure,
         Ordered, Calls
<1>8. cart'.dcs \subseteq {datacenters'[i] : i \in 1 .. tried'}
  <2>1. 1 .. tried' = (1 .. tried) \cup {tried + 1}
    BY <1>1, <1>3
  <2>2. d \in {datacenters[i] : i \in 1 .. tried'}
    BY <2>1 DEF d
  <2> QED BY <1>1, <1>4, <1>5, <2>1, <2>2
<1>9. DatacenterStage'
  <2>1. CASE pc' = "config"
    <3>1. refused' = 1 .. tried' - 1 /\ tried' > 0
      BY <1>1, <1>3, <1>5, <2>1
    <3>2. datacenters'[tried'] \in cart'.dcs
      BY <1>1, <1>4, <2>1 DEF d
    <3> QED BY <1>8, <2>1, <3>1, <3>2 DEF DatacenterStage, FirstAccepted
  <2>2. CASE pc' = "datacenter"
    <3>1. refused' = 1 .. tried'
      BY <1>1, <1>3, <1>5, <2>2
    <3> QED BY <1>8, <2>2, <3>1 DEF DatacenterStage
  <2> QED BY <1>5, <2>1, <2>2
<1>10. ConfigStage'
  BY <1>1, <1>4, <1>5 DEF ConfigStage, Config
<1> QED BY <1>6, <1>7, <1>9, <1>10 DEF RushInv

LEMMA ConfigKeeps ==
  ASSUME RushInv, NEW c \in Config, SetConfig(c) PROVE RushInv'
<1> DEFINE applied == [cart EXCEPT !.configs = @ \cup {c}]
<1>t. RushTypeOK
  BY DEF RushInv
<1>1. /\ UNCHANGED <<req, livePrice, cachedPrice, seenPrice, datacenters, tried,
                     refused, addonsLeft>>
      /\ c \in configs /\ configs' = configs \ {c} /\ lost' \in BOOLEAN
      /\ cart' \in {cart, applied}
      /\ \/ pc = "config" /\ cart' = applied /\ lost' = lost
              /\ pc' = IF configs' = {} THEN "checkout" ELSE "config"
         \/ pc = "config" /\ pc' = "delete"
         \/ pc # "config" /\ pc' = pc /\ lost' = lost
              /\ (cart' = cart \/ cart.state = "assigned")
  BY <1>t DEF SetConfig, add_configuration_to_cart, Call,
              Priced, RushTypeOK
<1>2. pc \in {"config", "delete", "failed"}
  BY <1>1, <1>t DEF RushInv, ConfigStage, RushTypeOK, Calls, RushOutcome
<1>3. /\ cart'.state = cart.state /\ cart'.server = cart.server
      /\ cart'.addons = cart.addons /\ cart'.dcs = cart.dcs
      /\ cart' = applied => cart'.configs = cart.configs \cup {c}
      /\ cart' \in [state : {"none", "open", "assigned", "ordered", "deleted"},
                    server : BOOLEAN, addons : Nat, dcs : SUBSET Datacenter,
                    configs : SUBSET Config]
  BY <1>1, <1>t DEF RushTypeOK
<1> HIDE DEF applied
<1>4. pc' \in {"config", "checkout", "delete", "failed"}
  BY <1>1, <1>2
<1>5. RushTypeOK'
  BY <1>t, <1>1, <1>3, <1>4 DEF RushTypeOK, Calls, RushOutcome
<1>6. CapInv' /\ CartStage' /\ AddonStage' /\ CleanFailure'
  BY <1>1, <1>2, <1>3, <1>4
     DEF RushInv, CapInv, Capped, CartStage, AddonStage, CleanFailure,
         Ordered, Calls
<1>7. DatacenterStage'
  BY <1>1, <1>2, <1>3, <1>4 DEF RushInv, DatacenterStage, FirstAccepted
<1>8. ConfigStage'
  <2>1. pc' \in {"config", "checkout"} => pc = "config" /\ cart' = applied
    BY <1>1, <1>2
  <2>2. pc = "config" => cart.configs = Config \ configs
    BY DEF RushInv, ConfigStage
  <2> QED BY <1>1, <1>3, <1>4, <2>1, <2>2 DEF ConfigStage
<1> QED BY <1>5, <1>6, <1>7, <1>8 DEF RushInv

LEMMA DieKeeps ==
  ASSUME RushInv, Die PROVE RushInv'
<1>t. RushTypeOK
  BY DEF RushInv
<1>1. /\ UNCHANGED <<req, livePrice, cachedPrice, seenPrice, datacenters, tried,
                     refused, addonsLeft, lost>>
      /\ pc \in Calls /\ pc' = "dead" /\ configs' = {}
      /\ \/ cart' = cart
         \/ pc = "checkout" /\ cart' = [cart EXCEPT !.state = "ordered"]
  BY DEF Die, Priced
<1>2. RushTypeOK'
  BY <1>t, <1>1 DEF RushTypeOK, RushOutcome
<1>3. CapInv'
  BY <1>t, <1>1 DEF RushInv, CapInv, Capped, CartStage, RushTypeOK, Calls
<1> QED BY <1>1, <1>2, <1>3
        DEF RushInv, CartStage, AddonStage, DatacenterStage, ConfigStage,
            CleanFailure

LEMMA RushKeeps ==
  ASSUME RushInv, [RushNext]_rushVars PROVE RushInv'
<1>1. CASE UNCHANGED rushVars
  BY <1>1 DEF rushVars, RushInv, RushTypeOK, CapInv, Capped, CartStage,
              AddonStage, DatacenterStage, ConfigStage, CleanFailure,
              Ordered, FirstAccepted
<1>2. CASE RushNext
  BY <1>2, PriceKeeps, CartKeeps, OptionKeeps, DatacenterKeeps, ConfigKeeps,
     DieKeeps, Zenon DEF RushNext, Saga
<1> QED BY <1>1, <1>2

(* Every variable of an order keeps its type: no add-on is counted below   *)
(* zero, no datacenter tried beyond the list (_execute_rush_order).        *)
THEOREM RushTypes == RushSpec => []RushTypeOK
<1>1. ASSUME RushInv, [RushNext]_rushVars PROVE RushInv'
  BY <1>1, RushKeeps
<1>2. RushInv => RushTypeOK
  BY DEF RushInv
<1> QED BY RushStarts, <1>1, <1>2, PTL DEF RushSpec

(* A cap fails closed: whatever the cache holds and the price does, an     *)
(* order under a cap was preceded by a price within it                     *)
(* (_enforce_max_price).                                                   *)
THEOREM CapsHold == RushSpec => []CapFailsClosed
<1>1. ASSUME RushInv, [RushNext]_rushVars PROVE RushInv'
  BY <1>1, RushKeeps
<1>2. RushInv => CapFailsClosed
  BY DEF RushInv, CapInv, Capped, CapFailsClosed, Ordered
<1> QED BY RushStarts, <1>1, <1>2, PTL DEF RushSpec

(* OVH is only asked to check out a cart with the server, every add-on,    *)
(* both settings and the first datacenter that it accepted, for any list   *)
(* of datacenters and however the two threads of gather() end.             *)
THEOREM CheckoutsAreComplete == RushSpec => []CheckoutIsComplete
<1>1. ASSUME RushInv, [RushNext]_rushVars PROVE RushInv'
  BY <1>1, RushKeeps
<1>2. RushInv => CheckoutIsComplete
  BY DEF RushInv, CartStage, AddonStage, DatacenterStage, ConfigStage,
         CheckoutIsComplete
<1> QED BY RushStarts, <1>1, <1>2, PTL DEF RushSpec

(* A failure with every reply received and the deletion done leaves no     *)
(* cart and no order (the except clause of _execute_rush_order).           *)
THEOREM FailuresAreClean == RushSpec => []CleanFailure
<1>1. ASSUME RushInv, [RushNext]_rushVars PROVE RushInv'
  BY <1>1, RushKeeps
<1>2. RushInv => CleanFailure
  BY DEF RushInv
<1> QED BY RushStarts, <1>1, <1>2, PTL DEF RushSpec

-----------------------------------------------------------------------------
(* The order implements the attempt that the sniper counts on.             *)
LEMMA RushAttemptStep ==
  ASSUME RushInv, [RushNext]_rushVars
  PROVE  [RushAttempt!Next]_RushAttempt!vars
<1> DEFINE told == CASE pc = "ordered" -> "ordered"
                     [] pc \in {"failed", "dead"} -> "failed"
                     [] OTHER -> "pending"
<1>t. RushTypeOK
  BY DEF RushInv
<1>1. pc = "ordered" => cart.state = "ordered" /\ configs = {}
  BY DEF RushInv, CartStage, ConfigStage, Ordered
<1>s. SUFFICES ASSUME TRUE
               PROVE  \/ UNCHANGED <<told, Ordered>>
                      \/ told = "pending" /\ ~ Ordered /\ Ordered' /\ told' = told
                      \/ told = "pending" /\ told' = "ordered" /\ Ordered'
                      \/ /\ told = "pending" /\ told' = "failed"
                         /\ Ordered' \in {Ordered, TRUE}
  BY DEF RushAttempt!Next, RushAttempt!vars, RushAttempt!Accept,
         RushAttempt!Succeed, RushAttempt!Fail
<1>2. CASE UNCHANGED <<pc, cart>>
  BY <1>2 DEF Ordered
<1>3. CASE _enforce_max_price \/ DiscoverDatacenters
  BY <1>3 DEF _enforce_max_price, Compare, DiscoverDatacenters,
              Ordered
<1>4. CASE CreateCart \/ AssignCart \/ AddServer \/ AddOption
  <2>1. /\ cart.state \in {"none", "open", "assigned"}
        /\ pc \in {"create", "assign", "server", "addon"}
    BY <1>4 DEF CreateCart, AssignCart, AddServer, AddOption,
                RushInv, CartStage
  <2>2. /\ cart'.state \in {"none", "open", "assigned"}
        /\ pc' \in {"assign", "server", "addon", "datacenter", "delete", "failed"}
    BY <1>4, <1>t, <2>1
       DEF CreateCart, AssignCart, AddServer, AddOption,
           Call, AfterAddons, add_server_to_cart, RushTypeOK
  <2> QED BY <2>1, <2>2 DEF Ordered
<1>5. CASE TryDatacenter \/ NoDatacenter
  <2>1. pc = "datacenter" /\ cart.state = "assigned"
    BY <1>5 DEF TryDatacenter, NoDatacenter, RushInv, CartStage
  <2>2. cart'.state = "assigned" /\ pc' \in {"config", "datacenter", "delete"}
    BY <1>5, <1>t, <2>1
       DEF TryDatacenter, NoDatacenter, Call, RushTypeOK
  <2> QED BY <2>1, <2>2 DEF Ordered
<1>6. ASSUME NEW c \in Config, SetConfig(c)
      PROVE  UNCHANGED <<told, Ordered>>
  <2>1. cart'.state = cart.state
    BY <1>6, <1>t DEF SetConfig, add_configuration_to_cart, Call,
                      RushTypeOK
  <2>2. pc' = pc \/ (pc = "config" /\ pc' \in {"checkout", "config", "delete"})
    BY <1>6 DEF SetConfig, Call
  <2> QED BY <2>1, <2>2 DEF Ordered
<1>7. CASE CheckoutCart
  <2>1. pc = "checkout" /\ cart.state = "assigned"
    BY <1>7 DEF CheckoutCart, RushInv, CartStage
  <2>2. \/ pc' = "ordered" /\ cart'.state = "ordered"
        \/ pc' = "delete" /\ cart'.state \in {"ordered", "assigned"}
    BY <1>7, <1>t, <2>1 DEF CheckoutCart, Call, RushTypeOK
  <2> QED BY <2>1, <2>2 DEF Ordered
<1>8. CASE DeleteCart
  <2>1. pc = "delete" /\ pc' = "failed"
        /\ (cart'.state = "ordered" <=> cart.state = "ordered")
    BY <1>8, <1>t DEF DeleteCart, RushTypeOK
  <2> QED BY <2>1 DEF Ordered
<1>9. CASE Die
  <2>1. /\ pc \in Calls /\ pc' = "dead"
        /\ cart'.state = "ordered" \/ cart' = cart
    BY <1>9, <1>t DEF Die, RushTypeOK
  <2>2. told = "pending" /\ told' = "failed"
    BY <2>1 DEF Calls
  <2> QED BY <2>1, <2>2 DEF Ordered
<1>10. CASE PriceMoves \/ CacheExpires \/ UNCHANGED rushVars
  BY <1>2, <1>10 DEF PriceMoves, CacheExpires, rushVars
<1> HIDE DEF told
<1> QED BY <1>3, <1>4, <1>5, <1>6, <1>7, <1>8, <1>9, <1>10, Zenon
        DEF RushNext, Saga

(* What _execute_rush_order does is what OrderAttempt allows: one outcome, *)
(* at most one order, and "ordered" only of an order that OVH took, for    *)
(* every way a call may end (the liveness half stays with TLC).            *)
THEOREM RushImplementsAttempt == RushSpec => RushAttempt!Safety
<1>1. ASSUME RushInv, [RushNext]_rushVars PROVE RushInv'
  BY <1>1, RushKeeps
<1>2. RushInit => RushAttempt!Init
  BY DEF RushInit, RushAttempt!Init, Ordered
<1>3. RushInv /\ [RushNext]_rushVars => [RushAttempt!Next]_RushAttempt!vars
  BY RushAttemptStep
<1> QED BY RushStarts, <1>1, <1>2, <1>3, PTL DEF RushSpec, RushAttempt!Safety

=============================================================================

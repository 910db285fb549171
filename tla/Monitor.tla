------------------------------- MODULE Monitor -------------------------------
(***************************************************************************)
(* The stock poller and its alert registry: MonitorService                 *)
(* (app/services/monitor.py) over the alerts and accounts tables.          *)
(*                                                                         *)
(* _lock is never held across an await, so what runs between two awaits is *)
(* one step: an alert or switch handler changes memory and database in one *)
(* step, the poll cycle suspends at each fetch and between plans, and      *)
(* reload reads the alerts and the accounts in two worker-thread calls     *)
(* before it overwrites memory.                                            *)
(***************************************************************************)
EXTENDS Naturals, FiniteSets

CONSTANTS
  Alert,      \* alert ids (uuid4)
  Key,        \* the pairs (account_id, plan_code)
  Account,
  Fqn,        \* configurations
  watches,    \* watches[a]: the key of alert a
  pattern,    \* pattern[a]: the configurations its fqn_pattern matches
  acct,       \* acct[k]: the account of key k
  MaxOps,     \* bound: user operations and stock changes
  MaxReloads  \* bound: reloads

ASSUME MonitorAssumption ==
  /\ watches \in [Alert -> Key]
  /\ pattern \in [Alert -> SUBSET Fqn]
  /\ acct \in [Key -> Account]
  /\ Alert \cap Account = {}   \* one history set holds ids of both
  /\ MaxOps \in Nat /\ MaxReloads \in Nat

VARIABLES
  stock,      \* OVH: the orderable configurations of each plan
  accounts,   \* accounts rows
  dbAlerts,   \* alerts rows: "absent", "on" or "paused"
  dbMon,      \* accounts.monitoring_enabled
  alerts,     \* MonitorService._alerts
  mon,        \* MonitorService._monitoring_enabled
  last,       \* MonitorService._last_stock
  primed,     \* MonitorService._primed
  todo,       \* keys the running poll cycle has still to process
  fetched,    \* keys whose availability answer is in hand ...
  answer,     \* ... and that answer
  reload,     \* the running reload: how far it is and what it has read
  born,       \* history: alert ids given out
  observed,   \* history: keys polled since their watch period began
  midCycle,   \* history: keys whose last watch ended during a cycle
  touched,    \* history: what changed since the running reload read it
  unsaved,    \* history: what a failed write left only in memory
  overrun,    \* history: what changed under the last reload that was applied
  ops, reloads

poll    == <<todo, fetched, answer>>
base    == <<last, primed>>
memory  == <<alerts, mon>>
db      == <<accounts, dbAlerts, dbMon>>
history == <<born, observed, midCycle, touched, unsaved, overrun>>
monitorVars == <<stock, db, memory, base, poll, reload, history, ops, reloads>>

AlertState == {"absent", "on", "paused"}

MonitorTypeOK ==
  /\ stock \in [Key -> SUBSET Fqn]
  /\ accounts \subseteq Account
  /\ dbAlerts \in [Alert -> AlertState]
  /\ dbMon \in [Account -> BOOLEAN]
  /\ alerts \in [Alert -> AlertState]
  /\ mon \in [Account -> BOOLEAN]
  /\ last \in [Key -> SUBSET Fqn]
  /\ primed \subseteq Key
  /\ todo \subseteq Key
  /\ fetched \subseteq todo
  /\ answer \in [Key -> SUBSET Fqn]
  /\ reload \in [pc : {"idle", "started", "alertsRead", "accountsRead"},
                 rows : [Alert -> AlertState],
                 known : SUBSET Account, flags : [Account -> BOOLEAN]]
  /\ born \subseteq Alert
  /\ observed \subseteq Key /\ midCycle \subseteq Key
  /\ {touched, unsaved, overrun} \subseteq SUBSET (Alert \cup Account)
  /\ ops \in 0 .. MaxOps /\ reloads \in 0 .. MaxReloads

NoReload == [pc |-> "idle", rows |-> [a \in Alert |-> "absent"],
             known |-> {}, flags |-> [c \in Account |-> TRUE]]

(* A process has just started, on whatever alerts earlier ones had stored. *)
MonitorInit ==
  /\ stock \in [Key -> SUBSET Fqn]
  /\ accounts = Account
  /\ dbAlerts \in [Alert -> {"absent", "on"}]
  /\ dbMon = [c \in Account |-> TRUE]
  /\ alerts = dbAlerts
  /\ mon = [c \in Account |-> TRUE]
  /\ last = [k \in Key |-> {}]
  /\ primed = {}
  /\ todo = {} /\ fetched = {} /\ answer = [k \in Key |-> {}]
  /\ reload = NoReload
  /\ born = {a \in Alert : dbAlerts[a] # "absent"}
  /\ observed = {} /\ midCycle = {}
  /\ touched = {} /\ unsaved = {} /\ overrun = {}
  /\ ops = 0 /\ reloads = 0

-----------------------------------------------------------------------------
WatchedBy(m) == {watches[a] : a \in {b \in Alert : m[b] # "absent"}}
Watched == WatchedBy(alerts)
Polled  == {watches[a] : a \in {b \in Alert : alerts[b] = "on"}}
KeysOf(c) == {k \in Key : acct[k] = c}

is_monitoring_enabled(c) == mon[c]

Op == ops < MaxOps /\ ops' = ops + 1 /\ UNCHANGED reloads

(* Mutant of Forget: the plans still count as primed.                      *)
ForgetKeepsPrimed(S) ==
  /\ last' = [k \in Key |-> IF k \in S THEN {} ELSE last[k]]
  /\ UNCHANGED primed

(* Baselines of the keys in S are dropped (_last_stock, _primed).          *)
Forget(S) ==
  /\ last' = [k \in Key |-> IF k \in S THEN {} ELSE last[k]]
  /\ primed' = primed \ S

(* What x's handler writes to the database: it may fail, which is logged   *)
(* and swallowed.                                                          *)
Persist(write, x) ==
  /\ touched' = touched \cup {x}
  /\ \/ write /\ UNCHANGED unsaved
     \/ UNCHANGED <<dbAlerts, dbMon>> /\ unsaved' = unsaved \cup {x}
  /\ UNCHANGED overrun

-----------------------------------------------------------------------------
(* Alert handlers.                                                         *)

(* A second alert on the same plan and pattern is refused against memory;  *)
(* the table's UNIQUE constraint can refuse the row all the same.          *)
SameWatch(a, b) == watches[a] = watches[b] /\ pattern[a] = pattern[b]

add_alert(a) ==
  /\ Op
  /\ a \notin born /\ acct[watches[a]] \in accounts
  /\ \A b \in Alert : alerts[b] # "absent" => ~ SameWatch(a, b)
  /\ born' = born \cup {a}
  /\ alerts' = [alerts EXCEPT ![a] = "on"]
  /\ Persist(/\ \A b \in Alert : dbAlerts[b] # "absent" => ~ SameWatch(a, b)
             /\ dbAlerts' = [dbAlerts EXCEPT ![a] = "on"]
             /\ UNCHANGED dbMon, a)
  /\ UNCHANGED <<stock, accounts, mon, reload, observed, midCycle>>
  /\ UNCHANGED <<base, poll>>

remove_alert(a) ==
  /\ Op
  /\ alerts[a] # "absent"
  /\ alerts' = [alerts EXCEPT ![a] = "absent"]
  /\ LET ended == {watches[a]} \ WatchedBy(alerts') IN
       /\ Forget(ended)
       /\ observed' = observed \ ended
       /\ midCycle' = midCycle \cup (ended \cap todo)
  /\ Persist(/\ dbAlerts' = [dbAlerts EXCEPT ![a] = "absent"]
             /\ UNCHANGED dbMon, a)
  /\ UNCHANGED <<stock, accounts, mon, poll, reload, born>>

set_alert_enabled(a, enabled) ==
  /\ Op
  /\ alerts[a] = IF enabled THEN "paused" ELSE "on"
  /\ LET new == IF enabled THEN "on" ELSE "paused" IN
       /\ alerts' = [alerts EXCEPT ![a] = new]
       /\ Persist(/\ dbAlerts' = [dbAlerts EXCEPT ![a] =
                                    IF @ = "absent" THEN @ ELSE new]
                  /\ UNCHANGED dbMon, a)
  /\ UNCHANGED <<stock, accounts, mon, base, poll, reload, born,
                 observed, midCycle>>

_set_account_flag(c, enabled) ==
  dbMon' = [dbMon EXCEPT ![c] = enabled] /\ UNCHANGED dbAlerts

(* The account's master switch.  Either way its baselines go, so that it   *)
(* comes back silently.                                                    *)
set_monitoring_enabled(c, enabled) ==
  /\ Op
  /\ c \in accounts /\ mon[c] # enabled
  /\ mon' = [mon EXCEPT ![c] = enabled]
  /\ Forget(KeysOf(c))
  /\ observed' = observed \ KeysOf(c)
  /\ Persist(_set_account_flag(c, enabled), c)
  /\ UNCHANGED <<stock, accounts, alerts, poll, reload, born, midCycle>>

(* DELETE /api/accounts/{id}: the row goes, the alert rows stay, and       *)
(* memory follows at the next reload.                                      *)
delete_account(c) ==
  /\ Op
  /\ c \in accounts
  /\ accounts' = accounts \ {c}
  /\ touched' = touched \cup {c} \cup {a \in Alert : acct[watches[a]] = c}
  /\ overrun' = overrun \cup {c} \cup {a \in Alert : acct[watches[a]] = c}
  /\ UNCHANGED <<stock, dbAlerts, dbMon, memory, base, poll, reload, born,
                 observed, midCycle, unsaved>>

-----------------------------------------------------------------------------
(* reload: after a switch, an update or a deletion of an account.          *)

ReloadStart ==
  /\ reload.pc = "idle" /\ reloads < MaxReloads
  /\ reloads' = reloads + 1
  /\ reload' = [reload EXCEPT !.pc = "started"]
  /\ UNCHANGED <<stock, db, memory, base, poll, history, ops>>

ReloadReadsAlerts ==
  /\ reload.pc = "started"
  /\ reload' = [reload EXCEPT !.pc = "alertsRead", !.rows = dbAlerts]
  /\ touched' = {}
  /\ UNCHANGED <<stock, db, memory, base, poll, born, observed, midCycle,
                 unsaved, overrun, ops, reloads>>

ReloadReadsAccounts ==
  /\ reload.pc = "alertsRead"
  /\ reload' = [reload EXCEPT !.pc = "accountsRead", !.known = accounts,
                              !.flags = dbMon]
  /\ touched' = touched \ Account
  /\ UNCHANGED <<stock, db, memory, base, poll, born, observed, midCycle,
                 unsaved, overrun, ops, reloads>>

(* _alerts_from_rows: rows of a deleted account are skipped.               *)
_alerts_from_rows(rows, known) ==
  [a \in Alert |-> IF acct[watches[a]] \in known THEN rows[a] ELSE "absent"]

(* _refresh_accounts: an account without a row counts as monitored.        *)
_refresh_accounts(known, flags) ==
  [c \in Account |-> c \in known => flags[c]]

(* Mutant of ReloadApplies: rows are merged into memory, as start does.    *)
ReloadMerges ==
  /\ reload.pc = "accountsRead"
  /\ LET new == _alerts_from_rows(reload.rows, reload.known) IN
       alerts' = [a \in Alert |->
                    IF new[a] = "absent" THEN alerts[a] ELSE new[a]]
  /\ mon' = _refresh_accounts(reload.known, reload.flags)
  /\ reload' = NoReload
  /\ overrun' = touched
  /\ unsaved' = unsaved \cap touched
  /\ UNCHANGED <<stock, db, base, poll, born, observed, midCycle, touched,
                 ops, reloads>>

ReloadApplies ==
  /\ reload.pc = "accountsRead"
  /\ alerts' = _alerts_from_rows(reload.rows, reload.known)
  /\ mon' = _refresh_accounts(reload.known, reload.flags)
  /\ LET ended == Key \ WatchedBy(alerts') IN
       /\ Forget(ended)
       /\ observed' = observed \ ended
       /\ midCycle' = midCycle \cup (ended \cap todo)
  /\ reload' = NoReload
  /\ overrun' = touched
  /\ unsaved' = unsaved \cap touched
  /\ UNCHANGED <<stock, db, poll, born, touched, ops, reloads>>

(* Any of the three reads may raise: reload logs and leaves memory alone.  *)
ReloadFails ==
  /\ reload.pc # "idle"
  /\ reload' = NoReload
  /\ UNCHANGED <<stock, db, memory, base, poll, history, ops, reloads>>

-----------------------------------------------------------------------------
(* The poll cycle.                                                         *)

(* _poll_once: the plans of every enabled alert, without the accounts that *)
(* are switched off.                                                       *)
Pollable == {k \in Polled : is_monitoring_enabled(acct[k])}

(* Mutant of CycleStart: the master switch is not asked.                   *)
CycleStartIgnoresSwitch ==
  /\ todo = {} /\ Polled # {}
  /\ todo' = Polled
  /\ midCycle' = midCycle \cap primed
  /\ UNCHANGED <<stock, db, memory, base, fetched, answer, reload, born,
                 observed, touched, unsaved, overrun, ops, reloads>>

CycleStart ==
  /\ todo = {} /\ Pollable # {}
  /\ todo' = Pollable
  /\ midCycle' = midCycle \cap primed   \* a race that left no baseline is over
  /\ UNCHANGED <<stock, db, memory, base, fetched, answer, reload, born,
                 observed, touched, unsaved, overrun, ops, reloads>>

(* The orderable configurations that OVH lists for a plan.                 *)
get_availability(k) == stock[k]

(* _fetch_availability_map: one call for an account's plans, filtered for  *)
(* one plan and region-wide for more; an error leaves every baseline as it *)
(* is.  A deleted account's service is not configured: nothing is polled.  *)
Fetch(c) ==
  LET mine == KeysOf(c) \cap todo IN
  /\ mine # {} /\ mine \cap fetched = {} /\ c \in accounts
  /\ fetched' = fetched \cup mine
  /\ answer' = [k \in Key |-> IF k \in mine THEN get_availability(k) ELSE answer[k]]
  /\ UNCHANGED <<stock, db, memory, base, todo, reload, history, ops, reloads>>

FetchFails(c) ==
  LET mine == KeysOf(c) \cap todo IN
  /\ mine # {} /\ mine \cap fetched = {}
  /\ todo' = todo \ mine
  /\ UNCHANGED <<stock, db, memory, base, fetched, answer, reload, history, ops,
                 reloads>>

(* The diff itself is output; what stays is the new baseline.              *)
get_stock_diff(k) == last' = [last EXCEPT ![k] = answer[k]]

(* The locked section of _poll_account: diff against the baseline, replace *)
(* it, and mark the plan primed.  Whether anyone still watches the plan,   *)
(* or the account is still switched on, is not asked again.                *)
Process(k) ==
  /\ k \in fetched
  /\ get_stock_diff(k)
  /\ primed' = primed \cup {k}
  /\ todo' = todo \ {k}
  /\ fetched' = fetched \ {k}
  /\ answer' = [answer EXCEPT ![k] = {}]
  /\ observed' = IF k \in Watched THEN observed \cup {k} ELSE observed
  /\ UNCHANGED <<stock, db, memory, reload, born, midCycle, touched,
                 unsaved, overrun, ops, reloads>>

StockMoves(k) ==
  /\ Op
  /\ stock' \in {[stock EXCEPT ![k] = S] : S \in SUBSET Fqn \ {stock[k]}}
  /\ UNCHANGED <<db, memory, base, poll, reload, history>>

(* The process restarts: _load_from_storage, empty baselines.              *)
MonitorRestart ==
  /\ Op
  /\ alerts' = _alerts_from_rows(dbAlerts, accounts)
  /\ mon' = _refresh_accounts(accounts, dbMon)
  /\ last' = [k \in Key |-> {}] /\ primed' = {}
  /\ todo' = {} /\ fetched' = {} /\ answer' = [k \in Key |-> {}]
  /\ reload' = NoReload
  /\ observed' = {} /\ midCycle' = {}
  /\ touched' = {} /\ unsaved' = {} /\ overrun' = {}
  /\ UNCHANGED <<stock, db, born>>

-----------------------------------------------------------------------------
PollStep ==
  \/ CycleStart
  \/ \E c \in Account : Fetch(c) \/ FetchFails(c)
  \/ \E k \in Key : Process(k)

ReloadStep ==
  ReloadReadsAlerts \/ ReloadReadsAccounts \/ ReloadApplies \/ ReloadFails

MonitorNext ==
  \/ \E a \in Alert :
       \/ add_alert(a)
       \/ remove_alert(a)
       \/ \E e \in BOOLEAN : set_alert_enabled(a, e)
  \/ \E c \in Account :
       \/ \E e \in BOOLEAN : set_monitoring_enabled(c, e)
       \/ delete_account(c)
  \/ ReloadStart
  \/ ReloadStep
  \/ PollStep
  \/ \E k \in Key : StockMoves(k)
  \/ MonitorRestart

(* _run loops for ever, and each OVH call returns or raises.               *)
Fairness ==
  /\ WF_monitorVars(CycleStart)
  /\ \A c \in Account : WF_monitorVars(Fetch(c) \/ FetchFails(c))
  /\ \A k \in Key : WF_monitorVars(Process(k))
  /\ WF_monitorVars(ReloadStep)

MonitorSpec == MonitorInit /\ [][MonitorNext]_monitorVars /\ Fairness

-----------------------------------------------------------------------------
(* Properties.                                                             *)

(* The first poll of a watch period only records a baseline: a plan that   *)
(* counts as primed was polled in the present watch period, except one     *)
(* whose last alert went away while a cycle that covers it was running.    *)
PrimedWasObserved == Watched \cap primed \subseteq observed \cup midCycle

(* Memory and database agree about an alert or a switch, except about one  *)
(* that changed after the last reload had read it, or whose write failed.  *)
(* In particular a reload repairs every older difference.                  *)
DivergenceHasCause ==
  /\ \A a \in Alert :
       alerts[a] # _alerts_from_rows(dbAlerts, accounts)[a]
         => a \in unsaved \cup overrun
  /\ \A c \in Account :
       mon[c] # _refresh_accounts(accounts, dbMon)[c]
         => c \in unsaved \cup overrun

(* Switching off does end the work: the running cycle lets go of the       *)
(* account's plans, and while the switch stays off none takes them up.     *)
OffTakesEffect ==
  \A c \in Account : <>[](~ mon[c]) => <>[](KeysOf(c) \cap todo = {})

=============================================================================

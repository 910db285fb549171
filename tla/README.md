# EcoVibe in TLA+

EcoVibe is a single-process FastAPI application that watches OVH's Eco servers
for stock, orders them automatically when they appear, and follows orders,
prices and owned servers. Everything in `app/` runs on one asyncio event loop;
OVH calls and database calls go to worker threads and are awaited. This
directory holds TLA+ models of the parts whose correctness depends on the order
in which things happen, TLC configurations that check them, and TLAPS proofs.

A step of a model is what the code does between two suspension points of the
event loop (or between two database or OVH calls of one handler). That is the
grain at which handlers, the poll cycle, order tasks and restarts interleave.

## 1. The system

| Part | Code | State it keeps | Operations | Hard behaviour |
| --- | --- | --- | --- | --- |
| Sniper | `services/monitor.py` `SniperService`, `api/sniper.py` | `_armed`, `_in_flight`, `_results`; order tasks | arm, disarm, `maybe_fire`, `_fire` | a task runs for seconds while the user arms, disarms, deletes; OVH may order and the reply may be lost |
| Rush order | `api/checkout.py` | the cart at OVH | price guard, cart saga, rollback | ten OVH calls, each may fail before or after it acts |
| Stock poller, alert registry | `services/monitor.py` `MonitorService`, `api/alert.py`, `api/accounts.py` | `_alerts`, `_monitoring_enabled`, `_last_stock`, `_primed`; rows in `alerts`, `accounts` | add, remove, pause; switch; poll cycle; reload | handlers run while a cycle has answers in hand; memory and database are two copies |
| Poller life cycle | `MonitorService.start/stop`, `main.py` lifespan, `api/settings.py` | `_task`, the setting `monitor_enabled` | start, stop, PUT /api/settings/app | `stop` waits and other requests run meanwhile |
| Order watch | `MonitorService._check_orders`, `api/orders.py` | `orders` rows | watch cycle, Orders tab, refresh, cancel, `log_order` | several writers of one row; report after write |
| Server watch | `MonitorService._check_servers` | `owned_servers` rows, priming marker | diff, prime | two writes make the priming |
| Price, promo, catalogue watch | `MonitorService._check_prices_and_promos`, `_diff_catalog`, `api/price_watch.py` | `price_watches`, `promo_events`, `catalog_plans`, `catalog_changes` rows | evaluate, record, diff | the user re-saves a watch while it is being notified; recorded before reported |
| Region ticker | `_process_region_snapshot`, `set_region_enabled` | `_last_region_avail`, `_region_primed`, `_region_events` | diff region-wide | who logs a plan that starts or stops being watched |
| Event fan-out | `_publish`, `subscribe`, `services/logbus.py`, `api/monitor.py` | a bounded queue per browser | publish, subscribe | full queues; what a page still shows |
| Console relay | `api/console.py`, `open_ipmi_session` of `api/servers.py` | `_sessions`, one per server, with its `websocket` | broker through an OVH task, replace, relay | two sockets, replacement while connecting, a BMC that stops reading |
| OVH client | `services/ovh_service.py` | registry of services per account; a lock and a time delta per service | calls with retry | what may be sent twice |
| Servers API | `api/servers.py`, `services/server_features.py` | `server_capabilities` rows | reboot, boot, reinstall, addresses, options, terminate; probe | two calls behind one answer; a probe that is kept for a week |
| Accounts | `api/accounts.py` | `accounts` rows, active account | create, update, switch, delete | verification is awaited before the write |
| Storage | `services/storage.py` | SQLite tables | open and upgrade; rows | one connection, one lock; an upgrade that ends half way, an `init` that raised and is served on |
| The rest | `services/notifier.py`, `currency.py`, `geekbench.py`, `cache.py`, `api/catalog.py`, `insights.py`, `account.py`, `static/`, `templates/` | caches | look-ups, formatting, one OVH call per request | |

How they interact: the poll cycle finds stock, writes events, notifies and calls
`SniperService.maybe_fire`; that leaves a task which loads the profile and calls
`_execute_rush_order`, as the rush route does; success goes to `log_order`. A rush
order that finds no stock arms a sniper. Deleting or pausing an alert, switching
accounts and deleting an account reach the sniper and the baselines. The watch
loops run inside the poller's task, so `stop` cancels them too.

What makes each part correct:

* Sniper: one order for each time it is armed; nothing ordered after the user
  called it off; never blocked for good.
* Rush order: only complete carts are checked out, never above the cap, in the
  first datacenter OVH accepts; a failure leaves nothing behind.
* Poller: a restock is an edge against a baseline of the same watch period;
  memory agrees with the database; off means off; no account hides another.
* Poller life cycle: the poller runs exactly if the setting says so.
* Order watch: each end is recorded, and announced once.
* Price, promotion and catalogue watch: a drop, a promotion and a change are told
  once; what the tables say was told, was; the snapshot follows the catalogue.
* Accounts: only accepted credentials are stored; a service never outlives them;
  the active account exists; a deletion is final.
* Server watch: a server is announced when it appears, once, never because the
  watch was new. Region ticker: each change is logged by exactly one side, and the
  log agrees with what was seen. Fan-out: a page shows what the poller saw last. A
  restock is announced, and an armed plan in stock is offered to the sniper.
* Servers API and OVH client: nothing that OVH does is done twice, a repeat undoes
  nobody's change, the answer says what was done, a stored capability has a cause.
* Console: one relay per server, and no socket is held for ever.
* Storage: an upgrade loses nothing wherever it is cut, and is not done twice.

## 2. Modules

| Module | Models | State and actions |
| --- | --- | --- |
| `OrderAttempt` | what one call of `_execute_rush_order` promises its callers | abstract: `status` (what the caller is told), `placed` (what OVH did) |
| `Sniper` | the sniper and every handler that reaches it | `armed`, `inFlight`, `results` are the dictionaries of `SniperService`; `fires` the tasks with where they are; `orders` is OVH's side; `targets` what a poll cycle has matched and not yet offered; `alertState` and `rows` the alerts in memory and in the database, `reload` what each running reload has read |
| `RushOrder` | `_enforce_max_price`, `_execute_rush_order` | `pc` is the call about to be made, `cart` OVH's cart, `Call` the three ways a call ends |
| `Monitor` | alerts, switches, baselines, reload, the poll cycle | variables carry the names of the attributes; `todo`, `fetched`, `answer` are the local variables of the cycle; `reload` those of a reload |
| `Poller` | the poller task and the setting | `task` is `_task`; `state` what each task created is doing; `waits` who is inside `stop` |
| `ServerWatch` | `_check_servers` of one account, run by any poller task | `rows`, `marker` are the table and the stored marker, `due` the clock of the interval, `check` each task's local variables; `owned` is OVH's list. `LateWrite` is a database call whose task was cancelled and that goes on in its thread |
| `Deliveries` | the poller and the server watch its tasks run | `Poller`'s variables and `ServerWatch`'s: `Ends` is the end of a task and of its check, `Reboot` a restart of both |
| `StockFeed` | what a cycle makes of its answer: event rows, notifications, offers to the sniper, messages to browsers; the region ticker | `base`, `primed`, `regionBase`, `regionPrimed`, `regionEvents` are the attributes; `cycle` the local variables between two awaits; `row` the newest event of each plan; `queue` the subscribers' queues, `picture` what the pages show |
| `OvhClient` | `OVHService._call` and the registry | `lock`, `drifted` (the time delta) per service, `call` each request's OVH call with its one repeat |
| `ServerControl` | the handlers of `api/servers.py` that change a server, and the capability cache, over `OvhClient` | `job` where each request is; an operation is what it sets and drops at OVH; `last`, `parts`, `has` are OVH's side; `cache` the stored capabilities; `answer` what the caller was told |
| `OrderWatch` | the order watch of one account and all writers of its rows | `row` the table, `watch` the local variables of `_check_orders`, `request` those of the handlers; `aged` the orders older than `ORDER_WATCH_DAYS`, `watched` whether the switches let the watch run |
| `CatalogWatch` | the price, promotion and catalogue watch of one account and the price watch routes | `watch`, `promos`, `snapshot`, `changes` are the tables; `check` the local variables of the running check; `offer`, `promo` are OVH's side |
| `Accounts` | account rows, active account, registry of services | `stored`, `active` the rows; `services` the registry; `request` what each request in progress has read and waits for |
| `Migration` | `Storage.init`, the three migrations, `get_storage`, and the writes of a program that serves | `disk` is what is committed, `work` what the connection sees, `open` whether a transaction is; `pc` the next statement |
| `Console` | `create_console_session`, `open_ipmi_session`, `console_ws` for one server | `current` is `_sessions.get(service_name)`, `websocket` and `expired` the fields of each session; `call` and `sock` say where each call and handler stands, `of` which session a handler holds; `access`, `task`, `unread` are OVH's and the BMC's side |
| `MCSniper`, `MCRushOrder`, `MCMonitor`, `MCCatalogWatch`, `MCAccounts`, `MCMigration`, `MCServerControl` | constants of the instances | |
| `SniperProofs` (also about `RushOrder`), `DeliveriesProofs` (also about `Poller` and `Monitor`), `ConsoleProofs` (also about `Migration`), `OrderWatchProofs`, `CatalogWatchProofs`, `AccountsProofs`, `StockFeedProofs`, `ServerControlProofs` | theorems, each about the module of its name, and those named here | |

`Sniper` and `RushOrder` meet in `OrderAttempt`: `RushOrder` implements it
(`ImplementsAttempt`), and each task of `Sniper` behaves like one
(`FiresAreAttempts`), so `Sniper` may leave the cart calls out.

`Deliveries` joins `Poller` and `ServerWatch` and implements `Poller`
(`DeliveriesImplementPoller`), so whatever holds of the poller alone holds of the
poller with its checks. It is the composition in which two pollers at a time, which
`Poller` only counts, do something: two checks may read the same rows. `ServerControl`
extends `OvhClient` in the same way: its handlers make the calls, the client decides
what is sent again, and OVH acts on each try.

`Monitor` and `StockFeed` are two views of one poll cycle: `Monitor` has several alerts
per plan, accounts and reloads, and asks who is polled and which baselines there are;
`StockFeed` has one alert per plan, and asks what comes out.

Variables marked *history* are not the program's: they remember what a property
needs (who called an arm off, what changed under a reload).

## 3. Runs

| Run | Question | Answer |
| --- | --- | --- |
| `MCSniper` | one alert, two configurations, two arm calls, two tasks, a reload, failing writes | a second order in an arm cycle needs a lost reply (`DuplicateNeedsLostReply`); a configuration stays blocked only for a running task or missing profile or credentials (`BlockedHasCause`); an armed alert that no poll looks at was armed after the last pause, removal or deletion, and while paused or without its account, or it was lost to a reload that held older rows or to a write that failed (`DeadArmHasCause`); an arm that was called off starts no task although the poll may have matched before (`RevokedNeverFires`); each task is an `OrderAttempt` |
| `MCRushOrder` | a rush order with up to two datacenters, or one named twice, an add-on, a cap | complete carts in the first accepted datacenter (`CheckoutIsComplete`), cap fails closed, clean failure, implements `OrderAttempt`, which includes that it ends |
| `MCMonitor` | two alerts on a plan, three operations, a reload, failing writes, a cycle anywhere | baselines belong to the watch period (`PrimedWasObserved`), memory and database differ only for a cause (`DivergenceHasCause`), off takes effect |
| `MCDeliveries` | two settings requests at a time, three poller tasks, one server that comes and goes twice, failing and late writes, restarts | what polls is what the setting says, or a `start` came inside a `stop`, each of which costs at most one poller too many (`PollersAccounted`); what was there before is not announced and a delivery only once, unless two checks overlapped (`AnnouncedWasDelivered`); nothing that the rows have is left unannounced but for a cause (`RecordedIsTold`); a delivery after the first baseline is announced, unless a stop, a failure or a crash came between its row and the message (`DeliveryIsTold`) |
| `MCOrderWatch` | two orders, a budget of one | which ends go unannounced and why (`SilenceHasCause`), none twice without an overwrite and none of an order that was over when first seen (`NotifiedOnce`), while the watch is on, an end is recorded unless the order is too old to be listed or newer ones spend the budget (`EndIsRecorded`) |
| `MCCatalogWatch` | three plans, one of them watched, a campaign; three moves of OVH or of the user, failures or restarts | no price is told twice in a row (`DropToldOnce`), a watch marked as notified was (`NotifiedWasTold`), both except after a cut between notification and mark; a lasting drop is told (`DropIsTold`); promotions are announced once, the log of changes explains the snapshot and was published, both except by a check that broke off (`ReportsAccounted`); the snapshot follows the catalogue up to the half guard (`SnapshotCatchesUp`) |
| `MCAccounts` | two accounts, two requests at a time | services have the credentials of their rows (`RegistryFresh`), a combination OVH did not accept takes two overlapping updates (`UnverifiedNeedsOverlap`), the active account exists unless a switch was put back or a handler failed half way (`ActiveIsStored`) |
| `MCMigration` | every database an earlier version left; four failing statements, process ends or user operations | wherever an upgrade is cut, no alert is lost, and an account and its rows, a setting and its flag, move together, unless the program served on a failed `init` and committed half of it (`UpgradeIsWhole`); `init` raises only if a statement failed or an `alerts_new` was left behind (`LimpsForCause`) |
| `MCMigrationGone` | a deleted last account stays deleted | violated: the next start imports the legacy credentials again |
| `MCConsole` | two calls, each with its OVH task, two sockets | two relays at a time take a replacement during a connection attempt, a socket opened during a replacement, or an id used twice (`OneConsoleUnlessOverlap`); a socket that was let in ends, unless the BMC never takes its bytes (`SocketEnds`) |
| `MCStockFeed` | two plans, one of them armed, two stock changes, two operations, failures or restarts, one page with a queue of one | between cycles the newest event of a plan agrees with what its side saw last and none repeats the one before, unless the plan changed hands or a write was lost (`LogFollowsStock`); a page that has read its queue shows what was seen last, unless a change was dropped at the full queue, lost with its cycle, or came while it was away (`PictureIsCurrent`); no restock that a baseline has taken in is forgotten (`RestockIsAccounted`); a restock is announced unless a failure or a stop came between baseline and message (`RestockIsTold`); an armed plan that stays in stock is offered whatever failed (`ArmedIsOffered`) |
| `MCServerControl` | two requests, two service objects, two features; two refusals, lost replies, clock steps or resets | no POST is carried out twice (`CarriedOutOnce`); what an answer says was done was, and a reboot after a boot change comes up in that boot or in one asked for at the same time (`AnswersAreTrue`); a repeated PUT or DELETE undoes nobody's change, unless the other held an older service object (`RepeatUndoesNothing`); a stored capability has a cause (`CapabilityHasCause`) |

Bounds. Every bound is a constant: `MaxArms`, `MaxFires` (Sniper), `MaxOps`,
`MaxReloads` (Monitor), `MaxOps` (OrderWatch, CatalogWatch, Accounts, Migration),
`MaxTasks`, `MaxPuts` (Poller), `MaxMoves` (ServerWatch), `MaxMoves`, `MaxOps`,
`QueueSize` (StockFeed), `MaxFaults` (ServerControl), `MaxPolls` (Console: reads before a
deadline);
`RushOrder` needs none. They are chosen from the shortest behaviours that
matter: a second arm while the first task runs, and a second task after it
(two arms, two tasks); an operation between a fetch and its processing,
another between the reads of a reload, and one after it (three); a request
writing an older status over an end, with a failure (two); a watch saved, saved again
inside a notification, and a catalogue that moves (three); an account created,
two updates of it, and a switch or a deletion (four). A half-missing catalogue
needs two plans, one more than half three, hence three plans. An upgrade cut, served on,
and begun again needs two failures and an operation between (four). In `Console` each
call and each socket is used once, which bounds the run; two of each are one console
and the one that replaces it. With three of each, while nothing has overlapped,
the invariant holds too. A poller too many takes a stop, a start inside it and the next
start: three tasks and three requests, one more for a restart. A server delivered, gone
and delivered again, or delivered around a failing write, needs two moves. A plan that
changes hands and a failure, or a restart, need two operations, and a restock and its end
two moves; a queue of one is full at the second message, as one of a hundred is at the
hundred and first. A lost reply and a failing repeat are two faults; one request that
meets another, with an old and a new service object, is two of each. In
`MCSniper` the two configurations are interchangeable and declared symmetric, and the
constraint `ReloadsInTime` lets the reload run until there is a second task: the states
after that with a reload at work are left out, which keeps the run short. Without the
constraint, with two reloads and one task, and with three tasks and no reload, the same
properties hold. In `MCOrderWatch` an order growing too old and a switch count as
operations; when they are free the properties hold too, as they do with a third operation.
`load_orders` takes the newest 200 rows, the model all. Snipes of one alert
touch nothing of another's except `configured` and `profiles`, which the
environment may change anyway, so one alert is enough for TLC, and the theorems
hold for any number. Operations stop at the bound, so runs do not check for
deadlock.

Fairness. The event loop runs what is ready, timers fire, and OVH calls return or
raise (the client has a timeout): weak fairness of the steps of a rush order
(`RushOrder`), of each cycle step and of a reload that has begun (`Monitor`), of the
watches (`OrderWatch`, whose next cycle begins only while it is switched on, and
`CatalogWatch`), of the cycle's steps (`StockFeed`), of a running
task's check and of the interval (`Deliveries`), and in `Console` of expiry, of a connection
attempt's end, of a relay's timeout and of a handler with an empty buffer. No user,
OVH, BMC, failure or restart is fair, and no run assumes that a call succeeds.
`Sniper`, `Poller`, `Accounts`, `Migration` and `ServerControl` state safety only.

## 4. Proofs

TLAPS proves, for every value of the constants:

* `SniperProofs`: `TypeOK`, `InFlightExact`, `RevokedNeverFires`,
  `DuplicateNeedsLostReply`, `BlockedHasCause`, `DeadArmHasCause`, `FiresAreAttempts`;
  of `RushOrder`, `RushTypeOK`, `CheckoutIsComplete`, `CapFailsClosed`, `CleanFailure`,
  and that its steps are steps of `OrderAttempt`.
* `DeliveriesProofs`: of `Poller`, `TypeOK`, `SettingIsLive`, `StraysNeedRaces`; of the
  composition, that it implements `Poller`, hence `PollersAccounted`, and
  `DeliveriesTypeOK`, `AnnouncedWasDelivered`, `RecordedIsTold`; of `Monitor`,
  `MonitorTypeOK`, `PrimedWasObserved`, `DivergenceHasCause`.
* `OrderWatchProofs`: `TypeOK`, `SilenceHasCause`, `NotifiedOnce`.
* `StockFeedProofs`: `TypeOK`, `LogFollowsStock`, `PictureIsCurrent`, `RestockIsAccounted`.
* `ServerControlProofs`: `TypeOK`, `CarriedOutOnce`, `AnswersAreTrue`,
  `RepeatUndoesNothing`, `CapabilityHasCause`.
* `AccountsProofs`: `TypeOK`, `RegistryFresh`, `DeletedStaysGone`, `ActiveIsStored`,
  `UnverifiedNeedsOverlap`.
* `CatalogWatchProofs`: `TypeOK`, `ReportsAccounted` (from `PromoAccounted` and
  `ChangesAccounted`), `NotifiedWasTold`, `DropToldOnce`.
* `ConsoleProofs`: `TypeOK`, `OneConsoleUnlessOverlap`; of `Migration`, `UpgradeTypeOK`,
  `LimpsForCause`, `UpgradeIsWhole`.

So every invariant and every action property of a passing run is stated by a theorem.
The type invariants, `InFlightExact` and `DeletedStaysGone` are only proved.

They rest on `SniperConstants`, `RushAssumption`, `PollerAssumption`,
`DeliveriesAssumption`, `MonitorAssumption`, `WatchAssumption`, `AccountsAssumption`,
`CatalogAssumption`, `ConsoleAssumption`, `MigrationAssumption`, `StockFeedAssumption`,
`OvhClientAssumption` and `ServerControlAssumption` only. Two of them say more than that a
bound is a number: ids of alerts and of accounts differ (`MonitorAssumption`; one history
set of `Monitor` holds both), and no legacy database has two alerts with one plan and
configuration (`MigrationAssumption`; the `alerts` table of every earlier version had
`UNIQUE(plan_code, fqn_pattern)`). The invariants are not inductive alone.

*Sniper.* `RevokedNeverFires` needs that an armed entry is never older than the last
calling-off (`ArmedSinceRevoked`), with cycles numbered in order.
`DuplicateNeedsLostReply` needs `OrderInv`: a cycle belongs to one alert, an alert has
one task at a time, tasks are numbered in order, and an order of a task that has
ended was either reported (and its entry popped, so no later task has its cycle) or
is one whose attempt counted as failed; with a task running it is that task's.
`DeadArmHasCause` needs `ArmedSinceRevoked`, `DeadArms`: an alert loses its entry in the
step that pauses or removes it, and only a reload leaves one; and `SyncInv`, which says of
which alerts a reload changes nothing: their account is stored, their writes succeeded, and
they did not change while a reload held older rows, so memory, row and reload agree. `FiresAreAttempts` needs
`AttemptInv`: what OVH and `ended` hold belongs to tasks
that were created.

*Rush order.* `RushInv` follows the saga call by call: which of the options are in the cart
at each call (`CartStage`, `AddonStage`), that the datacenters before the current one were
refused and the current one is the one configured (`DatacenterStage`, `ConfigStage`), and
that nothing is past the price guard unless the price was within the cap (`CapInv`). The
datacenters refused are remembered by their places in the list: as a set of names, which
the model had first, "every one before it was refused" is false of a list that names one
twice and whose second try is accepted, which a request may be.

*Poller.* `SettingIsLive` needs `SettingInv`, which says what each pending `stop` still
owes; `StraysNeedRaces` needs `StraysInv`, which counts the tasks `_task` does not name.
Every step of `Deliveries` is one of `Poller` or leaves its variables alone (`LifeStep`).

*Monitor.* `PrimedWasObserved` needs `BaselineInv`: a baseline is of a plan that was observed
in its watch period, or that lost its last alert while a cycle ran, and a plan the running
cycle holds and nobody watches is one of the latter. `DivergenceHasCause` needs
`ReloadInv`: what a running reload has read is what the database holds, but for what
was touched since.

*Server watch.* `AnnouncedWasDelivered` needs `AnnInv`: while no two checks overlap, a
server that OVH lists and the rows, or the running check, do not have was announced less
often than it came. A write in its thread is a check that has not ended, so a late write
and a new check are an overlap, and nothing more is needed for them. `RecordedIsTold`
holds for overlapping checks too, with one more fact: no marker is written between a
check's look at it and its baseline, unless checks overlap (`Priming`). `DeliveryIsTold`
adds to it that what is to be announced in the end is.

*Order watch.* `SilenceHasCause` follows the end from the row that hides it to the cycle
that still holds it; `NotifiedOnce` needs `Counted`, which sets the messages sent, and the
one the running cycle owes, against the overwritten ends.

*Stock feed.* `LogFollowsStock` needs `LogInv`: a plan that has not changed hands belongs to
the side that the running cycle takes it for (`Sides`); rows still to be written agree with
the baselines already replaced, and differ from the newest rows (`Pending`); all others
agree with the newest rows (`Settled`). `PictureIsCurrent` needs `PictureInv`: the last
message of a queue that speaks of a plan says what was seen last; if none does, the page
already shows it; and what the running cycle still has to send agrees with the baseline
it has replaced. A change that was dropped, lost or missed is taken out until the next
message about that plan. `RestockIsAccounted` needs only that a cycle has a plan to tell
about from its row to its notification and nowhere else (`TellInv`); it is the safety part
of `RestockIsTold`.

*Servers.* `CarriedOutOnce` needs `Counts`: a POST that was carried out is not waiting to be
sent again. `AnswersAreTrue` needs what a handler knows at each of its steps (`Knows`), and
`Boots`: the boot in force is the handler's own or one of a request it met. A repeat is
harmless (`RepeatUndoesNothing`) because between the two tries nobody with the same
service object changes anything (`Guards`), and that is `LockHeld`.
`CapabilityHasCause` needs the same of each probe that has been answered but not stored.

*Accounts.* `TypeOK` is inductive with `UpdateNamesAccount`, the type of what a pending
update names. `UnverifiedNeedsOverlap` needs `PendingInv`: the account of a pending update
has or had a row, and what the update had checked is its form merged with that row,
unless another update of the account was being checked meanwhile.

*Catalogue watch.* `PromoInv` and `ChangesInv` say where a promotion or a change that is
recorded but not yet told is held: by the running check, or lost with one that broke
off. `NotifiedWasTold` and `DropToldOnce` share `WatchInv`: rows are named by their plan,
a plan has one row, and what the running check loaded, will mark, or has told agrees
with what was told of that plan, whatever the user saved or deleted in between.

*Migration.* `MigrationInv` says what the connection sees over what is committed. Outside a
transaction the two are equal (`Transaction`). Inside, the statement `init` is at says what
is new: the columns that the loop is past are there (`ColumnsThere`); the old constraint,
and an `alerts_new` in its way, are the only reason to raise (`ConstraintStage`); the table
that holds the alerts now has every committed one, and those of an account being imported
have their owner (`RowsStage`); and the setting stays until it has become a flag
(`TickerStage`). A user's write on a connection that a failed `init` left in a transaction
commits the half, which is the exception `UpgradeIsWhole` names.

*Console.* `TypeOK` needs that a handler that has not begun holds no session
(`IdleHoldsNone`). `OneConsoleUnlessOverlap` needs `Apart`, which holds as long as nothing
has overlapped: a relay that is not told to close is the one its session knows, and that
session is the registered one; a session that has a connecting socket has no other; and
while a call awaits a close nothing connects. `Cardinality` comes in only at the end,
with the facts of `FiniteSetTheorems` about the empty set and a singleton.

Only model-checked: the liveness properties (`OffTakesEffect`, `EndIsRecorded`,
`DropIsTold`, `SnapshotCatchesUp`, `SocketEnds`, `DeliveryIsTold`, `RestockIsTold`,
`ArmedIsOffered`, and that a rush order ends, which is the rest of `ImplementsAttempt`).
The prover has no rule for liveness under fairness.

## 5. What the models say about the code

* A lost checkout reply is a failure to `_fire`, and so is a `log_order` that raises after
  it: the next poll orders again. "One-shot per arm (no duplicate orders)"
  (`README.md:117`) holds up to that, and `DuplicateNeedsLostReply` says so.
* The end of an older order takes a newer arm with it.
* `_arm_sniper_from_rush` reuses any alert on the same configuration: paused, or
  (because `get_alerts` is not scoped) another account's. A paused one is never polled,
  although the answer says "Sniper armed - the monitor will auto-order when it comes back
  in stock" (`checkout.py:297`). It can be armed through the sniper's own route too, and so
  can one whose account has just been deleted: that entry stays for good, although
  `disarm_for_account` is there to prevent it.
* A reload (`PUT /accounts/active` makes one) replaces memory by rows it read some awaits
  earlier and asks no sniper: an alert that was created and armed meanwhile, or whose row was
  never written, disappears from memory, and a resumed one may be paused again; its armed
  entry stays, "armed but dead". `DeadArmHasCause` says that this and the item before are all.
* The price guard compares a cached catalogue price, up to its time to live old.
* A reload that overlaps a handler undoes it in memory; the row stays.
* Switching an account off does not stop the processing of answers already in
  hand; the baseline this leaves is dropped only at the next switch or removal.
* A plan whose last alert goes during a cycle gets its baseline back.
* `start` inside the wait of `stop` leaves monitoring off although the setting is
  on, or, if a poller was started after the old one ended, one nobody refers to.
* The order watch tells nobody about an end the Orders tab saw first, nor about
  one written in a cycle that broke off, and never asks about an order that has
  ten newer unfinished ones, or that was placed more than 90 days ago: an order that ends
  after that keeps its old status until someone looks at it in the Orders tab.
* A price watch saved again while its notification is out is marked as notified at
  its new cap: the re-armed watch stays silent at that price.
* A catalogue that lost more than half of its plans is refused for ever: nothing
  distinguishes a retired range from a truncated answer that lasts.
* A change of the catalogue, or a promotion, recorded in a check that then breaks
  off is never announced.
* Two overlapping updates of an account, each accepted, may store a combination of
  credentials OVH was not asked about, although `accounts.py:263` verifies those "that
  will actually be stored".
* Deleting the active account is two commits: if the second fails, the active id names an
  account that is gone; `GET /active` repairs that. That a failed switch is put back
  matters little: `reload` catches the errors of its own reads (`monitor.py:516-522`), so
  hardly anything reaches the except clause of `set_active`.
* `log_order` inserts a second row for an order the watch or a tab saw first.
* An upgrade cut between `CREATE TABLE alerts_new` and the rename makes every later
  `init` raise at that statement. `get_storage` keeps the object all the same, and
  since the first caller usually swallows the exception, the program serves on it.
* The legacy credentials are never removed: deleting the last account brings them
  back at the next start.
* A console session replaced while its socket is still connecting leaves two relays
  to one BMC. The bound of `console_ws` on a relay's life does not include
  `writer.wait_closed()`: with a BMC that stops reading, the socket stays.
* A plan that becomes watched, or stops being, between two cycles may have one change
  logged by neither side, or one by both; a paused alert keeps its baseline, so the
  first cycle after it is resumed announces what changed meanwhile, old or not.
* A failing price look-up in `_poll_account` costs the plan its notification for good,
  the snipe only for that cycle: an armed plan in stock is offered at every cycle.
* A page that reconnects keeps its picture and is sent no snapshot; what it missed it
  learns at the plan's next change.
* A write in a worker thread outlives its task: after a stop inside `apply_server_diff`
  a delivery is in the rows and was not announced.
* The poller that a `start` inside a `stop` leaves behind checks for deliveries too: two
  checks that overlap may announce one server twice.
* A call that OVH carried out and whose reply was lost is reported as failed: a reboot
  that happened may be answered "boot set, reboot failed", and a DELETE that is repeated
  may end in 404 although the first try did it. Nothing is carried out twice.
* A capability probe that got no answer at all is stored and trusted for seven days, and
  the page hides a missing key, although `probe_server_capabilities` says that an outage
  must not permanently hide a panel; a refusal for missing rights is stored as an absent
  feature, and new credentials do not clear it.

## 6. Not modelled

Formatting, HTTP validation beyond its verdict, templates and browser code (but for what
a page does with a stock message); the read-only routes (catalogue, insights, account,
logs, and those of the servers API), FX and benchmark look-ups; SQL text; the notifier,
which never raises into its callers; `LogBus`, which has the queues of `_publish` for log
lines; the bytes a console relays. Settings other than `monitor_enabled` are read where
they are used and are constants or environment steps of the models.

OVH itself is assumed: it acts on a request before it answers it, or never. Without that
no client could tell whether a call it gave up has been carried out in the end.

## 7. Plan

The components that keep state are modelled, and what the runs check is proved but for
liveness. What is left is to model `StockFeed` with the sniper's `maybe_fire` in place of
its offers, and with several datacenters of a plan, whose rows may disagree.

----------------------------- MODULE StockFeed -----------------------------
(***************************************************************************)
(* What one account's poll cycle makes of the stock it has fetched: rows   *)
(* of stock_events, notifications, orders offered to the sniper and events *)
(* for the browsers (MonitorService._run, _poll_account,                   *)
(* _process_region_snapshot, _publish; GET /api/monitor/stream).           *)
(*                                                                         *)
(* A plan that is watched is recorded by the loop over the watched plans,  *)
(* every other plan by the region ticker, each against a baseline of its   *)
(* own; which of the two a plan belongs to is settled when a cycle begins. *)
(* One configuration per plan and one alert that matches it: who is polled *)
(* at all, and which baselines there are, is Monitor's subject.            *)
(***************************************************************************)
EXTENDS Naturals, Sequences, FiniteSets

CONSTANTS
  Plan,
  Armed,      \* the plans whose alert, whenever it is on, is armed
  Browser,
  QueueSize,  \* maxsize of a subscriber's queue
  MaxMoves,   \* bound: stock changes
  MaxOps      \* bound: user operations, failures, stops and restarts

ASSUME StockFeedAssumption ==
  /\ Armed \subseteq Plan
  /\ QueueSize \in Nat \ {0}
  /\ MaxMoves \in Nat /\ MaxOps \in Nat

VARIABLES
  stock,        \* OVH: the orderable plans
  watch,        \* the alert of each plan: "none", "on" or "paused"
  ticker,       \* MonitorService._region_enabled
  base,         \* _last_stock: the plans last seen in stock ...
  primed,       \* ... and _primed
  regionBase,   \* _last_region_avail ...
  regionPrimed, \* ... and _region_primed
  regionEvents, \* _region_events
  cycle,        \* the running cycle, between two of its awaits
  row,          \* stock_events: the newest row of each plan
  open,         \* the browsers that are subscribed ...
  queue,        \* ... and their queues
  picture,      \* what each browser shows of each plan
  hist,         \* history, see TypeOK
  moves, ops

mem   == <<base, primed, regionBase, regionPrimed, regionEvents>>
users == <<watch, ticker>>
fan   == <<open, queue, picture>>
vars  == <<stock, users, mem, cycle, row, fan, hist, moves, ops>>

Rows    == [up : SUBSET Plan, down : SUBSET Plan]
NoRows  == [up |-> {}, down |-> {}]
Message == [kind : {"stock_update", "region_restock"}, diff : Rows]

(* plans: the watched plans of this cycle; todo: those not processed yet;  *)
(* snap: the answer; rows: what is being logged; tell, fire: the plan to   *)
(* be notified about and the one to be offered; changes: to be broadcast.  *)
Cycle == [pc : {"off", "sleep", "fetch", "region", "regionLog", "plans",
                "planLog", "planTell", "publish"},
          plans : SUBSET Plan, todo : SUBSET Plan, snap : SUBSET Plan,
          rows : Rows, restocks : SUBSET Plan,
          tell : SUBSET Plan, fire : SUBSET Plan, changes : Rows]

At(pc) == [pc |-> pc, plans |-> {}, todo |-> {}, snap |-> {}, rows |-> NoRows,
           restocks |-> {}, tell |-> {}, fire |-> {}, changes |-> NoRows]

(* gap: plans with a reason for the log to be behind or to repeat itself.  *)
(* told, lost: plans in stock that were announced, or not for a reason     *)
(* (the first answer, no alert any more, a failure, a stop).  offered:     *)
(* plans given to the sniper since they came in stock.  missed: a change   *)
(* that did not get to a browser.  doubled: plans logged twice alike.      *)
TypeOK ==
  /\ stock \subseteq Plan
  /\ watch \in [Plan -> {"none", "on", "paused"}]
  /\ ticker \in BOOLEAN /\ regionPrimed \in BOOLEAN
  /\ {base, primed, regionBase} \subseteq SUBSET Plan
  /\ regionEvents \in Seq(Message)
  /\ cycle \in Cycle
  /\ row \in [Plan -> {"none", "up", "down"}]
  /\ open \subseteq Browser
  /\ queue \in [Browser -> Seq(Message)]
  /\ \A b \in Browser : Len(queue[b]) <= QueueSize
  /\ picture \in [Browser -> [Plan -> {"none", "up", "down"}]]
  /\ hist \in [gap : SUBSET Plan, told : SUBSET Plan, lost : SUBSET Plan,
               offered : SUBSET Plan, missed : [Browser -> SUBSET Plan],
               doubled : SUBSET Plan]
  /\ moves \in 0 .. MaxMoves /\ ops \in 0 .. MaxOps

Watched == {p \in Plan : watch[p] = "on"}

Op == ops < MaxOps /\ ops' = ops + 1 /\ UNCHANGED moves
Free == UNCHANGED <<moves, ops>>

-----------------------------------------------------------------------------
(* OVH and the user.                                                       *)

StockMoves(p) ==
  /\ moves < MaxMoves /\ moves' = moves + 1 /\ UNCHANGED ops
  /\ stock' = IF p \in stock THEN stock \ {p} ELSE stock \cup {p}
  /\ hist' = [hist EXCEPT !.offered = @ \ {p}]
  /\ UNCHANGED <<users, mem, cycle, row, fan>>

(* add_alert and set_alert_enabled: the next cycle takes the plan over     *)
(* from the ticker.                                                        *)
WatchOn(p) ==
  /\ Op /\ watch[p] # "on"
  /\ watch' = [watch EXCEPT ![p] = "on"]
  /\ hist' = [hist EXCEPT !.gap = @ \cup {p}, !.offered = @ \ {p}]
  /\ UNCHANGED <<stock, ticker, mem, cycle, row, fan>>

(* set_alert_enabled(False): the baseline stays, and the ticker, if there  *)
(* is one, takes the plan over.                                            *)
Pause(p) ==
  /\ Op /\ watch[p] = "on"
  /\ watch' = [watch EXCEPT ![p] = "paused"]
  /\ hist' = [hist EXCEPT !.gap = @ \cup {p}]
  /\ UNCHANGED <<stock, ticker, mem, cycle, row, fan>>

(* remove_alert: the plan's last alert takes the baseline with it.         *)
Unwatch(p) ==
  /\ Op /\ watch[p] # "none"
  /\ watch' = [watch EXCEPT ![p] = "none"]
  /\ base' = base \ {p} /\ primed' = primed \ {p}
  /\ hist' = [hist EXCEPT !.gap = @ \cup {p}]
  /\ UNCHANGED <<stock, ticker, regionBase, regionPrimed, regionEvents, cycle,
                 row, fan>>

(* Whatever is switched, the next snapshot is only a baseline.             *)
set_region_enabled(enabled) ==
  /\ Op
  /\ ticker' = enabled
  /\ regionBase' = {} /\ regionPrimed' = FALSE
  /\ UNCHANGED <<stock, watch, base, primed, regionEvents, cycle, row, fan, hist>>

-----------------------------------------------------------------------------
(* The cycle.                                                              *)

(* _poll_once: the watched plans, or the ticker alone; with neither there  *)
(* is nothing to fetch.                                                    *)
CycleStart ==
  /\ cycle.pc = "sleep"
  /\ cycle' = [At(IF Watched = {} /\ ~ ticker THEN "publish" ELSE "fetch")
                 EXCEPT !.plans = Watched]
  /\ Free
  /\ UNCHANGED <<stock, users, mem, row, fan, hist>>

(* One call for one plan, or one for the whole region.  Whether the ticker *)
(* is on is asked again when the account's turn comes.                     *)
Fetch ==
  /\ cycle.pc = "fetch"
  /\ cycle' = [cycle EXCEPT !.pc = IF ticker THEN "region" ELSE "plans",
                            !.todo = cycle.plans, !.snap = stock]
  /\ Free
  /\ UNCHANGED <<stock, users, mem, row, fan, hist>>

FetchFails ==
  /\ cycle.pc = "fetch" /\ Op
  /\ cycle' = At("publish")
  /\ UNCHANGED <<stock, users, mem, row, fan, hist>>

Gained(events, plans) ==
  IF plans = {} THEN events
  ELSE Append(events, [kind |-> "region_restock",
                       diff |-> [up |-> plans, down |-> {}]])

(* Mutant of RegionRows: the plans of the other loop are not left out.     *)
RegionRowsOfAll(new, gone) == [up |-> new, down |-> gone]

(* The transitions to be logged: those of plans nobody watches.            *)
RegionRows(new, gone) ==
  [up |-> new \ cycle.plans, down |-> gone \ cycle.plans]

(* _process_region_snapshot up to the write, if there is one to make.      *)
RegionDiff ==
  /\ cycle.pc = "region"
  /\ regionBase' = cycle.snap /\ regionPrimed' = TRUE
  /\ LET new  == cycle.snap \ regionBase
         rows == RegionRows(new, regionBase \ cycle.snap) IN
       \/ /\ ~ regionPrimed
          /\ cycle' = [cycle EXCEPT !.pc = "plans"]
          /\ hist' = [hist EXCEPT !.gap = @ \cup (Plan \ cycle.plans)]
          /\ UNCHANGED regionEvents
       \/ /\ regionPrimed /\ rows = NoRows
          /\ cycle' = [cycle EXCEPT !.pc = "plans"]
          /\ regionEvents' = Gained(regionEvents, new)
          /\ UNCHANGED hist
       \/ /\ regionPrimed /\ rows # NoRows
          /\ cycle' = [cycle EXCEPT !.pc = "regionLog", !.rows = rows,
                                    !.restocks = new]
          /\ UNCHANGED <<regionEvents, hist>>
  /\ Free
  /\ UNCHANGED <<stock, users, base, primed, row, fan>>

(* log_stock_events: one transaction.                                      *)
log_stock_events ==
  [p \in Plan |-> IF p \in cycle.rows.up THEN "up"
                  ELSE IF p \in cycle.rows.down THEN "down" ELSE row[p]]

Logged == cycle.rows.up \cup cycle.rows.down

(* What follows the write, whether it failed or not.                       *)
AfterLog ==
  \/ /\ cycle.pc = "regionLog"
     /\ cycle' = [cycle EXCEPT !.pc = "plans", !.rows = NoRows, !.restocks = {}]
     /\ regionEvents' = Gained(regionEvents, cycle.restocks)
  \/ /\ cycle.pc = "planLog" /\ cycle.tell # {}
     /\ cycle' = [cycle EXCEPT !.pc = "planTell", !.rows = NoRows]
     /\ UNCHANGED regionEvents
  \/ /\ cycle.pc = "planLog" /\ cycle.tell = {}
     /\ cycle' = [cycle EXCEPT !.pc = "plans", !.rows = NoRows, !.fire = {}]
     /\ UNCHANGED regionEvents

(* maybe_fire is called in passing unless a notification comes first.      *)
Offered == IF cycle.tell = {} THEN hist.offered \cup cycle.fire ELSE hist.offered

(* The rows of a plan are whole again once the side that it belongs to now *)
(* has written one of them.                                                *)
Settles ==
  {p \in Logged : cycle.pc = "planLog" <=> watch[p] = "on"}

Log ==
  /\ cycle.pc \in {"regionLog", "planLog"}
  /\ row' = log_stock_events
  /\ AfterLog
  /\ hist' = [hist EXCEPT !.gap = @ \ Settles, !.offered = Offered,
                !.doubled = @ \cup {p \in Logged \ hist.gap :
                                      row[p] = log_stock_events[p]}]
  /\ Free
  /\ UNCHANGED <<stock, users, base, primed, regionBase, regionPrimed, fan>>

(* Mutant of LogFails: the exception ends the work on the plan.            *)
LogFailsEndsPlan ==
  /\ cycle.pc \in {"regionLog", "planLog"} /\ Op
  /\ row' \in {row, log_stock_events}
  /\ cycle' = [cycle EXCEPT !.pc = "plans", !.rows = NoRows, !.restocks = {},
                            !.tell = {}, !.fire = {}]
  /\ hist' = [hist EXCEPT !.gap = @ \cup Logged]
  /\ UNCHANGED <<stock, users, mem, fan>>

(* A failing write is swallowed.  One whose commit failed leaves its rows  *)
(* in the connection's open transaction, where readers see them.           *)
LogFails ==
  /\ cycle.pc \in {"regionLog", "planLog"} /\ Op
  /\ row' \in {row, log_stock_events}
  /\ AfterLog
  /\ hist' = [hist EXCEPT !.gap = @ \cup Logged, !.offered = Offered]
  /\ UNCHANGED <<stock, users, base, primed, regionBase, regionPrimed, fan>>

(* Mutant of Firing: the sniper hears of edges only.                       *)
FiringAtEdge(p) ==
  IF p \in (cycle.snap \cap Armed \cap primed) \ base /\ watch[p] = "on"
  THEN {p} ELSE {}

Firing(p) ==
  IF p \in cycle.snap \cap Armed /\ watch[p] = "on" THEN {p} ELSE {}

PlanRows(p) ==
  [up   |-> {p} \cap (cycle.snap \ base),
   down |-> {p} \cap (base \ cycle.snap)]

(* The locked part of a plan's turn in _poll_account.  The baseline moves  *)
(* before anybody is told: notifications and rows are for edges after the  *)
(* first answer, orders for whatever is in stock.                          *)
PlanDiff(p) ==
  LET rows == IF p \in primed THEN PlanRows(p) ELSE NoRows
      next == [cycle EXCEPT !.todo = @ \ {p},
                            !.changes = [up |-> @.up \cup rows.up,
                                         down |-> @.down \cup rows.down]]
  IN
  /\ cycle.pc = "plans" /\ p \in cycle.todo
  /\ base' = (base \ {p}) \cup ({p} \cap cycle.snap)
  /\ primed' = primed \cup {p}
  /\ \/ /\ rows = NoRows
        /\ cycle' = next
        /\ hist' = IF p \in primed
                     THEN [hist EXCEPT !.offered = @ \cup Firing(p)]
                     ELSE [hist EXCEPT !.offered = @ \cup Firing(p),
                             !.gap = @ \cup {p}, !.told = @ \ {p},
                             !.lost = (@ \ {p}) \cup ({p} \cap cycle.snap),
                             !.missed = [b \in Browser |-> hist.missed[b] \cup {p}]]
     \/ /\ rows # NoRows
        /\ cycle' = [next EXCEPT !.pc = "planLog", !.rows = rows,
                       !.tell = {q \in rows.up : watch[q] = "on"},
                       !.fire = Firing(p)]
        /\ hist' = [hist EXCEPT !.told = @ \ rows.down,
                      !.lost = (@ \ rows.down) \cup {q \in rows.up : watch[q] # "on"}]
  /\ Free
  /\ UNCHANGED <<stock, users, regionBase, regionPrimed, regionEvents, row, fan>>

(* latest_price is not guarded: its exception ends the plan's turn, orders *)
(* included.                                                               *)
PriceFails ==
  /\ cycle.pc = "planTell" /\ Op
  /\ cycle' = [cycle EXCEPT !.pc = "plans", !.tell = {}, !.fire = {}]
  /\ hist' = [hist EXCEPT !.lost = @ \cup cycle.tell]
  /\ UNCHANGED <<stock, users, mem, row, fan>>

(* notify_stock_alert, then maybe_fire.                                    *)
Notify ==
  /\ cycle.pc = "planTell"
  /\ cycle' = [cycle EXCEPT !.pc = "plans", !.tell = {}, !.fire = {}]
  /\ hist' = [hist EXCEPT !.told = @ \cup cycle.tell, !.offered = @ \cup cycle.fire]
  /\ Free
  /\ UNCHANGED <<stock, users, mem, row, fan>>

NotifyFails ==
  /\ cycle.pc = "planTell" /\ Op
  /\ cycle' = [cycle EXCEPT !.pc = "plans", !.tell = {}, !.fire = {}]
  /\ hist' = [hist EXCEPT !.lost = @ \cup cycle.tell, !.offered = @ \cup cycle.fire]
  /\ UNCHANGED <<stock, users, mem, row, fan>>

-----------------------------------------------------------------------------
(* The broadcast.                                                          *)

Plans(rows) == rows.up \cup rows.down

(* Mutant of put_nowait: a full queue makes room.                          *)
PutDropsOldest(q, items) ==
  LET all == q \o items
      over == IF Len(all) > QueueSize THEN Len(all) - QueueSize ELSE 0
  IN SubSeq(all, over + 1, Len(all))

(* put_nowait, item by item: what does not fit is dropped.                 *)
put_nowait(q, items) ==
  LET all == q \o items IN
  SubSeq(all, 1, IF Len(all) > QueueSize THEN QueueSize ELSE Len(all))

(* _run: the diffs of the cycle as one item, then the ticker's events,     *)
(* which a cycle that broke off has left behind.                           *)
Publish ==
  LET diff  == cycle.changes
      items == (IF diff = NoRows THEN <<>>
                ELSE <<[kind |-> "stock_update", diff |-> diff]>>) \o regionEvents
      gets(b) == b \in open /\ Len(queue[b]) < QueueSize
  IN
  /\ cycle.pc \in {"publish", "plans"} /\ cycle.todo = {}
  /\ cycle' = At("sleep")
  /\ regionEvents' = <<>>
  /\ queue' = [b \in Browser |-> IF b \in open THEN put_nowait(queue[b], items)
                                               ELSE <<>>]
  /\ hist' = [hist EXCEPT !.missed =
       [b \in Browser |-> IF gets(b) THEN hist.missed[b] \ Plans(diff)
                                     ELSE hist.missed[b] \cup Plans(diff)]]
  /\ Free
  /\ UNCHANGED <<stock, users, base, primed, regionBase, regionPrimed, row,
                 open, picture>>

(* A browser connects, or connects again.                                  *)
subscribe(b) ==
  /\ Op /\ b \notin open
  /\ open' = open \cup {b}
  /\ UNCHANGED <<stock, users, mem, cycle, row, queue, picture, hist>>

InQueue(b) ==
  UNION {Plans(queue[b][i].diff) :
           i \in {j \in DOMAIN queue[b] : queue[b][j].kind = "stock_update"}}

(* The connection goes, with what it has not been sent.                    *)
unsubscribe(b) ==
  /\ Op /\ b \in open
  /\ open' = open \ {b}
  /\ queue' = [queue EXCEPT ![b] = <<>>]
  /\ hist' = [hist EXCEPT !.missed[b] = @ \cup InQueue(b)]
  /\ UNCHANGED <<stock, users, mem, cycle, row, picture>>

(* stream_stock_updates sends the next item; the browser shows the plan as *)
(* the update says.  A region event moves no plan's display.               *)
stream_stock_updates(b) ==
  /\ queue[b] # <<>>
  /\ queue' = [queue EXCEPT ![b] = Tail(@)]
  /\ LET item == Head(queue[b]) IN
       picture' = IF item.kind = "region_restock" THEN picture
                  ELSE [picture EXCEPT ![b] =
                         [p \in Plan |-> IF p \in item.diff.up THEN "up"
                                         ELSE IF p \in item.diff.down THEN "down"
                                         ELSE picture[b][p]]]
  /\ Free
  /\ UNCHANGED <<stock, users, mem, cycle, row, open, hist>>

-----------------------------------------------------------------------------
(* Whatever the cycle has in hand when it ends early.                      *)
Cut ==
  [hist EXCEPT !.gap = @ \cup Logged, !.lost = @ \cup cycle.tell,
     !.missed = [b \in Browser |-> hist.missed[b] \cup Plans(cycle.changes)]]

(* stop(): the task ends at the await it is in.  A write or a notification *)
(* that is under way may still get through.                                *)
stop ==
  /\ Op /\ cycle.pc # "off"
  /\ cycle' = At("off")
  /\ row' \in {row, log_stock_events}
  /\ \E sent \in {{}, IF cycle.pc = "planTell" THEN cycle.tell ELSE {}} :
       hist' = [Cut EXCEPT !.told = @ \cup sent]
  /\ UNCHANGED <<stock, users, mem, fan>>

(* start() finds the baselines and the region's events as they were.       *)
start ==
  /\ cycle.pc = "off"
  /\ cycle' = At("sleep")
  /\ Free
  /\ UNCHANGED <<stock, users, mem, row, fan, hist>>

Restart ==
  /\ Op
  /\ cycle' = At("sleep")
  /\ base' = {} /\ primed' = {} /\ regionBase' = {} /\ regionPrimed' = FALSE
  /\ regionEvents' = <<>>
  /\ row' \in {row, log_stock_events}
  /\ open' = {} /\ queue' = [b \in Browser |-> <<>>]
  /\ hist' = Cut
  /\ UNCHANGED <<stock, users, picture>>

(* prune_stock_events: the oldest rows go, and a plan whose newest row is  *)
(* among them has none left.                                               *)
prune_stock_events ==
  /\ Op /\ cycle.pc = "sleep"
  /\ \E S \in SUBSET Plan \ {{}} :
       row' = [p \in Plan |-> IF p \in S THEN "none" ELSE row[p]]
  /\ UNCHANGED <<stock, users, mem, cycle, fan, hist>>

-----------------------------------------------------------------------------
Init ==
  /\ stock \in SUBSET Plan
  /\ watch = [p \in Plan |-> IF p \in Armed THEN "on" ELSE "none"]
  /\ ticker \in BOOLEAN
  /\ base = {} /\ primed = {} /\ regionBase = {} /\ regionPrimed = FALSE
  /\ regionEvents = <<>>
  /\ cycle = At("sleep")
  /\ row = [p \in Plan |-> "none"]
  /\ open = Browser /\ queue = [b \in Browser |-> <<>>]
  /\ picture = [b \in Browser |-> [p \in Plan |-> "none"]]
  /\ hist = [gap |-> {}, told |-> {}, lost |-> {}, offered |-> {},
             missed |-> [b \in Browser |-> {}], doubled |-> {}]
  /\ moves = 0 /\ ops = 0

CycleStep ==
  \/ CycleStart \/ Fetch \/ FetchFails \/ RegionDiff \/ Log \/ LogFails
  \/ \E p \in Plan : PlanDiff(p)
  \/ PriceFails \/ Notify \/ NotifyFails \/ Publish

Next ==
  \/ \E p \in Plan : StockMoves(p) \/ WatchOn(p) \/ Pause(p) \/ Unwatch(p)
  \/ \E enabled \in BOOLEAN : set_region_enabled(enabled)
  \/ CycleStep
  \/ \E b \in Browser : subscribe(b) \/ unsubscribe(b) \/ stream_stock_updates(b)
  \/ stop \/ start \/ Restart \/ prune_stock_events

(* _run goes on as long as the poller runs; failures are finitely many.    *)
Spec == Init /\ [][Next]_vars /\ WF_vars(CycleStep)

-----------------------------------------------------------------------------
(* Properties.                                                             *)

AtRest == cycle.pc \in {"off", "sleep"}

(* What the side that a plan belongs to has last seen of it, if anything.  *)
Recorded(p) == IF watch[p] = "on" THEN p \in primed ELSE ticker /\ regionPrimed
LastSeen(p) == IF watch[p] = "on" THEN p \in base ELSE p \in regionBase

(* _summarize_events: the newest row is an "available" without its end.    *)
in_stock_now(p) == row[p] = "up"

(* Between cycles the newest row of a plan says what the poller last saw,  *)
(* and no row repeated the one before, unless the plan changed hands       *)
(* between the loop and the ticker, a baseline was dropped, or a write     *)
(* failed or was cut, and no row has been written since.                   *)
LogFollowsStock ==
  /\ hist.doubled = {}
  /\ AtRest => \A p \in Plan \ hist.gap :
                 Recorded(p) /\ row[p] # "none" => (in_stock_now(p) <=> LastSeen(p))

(* A browser that has nothing to read shows what the poller last saw,      *)
(* unless the newest change was dropped at its full queue, came while it   *)
(* was not connected, or was lost with its cycle.                          *)
PictureIsCurrent ==
  AtRest => \A b \in Browser : queue[b] = <<>> =>
    \A p \in primed \ hist.missed[b] :
      picture[b][p] # "none" => (picture[b][p] = "up" <=> p \in base)

(* The baseline moves before anybody is told, and nothing is forgotten in  *)
(* between: of every plan held to be in stock the user was told, or is     *)
(* being told, or the restock was lost for a reason the code has.  Those   *)
(* are the first answer, an alert paused or removed while the answer was   *)
(* out, a failing price look-up or notification, and a stop.               *)
RestockIsAccounted ==
  \A p \in primed \cap base : p \in hist.told \cup hist.lost \cup cycle.tell

(* A restock of a watched plan is announced, unless it or the watch ends   *)
(* first, or a failure or a stop came between baseline and notification.   *)
RestockIsTold ==
  \A p \in Plan :
    p \in (stock \cap primed) \ base /\ watch[p] = "on"
      ~> \/ p \in hist.told \cup hist.lost
         \/ p \notin stock \cap primed \/ watch[p] # "on" \/ cycle.pc = "off"

(* What is lost for the notification is not lost for the sniper: an armed  *)
(* plan that stays in stock is offered, whatever failed before.            *)
ArmedIsOffered ==
  \A p \in Armed :
    p \in stock /\ watch[p] = "on"
      ~> p \in hist.offered \/ p \notin stock \/ watch[p] # "on" \/ cycle.pc = "off"

=============================================================================

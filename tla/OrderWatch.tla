----------------------------- MODULE OrderWatch -----------------------------
(***************************************************************************)
(* The delivery watch of one monitored account: MonitorService             *)
(* ._check_orders (app/services/monitor.py) against the orders table, the  *)
(* handlers of app/api/orders.py that write the same rows, and log_order.  *)
(*                                                                         *)
(* Every OVH call and every storage call of the watch is an await in a     *)
(* worker thread, so each is a step, and a handler can come between any    *)
(* two of them.  Statuses are kept as far as the watch tells them apart:   *)
(* those it drops an order at, and all others ("pending").                 *)
(***************************************************************************)
EXTENDS Naturals, FiniteSets

CONSTANTS
  Order,    \* order ids: the higher, the newer
  Request,  \* orders.py requests at work at the same time
  Budget,   \* ORDER_STATUS_BUDGET
  MaxOps    \* bound: requests, failures, restarts, switches, orders too old

ASSUME WatchAssumption ==
  /\ Order \subseteq Nat /\ IsFiniteSet(Order)
  /\ Budget \in Nat \ {0} /\ MaxOps \in Nat

TERMINAL_ORDER_STATUSES == {"delivered", "cancelled"}
NOTIFY_ORDER_STATUSES == TERMINAL_ORDER_STATUSES
Status == {"pending"} \cup TERMINAL_ORDER_STATUSES
Known  == {"absent", "null"} \cup Status    \* no row; a row without a status

VARIABLES
  ovh,      \* OVH's status of each order, "absent" before it is placed
  aged,     \* orders placed more than ORDER_WATCH_DAYS ago
  watched,  \* the poller runs, order_check_interval is not 0, and the
            \*   account is configured and has its monitoring switched on
  row,      \* the status in the orders table, as load_orders' dict gives it
  toLog,    \* orders this program placed whose log_order is still to come
  watch,    \* _check_orders: where it is and its local variables
  request,  \* each orders.py request: the order and the status it holds
  sent,     \* history: notify_order_status calls for each order
  tracked,  \* history: orders that had a row in a non-terminal status
  settled,  \* history: orders whose end a request recorded first, or a
            \*   cycle that had loaded the rows before there was one
  cutShort, \* history: orders whose end was written but not reported any more
  undone,   \* history: how often a recorded end was overwritten
  ops

db      == <<row, toLog>>
reach   == <<aged, watched>>
history == <<sent, tracked, settled, cutShort, undone>>
vars    == <<ovh, reach, db, watch, request, history, ops>>

Idle == [pc |-> "idle", todo |-> {}, known |-> [o \in Order |-> "absent"],
         budget |-> 0, order |-> 0, status |-> "null", notify |-> {}]
Free == [kind |-> "free", order |-> 0, status |-> "null"]

TypeOK ==
  /\ ovh \in [Order -> {"absent"} \cup Status]
  /\ aged \subseteq Order /\ watched \in BOOLEAN
  /\ row \in [Order -> Known]
  /\ toLog \subseteq Order
  /\ watch \in [pc : {"idle", "listed", "ask", "write", "report"},
                todo : SUBSET Order, known : [Order -> Known],
                budget : 0 .. Budget, order : Order \cup {0},
                status : Status \cup {"null"}, notify : SUBSET Order]
  /\ request \in [Request -> [kind : {"free", "upsert", "update"},
                              order : Order \cup {0},
                              status : Status \cup {"null"}]]
  /\ sent \in [Order -> Nat] /\ undone \in [Order -> Nat]
  /\ tracked \subseteq Order /\ settled \subseteq Order
  /\ cutShort \subseteq Order
  /\ ops \in 0 .. MaxOps

Init ==
  /\ ovh = [o \in Order |-> "absent"] /\ aged = {} /\ watched = TRUE
  /\ row = [o \in Order |-> "absent"] /\ toLog = {}
  /\ watch = Idle
  /\ request = [r \in Request |-> Free]
  /\ sent = [o \in Order |-> 0] /\ undone = [o \in Order |-> 0]
  /\ tracked = {} /\ settled = {} /\ cutShort = {} /\ ops = 0

Op == ops < MaxOps /\ ops' = ops + 1
Ended(s) == s \in TERMINAL_ORDER_STATUSES

-----------------------------------------------------------------------------
(* The orders table.                                                       *)

(* What any write to row o adds to the history.                            *)
Observe(o, s) ==
  /\ tracked' = IF Ended(s) THEN tracked ELSE tracked \cup {o}
  /\ undone' = [undone EXCEPT ![o] =
                  IF Ended(row[o]) /\ ~ Ended(s) THEN @ + 1 ELSE @]

upsert_order_enriched(o, s) ==
  row' = [row EXCEPT ![o] = s] /\ Observe(o, s)

(* The statuses of all rows, by order id.                                  *)
load_orders == row

(* UPDATE ... WHERE order_id = ?: no row, no effect.                       *)
update_order_status(o, s) ==
  IF row[o] = "absent" THEN UNCHANGED <<row, tracked, undone>>
  ELSE upsert_order_enriched(o, s)

-----------------------------------------------------------------------------
(* Orders come into being, and OVH moves them.                             *)

(* Placed by this program (log_order is to follow) or anywhere else.       *)
PlaceOrder(o) ==
  /\ ovh[o] = "absent"
  /\ \A p \in Order : p < o => ovh[p] # "absent"
  /\ ovh' = [ovh EXCEPT ![o] = "pending"]
  /\ toLog' \in {toLog, toLog \cup {o}}
  /\ UNCHANGED <<reach, row, watch, request, history, ops>>

(* log_order INSERTs: a second row, if the watch or a request has seen the *)
(* order first.  load_orders sorts by placed_at, newest first, and the     *)
(* dict keeps the last of equal ids, which is the older row.               *)
log_order(o) ==
  /\ o \in toLog
  /\ toLog' = toLog \ {o}
  /\ IF row[o] = "absent"
     THEN row' = [row EXCEPT ![o] = "null"] /\ Observe(o, "null")
     ELSE UNCHANGED <<row, tracked, undone>>
  /\ UNCHANGED <<ovh, reach, watch, request, sent, settled, cutShort, ops>>

OvhMoves(o) ==
  /\ ovh[o] = "pending"
  /\ \E s \in TERMINAL_ORDER_STATUSES : ovh' = [ovh EXCEPT ![o] = s]
  /\ UNCHANGED <<reach, db, watch, request, history, ops>>

(* Time passes: ids grow with the dates of the orders, so the oldest order *)
(* is the first to be too old for the watch.                               *)
LeavesWindow(o) ==
  /\ Op
  /\ ovh[o] # "absent" /\ o \notin aged
  /\ \A p \in Order : p < o => p \in aged
  /\ aged' = aged \cup {o}
  /\ UNCHANGED <<ovh, watched, db, watch, request, history>>

(* PUT /accounts/{id}/monitoring, PUT /settings/app, other credentials.    *)
SwitchWatch ==
  /\ Op
  /\ watched' = ~ watched
  /\ UNCHANGED <<ovh, aged, db, watch, request, history>>

-----------------------------------------------------------------------------
(* Handlers of orders.py.                                                  *)

(* list_orders (per order) and refresh_order hold the status they fetched, *)
(* over a further OVH call in refresh_order, and upsert it; when that call *)
(* fails, refresh_order only updates.                                      *)
RequestReads(r, o) ==
  /\ Op
  /\ request[r] = Free /\ ovh[o] # "absent"
  /\ \E k \in {"upsert", "update"} :
       request' = [request EXCEPT ![r] =
                     [kind |-> k, order |-> o, status |-> ovh[o]]]
  /\ UNCHANGED <<ovh, reach, db, watch, history>>

(* cancel_order: OVH takes the withdrawal, and the status it gives next is *)
(* held ("cancelling", which is not terminal, if the call for it fails).   *)
cancel_order(r, o) ==
  /\ Op
  /\ request[r] = Free /\ ovh[o] = "pending"
  /\ ovh' \in {ovh, [ovh EXCEPT ![o] = "cancelled"]}
  /\ \E s \in {ovh'[o], "pending"} :
       request' = [request EXCEPT ![r] =
                     [kind |-> "update", order |-> o, status |-> s]]
  /\ UNCHANGED <<reach, db, watch, history>>

RequestWrites(r) ==
  LET q == request[r] IN
  /\ q # Free
  /\ IF q.kind = "upsert" THEN upsert_order_enriched(q.order, q.status)
     ELSE update_order_status(q.order, q.status)
  /\ settled' = IF Ended(row'[q.order]) THEN settled \cup {q.order} ELSE settled
  /\ request' = [request EXCEPT ![r] = Free]
  /\ UNCHANGED <<ovh, reach, toLog, watch, sent, cutShort, ops>>

-----------------------------------------------------------------------------
(* _check_orders.                                                          *)

(* The orders OVH lists for the date_from of a cycle.                      *)
list_orders == {o \in Order : ovh[o] # "absent"} \ aged

(* One cycle's list of order ids; a 404 is an empty list.  The switches    *)
(* are only looked at before a cycle.                                      *)
WatchLists ==
  /\ watch.pc = "idle" /\ watched
  /\ list_orders # {}
  /\ watch' = [Idle EXCEPT !.pc = "listed", !.todo = list_orders]
  /\ UNCHANGED <<ovh, reach, db, request, history, ops>>

(* The rows as they are now, and what is left to ask OVH about.            *)
WatchLoads ==
  /\ watch.pc = "listed"
  /\ watch' = [watch EXCEPT !.pc = "ask", !.known = load_orders, !.budget = Budget,
                            !.todo = {o \in @ : ~ Ended(load_orders[o])}]
  /\ UNCHANGED <<ovh, reach, db, request, history, ops>>

(* Mutant of Asks: the oldest order first.                                 *)
AsksOldest(o) ==
  /\ watch.pc = "ask" /\ watch.budget > 0
  /\ o \in watch.todo /\ \A p \in watch.todo : o <= p

(* The loop's next order, newest first, while the budget lasts.            *)
Asks(o) ==
  /\ watch.pc = "ask" /\ watch.budget > 0
  /\ o \in watch.todo /\ \A p \in watch.todo : p <= o

Asked(o) == [watch EXCEPT !.todo = @ \ {o}, !.budget = @ - 1]

(* A status that is the known one needs no write.                          *)
WatchAsks(o) ==
  /\ Asks(o)
  /\ watch' = IF ovh[o] = watch.known[o] THEN Asked(o)
              ELSE [Asked(o) EXCEPT !.pc = "write", !.order = o,
                                 !.status = ovh[o]]
  /\ UNCHANGED <<ovh, reach, db, request, history, ops>>

(* OVHServiceError: on to the next order.                                  *)
AskFails(o) ==
  /\ Op
  /\ Asks(o)
  /\ watch' = Asked(o)
  /\ UNCHANGED <<ovh, reach, db, request, history>>

(* What the order adds to the list to be notified: an end, and not of an   *)
(* order that had no row when the cycle began.                             *)
ReportedNow ==
  IF /\ watch.known[watch.order] # "absent"
     /\ watch.status \in NOTIFY_ORDER_STATUSES
  THEN {watch.order} ELSE {}

(* Mutant of WatchWrites: the order is reported without being recorded.    *)
WatchWritesNothing ==
  /\ watch.pc = "write"
  /\ watch' = [watch EXCEPT !.pc = "ask", !.order = 0, !.status = "null",
                            !.notify = @ \cup ReportedNow]
  /\ UNCHANGED <<ovh, reach, db, request, history, ops>>

(* The row is written before anything is reported.                         *)
WatchWrites ==
  /\ watch.pc = "write"
  /\ upsert_order_enriched(watch.order, watch.status)
  /\ watch' = [watch EXCEPT !.pc = "ask", !.order = 0, !.status = "null",
                            !.notify = @ \cup ReportedNow]
  /\ settled' = IF /\ watch.known[watch.order] = "absent"
                   /\ Ended(watch.status)
                THEN settled \cup {watch.order} ELSE settled
  /\ UNCHANGED <<ovh, reach, toLog, request, sent, cutShort, ops>>

(* Mutant of WatchLeavesLoop: a spent budget returns at once.              *)
LeavesWithoutReport ==
  /\ watch.pc = "ask" /\ (watch.todo = {} \/ watch.budget = 0)
  /\ watch' = IF watch.notify = {} \/ watch.budget = 0 THEN Idle
              ELSE [Idle EXCEPT !.pc = "report", !.notify = watch.notify]
  /\ UNCHANGED <<ovh, reach, db, request, history, ops>>

(* Leaving the loop: nothing to notify, or one call after the other.       *)
WatchLeavesLoop ==
  /\ watch.pc = "ask" /\ (watch.todo = {} \/ watch.budget = 0)
  /\ watch' = IF watch.notify = {} THEN Idle
              ELSE [Idle EXCEPT !.pc = "report", !.notify = watch.notify]
  /\ UNCHANGED <<ovh, reach, db, request, history, ops>>

(* notify_order_status; what it raises is logged and the loop goes on.     *)
WatchNotifies ==
  /\ watch.pc = "report"
  /\ \E o \in watch.notify :
       /\ \A p \in watch.notify : p <= o
       /\ sent' = [sent EXCEPT ![o] = @ + 1]
       /\ watch' = IF watch.notify = {o} THEN Idle
                   ELSE [watch EXCEPT !.notify = @ \ {o}]
  /\ UNCHANGED <<ovh, reach, db, request, tracked, settled, cutShort, undone,
                 ops>>

(* Any other exception (a database error, say) leaves _check_orders, and   *)
(* with it everything the cycle had collected for its report.              *)
WatchRaises ==
  /\ Op
  /\ watch.pc \in {"listed", "ask", "write"}
  /\ cutShort' = cutShort \cup watch.notify
  /\ watch' = Idle
  /\ UNCHANGED <<ovh, reach, db, request, sent, tracked, settled, undone>>

(* The process restarts, or stop() cancels the poller: a write that is in  *)
(* its worker thread may happen all the same.                              *)
Restart ==
  /\ Op
  /\ \/ /\ UNCHANGED <<row, tracked, undone>>
        /\ cutShort' = cutShort \cup watch.notify
     \/ /\ watch.pc = "write"
        /\ upsert_order_enriched(watch.order, watch.status)
        /\ cutShort' = cutShort \cup watch.notify \cup {watch.order}
  /\ watch' = Idle
  /\ \/ toLog' = {} /\ request' = [r \in Request |-> Free]
     \/ UNCHANGED <<toLog, request>>
  /\ UNCHANGED <<ovh, reach, sent, settled>>

-----------------------------------------------------------------------------
WatchStep ==
  \/ WatchLists
  \/ WatchLoads
  \/ \E o \in Order : WatchAsks(o)
  \/ WatchWrites
  \/ WatchLeavesLoop
  \/ WatchNotifies

Next ==
  \/ \E o \in Order : PlaceOrder(o) \/ log_order(o) \/ OvhMoves(o)
  \/ \E o \in Order : LeavesWindow(o)
  \/ SwitchWatch
  \/ \E r \in Request :
       \/ \E o \in Order : RequestReads(r, o) \/ cancel_order(r, o)
       \/ RequestWrites(r)
  \/ WatchStep
  \/ \E o \in Order : AskFails(o)
  \/ WatchRaises
  \/ Restart

(* While it is switched on, _run comes back to the watch every             *)
(* order_check_interval seconds; a cycle that has begun goes on.           *)
Spec == Init /\ [][Next]_vars /\ WF_vars(WatchStep)

-----------------------------------------------------------------------------
(* Properties.                                                             *)

Reporting(o) == o \in watch.notify

(* No end of an order that had a row goes unnoticed, except one that a     *)
(* request recorded before the watch, one that came before the order was   *)
(* in the rows a cycle loads, or one written in a cycle which broke off    *)
(* before its report.                                                      *)
SilenceHasCause ==
  \A o \in tracked :
    Ended(row[o]) /\ sent[o] = 0
      => Reporting(o) \/ o \in settled \cup cutShort

(* An order's end is notified once, and once more only for each time that  *)
(* a request wrote an older status over it; and never if its first row     *)
(* already said that it is over: "Notify only on a transition from a       *)
(* status we already knew" (monitor.py:1179).                              *)
NotifiedOnce ==
  \A o \in Order : sent[o] <= IF o \in tracked THEN 1 + undone[o] ELSE 0

(* An order with Budget newer ones that are not over is not asked about.   *)
Starved(o) ==
  Cardinality({p \in list_orders : p > o /\ ovh[p] = "pending"}) >= Budget

(* As long as the watch is on and an order is young enough to be listed,   *)
(* its end is recorded sooner or later, unless newer orders use up the     *)
(* cycle's budget; also one that a late write of an older status undid.    *)
EndIsRecorded ==
  \A o \in Order :
    Ended(ovh[o]) ~> Ended(row[o]) \/ o \in aged \/ ~ watched \/ Starved(o)

=============================================================================

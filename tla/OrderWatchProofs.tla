------------------------- MODULE OrderWatchProofs --------------------------
(***************************************************************************)
(* Theorems about OrderWatch, for any orders, requests, budget and bound.  *)
(***************************************************************************)
EXTENDS OrderWatch, TLAPS

Watches == [pc : {"idle", "listed", "ask", "write", "report"},
            todo : SUBSET Order, known : [Order -> Known],
            budget : 0 .. Budget, order : Order \cup {0},
            status : Status \cup {"null"}, notify : SUBSET Order]
Requests == [kind : {"free", "upsert", "update"}, order : Order \cup {0},
             status : Status \cup {"null"}]

(* What is to be written or reported is an order's, and what is to be      *)
(* asked about has been placed.                                            *)
InHand ==
  /\ watch.pc = "write" => watch.order \in Order /\ watch.status \in Status
  /\ watch.pc \in {"idle", "listed"} => watch.notify = {}
  /\ \A o \in watch.todo : ovh[o] # "absent"
  /\ \A r \in Request : request[r] # Free =>
       request[r].order \in Order /\ request[r].status \in Status

TInv == TypeOK /\ InHand

LEMMA IdleType == Idle \in Watches /\ Free \in Requests
BY WatchAssumption DEF Idle, Free, Watches, Requests, Known

LEMMA StatusKnown == Status \subseteq Known /\ "null" \in Known /\ "absent" \in Known
BY DEF Known

(* What a write does to the rows and their history.                        *)
LEMMA Written ==
  ASSUME TypeOK, NEW o \in Order, NEW s \in Status \cup {"null"},
         upsert_order_enriched(o, s)
  PROVE  /\ row' \in [Order -> Known] /\ row'[o] = s
         /\ \A p \in Order \ {o} : row'[p] = row[p] /\ undone'[p] = undone[p]
         /\ tracked' = IF Ended(s) THEN tracked ELSE tracked \cup {o}
         /\ undone' \in [Order -> Nat]
         /\ undone'[o] = IF Ended(row[o]) /\ ~ Ended(s) THEN undone[o] + 1 ELSE undone[o]
BY StatusKnown DEF TypeOK, reach, upsert_order_enriched, Observe

LEMMA TypeInit == Init => TInv
<1> SUFFICES ASSUME Init PROVE TInv
  OBVIOUS
<1>1. watch \in Watches /\ request \in [Request -> Requests]
  BY IdleType DEF Init
<1>2. TypeOK
  BY <1>1, WatchAssumption DEF Init, TypeOK, Known, Watches, Requests
<1>3. InHand
  BY DEF Init, InHand, Idle
<1> QED BY <1>2, <1>3 DEF TInv

LEMMA OpType == ASSUME TypeOK, Op PROVE ops' \in 0 .. MaxOps
BY WatchAssumption DEF TypeOK, reach, Op

LEMMA OrderTypes ==
  ASSUME TInv, NEW o \in Order,
         PlaceOrder(o) \/ log_order(o) \/ OvhMoves(o) \/ LeavesWindow(o)
  PROVE  TInv'
<1>t. TypeOK /\ InHand
  BY DEF TInv
<1>1. CASE PlaceOrder(o)
  <2>1. TypeOK'
    BY <1>t, <1>1 DEF TypeOK, reach, PlaceOrder, db, history, Status
  <2>2. UNCHANGED <<watch, request>> /\ \A p \in Order : ovh[p] # "absent" => ovh'[p] # "absent"
    BY <1>t, <1>1 DEF TypeOK, reach, PlaceOrder
  <2>3. watch.todo \subseteq Order
    BY <1>t DEF TypeOK, reach
  <2> QED BY <1>t, <2>1, <2>2, <2>3 DEF TInv, InHand
<1>2. CASE log_order(o)
  <2>1. /\ row' \in [Order -> Known] /\ undone' \in [Order -> Nat]
        /\ tracked' \subseteq Order /\ toLog' \subseteq Order
    BY <1>t, <1>2, StatusKnown DEF TypeOK, reach, log_order, Observe
  <2>2. TypeOK'
    BY <1>t, <1>2, <2>1 DEF TypeOK, reach, log_order
  <2> QED BY <1>t, <1>2, <2>2 DEF TInv, InHand, log_order
<1>3. CASE OvhMoves(o)
  <2>1. TypeOK'
    BY <1>t, <1>3 DEF TypeOK, reach, OvhMoves, db, history, Status
  <2>2. UNCHANGED <<watch, request>> /\ \A p \in Order : ovh[p] # "absent" => ovh'[p] # "absent"
    BY <1>t, <1>3 DEF TypeOK, reach, OvhMoves, TERMINAL_ORDER_STATUSES
  <2>3. watch.todo \subseteq Order
    BY <1>t DEF TypeOK, reach
  <2> QED BY <1>t, <2>1, <2>2, <2>3 DEF TInv, InHand
<1>4. CASE LeavesWindow(o)
  <2>1. aged' \subseteq Order
    BY <1>t, <1>4 DEF TypeOK, reach, LeavesWindow
  <2>2. UNCHANGED <<ovh, watched, db, watch, request, history>> /\ Op
    BY <1>4 DEF LeavesWindow
  <2>3. TypeOK'
    BY <1>t, <2>1, <2>2, OpType DEF TypeOK, reach, db, history
  <2> QED BY <1>t, <2>2, <2>3 DEF TInv, InHand
<1> QED BY <1>1, <1>2, <1>3, <1>4

LEMMA SwitchTypes ==
  ASSUME TInv, SwitchWatch PROVE TInv'
<1>t. TypeOK /\ InHand
  BY DEF TInv
<1>1. UNCHANGED <<ovh, aged, db, watch, request, history>> /\ Op /\ watched' \in BOOLEAN
  BY <1>t DEF SwitchWatch, TypeOK
<1>2. TypeOK'
  BY <1>t, <1>1, OpType DEF TypeOK, reach, db, history
<1> QED BY <1>t, <1>1, <1>2 DEF TInv, InHand

LEMMA RequestTypes ==
  ASSUME TInv, NEW r \in Request,
         (\E o \in Order : RequestReads(r, o) \/ cancel_order(r, o)) \/ RequestWrites(r)
  PROVE  TInv'
<1>t. TypeOK /\ InHand
  BY DEF TInv
<1>r. request \in [Request -> Requests]
  BY <1>t DEF TypeOK, reach, Requests
<1>1. ASSUME NEW o \in Order, RequestReads(r, o) \/ cancel_order(r, o) PROVE TInv'
  <2>1. /\ ovh' \in [Order -> {"absent"} \cup Status]
        /\ \A p \in Order : ovh[p] # "absent" => ovh'[p] # "absent"
        /\ UNCHANGED <<reach, db, watch, history>> /\ Op
        /\ \E q \in Requests : /\ q.order \in Order /\ q.status \in Status
                               /\ request' = [request EXCEPT ![r] = q]
    <3>1. CASE RequestReads(r, o)
      <4>1. PICK k \in {"upsert", "update"} :
              request' = [request EXCEPT ![r] =
                            [kind |-> k, order |-> o, status |-> ovh[o]]]
        BY <3>1 DEF RequestReads
      <4>2. ovh[o] \in Status /\ UNCHANGED <<ovh, reach, db, watch, history>> /\ Op
        BY <1>t, <3>1 DEF RequestReads, TypeOK
      <4>3. [kind |-> k, order |-> o, status |-> ovh[o]] \in Requests
        BY <4>2 DEF Requests
      <4> QED BY <1>t, <4>1, <4>2, <4>3 DEF TypeOK, reach
    <3>2. CASE cancel_order(r, o)
      <4>1. /\ ovh' \in {ovh, [ovh EXCEPT ![o] = "cancelled"]} /\ ovh[o] = "pending"
            /\ UNCHANGED <<reach, db, watch, history>> /\ Op
        BY <3>2 DEF cancel_order
      <4>2. /\ ovh' \in [Order -> {"absent"} \cup Status] /\ ovh'[o] \in Status
            /\ \A p \in Order : ovh[p] # "absent" => ovh'[p] # "absent"
        BY <1>t, <4>1 DEF TypeOK, reach, Status, TERMINAL_ORDER_STATUSES
      <4>3. PICK s \in {ovh'[o], "pending"} :
              request' = [request EXCEPT ![r] =
                            [kind |-> "update", order |-> o, status |-> s]]
        BY <3>2 DEF cancel_order
      <4>4. s \in Status
        BY <4>2 DEF Status
      <4>5. [kind |-> "update", order |-> o, status |-> s] \in Requests
        BY <4>4 DEF Requests
      <4> QED BY <4>1, <4>2, <4>3, <4>4, <4>5
    <3> QED BY <1>1, <3>1, <3>2
  <2>2. PICK q \in Requests : /\ q.order \in Order /\ q.status \in Status
                              /\ request' = [request EXCEPT ![r] = q]
    BY <2>1
  <2>3. request' \in [Request -> Requests]
    BY <1>r, <2>2
  <2>5. \A p \in Request : request'[p] # Free =>
          request'[p].order \in Order /\ request'[p].status \in Status
    BY <1>t, <1>r, <2>2 DEF InHand
  <2>6. watch.todo \subseteq Order
    BY <1>t DEF TypeOK, reach
  <2>7. InHand'
    BY <1>t, <2>1, <2>5, <2>6 DEF InHand
  <2>4. TypeOK'
    BY <1>t, <2>1, <2>3, OpType DEF TypeOK, reach, Requests, db, history
  <2> QED BY <2>4, <2>7 DEF TInv
<1>2. CASE RequestWrites(r)
  <2> DEFINE q == request[r]
  <2>1. /\ q.order \in Order /\ q.status \in Status
        /\ UNCHANGED <<ovh, reach, toLog, watch, sent, cutShort, ops>>
        /\ request' = [request EXCEPT ![r] = Free]
        /\ settled' \subseteq settled \cup {q.order}
        /\ \/ upsert_order_enriched(q.order, q.status)
           \/ UNCHANGED <<row, tracked, undone>>
    BY <1>t, <1>2 DEF InHand, RequestWrites, update_order_status
  <2> HIDE DEF q
  <2>2. row' \in [Order -> Known] /\ undone' \in [Order -> Nat] /\ tracked' \subseteq Order
    BY <1>t, <2>1, Written DEF TypeOK, reach
  <2>3. request' \in [Request -> Requests] /\ InHand'
    BY <1>t, <1>r, <2>1, IdleType DEF InHand
  <2>4. settled' \subseteq Order
    BY <1>t, <2>1 DEF TypeOK, reach
  <2>5. TypeOK'
    BY <1>t, <2>1, <2>2, <2>3, <2>4 DEF TypeOK, reach, Requests
  <2> QED BY <2>3, <2>5 DEF TInv
<1> QED BY <1>1, <1>2

LEMMA WatchTypes ==
  ASSUME TInv, WatchStep \/ (\E o \in Order : AskFails(o)) \/ WatchRaises
  PROVE  TInv'
<1>t. TypeOK /\ InHand
  BY DEF TInv
<1>w. watch \in Watches
  BY <1>t DEF TypeOK, reach, Watches
<1>l. list_orders \subseteq Order
  BY DEF list_orders
<1>1. CASE WatchLists
  <2>1. watch' \in Watches
    BY <1>1, <1>l, IdleType DEF WatchLists, Watches
  <2>2. TypeOK'
    BY <1>t, <1>1, <2>1 DEF TypeOK, reach, Watches, WatchLists, db, history
  <2>3. /\ watch'.pc = "listed" /\ watch'.notify = {} /\ watch'.todo = list_orders
        /\ UNCHANGED <<ovh, request>>
    BY <1>1 DEF WatchLists, Idle
  <2> QED BY <1>t, <2>2, <2>3 DEF TInv, InHand, list_orders
<1>2. CASE WatchLoads
  <2>1. watch' \in Watches
    <3>1. load_orders \in [Order -> Known] /\ Budget \in 0 .. Budget
      BY <1>t, WatchAssumption DEF load_orders, TypeOK
    <3> QED BY <1>2, <1>w, <3>1 DEF WatchLoads, Watches
  <2>2. TypeOK'
    BY <1>t, <1>2, <2>1 DEF TypeOK, reach, Watches, WatchLoads, db, history
  <2>3. InHand'
    BY <1>t, <1>w, <1>2 DEF InHand, WatchLoads, Watches
  <2> QED BY <2>2, <2>3 DEF TInv
<1>3. ASSUME NEW o \in Order, WatchAsks(o) \/ AskFails(o) PROVE TInv'
  <2>1. /\ Asks(o) /\ UNCHANGED <<ovh, reach, db, request, history>>
        /\ ops' = ops \/ Op
        /\ \/ watch' = Asked(o)
           \/ /\ watch' = [Asked(o) EXCEPT !.pc = "write", !.order = o,
                                           !.status = ovh[o]]
    BY <1>3 DEF WatchAsks, AskFails
  <2>2. ops' \in 0 .. MaxOps
    BY <1>t, <2>1, OpType DEF TypeOK, reach
  <2>3. /\ watch.budget - 1 \in 0 .. Budget /\ watch.pc = "ask"
        /\ o \in watch.todo
    BY <1>w, <2>1, WatchAssumption DEF Asks, Watches
  <2>4. /\ Asked(o) \in Watches /\ Asked(o).pc = "ask"
        /\ Asked(o).todo = watch.todo \ {o}
    BY <1>w, <2>3 DEF Asked, Watches
  <2>5. ovh[o] \in Status
    BY <1>t, <2>3 DEF InHand, TypeOK
  <2>6. /\ watch' \in Watches /\ watch'.pc \in {"ask", "write"}
        /\ watch'.todo = watch.todo \ {o}
        /\ watch'.pc = "write" => watch'.order = o /\ watch'.status = ovh[o]
    <3>1. CASE watch' = Asked(o)
      BY <2>4, <3>1
    <3>2. CASE watch' = [Asked(o) EXCEPT !.pc = "write", !.order = o, !.status = ovh[o]]
      BY <2>4, <2>5, <3>2 DEF Watches
    <3> QED BY <2>1, <3>1, <3>2
  <2>7. TypeOK'
    BY <1>t, <2>1, <2>2, <2>6 DEF TypeOK, reach, Watches, db, history
  <2>8. InHand'
    BY <1>t, <2>1, <2>5, <2>6 DEF InHand
  <2> QED BY <2>7, <2>8 DEF TInv
<1>4. CASE WatchWrites
  <2>1. /\ upsert_order_enriched(watch.order, watch.status)
        /\ watch.pc = "write" /\ settled' \subseteq settled \cup {watch.order}
        /\ watch' = [watch EXCEPT !.pc = "ask", !.order = 0, !.status = "null",
                                  !.notify = @ \cup ReportedNow]
        /\ UNCHANGED <<ovh, reach, toLog, request, sent, cutShort, ops>>
    BY <1>4 DEF WatchWrites
  <2>2. watch.order \in Order /\ watch.status \in Status
    BY <1>t, <2>1 DEF InHand
  <2>3. row' \in [Order -> Known] /\ undone' \in [Order -> Nat] /\ tracked' \subseteq Order
    BY <1>t, <2>1, <2>2, Written DEF TypeOK, reach
  <2>4. ReportedNow \subseteq Order
    BY <2>2 DEF ReportedNow
  <2>5. watch' \in Watches /\ watch'.pc = "ask" /\ watch'.todo = watch.todo
    BY <1>w, <2>1, <2>4 DEF Watches
  <2>6. settled' \subseteq Order
    BY <1>t, <2>1, <2>2 DEF TypeOK, reach
  <2>7. TypeOK'
    BY <1>t, <2>1, <2>3, <2>5, <2>6 DEF TypeOK, reach, Watches
  <2>8. InHand'
    BY <1>t, <2>1, <2>5 DEF InHand
  <2> QED BY <2>7, <2>8 DEF TInv
<1>5. CASE WatchLeavesLoop
  <2>1. /\ watch' \in Watches /\ watch'.todo = {}
        /\ \/ watch'.pc = "idle" /\ watch'.notify = {}
           \/ watch'.pc = "report"
    BY <1>5, <1>w, IdleType DEF WatchLeavesLoop, Watches, Idle
  <2>2. UNCHANGED <<ovh, reach, db, request, history, ops>>
    BY <1>5 DEF WatchLeavesLoop
  <2>3. TypeOK'
    BY <1>t, <2>1, <2>2 DEF TypeOK, reach, Watches, db, history
  <2> QED BY <1>t, <2>1, <2>2, <2>3 DEF TInv, InHand
<1>6. CASE WatchNotifies
  <2>1. PICK o \in watch.notify :
          /\ sent' = [sent EXCEPT ![o] = @ + 1]
          /\ watch' = IF watch.notify = {o} THEN Idle
                      ELSE [watch EXCEPT !.notify = @ \ {o}]
    BY <1>6 DEF WatchNotifies
  <2>2. /\ UNCHANGED <<ovh, reach, db, request, tracked, settled, cutShort, undone, ops>>
        /\ watch.pc = "report"
    BY <1>6 DEF WatchNotifies
  <2>3. /\ watch' \in Watches /\ watch'.todo \subseteq watch.todo
        /\ \/ watch'.pc = "idle" /\ watch'.notify = {}
           \/ watch'.pc = "report"
    BY <1>w, <2>1, <2>2, IdleType DEF Watches, Idle
  <2>4. sent' \in [Order -> Nat]
    BY <1>t, <1>w, <2>1 DEF TypeOK, reach
  <2>5. TypeOK'
    BY <1>t, <2>2, <2>3, <2>4 DEF TypeOK, reach, Watches, db
  <2> QED BY <1>t, <2>2, <2>3, <2>5 DEF TInv, InHand
<1>7. CASE WatchRaises
  <2>1. /\ watch' = Idle /\ cutShort' = cutShort \cup watch.notify /\ Op
        /\ UNCHANGED <<ovh, reach, db, request, sent, tracked, settled, undone>>
    BY <1>7 DEF WatchRaises
  <2>2. cutShort' \subseteq Order
    BY <1>t, <1>w, <2>1 DEF TypeOK, reach, Watches
  <2>3. TypeOK'
    BY <1>t, <2>1, <2>2, OpType, IdleType DEF TypeOK, reach, Watches, db
  <2> QED BY <1>t, <2>1, <2>3 DEF TInv, InHand, Idle
<1> QED BY <1>1, <1>2, <1>3, <1>4, <1>5, <1>6, <1>7, Zenon DEF WatchStep

LEMMA RestartTypes ==
  ASSUME TInv, Restart PROVE TInv'
<1>t. TypeOK /\ InHand /\ watch \in Watches
  BY DEF TInv, TypeOK, Watches
<1>1. /\ watch' = Idle /\ Op /\ UNCHANGED <<ovh, reach, sent, settled>>
      /\ \/ toLog' = {} /\ request' = [r \in Request |-> Free]
         \/ UNCHANGED <<toLog, request>>
  BY DEF Restart
<1>2. /\ row' \in [Order -> Known] /\ undone' \in [Order -> Nat]
      /\ tracked' \subseteq Order /\ cutShort' \subseteq Order
  <2>1. CASE UNCHANGED <<row, tracked, undone>> /\ cutShort' = cutShort \cup watch.notify
    BY <1>t, <2>1 DEF TypeOK, reach, Watches
  <2>2. CASE /\ watch.pc = "write"
             /\ upsert_order_enriched(watch.order, watch.status)
             /\ cutShort' = cutShort \cup watch.notify \cup {watch.order}
    <3>1. watch.order \in Order /\ watch.status \in Status
      BY <1>t, <2>2 DEF InHand
    <3>2. row' \in [Order -> Known] /\ undone' \in [Order -> Nat] /\ tracked' \subseteq Order
      BY <1>t, <2>2, <3>1, Written DEF TypeOK, reach
    <3> QED BY <1>t, <2>2, <3>1, <3>2 DEF TypeOK, reach, Watches
  <2> QED BY <2>1, <2>2 DEF Restart
<1>3. request' \in [Request -> Requests] /\ toLog' \subseteq Order
  BY <1>t, <1>1, IdleType DEF TypeOK, reach, Requests
<1>4. TypeOK'
  BY <1>t, <1>1, <1>2, <1>3, OpType, IdleType DEF TypeOK, reach, Watches, Requests
<1>5. InHand'
  BY <1>t, <1>1 DEF InHand, Idle
<1> QED BY <1>4, <1>5 DEF TInv

LEMMA TypeStep ==
  ASSUME TInv, [Next]_vars PROVE TInv'
<1>1. CASE UNCHANGED vars
  BY <1>1 DEF vars, reach, db, history, TInv, TypeOK, InHand
<1>2. CASE Next
  BY <1>2, OrderTypes, SwitchTypes, RequestTypes, WatchTypes, RestartTypes, Zenon
     DEF Next
<1> QED BY <1>1, <1>2

LEMMA TypeInvariance == Spec => []TInv
<1>1. TInv /\ [Next]_vars => TInv'
  BY TypeStep
<1> QED BY TypeInit, <1>1, PTL DEF Spec

(* Every variable of the watch keeps its type; in particular no cycle asks *)
(* about more than ORDER_STATUS_BUDGET orders.                             *)
THEOREM TypeCorrect == Spec => []TypeOK
<1>1. TInv => TypeOK
  BY DEF TInv
<1> QED BY TypeInvariance, <1>1, PTL

-----------------------------------------------------------------------------
(* No silence without a cause.                                             *)

LEMMA SilenceInit == Init => SilenceHasCause
BY DEF Init, SilenceHasCause, Ended, TERMINAL_ORDER_STATUSES

LEMMA SilenceStep ==
  ASSUME TInv, SilenceHasCause, [Next]_vars PROVE SilenceHasCause'
<1>t. TypeOK /\ InHand /\ watch \in Watches
  BY DEF TInv, TypeOK, Watches
<1>1. CASE UNCHANGED <<row, sent, tracked>> /\ settled \subseteq settled'
           /\ watch.notify \cup cutShort \subseteq watch'.notify \cup cutShort'
  BY <1>1 DEF SilenceHasCause, Reporting
<1>2. ASSUME NEW o \in Order, NEW s \in Status \cup {"null"},
             upsert_order_enriched(o, s), sent' = sent, settled \subseteq settled',
             watch.notify \cup cutShort \subseteq watch'.notify \cup cutShort',
             Ended(s) => o \in settled' \cup watch'.notify \cup cutShort'
      PROVE  SilenceHasCause'
  <2>1. /\ row'[o] = s /\ \A p \in Order \ {o} : row'[p] = row[p]
        /\ tracked' \subseteq tracked \cup {o} /\ tracked' \subseteq Order
    BY <1>t, <1>2, Written DEF TypeOK
  <2>2. ASSUME NEW p \in tracked', Ended(row'[p]), sent'[p] = 0
        PROVE  p \in watch'.notify \cup settled' \cup cutShort'
    <3>1. CASE p = o
      BY <1>2, <2>1, <2>2, <3>1
    <3>2. CASE p # o
      <4>1. p \in watch.notify \cup settled \cup cutShort
        BY <1>2, <2>1, <2>2, <3>2 DEF SilenceHasCause, Reporting
      <4> QED BY <1>2, <4>1
    <3> QED BY <3>1, <3>2
  <2> QED BY <2>2 DEF SilenceHasCause, Reporting
<1>3. ASSUME NEW o \in Order, log_order(o) PROVE SilenceHasCause'
  <2>1. CASE row[o] = "absent"
    <3>1. upsert_order_enriched(o, "null") /\ UNCHANGED <<watch, sent, settled, cutShort>>
      BY <1>3, <2>1 DEF log_order, upsert_order_enriched
    <3>2. ~ Ended("null")
      BY DEF Ended, TERMINAL_ORDER_STATUSES
    <3> QED BY <1>2, <3>1, <3>2
  <2>2. CASE row[o] # "absent"
    BY <1>1, <1>3, <2>2 DEF log_order
  <2> QED BY <2>1, <2>2
<1>4. ASSUME NEW r \in Request, RequestWrites(r) PROVE SilenceHasCause'
  <2> DEFINE q == request[r]
  <2>1. /\ q.order \in Order /\ q.status \in Status
        /\ UNCHANGED <<watch, sent, cutShort>>
        /\ settled' = IF Ended(row'[q.order]) THEN settled \cup {q.order} ELSE settled
        /\ upsert_order_enriched(q.order, q.status) \/ UNCHANGED <<row, tracked, undone>>
    BY <1>t, <1>4 DEF InHand, RequestWrites, update_order_status
  <2> HIDE DEF q
  <2>2. CASE upsert_order_enriched(q.order, q.status)
    <3>1. row'[q.order] = q.status
      BY <1>t, <2>1, <2>2, Written
    <3> QED BY <1>2, <2>1, <2>2, <3>1
  <2>3. CASE UNCHANGED <<row, tracked, undone>>
    BY <1>1, <2>1, <2>3
  <2> QED BY <2>1, <2>2, <2>3
<1>5. CASE WatchWrites
  <2>1. /\ upsert_order_enriched(watch.order, watch.status)
        /\ watch.order \in Order /\ watch.status \in Status
        /\ watch' = [watch EXCEPT !.pc = "ask", !.order = 0, !.status = "null",
                                  !.notify = @ \cup ReportedNow]
        /\ settled' = IF /\ watch.known[watch.order] = "absent"
                         /\ Ended(watch.status)
                      THEN settled \cup {watch.order} ELSE settled
        /\ UNCHANGED <<sent, cutShort>>
    BY <1>t, <1>5 DEF WatchWrites, InHand
  <2>2. watch'.notify = watch.notify \cup ReportedNow
    BY <1>t, <2>1 DEF Watches
  <2>3. Ended(watch.status) => watch.order \in settled' \cup ReportedNow
    BY <2>1 DEF ReportedNow, Ended, NOTIFY_ORDER_STATUSES
  <2> QED BY <1>2, <2>1, <2>2, <2>3
<1>6. CASE WatchNotifies
  <2>1. PICK o \in watch.notify :
          /\ sent' = [sent EXCEPT ![o] = @ + 1]
          /\ watch' = IF watch.notify = {o} THEN Idle
                      ELSE [watch EXCEPT !.notify = @ \ {o}]
    BY <1>6 DEF WatchNotifies
  <2>2. UNCHANGED <<row, tracked, settled, cutShort>>
    BY <1>6 DEF WatchNotifies, db
  <2>3. watch.notify \ {o} \subseteq watch'.notify /\ o \in Order
    BY <1>t, <2>1 DEF Watches, Idle
  <2>4. sent'[o] # 0 /\ \A p \in Order \ {o} : sent'[p] = sent[p]
    BY <1>t, <2>1, <2>3 DEF TypeOK
  <2> QED BY <1>t, <2>2, <2>3, <2>4 DEF SilenceHasCause, Reporting, TypeOK
<1>7. CASE Restart
  <2>1. CASE UNCHANGED <<row, tracked, undone>> /\ cutShort' = cutShort \cup watch.notify
    BY <1>1, <1>7, <2>1 DEF Restart
  <2>2. CASE /\ watch.pc = "write"
             /\ upsert_order_enriched(watch.order, watch.status)
             /\ cutShort' = cutShort \cup watch.notify \cup {watch.order}
    <3>1. watch.order \in Order /\ watch.status \in Status
      BY <1>t, <2>2 DEF InHand
    <3> QED BY <1>2, <1>7, <2>2, <3>1 DEF Restart
  <2> QED BY <1>7, <2>1, <2>2 DEF Restart
<1>8. ASSUME NEW o \in Order,
             \/ PlaceOrder(o) \/ OvhMoves(o) \/ LeavesWindow(o)
             \/ WatchAsks(o) \/ AskFails(o)
      PROVE  SilenceHasCause'
  <2>1. UNCHANGED <<row, sent, tracked, settled, cutShort>> /\ watch'.notify = watch.notify
    BY <1>t, <1>8 DEF PlaceOrder, OvhMoves, LeavesWindow, WatchAsks, AskFails, Asked, db, history, Watches
  <2> QED BY <1>1, <2>1
<1>9. ASSUME NEW r \in Request, NEW o \in Order, RequestReads(r, o) \/ cancel_order(r, o)
      PROVE  SilenceHasCause'
  BY <1>1, <1>9 DEF RequestReads, cancel_order, db, history
<1>10. CASE WatchLists \/ WatchLoads \/ WatchLeavesLoop \/ WatchRaises
  <2>1. /\ UNCHANGED <<row, sent, tracked, settled>>
        /\ watch.notify \cup cutShort \subseteq watch'.notify \cup cutShort'
    <3>1. CASE WatchLists
      BY <1>t, <3>1 DEF WatchLists, InHand, db, history
    <3>2. CASE WatchLoads
      BY <1>t, <3>2 DEF WatchLoads, Watches, db, history
    <3>3. CASE WatchLeavesLoop
      BY <1>t, <3>3 DEF WatchLeavesLoop, Idle, db, history
    <3>4. CASE WatchRaises
      BY <1>t, <3>4 DEF WatchRaises, db
    <3> QED BY <1>10, <3>1, <3>2, <3>3, <3>4
  <2> QED BY <1>1, <2>1
<1>11. CASE SwitchWatch \/ UNCHANGED vars
  BY <1>1, <1>11 DEF SwitchWatch, vars, reach, db, history
<1> QED BY <1>3, <1>4, <1>5, <1>6, <1>7, <1>8, <1>9, <1>10, <1>11, Zenon
       DEF Next, WatchStep

(* An end that nobody is told of was recorded by a request, was older than *)
(* the order's row, or was cut off from its report (_check_orders).        *)
THEOREM SilenceIsCaused == Spec => []SilenceHasCause
<1>1. TInv /\ SilenceHasCause /\ [Next]_vars => SilenceHasCause'
  BY SilenceStep
<1> QED BY SilenceInit, TypeInvariance, <1>1, PTL DEF Spec

-----------------------------------------------------------------------------
(* No end is notified twice.  What has been sent, and is about to be,      *)
(* counts less than one for the end that is recorded now, and one for each *)
(* that was overwritten; an order that the cycle may still report is not   *)
(* among those counted for its recorded end.                               *)
Told(o) == sent[o] + (IF o \in watch.notify THEN 1 ELSE 0)

Pending(o) ==
  \/ watch.pc = "ask" /\ o \in watch.todo
  \/ watch.pc = "write" /\ (o \in watch.todo \/ o = watch.order)

Counted ==
  \A o \in Order :
    /\ Told(o) <= 1 + undone[o]
    /\ ~ Ended(row[o]) \/ Pending(o) => Told(o) <= undone[o]
    /\ o \notin tracked => Told(o) = 0
    /\ row[o] # "absent" /\ ~ Ended(row[o]) => o \in tracked
    /\ Pending(o) /\ watch.known[o] # "absent" => o \in tracked
    /\ watch.pc = "write" => watch.order \notin watch.todo

OnceInv == TInv /\ Counted

LEMMA OnceInit == Init => OnceInv
<1>1. ASSUME Init PROVE Counted
  BY <1>1 DEF Init, Counted, Told, Pending, Idle, Ended, TERMINAL_ORDER_STATUSES
<1> QED BY <1>1, TypeInit DEF OnceInv

(* A write that is not the watch's.                                        *)
LEMMA OnceOther ==
  ASSUME OnceInv, NEW o \in Order, NEW s \in Status \cup {"null"},
         upsert_order_enriched(o, s), UNCHANGED <<watch, sent>>
  PROVE  Counted'
<1>t. TypeOK
  BY DEF OnceInv, TInv
<1>1. /\ row'[o] = s
      /\ \A p \in Order \ {o} : row'[p] = row[p] /\ undone'[p] = undone[p]
      /\ tracked' = IF Ended(s) THEN tracked ELSE tracked \cup {o}
      /\ undone'[o] = IF Ended(row[o]) /\ ~ Ended(s) THEN undone[o] + 1 ELSE undone[o]
  BY <1>t, Written
<1>2. \A p \in Order : (Told(p))' = Told(p) /\ ((Pending(p))' <=> Pending(p))
  BY DEF Told, Pending
<1>3. \A p \in Order : undone[p] \in Nat /\ Told(p) \in Nat
  BY <1>t DEF TypeOK, Told
<1>4. watch' = watch
  OBVIOUS
<1> QED BY <1>1, <1>2, <1>3, <1>4 DEF OnceInv, Counted

(* What leaves the rows alone, and asks about no more than it did.         *)
LEMMA OnceKept ==
  ASSUME OnceInv, UNCHANGED <<row, tracked, undone>>,
         \A p \in Order : (Told(p))' <= Told(p) /\ (Told(p))' \in Nat,
         \A p \in Order : (Pending(p))' =>
           Pending(p) /\ watch'.known = watch.known,
         watch'.pc = "write" => watch'.order \notin watch'.todo
  PROVE  Counted'
<1>t. TypeOK
  BY DEF OnceInv, TInv
<1>1. \A p \in Order : undone[p] \in Nat /\ Told(p) \in Nat
  BY <1>t DEF TypeOK, Told
<1> QED BY <1>1 DEF OnceInv, Counted

LEMMA OnceStep ==
  ASSUME OnceInv, [Next]_vars PROVE OnceInv'
<1>t. TypeOK /\ InHand /\ watch \in Watches /\ TInv'
  BY TypeStep DEF OnceInv, TInv, TypeOK, Watches
<1>n. \A p \in Order : undone[p] \in Nat /\ sent[p] \in Nat /\ Told(p) \in Nat
  BY <1>t DEF TypeOK, Told
<1>w. watch.pc = "write" => watch.order \notin watch.todo
  <2>1. CASE watch.pc = "write"
    BY <1>t, <2>1 DEF OnceInv, Counted, InHand
  <2> QED BY <2>1
<1>1. CASE UNCHANGED <<row, tracked, undone, watch, sent>>
  <2>1. \A p \in Order : (Told(p))' = Told(p) /\ ((Pending(p))' <=> Pending(p))
    BY <1>1 DEF Told, Pending
  <2>2. watch' = watch
    BY <1>1
  <2>3. Counted'
    BY <1>1, <1>n, <1>w, <2>1, <2>2, OnceKept
  <2> QED BY <1>t, <2>3 DEF OnceInv
<1>3. ASSUME NEW o \in Order, log_order(o) PROVE OnceInv'
  <2>1. CASE row[o] = "absent"
    <3>1. upsert_order_enriched(o, "null") /\ UNCHANGED <<watch, sent>>
      BY <1>3, <2>1 DEF log_order, upsert_order_enriched
    <3> QED BY <1>t, <3>1, OnceOther DEF OnceInv
  <2>2. CASE row[o] # "absent"
    BY <1>1, <1>3, <2>2 DEF log_order
  <2> QED BY <2>1, <2>2
<1>4. ASSUME NEW r \in Request, RequestWrites(r) PROVE OnceInv'
  <2> DEFINE q == request[r]
  <2>1. /\ q.order \in Order /\ q.status \in Status
        /\ UNCHANGED <<watch, sent>>
        /\ upsert_order_enriched(q.order, q.status) \/ UNCHANGED <<row, tracked, undone>>
    BY <1>t, <1>4 DEF InHand, RequestWrites, update_order_status
  <2> HIDE DEF q
  <2>2. CASE upsert_order_enriched(q.order, q.status)
    BY <1>t, <2>1, <2>2, OnceOther DEF OnceInv
  <2>3. CASE UNCHANGED <<row, tracked, undone>>
    BY <1>1, <2>1, <2>3
  <2> QED BY <2>1, <2>2, <2>3
<1>5. CASE WatchWrites
  <2>0. PICK o \in Order, s \in Status : o = watch.order /\ s = watch.status
    BY <1>t, <1>5 DEF WatchWrites, InHand
  <2>1. /\ upsert_order_enriched(o, s)
        /\ watch' = [watch EXCEPT !.pc = "ask", !.order = 0, !.status = "null",
                                  !.notify = @ \cup ReportedNow]
        /\ sent' = sent /\ watch.pc = "write"
    BY <1>5, <2>0 DEF WatchWrites
  <2>2. /\ watch'.notify = watch.notify \cup ReportedNow /\ watch'.pc = "ask"
        /\ watch'.todo = watch.todo /\ watch'.known = watch.known
    BY <1>t, <2>1 DEF Watches
  <2>3. /\ ReportedNow \subseteq {o}
        /\ o \in ReportedNow => watch.known[o] # "absent" /\ Ended(s)
    BY <2>0 DEF ReportedNow, Ended, NOTIFY_ORDER_STATUSES
  <2>4. /\ row'[o] = s
        /\ \A p \in Order \ {o} : row'[p] = row[p] /\ undone'[p] = undone[p]
        /\ tracked' = IF Ended(s) THEN tracked ELSE tracked \cup {o}
        /\ undone'[o] = IF Ended(row[o]) /\ ~ Ended(s) THEN undone[o] + 1 ELSE undone[o]
    BY <1>t, <2>1, Written
  <2>5. \A p \in Order \ {o} : (Told(p))' = Told(p) /\ ((Pending(p))' => Pending(p))
    BY <2>1, <2>2, <2>3 DEF Told, Pending
  <2>6. /\ (Told(o))' \in Nat /\ (Told(o))' <= Told(o) + 1
        /\ o \notin ReportedNow => (Told(o))' = Told(o)
    BY <1>n, <2>1, <2>2 DEF Told
  <2>7. Pending(o) /\ ~ (Pending(o))'
    BY <1>w, <2>0, <2>1, <2>2 DEF Pending
  <2>8. o \in tracked \/ (Told(o) = 0 /\ o \notin ReportedNow)
    BY <2>3, <2>7 DEF OnceInv, Counted
  <2>9. Told(o) <= undone[o]
    BY <2>1, <2>7 DEF OnceInv, Counted
  <2>10. ASSUME NEW p \in Order \ {o}
         PROVE /\ (Told(p))' <= 1 + undone'[p]
               /\ ~ Ended(row'[p]) \/ (Pending(p))' => (Told(p))' <= undone'[p]
               /\ p \notin tracked' => (Told(p))' = 0
               /\ row'[p] # "absent" /\ ~ Ended(row'[p]) => p \in tracked'
               /\ (Pending(p))' /\ watch'.known[p] # "absent" => p \in tracked'
    BY <2>2, <2>4, <2>5 DEF OnceInv, Counted
  <2>11. /\ (Told(o))' <= 1 + undone'[o]
         /\ ~ Ended(row'[o]) \/ (Pending(o))' => (Told(o))' <= undone'[o]
         /\ o \notin tracked' => (Told(o))' = 0
         /\ row'[o] # "absent" /\ ~ Ended(row'[o]) => o \in tracked'
         /\ (Pending(o))' /\ watch'.known[o] # "absent" => o \in tracked'
    BY <1>n, <2>1, <2>3, <2>4, <2>6, <2>7, <2>8, <2>9
  <2>12. Counted'
    BY <2>1, <2>2, <2>10, <2>11 DEF Counted
  <2> QED BY <1>t, <2>12 DEF OnceInv
<1>6. CASE WatchNotifies
  <2>1. PICK o \in watch.notify :
          /\ sent' = [sent EXCEPT ![o] = @ + 1]
          /\ watch' = IF watch.notify = {o} THEN Idle
                      ELSE [watch EXCEPT !.notify = @ \ {o}]
    BY <1>6 DEF WatchNotifies
  <2>2. UNCHANGED <<row, tracked, undone>> /\ watch.pc = "report"
    BY <1>6 DEF WatchNotifies, db
  <2>3. /\ watch'.notify = watch.notify \ {o} /\ o \in Order
        /\ watch'.pc \in {"idle", "report"}
    BY <1>t, <2>1, <2>2 DEF Watches, Idle
  <2>4. sent'[o] = sent[o] + 1 /\ \A p \in Order \ {o} : sent'[p] = sent[p]
    BY <1>t, <2>1, <2>3 DEF TypeOK
  <2>5. \A p \in Order : (Told(p))' = Told(p) /\ ~ (Pending(p))'
    BY <1>n, <2>1, <2>3, <2>4 DEF Told, Pending
  <2>6. Counted'
    BY <1>n, <2>2, <2>3, <2>5, OnceKept
  <2> QED BY <1>t, <2>6 DEF OnceInv
<1>7. CASE Restart
  <2>1. watch' = Idle /\ sent' = sent
    BY <1>7 DEF Restart
  <2>2. \A p \in Order : (Told(p))' <= Told(p) /\ (Told(p))' \in Nat /\ ~ (Pending(p))'
    BY <1>n, <2>1 DEF Told, Pending, Idle
  <2>3. CASE UNCHANGED <<row, tracked, undone>>
    <3>1. watch'.pc # "write"
      BY <2>1 DEF Idle
    <3>2. Counted'
      BY <2>2, <2>3, <3>1, OnceKept
    <3> QED BY <1>t, <3>2 DEF OnceInv
  <2>4. CASE watch.pc = "write" /\ upsert_order_enriched(watch.order, watch.status)
    <3>1. watch.order \in Order /\ watch.status \in Status
      BY <1>t, <2>4 DEF InHand
    <3>2. /\ row'[watch.order] = watch.status
          /\ \A p \in Order \ {watch.order} : row'[p] = row[p] /\ undone'[p] = undone[p]
          /\ tracked' = IF Ended(watch.status) THEN tracked ELSE tracked \cup {watch.order}
          /\ undone'[watch.order] =
               IF Ended(row[watch.order]) /\ ~ Ended(watch.status)
               THEN undone[watch.order] + 1 ELSE undone[watch.order]
      BY <1>t, <2>4, <3>1, Written
    <3>3. watch'.pc = "idle"
      BY <2>1 DEF Idle
    <3>4. Counted'
      BY <1>n, <2>2, <3>1, <3>2, <3>3 DEF OnceInv, Counted
    <3> QED BY <1>t, <3>4 DEF OnceInv
  <2> QED BY <1>7, <2>3, <2>4 DEF Restart
<1>8. CASE WatchLoads
  <2>1. /\ UNCHANGED <<row, sent, tracked, undone>> /\ watch.pc = "listed"
        /\ watch'.known = row /\ watch'.pc = "ask" /\ watch'.notify = watch.notify
        /\ watch'.todo = {o \in watch.todo : ~ Ended(row[o])}
    BY <1>t, <1>8 DEF WatchLoads, Watches, load_orders, db, history
  <2>2. \A p \in Order : (Told(p))' = Told(p)
    BY <2>1 DEF Told
  <2>3. \A p \in Order : (Pending(p))' => ~ Ended(row[p])
    BY <2>1 DEF Pending
  <2>4. Counted'
    BY <2>1, <2>2, <2>3 DEF OnceInv, Counted
  <2> QED BY <1>t, <2>4 DEF OnceInv
<1>9. ASSUME NEW o \in Order, WatchAsks(o) \/ AskFails(o) PROVE OnceInv'
  <2>1. /\ watch.pc = "ask" /\ o \in watch.todo
        /\ watch' = Asked(o) \/ watch' = [Asked(o) EXCEPT !.pc = "write", !.order = o,
                                                          !.status = ovh[o]]
        /\ UNCHANGED <<row, sent, tracked, undone>>
    BY <1>9 DEF WatchAsks, AskFails, Asks, db, history
  <2>2. /\ watch'.known = watch.known /\ watch'.notify = watch.notify
        /\ watch'.todo = watch.todo \ {o} /\ watch'.pc \in {"ask", "write"}
        /\ watch'.pc = "write" => watch'.order = o
    BY <1>t, <2>1 DEF Asked, Watches
  <2>3. \A p \in Order : (Told(p))' = Told(p) /\ ((Pending(p))' => Pending(p))
    BY <2>1, <2>2 DEF Told, Pending
  <2>4. Counted'
    BY <1>n, <2>1, <2>2, <2>3, OnceKept
  <2> QED BY <1>t, <2>4 DEF OnceInv
<1>10. CASE WatchLists \/ WatchLeavesLoop \/ WatchRaises
  <2>1. /\ UNCHANGED <<row, sent, tracked, undone>>
        /\ watch'.pc \in {"idle", "listed", "report"}
        /\ watch'.notify \subseteq watch.notify
    <3>1. CASE WatchLists
      BY <1>t, <3>1 DEF WatchLists, InHand, Idle, db, history
    <3>2. CASE WatchLeavesLoop
      BY <1>t, <3>2 DEF WatchLeavesLoop, Idle, db, history
    <3>3. CASE WatchRaises
      BY <1>t, <3>3 DEF WatchRaises, Idle, db
    <3> QED BY <1>10, <3>1, <3>2, <3>3
  <2>2. \A p \in Order : (Told(p))' <= Told(p) /\ (Told(p))' \in Nat /\ ~ (Pending(p))'
    BY <1>n, <2>1 DEF Told, Pending
  <2>3. Counted'
    BY <2>1, <2>2, OnceKept
  <2> QED BY <1>t, <2>3 DEF OnceInv
<1>11. ASSUME NEW o \in Order, PlaceOrder(o) \/ OvhMoves(o) \/ LeavesWindow(o)
       PROVE  OnceInv'
  BY <1>1, <1>11 DEF PlaceOrder, OvhMoves, LeavesWindow, db, history
<1>12. ASSUME NEW r \in Request, NEW o \in Order, RequestReads(r, o) \/ cancel_order(r, o)
       PROVE  OnceInv'
  BY <1>1, <1>12 DEF RequestReads, cancel_order, db, history
<1>13. CASE SwitchWatch \/ UNCHANGED vars
  BY <1>1, <1>13 DEF SwitchWatch, vars, reach, db, history
<1> QED BY <1>3, <1>4, <1>5, <1>6, <1>7, <1>8, <1>9, <1>10, <1>11, <1>12, <1>13, Zenon
       DEF Next, WatchStep

(* An order's end is notified once, and once more for each time that a     *)
(* request wrote an older status over it (_check_orders, orders.py).       *)
THEOREM NoEndTwice == Spec => []NotifiedOnce
<1>1. OnceInv /\ [Next]_vars => OnceInv'
  BY OnceStep
<1>2. OnceInv => NotifiedOnce
  <2>1. ASSUME OnceInv, NEW o \in Order
        PROVE  sent[o] <= IF o \in tracked THEN 1 + undone[o] ELSE 0
    <3>1. /\ sent[o] \in Nat /\ undone[o] \in Nat
          /\ Told(o) <= 1 + undone[o] /\ (o \notin tracked => Told(o) = 0)
      BY <2>1 DEF OnceInv, TInv, TypeOK, Counted
    <3> QED BY <3>1 DEF Told
  <2> QED BY <2>1 DEF NotifiedOnce
<1> QED BY OnceInit, <1>1, <1>2, PTL DEF Spec

=============================================================================

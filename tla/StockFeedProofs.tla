-------------------------- MODULE StockFeedProofs --------------------------
(***************************************************************************)
(* Theorems about StockFeed, for any plans, browsers, queue size and       *)
(* bounds.                                                                 *)
(***************************************************************************)
EXTENDS StockFeed, SequenceTheorems, TLAPS

(* The parts of TypeOK.                                                    *)
MemoryOK == /\ base \subseteq Plan /\ primed \subseteq Plan
            /\ regionBase \subseteq Plan /\ regionPrimed \in BOOLEAN
            /\ regionEvents \in Seq(Message)
UsersOK  == watch \in [Plan -> {"none", "on", "paused"}] /\ ticker \in BOOLEAN
LogOK    == row \in [Plan -> {"none", "up", "down"}]
FanOK    == /\ open \subseteq Browser /\ queue \in [Browser -> Seq(Message)]
            /\ \A b \in Browser : Len(queue[b]) <= QueueSize
            /\ picture \in [Browser -> [Plan -> {"none", "up", "down"}]]
HistOK   == hist \in [gap : SUBSET Plan, told : SUBSET Plan, lost : SUBSET Plan,
                      offered : SUBSET Plan, missed : [Browser -> SUBSET Plan],
                      doubled : SUBSET Plan]
CountsOK == moves \in 0 .. MaxMoves /\ ops \in 0 .. MaxOps

Typed == /\ stock \subseteq Plan /\ UsersOK /\ MemoryOK /\ cycle \in Cycle
         /\ LogOK /\ FanOK /\ HistOK /\ CountsOK

LEMMA Parts == (TypeOK <=> Typed) /\ (TypeOK' <=> Typed')
BY DEF TypeOK, Typed, UsersOK, MemoryOK, LogOK, FanOK, HistOK, CountsOK

(* Counting a step stays within its bound.                                 *)
LEMMA CountsStep ==
  ASSUME CountsOK, Op \/ Free PROVE CountsOK'
BY StockFeedAssumption DEF CountsOK, Op, Free

LEMMA AtType ==
  ASSUME NEW pc \in {"off", "sleep", "fetch", "region", "regionLog", "plans",
                     "planLog", "planTell", "publish"}
  PROVE  At(pc) \in Cycle
BY DEF At, Cycle, Rows, NoRows

LEMMA LogType == ASSUME TypeOK PROVE log_stock_events \in [Plan -> {"none", "up", "down"}]
BY DEF TypeOK, log_stock_events

LEMMA GainedType ==
  ASSUME NEW events \in Seq(Message), NEW plans \in SUBSET Plan
  PROVE  Gained(events, plans) \in Seq(Message)
<1> DEFINE item == [kind |-> "region_restock", diff |-> [up |-> plans, down |-> {}]]
<1>1. item \in Message
  BY DEF Message, Rows
<1> HIDE DEF item
<1>2. Append(events, item) \in Seq(Message)
  BY <1>1, AppendProperties
<1> QED BY <1>2 DEF Gained, item

(* A full queue keeps its size.                                            *)
LEMMA PutType ==
  ASSUME NEW q \in Seq(Message), Len(q) <= QueueSize, NEW items \in Seq(Message)
  PROVE  /\ put_nowait(q, items) \in Seq(Message)
         /\ Len(put_nowait(q, items)) <= QueueSize
<1> DEFINE all == q \o items
           n == IF Len(all) > QueueSize THEN QueueSize ELSE Len(all)
<1>1. all \in Seq(Message) /\ Len(all) \in Nat /\ QueueSize \in Nat
  BY ConcatProperties, StockFeedAssumption
<1>2. n \in 0 .. Len(all) /\ n <= QueueSize /\ n \in Nat
  BY <1>1
<1>3. \A i \in 1 .. n : all[i] \in Message
  BY <1>1, <1>2, ElementOfSeq
<1>4. put_nowait(q, items) = SubSeq(all, 1, n)
  BY DEF put_nowait
<1> HIDE DEF all, n
<1>5. SubSeq(all, 1, n) \in Seq(Message) /\ Len(SubSeq(all, 1, n)) = n
  <2>1. /\ SubSeq(all, 1, n) \in Seq(Message)
        /\ Len(SubSeq(all, 1, n)) = IF 1 <= n THEN n - 1 + 1 ELSE 0
    BY <1>2, <1>3, SubSeqProperties
  <2> QED BY <1>2, <2>1
<1> QED BY <1>2, <1>4, <1>5

LEMMA InQueueType ==
  ASSUME TypeOK, NEW b \in Browser PROVE InQueue(b) \subseteq Plan
<1>1. queue[b] \in Seq(Message)
  BY DEF TypeOK
<1>2. ASSUME NEW j \in DOMAIN queue[b] PROVE Plans(queue[b][j].diff) \subseteq Plan
  <2>1. queue[b][j] \in Message
    BY <1>1, <1>2, ElementOfSeq, LenProperties
  <2> QED BY <2>1 DEF Message, Rows, Plans
<1> QED BY <1>2 DEF InQueue

-----------------------------------------------------------------------------
(* Every step keeps the types.                                             *)

LEMMA TypeInit == Init => TypeOK
<1> SUFFICES ASSUME Init PROVE TypeOK
  OBVIOUS
<1>1. cycle \in Cycle
  BY AtType DEF Init
<1>2. <<>> \in Seq(Message) /\ Len(<<>>) = 0 /\ 0 <= QueueSize
  BY EmptySeq, StockFeedAssumption
<1>3. FanOK
  BY <1>2 DEF Init, FanOK
<1>4. MemoryOK
  BY <1>2 DEF Init, MemoryOK
<1>5. UsersOK
  BY StockFeedAssumption DEF Init, UsersOK
<1>6. LogOK
  BY DEF Init, LogOK
<1>7. HistOK
  BY DEF Init, HistOK
<1>8. CountsOK /\ stock \subseteq Plan
  BY StockFeedAssumption DEF Init, CountsOK
<1> QED BY <1>1, <1>3, <1>4, <1>5, <1>6, <1>7, <1>8, Parts DEF Typed

(* What a step leaves alone keeps its type.                                *)
LEMMA Kept ==
  ASSUME TypeOK
  PROVE  /\ UNCHANGED users => UsersOK'
         /\ UNCHANGED mem => MemoryOK'
         /\ UNCHANGED fan => FanOK'
         /\ UNCHANGED row => LogOK'
         /\ UNCHANGED hist => HistOK'
         /\ Op \/ Free => CountsOK'
<1>1. UsersOK /\ MemoryOK /\ FanOK /\ LogOK /\ HistOK /\ CountsOK
  BY Parts DEF Typed
<1>2. UNCHANGED users => UsersOK'
  BY <1>1 DEF UsersOK, users
<1>3. UNCHANGED mem => MemoryOK'
  BY <1>1 DEF MemoryOK, mem
<1>4. UNCHANGED fan => FanOK'
  BY <1>1 DEF FanOK, fan
<1> QED BY <1>1, <1>2, <1>3, <1>4, CountsStep DEF LogOK, HistOK

LEMMA UserTypes ==
  ASSUME TypeOK,
         \/ \E p \in Plan : StockMoves(p) \/ WatchOn(p) \/ Pause(p) \/ Unwatch(p)
         \/ \E enabled \in BOOLEAN : set_region_enabled(enabled)
  PROVE  TypeOK'
<1>t. UsersOK /\ MemoryOK /\ FanOK /\ LogOK /\ HistOK /\ CountsOK /\ stock \subseteq Plan
  BY Parts DEF Typed
<1>1. ASSUME NEW p \in Plan, StockMoves(p) PROVE TypeOK'
  <2>1. HistOK'
    BY <1>t, <1>1 DEF StockMoves, HistOK
  <2>2. CountsOK' /\ stock' \subseteq Plan
    BY <1>t, <1>1, StockFeedAssumption DEF StockMoves, CountsOK
  <2>3. UNCHANGED <<users, mem, fan, cycle, row>>
    BY <1>1 DEF StockMoves
  <2> QED BY <1>t, <2>1, <2>2, <2>3, Kept, Parts DEF Typed
<1>2. ASSUME NEW p \in Plan, WatchOn(p) PROVE TypeOK'
  <2>1. HistOK' /\ UsersOK'
    <3>1. /\ hist' = [hist EXCEPT !.gap = @ \cup {p}, !.offered = @ \ {p}]
          /\ watch' = [watch EXCEPT ![p] = "on"] /\ ticker' = ticker
      BY <1>2 DEF WatchOn
    <3>2. HistOK'
      BY <1>t, <3>1 DEF HistOK
    <3> QED BY <1>t, <3>1, <3>2 DEF UsersOK
  <2>2. UNCHANGED <<mem, fan, cycle, row, stock>> /\ Op
    BY <1>2 DEF WatchOn
  <2> QED BY <1>t, <2>1, <2>2, Kept, Parts DEF Typed
<1>3. ASSUME NEW p \in Plan, Pause(p) PROVE TypeOK'
  <2>1. HistOK' /\ UsersOK'
    <3>1. /\ hist' = [hist EXCEPT !.gap = @ \cup {p}]
          /\ watch' = [watch EXCEPT ![p] = "paused"] /\ ticker' = ticker
      BY <1>3 DEF Pause
    <3>2. HistOK'
      BY <1>t, <3>1 DEF HistOK
    <3> QED BY <1>t, <3>1, <3>2 DEF UsersOK
  <2>2. UNCHANGED <<mem, fan, cycle, row, stock>> /\ Op
    BY <1>3 DEF Pause
  <2> QED BY <1>t, <2>1, <2>2, Kept, Parts DEF Typed
<1>4. ASSUME NEW p \in Plan, Unwatch(p) PROVE TypeOK'
  <2>1. HistOK' /\ UsersOK' /\ MemoryOK'
    BY <1>t, <1>4 DEF Unwatch, HistOK, UsersOK, MemoryOK
  <2>2. UNCHANGED <<fan, cycle, row, stock>> /\ Op
    BY <1>4 DEF Unwatch
  <2> QED BY <1>t, <2>1, <2>2, Kept, Parts DEF Typed
<1>5. ASSUME NEW enabled \in BOOLEAN, set_region_enabled(enabled) PROVE TypeOK'
  <2>1. UsersOK' /\ MemoryOK'
    BY <1>t, <1>5 DEF set_region_enabled, UsersOK, MemoryOK
  <2>2. UNCHANGED <<fan, cycle, row, stock, hist>> /\ Op
    BY <1>5 DEF set_region_enabled
  <2> QED BY <1>t, <2>1, <2>2, Kept, Parts DEF Typed
<1> QED BY <1>1, <1>2, <1>3, <1>4, <1>5

LEMMA AfterLogTypes ==
  ASSUME TypeOK, AfterLog PROVE cycle' \in Cycle /\ regionEvents' \in Seq(Message)
<1>t. cycle \in Cycle /\ regionEvents \in Seq(Message) /\ cycle.restocks \in SUBSET Plan
  BY DEF TypeOK, Cycle
<1>1. cycle' \in Cycle
  <2>1. NoRows \in Rows
    BY DEF NoRows, Rows
  <2>2. \/ cycle' = [cycle EXCEPT !.pc = "plans", !.rows = NoRows, !.restocks = {}]
        \/ cycle' = [cycle EXCEPT !.pc = "planTell", !.rows = NoRows]
        \/ cycle' = [cycle EXCEPT !.pc = "plans", !.rows = NoRows, !.fire = {}]
    BY DEF AfterLog
  <2> QED BY <1>t, <2>1, <2>2 DEF Cycle
<1>2. Gained(regionEvents, cycle.restocks) \in Seq(Message)
  BY <1>t, GainedType
<1> QED BY <1>t, <1>1, <1>2 DEF AfterLog

LEMMA FetchTypes ==
  ASSUME TypeOK, CycleStart \/ Fetch \/ FetchFails PROVE TypeOK'
<1>t. UsersOK /\ MemoryOK /\ FanOK /\ LogOK /\ HistOK /\ CountsOK /\ stock \subseteq Plan
      /\ cycle \in Cycle
  BY Parts DEF Typed
<1>1. CASE CycleStart
  <2>1. Watched \subseteq Plan
    BY DEF Watched
  <2>2. cycle' \in Cycle
    BY <1>1, <2>1 DEF CycleStart, At, Cycle, Rows, NoRows
  <2>3. UNCHANGED <<stock, users, mem, row, fan, hist>> /\ Free
    BY <1>1 DEF CycleStart
  <2> QED BY <1>t, <2>2, <2>3, Kept, Parts DEF Typed
<1>2. CASE Fetch
  <2>1. cycle' \in Cycle
    BY <1>2, <1>t DEF Fetch, Cycle
  <2>2. UNCHANGED <<stock, users, mem, row, fan, hist>> /\ Free
    BY <1>2 DEF Fetch
  <2> QED BY <1>t, <2>1, <2>2, Kept, Parts DEF Typed
<1>3. CASE FetchFails
  <2>1. cycle' \in Cycle
    BY <1>3, AtType DEF FetchFails
  <2>2. UNCHANGED <<stock, users, mem, row, fan, hist>> /\ Op
    BY <1>3 DEF FetchFails
  <2> QED BY <1>t, <2>1, <2>2, Kept, Parts DEF Typed
<1> QED BY <1>1, <1>2, <1>3

LEMMA LoggingTypes ==
  ASSUME TypeOK, RegionDiff \/ Log \/ LogFails PROVE TypeOK'
<1>t. UsersOK /\ MemoryOK /\ FanOK /\ LogOK /\ HistOK /\ CountsOK /\ stock \subseteq Plan
      /\ cycle \in Cycle
  BY Parts DEF Typed
<1>l. Logged \subseteq Plan /\ Offered \subseteq Plan
  BY <1>t DEF Cycle, Rows, Logged, Offered, HistOK
<1>1. CASE RegionDiff
  <2> DEFINE new  == cycle.snap \ regionBase
             rows == RegionRows(new, regionBase \ cycle.snap)
  <2>1. new \in SUBSET Plan /\ rows \in Rows
    BY <1>t DEF RegionRows, Rows, Cycle, MemoryOK
  <2>2. /\ regionBase' = cycle.snap /\ regionPrimed' = TRUE
        /\ UNCHANGED <<stock, users, base, primed, row, fan>> /\ Free
        /\ \/ /\ cycle' = [cycle EXCEPT !.pc = "plans"]
              /\ hist' = [hist EXCEPT !.gap = @ \cup (Plan \ cycle.plans)]
              /\ UNCHANGED regionEvents
           \/ /\ cycle' = [cycle EXCEPT !.pc = "plans"]
              /\ regionEvents' = Gained(regionEvents, new)
              /\ UNCHANGED hist
           \/ /\ cycle' = [cycle EXCEPT !.pc = "regionLog", !.rows = rows,
                                        !.restocks = new]
              /\ UNCHANGED <<regionEvents, hist>>
    BY <1>1 DEF RegionDiff
  <2> HIDE DEF new, rows
  <2>3. cycle' \in Cycle
    BY <1>t, <2>1, <2>2 DEF Cycle
  <2>4. HistOK'
    BY <1>t, <2>2 DEF HistOK
  <2>5. Gained(regionEvents, new) \in Seq(Message)
    BY <1>t, <2>1, GainedType DEF MemoryOK
  <2>6. MemoryOK'
    BY <1>t, <2>2, <2>5 DEF MemoryOK, Cycle
  <2> QED BY <1>t, <2>2, <2>3, <2>4, <2>6, Kept, Parts DEF Typed
<1>2. CASE Log
  <2>1. cycle' \in Cycle /\ MemoryOK'
    BY <1>t, <1>2, AfterLogTypes DEF Log, MemoryOK
  <2>2. LogOK' /\ HistOK'
    BY <1>t, <1>l, <1>2, LogType DEF Log, LogOK, HistOK
  <2>3. UNCHANGED <<stock, users, fan>> /\ Free
    BY <1>2 DEF Log
  <2> QED BY <1>t, <2>1, <2>2, <2>3, Kept, Parts DEF Typed
<1>3. CASE LogFails
  <2>1. cycle' \in Cycle /\ MemoryOK'
    BY <1>t, <1>3, AfterLogTypes DEF LogFails, MemoryOK
  <2>2. LogOK' /\ HistOK'
    BY <1>t, <1>l, <1>3, LogType DEF LogFails, LogOK, HistOK
  <2>3. UNCHANGED <<stock, users, fan>> /\ Op
    BY <1>3 DEF LogFails
  <2> QED BY <1>t, <2>1, <2>2, <2>3, Kept, Parts DEF Typed
<1> QED BY <1>1, <1>2, <1>3

LEMMA PlanTypes ==
  ASSUME TypeOK, (\E p \in Plan : PlanDiff(p)) \/ PriceFails \/ Notify \/ NotifyFails
  PROVE  TypeOK'
<1>t. UsersOK /\ MemoryOK /\ FanOK /\ LogOK /\ HistOK /\ CountsOK /\ stock \subseteq Plan
      /\ cycle \in Cycle
  BY Parts DEF Typed
<1>1. ASSUME NEW p \in Plan, PlanDiff(p) PROVE TypeOK'
  <2> DEFINE rows == IF p \in primed THEN PlanRows(p) ELSE NoRows
             changes == [up   |-> cycle.changes.up \cup rows.up,
                         down |-> cycle.changes.down \cup rows.down]
             tell == {q \in rows.up : watch[q] = "on"}
  <2>1. rows \in Rows
    BY DEF Rows, PlanRows, NoRows
  <2>2. changes \in Rows /\ Firing(p) \subseteq Plan /\ tell \subseteq Plan
    BY <1>t, <2>1 DEF Cycle, Rows, Firing
  <2>3. /\ base' = (base \ {p}) \cup ({p} \cap cycle.snap)
        /\ primed' = primed \cup {p}
        /\ UNCHANGED <<stock, users, regionBase, regionPrimed, regionEvents, row, fan>>
        /\ Free
    BY <1>1 DEF PlanDiff
  <2>4. \/ cycle' = [cycle EXCEPT !.todo = @ \ {p}, !.changes = changes]
        \/ cycle' = [cycle EXCEPT !.todo = @ \ {p}, !.changes = changes,
                       !.pc = "planLog", !.rows = rows, !.tell = tell,
                       !.fire = Firing(p)]
    <3>1. [cycle EXCEPT !.todo = @ \ {p},
                        !.changes = [up |-> @.up \cup rows.up,
                                     down |-> @.down \cup rows.down]]
            = [cycle EXCEPT !.todo = @ \ {p}, !.changes = changes]
      BY <1>t DEF Cycle
    <3> QED BY <1>1, <3>1, <1>t DEF PlanDiff, Cycle
  <2>5. HistOK'
    <3> DEFINE down == rows.down
               unheard == {q \in rows.up : watch[q] # "on"}
               missed == [b \in Browser |-> hist.missed[b] \cup {p}]
    <3>1. \/ hist' = [hist EXCEPT !.offered = @ \cup Firing(p)]
          \/ hist' = [hist EXCEPT !.offered = @ \cup Firing(p),
                        !.gap = @ \cup {p}, !.told = @ \ {p},
                        !.lost = (@ \ {p}) \cup ({p} \cap cycle.snap),
                        !.missed = missed]
          \/ hist' = [hist EXCEPT !.told = @ \ down, !.lost = (@ \ down) \cup unheard]
      BY <1>1 DEF PlanDiff
    <3>2. missed \in [Browser -> SUBSET Plan]
      BY <1>t DEF HistOK
    <3>3. unheard \subseteq Plan
      BY <2>1 DEF Rows
    <3> HIDE DEF down, unheard, missed
    <3>4. CASE hist' = [hist EXCEPT !.offered = @ \cup Firing(p)]
      BY <1>t, <2>2, <3>4 DEF HistOK
    <3>5. CASE hist' = [hist EXCEPT !.offered = @ \cup Firing(p),
                          !.gap = @ \cup {p}, !.told = @ \ {p},
                          !.lost = (@ \ {p}) \cup ({p} \cap cycle.snap),
                          !.missed = missed]
      BY <1>t, <2>2, <3>2, <3>5 DEF HistOK, Cycle
    <3>6. CASE hist' = [hist EXCEPT !.told = @ \ down, !.lost = (@ \ down) \cup unheard]
      BY <1>t, <3>3, <3>6 DEF HistOK
    <3> QED BY <3>1, <3>4, <3>5, <3>6
  <2> HIDE DEF rows, changes, tell
  <2>6. cycle' \in Cycle
    <3>1. cycle.todo \ {p} \in SUBSET Plan
      BY <1>t DEF Cycle
    <3>2. [cycle EXCEPT !.todo = @ \ {p}, !.changes = changes] \in Cycle
      BY <1>t, <2>2, <3>1 DEF Cycle
    <3>3. [cycle EXCEPT !.todo = @ \ {p}, !.changes = changes,
             !.pc = "planLog", !.rows = rows, !.tell = tell, !.fire = Firing(p)] \in Cycle
      BY <1>t, <2>1, <2>2, <3>1 DEF Cycle
    <3> QED BY <2>4, <3>2, <3>3
  <2>7. MemoryOK'
    BY <1>t, <2>3 DEF MemoryOK
  <2> QED BY <1>t, <2>3, <2>5, <2>6, <2>7, Kept, Parts DEF Typed
<1>2. CASE PriceFails \/ Notify \/ NotifyFails
  <2>1. cycle' \in Cycle
    BY <1>2, <1>t DEF PriceFails, Notify, NotifyFails, Cycle
  <2>2. HistOK'
    <3>1. cycle.tell \subseteq Plan /\ cycle.fire \subseteq Plan
      BY <1>t DEF Cycle
    <3>2. CASE PriceFails
      BY <1>t, <3>1, <3>2 DEF PriceFails, HistOK
    <3>3. CASE Notify
      BY <1>t, <3>1, <3>3 DEF Notify, HistOK
    <3>4. CASE NotifyFails
      BY <1>t, <3>1, <3>4 DEF NotifyFails, HistOK
    <3> QED BY <1>2, <3>2, <3>3, <3>4
  <2>3. UNCHANGED <<stock, users, mem, row, fan>> /\ (Op \/ Free)
    BY <1>2 DEF PriceFails, Notify, NotifyFails
  <2> QED BY <1>t, <2>1, <2>2, <2>3, Kept, Parts DEF Typed
<1> QED BY <1>1, <1>2

LEMMA FanTypes ==
  ASSUME TypeOK,
         Publish \/ \E b \in Browser :
                      subscribe(b) \/ unsubscribe(b) \/ stream_stock_updates(b)
  PROVE  TypeOK'
<1>t. UsersOK /\ MemoryOK /\ FanOK /\ LogOK /\ HistOK /\ CountsOK /\ stock \subseteq Plan
      /\ cycle \in Cycle
  BY Parts DEF Typed
<1>e. <<>> \in Seq(Message) /\ Len(<<>>) = 0 /\ 0 <= QueueSize
  BY EmptySeq, StockFeedAssumption
<1>1. CASE Publish
  <2> DEFINE diff  == cycle.changes
             first == IF diff = NoRows THEN <<>>
                      ELSE <<[kind |-> "stock_update", diff |-> diff]>>
             items == first \o regionEvents
  <2>1. diff \in Rows /\ Plans(diff) \subseteq Plan
    BY <1>t DEF Cycle, Rows, Plans
  <2>2. items \in Seq(Message)
    <3>1. [kind |-> "stock_update", diff |-> diff] \in Message
      BY <2>1 DEF Message
    <3>2. first \in Seq(Message)
      BY <3>1, <1>e
    <3> HIDE DEF first
    <3> QED BY <1>t, <3>2, ConcatProperties DEF MemoryOK
  <2>3. /\ cycle' = At("sleep") /\ regionEvents' = <<>>
        /\ queue' = [b \in Browser |-> IF b \in open THEN put_nowait(queue[b], items)
                                                     ELSE <<>>]
        /\ UNCHANGED <<stock, users, base, primed, regionBase, regionPrimed, row,
                       open, picture>>
        /\ Free
    BY <1>1 DEF Publish
  <2>4. HistOK'
    BY <1>t, <1>1, <2>1 DEF Publish, HistOK
  <2> HIDE DEF items, diff
  <2>5. FanOK'
    <3>1. \A b \in Browser : /\ put_nowait(queue[b], items) \in Seq(Message)
                             /\ Len(put_nowait(queue[b], items)) <= QueueSize
      BY <1>t, <2>2, PutType DEF FanOK
    <3> QED BY <1>t, <1>e, <2>3, <3>1 DEF FanOK
  <2>6. MemoryOK' /\ cycle' \in Cycle
    BY <1>t, <1>e, <2>3, AtType DEF MemoryOK
  <2> QED BY <1>t, <2>3, <2>4, <2>5, <2>6, Kept, Parts DEF Typed
<1>2. ASSUME NEW b \in Browser, subscribe(b) PROVE TypeOK'
  <2>1. FanOK'
    BY <1>t, <1>2 DEF subscribe, FanOK
  <2>2. UNCHANGED <<stock, users, mem, cycle, row, hist>> /\ Op
    BY <1>2 DEF subscribe
  <2> QED BY <1>t, <2>1, <2>2, Kept, Parts DEF Typed
<1>3. ASSUME NEW b \in Browser, unsubscribe(b) PROVE TypeOK'
  <2>1. FanOK'
    BY <1>t, <1>e, <1>3 DEF unsubscribe, FanOK
  <2>2. HistOK'
    BY <1>t, <1>3, InQueueType DEF unsubscribe, HistOK
  <2>3. UNCHANGED <<stock, users, mem, cycle, row>> /\ Op
    BY <1>3 DEF unsubscribe
  <2> QED BY <1>t, <2>1, <2>2, <2>3, Kept, Parts DEF Typed
<1>4. ASSUME NEW b \in Browser, stream_stock_updates(b) PROVE TypeOK'
  <2>1. queue[b] \in Seq(Message) /\ queue[b] # <<>> /\ Len(queue[b]) <= QueueSize
    BY <1>t, <1>4 DEF stream_stock_updates, FanOK
  <2>2. /\ Tail(queue[b]) \in Seq(Message)
        /\ Len(Tail(queue[b])) = Len(queue[b]) - 1 /\ Len(queue[b]) \in Nat
    BY <2>1, HeadTailProperties, LenProperties
  <2>3. Len(Tail(queue[b])) <= QueueSize
    BY <2>1, <2>2, StockFeedAssumption
  <2>4. open' = open /\ queue' = [queue EXCEPT ![b] = Tail(queue[b])]
    BY <1>4 DEF stream_stock_updates, FanOK
  <2>5. picture' \in [Browser -> [Plan -> {"none", "up", "down"}]]
    BY <1>t, <1>4 DEF stream_stock_updates, FanOK
  <2>6. FanOK'
    BY <1>t, <2>2, <2>3, <2>4, <2>5 DEF FanOK
  <2>7. UNCHANGED <<stock, users, mem, cycle, row, hist>> /\ Free
    BY <1>4 DEF stream_stock_updates
  <2> QED BY <1>t, <2>6, <2>7, Kept, Parts DEF Typed
<1> QED BY <1>1, <1>2, <1>3, <1>4

LEMMA LifeTypes ==
  ASSUME TypeOK, stop \/ start \/ Restart \/ prune_stock_events
  PROVE  TypeOK'
<1>t. UsersOK /\ MemoryOK /\ FanOK /\ LogOK /\ HistOK /\ CountsOK /\ stock \subseteq Plan
      /\ cycle \in Cycle
  BY Parts DEF Typed
<1>e. <<>> \in Seq(Message) /\ Len(<<>>) = 0 /\ 0 <= QueueSize
  BY EmptySeq, StockFeedAssumption
<1>l. /\ Logged \subseteq Plan /\ cycle.tell \subseteq Plan
      /\ Plans(cycle.changes) \subseteq Plan
  BY <1>t DEF Cycle, Rows, Logged, Plans
<1>c. Cut \in [gap : SUBSET Plan, told : SUBSET Plan, lost : SUBSET Plan,
               offered : SUBSET Plan, missed : [Browser -> SUBSET Plan],
               doubled : SUBSET Plan]
  BY <1>t, <1>l DEF Cut, HistOK
<1>1. CASE stop
  <2>1. HistOK'
    <3>1. PICK sent \in {{}, IF cycle.pc = "planTell" THEN cycle.tell ELSE {}} :
            hist' = [Cut EXCEPT !.told = @ \cup sent]
      BY <1>1 DEF stop
    <3>2. sent \subseteq Plan
      BY <1>l
    <3> QED BY <1>c, <3>1, <3>2 DEF HistOK
  <2>2. LogOK' /\ cycle' \in Cycle
    BY <1>t, <1>1, LogType, AtType DEF stop, LogOK
  <2>3. UNCHANGED <<stock, users, mem, fan>> /\ Op
    BY <1>1 DEF stop
  <2> QED BY <1>t, <2>1, <2>2, <2>3, Kept, Parts DEF Typed
<1>2. CASE start
  <2>1. cycle' \in Cycle
    BY <1>2, AtType DEF start
  <2>2. UNCHANGED <<stock, users, mem, row, fan, hist>> /\ Free
    BY <1>2 DEF start
  <2> QED BY <1>t, <2>1, <2>2, Kept, Parts DEF Typed
<1>3. CASE Restart
  <2>1. LogOK' /\ HistOK' /\ cycle' \in Cycle
    BY <1>t, <1>c, <1>3, LogType, AtType DEF Restart, LogOK, HistOK
  <2>2. MemoryOK'
    BY <1>e, <1>3 DEF Restart, MemoryOK
  <2>3. FanOK'
    BY <1>t, <1>e, <1>3 DEF Restart, FanOK
  <2>4. UNCHANGED <<stock, users>> /\ Op
    BY <1>3 DEF Restart
  <2> QED BY <1>t, <2>1, <2>2, <2>3, <2>4, Kept, Parts DEF Typed
<1>4. CASE prune_stock_events
  <2>1. LogOK'
    BY <1>t, <1>4 DEF prune_stock_events, LogOK
  <2>2. UNCHANGED <<stock, users, mem, cycle, fan, hist>> /\ Op
    BY <1>4 DEF prune_stock_events
  <2> QED BY <1>t, <2>1, <2>2, Kept, Parts DEF Typed
<1> QED BY <1>1, <1>2, <1>3, <1>4

LEMMA TypeStep ==
  ASSUME TypeOK, [Next]_vars PROVE TypeOK'
<1>1. CASE UNCHANGED vars
  BY <1>1, Zenon DEF vars, users, mem, fan, TypeOK
<1>2. CASE Next
  BY <1>2, UserTypes, FetchTypes, LoggingTypes, PlanTypes, FanTypes, LifeTypes, Zenon
     DEF Next, CycleStep
<1> QED BY <1>1, <1>2

(* Every variable of the feed keeps its type, and no browser's queue ever  *)
(* holds more than maxsize events (asyncio.Queue, monitor.py).             *)
THEOREM TypeCorrect == Spec => []TypeOK
<1>1. TypeOK /\ [Next]_vars => TypeOK'
  BY TypeStep
<1> QED BY TypeInit, <1>1, PTL DEF Spec

-----------------------------------------------------------------------------
(* The log follows the stock.  Of a plan whose rows have no reason to be   *)
(* behind, the side that it belongs to at the user's is the side that it   *)
(* is on in the cycle, and its newest row says what that side's baseline   *)
(* does; a row being written is the opposite of the newest, and the        *)
(* baseline is already there.                                              *)
Turn == {"fetch", "region", "regionLog", "plans", "planLog", "planTell"}

Shape ==
  /\ cycle.pc \notin {"regionLog", "planLog"} => cycle.rows = NoRows
  /\ cycle.rows.up \cap cycle.rows.down = {}
  /\ cycle.todo \subseteq cycle.plans
  /\ cycle.pc = "regionLog" => Logged \cap cycle.plans = {}
  /\ cycle.pc = "planLog" => Logged \subseteq cycle.plans

Sides ==
  cycle.pc \in Turn =>
    \A p \in Plan \ hist.gap : p \in cycle.plans <=> watch[p] = "on"

Pending ==
  \A p \in Logged :
    /\ cycle.pc = "planLog" /\ p \in primed => (p \in base <=> p \in cycle.rows.up)
    /\ cycle.pc = "regionLog" /\ regionPrimed
         => (p \in regionBase <=> p \in cycle.rows.up)
    /\ p \notin hist.gap => /\ p \in cycle.rows.up => row[p] # "up"
                            /\ p \in cycle.rows.down => row[p] # "down"

Settled ==
  \A p \in Plan \ (hist.gap \cup Logged) : row[p] # "none" =>
    /\ watch[p] = "on" /\ p \in primed => (row[p] = "up" <=> p \in base)
    /\ watch[p] # "on" /\ regionPrimed => (row[p] = "up" <=> p \in regionBase)

LogInv == TypeOK /\ Shape /\ Sides /\ Pending /\ Settled /\ hist.doubled = {}

LEMMA LogInit == Init => LogInv
<1>1. ASSUME Init PROVE Shape /\ Sides /\ Pending /\ Settled /\ hist.doubled = {}
  <2>1. cycle.pc = "sleep" /\ cycle.rows = NoRows /\ cycle.todo = {}
    BY <1>1 DEF Init, At
  <2> QED BY <1>1, <2>1
          DEF Init, Shape, Sides, Pending, Settled, Turn, NoRows, Logged
<1> QED BY <1>1, TypeInit DEF LogInv

LEMMA UserLog ==
  ASSUME LogInv, TypeOK',
         \/ \E p \in Plan : StockMoves(p) \/ WatchOn(p) \/ Pause(p) \/ Unwatch(p)
         \/ \E enabled \in BOOLEAN : set_region_enabled(enabled)
  PROVE  LogInv'
<1>t. TypeOK /\ HistOK /\ UsersOK
  BY Parts DEF LogInv, Typed
<1>1. ASSUME NEW p \in Plan, StockMoves(p) PROVE LogInv'
  <2>1. /\ UNCHANGED <<watch, base, primed, regionBase, regionPrimed, cycle, row>>
        /\ hist'.gap = hist.gap /\ hist'.doubled = hist.doubled
    BY <1>1, <1>t DEF StockMoves, users, mem, HistOK
  <2> QED BY <2>1 DEF LogInv, Shape, Sides, Pending, Settled, Logged
<1>2. ASSUME NEW p \in Plan, WatchOn(p) \/ Pause(p) PROVE LogInv'
  <2>1. /\ UNCHANGED <<base, primed, regionBase, regionPrimed, cycle, row>>
        /\ hist'.gap = hist.gap \cup {p} /\ hist'.doubled = hist.doubled
        /\ \A q \in Plan \ {p} : watch'[q] = watch[q]
    BY <1>2, <1>t DEF WatchOn, Pause, mem, HistOK, UsersOK
  <2> QED BY <2>1 DEF LogInv, Shape, Sides, Pending, Settled, Logged
<1>3. ASSUME NEW p \in Plan, Unwatch(p) PROVE LogInv'
  <2>1. /\ UNCHANGED <<regionBase, regionPrimed, cycle, row>>
        /\ base' = base \ {p} /\ primed' = primed \ {p}
        /\ hist'.gap = hist.gap \cup {p} /\ hist'.doubled = hist.doubled
        /\ \A q \in Plan \ {p} : watch'[q] = watch[q]
    BY <1>3, <1>t DEF Unwatch, HistOK, UsersOK
  <2> QED BY <2>1 DEF LogInv, Shape, Sides, Pending, Settled, Logged
<1>4. ASSUME NEW enabled \in BOOLEAN, set_region_enabled(enabled) PROVE LogInv'
  <2>1. UNCHANGED <<watch, base, primed, cycle, row, hist>> /\ regionPrimed' = FALSE
    BY <1>4 DEF set_region_enabled
  <2> QED BY <2>1 DEF LogInv, Shape, Sides, Pending, Settled, Logged
<1> QED BY <1>1, <1>2, <1>3, <1>4

(* A cycle that begins, or ends, with nothing being written.               *)
LEMMA FetchLog ==
  ASSUME LogInv, TypeOK', CycleStart \/ Fetch \/ FetchFails \/ Publish \/ start
  PROVE  LogInv'
<1>t. TypeOK /\ HistOK /\ UsersOK /\ cycle \in Cycle
  BY Parts DEF LogInv, Typed
<1>1. /\ UNCHANGED <<watch, base, primed, regionBase, regionPrimed, row>>
      /\ hist'.gap = hist.gap /\ hist'.doubled = hist.doubled
  BY <1>t DEF CycleStart, Fetch, FetchFails, Publish, start, users, mem, HistOK
<1>2. /\ cycle.pc \notin {"regionLog", "planLog"}
      /\ cycle'.pc \notin {"regionLog", "planLog"}
      /\ cycle'.rows \in {NoRows, cycle.rows}
      /\ cycle'.todo \subseteq cycle'.plans
  <2>1. CASE CycleStart
    <3>1. /\ cycle.pc = "sleep"
          /\ \/ cycle' = [At("publish") EXCEPT !.plans = Watched]
             \/ cycle' = [At("fetch") EXCEPT !.plans = Watched]
      BY <2>1 DEF CycleStart
    <3> QED BY <3>1 DEF At
  <2>2. CASE Fetch
    <3>1. /\ cycle.pc = "fetch"
          /\ cycle'.pc \in {"region", "plans"} /\ cycle'.rows = cycle.rows
          /\ cycle'.todo = cycle.plans /\ cycle'.plans = cycle.plans
      BY <2>2, <1>t DEF Fetch, Cycle
    <3> QED BY <3>1
  <2>3. CASE FetchFails \/ Publish \/ start
    BY <2>3 DEF FetchFails, Publish, start, At
  <2> QED BY <2>1, <2>2, <2>3
<1>3. Logged = {}
  BY <1>2 DEF LogInv, Shape, Logged, NoRows
<1>4. cycle'.rows = NoRows /\ Logged' = {} /\ cycle'.todo \subseteq cycle'.plans
  <2>1. cycle.rows = NoRows
    BY <1>2 DEF LogInv, Shape
  <2>2. cycle'.rows = NoRows
    BY <2>1, <1>2
  <2> QED BY <1>2, <2>2 DEF Logged, NoRows
<1>5. Sides'
  <2>1. CASE CycleStart
    <3>1. cycle'.plans = Watched
      BY <2>1 DEF CycleStart, At
    <3> QED BY <1>1, <3>1, <1>t DEF Sides, Watched
  <2>2. CASE Fetch
    <3>1. cycle'.plans = cycle.plans /\ cycle.pc = "fetch"
      BY <2>2, <1>t DEF Fetch, Cycle
    <3> QED BY <1>1, <3>1 DEF LogInv, Sides, Turn
  <2>3. CASE FetchFails \/ Publish \/ start
    <3>1. cycle'.pc \in {"publish", "sleep"}
      BY <2>3 DEF FetchFails, Publish, start, At
    <3> QED BY <3>1 DEF Sides, Turn
  <2> QED BY <2>1, <2>2, <2>3
<1>6. Shape' /\ Pending'
  BY <1>2, <1>4 DEF Shape, Pending, NoRows
<1>7. Settled'
  BY <1>1, <1>3, <1>4 DEF LogInv, Settled
<1> QED BY <1>1, <1>5, <1>6, <1>7 DEF LogInv

LEMMA RegionLog ==
  ASSUME LogInv, TypeOK', RegionDiff PROVE LogInv'
<1> DEFINE rows == RegionRows(cycle.snap \ regionBase, regionBase \ cycle.snap)
<1>t. TypeOK /\ HistOK /\ UsersOK /\ cycle \in Cycle
  BY Parts DEF LogInv, Typed
<1>1. /\ UNCHANGED <<watch, base, primed, row>>
      /\ regionBase' = cycle.snap /\ regionPrimed' = TRUE
      /\ hist'.doubled = hist.doubled /\ cycle.pc = "region"
      /\ cycle'.plans = cycle.plans /\ cycle'.todo = cycle.todo
  BY <1>t DEF RegionDiff, users, HistOK, Cycle
<1>2. cycle.rows = NoRows /\ Logged = {}
  BY <1>1 DEF LogInv, Shape, Logged, NoRows
<1>3. \A p \in Plan \ hist.gap : p \in cycle.plans <=> watch[p] = "on"
  BY <1>1 DEF LogInv, Sides, Turn
<1>4. CASE ~ regionPrimed
  <2>1. /\ hist'.gap = hist.gap \cup (Plan \ cycle.plans)
        /\ cycle'.pc = "plans" /\ cycle'.rows = NoRows
    BY <1>t, <1>2, <1>4 DEF RegionDiff, HistOK, Cycle
  <2>2. Logged' = {}
    BY <2>1 DEF Logged, NoRows
  <2>3. Shape' /\ Pending' /\ Sides'
    BY <1>1, <1>3, <2>1, <2>2 DEF LogInv, Shape, Pending, Sides, NoRows
  <2>4. Settled'
    BY <1>1, <1>2, <1>3, <2>1, <2>2 DEF LogInv, Settled
  <2> QED BY <1>1, <2>3, <2>4 DEF LogInv
<1>5. CASE regionPrimed
  <2>1. hist'.gap = hist.gap
        /\ \/ rows = NoRows /\ cycle'.pc = "plans" /\ cycle'.rows = NoRows
           \/ cycle'.pc = "regionLog" /\ cycle'.rows = rows
    BY <1>t, <1>2, <1>5 DEF RegionDiff, HistOK, Cycle
  <2>2. rows = cycle'.rows
    BY <2>1
  <2>3. /\ rows.up = (cycle.snap \ regionBase) \ cycle.plans
        /\ rows.down = (regionBase \ cycle.snap) \ cycle.plans
    BY DEF RegionRows
  <2>4. Logged' = rows.up \cup rows.down
    BY <2>2 DEF Logged
  <2>5. cycle'.pc \in {"plans", "regionLog"} /\ (cycle'.pc = "plans" => rows = NoRows)
    BY <2>1
  <2> HIDE DEF rows
  <2>6. Shape'
    BY <1>1, <2>2, <2>3, <2>4, <2>5 DEF LogInv, Shape
  <2>7. Sides'
    BY <1>1, <1>3, <2>1 DEF Sides
  <2>8. \A p \in Plan \ hist.gap : row[p] # "none" =>
          /\ watch[p] = "on" /\ p \in primed => (row[p] = "up" <=> p \in base)
          /\ watch[p] # "on" => (row[p] = "up" <=> p \in regionBase)
    BY <1>2, <1>5 DEF LogInv, Settled
  <2>9. Logged' \subseteq Plan
    BY <1>t, <2>3, <2>4 DEF TypeOK, Cycle
  <2>10. Pending'
    BY <1>1, <1>3, <2>1, <2>2, <2>3, <2>4, <2>5, <2>8, <2>9 DEF Pending
  <2>11. Settled'
    BY <1>1, <1>3, <2>1, <2>3, <2>4, <2>8 DEF Settled
  <2> QED BY <1>1, <2>6, <2>7, <2>10, <2>11 DEF LogInv
<1> QED BY <1>4, <1>5

(* What a write that is over leaves of the cycle.                          *)
LEMMA AfterLogShape ==
  ASSUME TypeOK, AfterLog
  PROVE  /\ cycle'.rows = NoRows /\ cycle'.pc \in {"plans", "planTell"}
         /\ cycle'.plans = cycle.plans /\ cycle'.todo = cycle.todo
         /\ cycle.pc \in {"regionLog", "planLog"}
BY DEF AfterLog, TypeOK, Cycle

LEMMA WrittenRow ==
  ASSUME TypeOK, Shape, NEW p \in Plan
  PROVE  /\ p \notin Logged => log_stock_events[p] = row[p]
         /\ p \in cycle.rows.up => log_stock_events[p] = "up"
         /\ p \in cycle.rows.down => log_stock_events[p] = "down"
BY DEF Shape, Logged, log_stock_events

LEMMA LogLog ==
  ASSUME LogInv, TypeOK', Log PROVE LogInv'
<1>t. TypeOK /\ HistOK /\ UsersOK /\ cycle \in Cycle /\ Shape
  BY Parts DEF LogInv, Typed
<1>1. /\ UNCHANGED <<watch, base, primed, regionBase, regionPrimed>>
      /\ row' = log_stock_events
      /\ hist'.gap = hist.gap \ Settles
      /\ hist'.doubled = hist.doubled \cup {p \in Logged \ hist.gap :
                                              row[p] = log_stock_events[p]}
  BY <1>t DEF Log, users, HistOK
<1>2. /\ cycle'.rows = NoRows /\ cycle'.pc \in {"plans", "planTell"}
      /\ cycle'.plans = cycle.plans /\ cycle'.todo = cycle.todo
      /\ cycle.pc \in {"regionLog", "planLog"}
  BY <1>t, AfterLogShape DEF Log
<1>3. Logged' = {}
  BY <1>2 DEF Logged, NoRows
<1>4. Logged \subseteq Plan
  BY <1>t DEF Logged, Cycle, Rows
<1>5. hist'.doubled = {}
  BY <1>1, <1>4, <1>t, WrittenRow DEF LogInv, Pending, Logged
<1>6. Shape' /\ Pending'
  BY <1>2, <1>3, <1>t DEF Shape, Pending, NoRows
<1>7. Sides'
  <2>1. \A p \in Settles : p \in cycle.plans <=> watch[p] = "on"
    BY <1>2, <1>t DEF Settles, Shape
  <2> QED BY <1>1, <1>2, <2>1 DEF LogInv, Sides, Turn
<1>8. Settled'
  <2> SUFFICES ASSUME NEW p \in Plan, p \notin hist'.gap, row'[p] # "none"
               PROVE  /\ watch[p] = "on" /\ p \in primed => (row'[p] = "up" <=> p \in base)
                      /\ watch[p] # "on" /\ regionPrimed
                           => (row'[p] = "up" <=> p \in regionBase)
    BY <1>1, <1>3 DEF Settled
  <2>1. CASE p \notin Logged
    <3>1. p \notin hist.gap /\ row'[p] = row[p]
      BY <1>1, <1>t, <2>1, WrittenRow DEF Settles
    <3> QED BY <2>1, <3>1 DEF LogInv, Settled
  <2>2. CASE p \in Logged
    <3>1. p \in Settles
      BY <1>1, <1>2, <1>t, <2>2 DEF LogInv, Sides, Turn, Settles, Shape
    <3>2. cycle.pc = "planLog" <=> watch[p] = "on"
      BY <3>1 DEF Settles
    <3>3. row'[p] = "up" <=> p \in cycle.rows.up
      BY <1>1, <1>t, <2>2, WrittenRow DEF Logged
    <3> QED BY <1>2, <2>2, <3>2, <3>3 DEF LogInv, Pending
  <2> QED BY <2>1, <2>2
<1> QED BY <1>5, <1>6, <1>7, <1>8 DEF LogInv

(* A write that fails, or that a stop or a restart cuts.                   *)
LEMMA CutLog ==
  ASSUME LogInv, TypeOK', LogFails \/ stop \/ Restart PROVE LogInv'
<1>t. TypeOK /\ HistOK /\ UsersOK /\ cycle \in Cycle /\ Shape
  BY Parts DEF LogInv, Typed
<1>1. /\ watch' = watch
      /\ row' \in {row, log_stock_events}
      /\ hist'.gap = hist.gap \cup Logged /\ hist'.doubled = hist.doubled
      /\ \/ UNCHANGED <<base, primed, regionBase, regionPrimed>>
         \/ primed' = {} /\ regionPrimed' = FALSE
  BY <1>t DEF LogFails, stop, Restart, Cut, users, mem, HistOK
<1>2. /\ cycle'.rows = NoRows /\ cycle'.pc \notin {"regionLog", "planLog"}
      /\ cycle'.todo \subseteq cycle'.plans
      /\ cycle'.pc \in Turn => cycle'.plans = cycle.plans /\ cycle.pc \in Turn
  <2>1. CASE LogFails
    BY <1>t, <2>1, AfterLogShape DEF LogFails, Turn, Shape
  <2>2. CASE stop \/ Restart
    BY <2>2 DEF stop, Restart, At, Turn
  <2> QED BY <2>1, <2>2
<1>3. Logged' = {}
  BY <1>2 DEF Logged, NoRows
<1>4. Shape' /\ Pending' /\ Sides'
  BY <1>1, <1>2, <1>3 DEF LogInv, Shape, Pending, Sides, NoRows
<1>5. \A p \in Plan \ Logged : row'[p] = row[p]
  BY <1>1, <1>t, WrittenRow
<1>6. Settled'
  BY <1>1, <1>3, <1>5 DEF LogInv, Settled
<1> QED BY <1>1, <1>4, <1>6 DEF LogInv

LEMMA PlanLog ==
  ASSUME LogInv, TypeOK', NEW p \in Plan, PlanDiff(p) PROVE LogInv'
<1> DEFINE rows == IF p \in primed THEN PlanRows(p) ELSE NoRows
<1>t. TypeOK /\ HistOK /\ UsersOK /\ cycle \in Cycle /\ Shape
  BY Parts DEF LogInv, Typed
<1>1. /\ UNCHANGED <<watch, regionBase, regionPrimed, row>>
      /\ base' = (base \ {p}) \cup ({p} \cap cycle.snap) /\ primed' = primed \cup {p}
      /\ hist'.gap = (IF p \in primed THEN hist.gap ELSE hist.gap \cup {p})
      /\ hist'.doubled = hist.doubled
      /\ cycle.pc = "plans" /\ p \in cycle.todo
  BY <1>t DEF PlanDiff, users, HistOK, PlanRows, NoRows
<1>2. /\ cycle'.plans = cycle.plans /\ cycle'.todo \subseteq cycle.todo
      /\ \/ rows = NoRows /\ cycle'.pc = "plans" /\ cycle'.rows = cycle.rows
         \/ cycle'.pc = "planLog" /\ cycle'.rows = rows
  <2> DEFINE changes == [up   |-> cycle.changes.up \cup rows.up,
                         down |-> cycle.changes.down \cup rows.down]
             next == [cycle EXCEPT !.todo = @ \ {p}, !.changes = changes]
  <2>1. [cycle EXCEPT !.todo = @ \ {p},
                      !.changes = [up |-> @.up \cup rows.up,
                                   down |-> @.down \cup rows.down]] = next
    BY <1>t DEF Cycle
  <2>2. \/ rows = NoRows /\ cycle' = next
        \/ \E tell, fire : cycle' = [next EXCEPT !.pc = "planLog", !.rows = rows,
                                                !.tell = tell, !.fire = fire]
    BY <2>1 DEF PlanDiff
  <2> HIDE DEF changes, rows
  <2>3. CASE rows = NoRows /\ cycle' = next
    BY <1>1, <1>t, <2>3 DEF Cycle
  <2>4. ASSUME NEW tell, NEW fire,
               cycle' = [next EXCEPT !.pc = "planLog", !.rows = rows,
                                     !.tell = tell, !.fire = fire]
        PROVE  /\ cycle'.plans = cycle.plans /\ cycle'.todo \subseteq cycle.todo
               /\ cycle'.pc = "planLog" /\ cycle'.rows = rows
    BY <1>t, <2>4 DEF Cycle
  <2>5. CASE \E tell, fire : cycle' = [next EXCEPT !.pc = "planLog", !.rows = rows,
                                                  !.tell = tell, !.fire = fire]
    BY <2>4, <2>5
  <2> QED BY <2>2, <2>3, <2>5
<1>3. cycle.rows = NoRows /\ Logged = {} /\ p \in cycle.plans
  BY <1>1, <1>t DEF Shape, Logged, NoRows
<1>4. cycle'.rows = rows /\ Logged' = rows.up \cup rows.down
  BY <1>2, <1>3 DEF Logged
<1>5. /\ p \in primed => rows.up = {p} \cap (cycle.snap \ base)
                         /\ rows.down = {p} \cap (base \ cycle.snap)
      /\ p \notin primed => rows.up = {} /\ rows.down = {}
  BY DEF PlanRows, NoRows
<1>6. cycle'.pc \in {"plans", "planLog"} /\ (cycle'.pc = "plans" => rows = NoRows)
  BY <1>2
<1> HIDE DEF rows
<1>7. \A q \in Plan \ hist.gap : q \in cycle.plans <=> watch[q] = "on"
  BY <1>1 DEF LogInv, Sides, Turn
<1>8. Shape'
  BY <1>2, <1>3, <1>4, <1>5, <1>6, <1>t DEF Shape
<1>9. Sides'
  BY <1>1, <1>2, <1>7 DEF Sides
<1>10. \A q \in Plan \ hist.gap : row[q] # "none" =>
         /\ watch[q] = "on" /\ q \in primed => (row[q] = "up" <=> q \in base)
         /\ watch[q] # "on" /\ regionPrimed => (row[q] = "up" <=> q \in regionBase)
  BY <1>3 DEF LogInv, Settled
<1>11. Pending'
  BY <1>1, <1>3, <1>4, <1>5, <1>6, <1>7, <1>10 DEF Pending
<1>12. Settled'
  BY <1>1, <1>3, <1>4, <1>5, <1>7, <1>10 DEF Settled
<1> QED BY <1>1, <1>8, <1>9, <1>11, <1>12 DEF LogInv

(* What touches neither the baselines nor the rows.                        *)
LEMMA RestLog ==
  ASSUME LogInv, TypeOK',
         \/ PriceFails \/ Notify \/ NotifyFails
         \/ \E b \in Browser : subscribe(b) \/ unsubscribe(b) \/ stream_stock_updates(b)
         \/ prune_stock_events
  PROVE  LogInv'
<1>t. TypeOK /\ HistOK /\ UsersOK /\ cycle \in Cycle /\ Shape /\ LogOK
  BY Parts DEF LogInv, Typed
<1>1. CASE PriceFails \/ Notify \/ NotifyFails
  <2>1. /\ UNCHANGED <<watch, base, primed, regionBase, regionPrimed, row>>
        /\ hist'.gap = hist.gap /\ hist'.doubled = hist.doubled
        /\ cycle'.rows = cycle.rows /\ cycle'.plans = cycle.plans
        /\ cycle'.todo = cycle.todo /\ cycle.pc = "planTell" /\ cycle'.pc = "plans"
    BY <1>1, <1>t DEF PriceFails, Notify, NotifyFails, users, mem, HistOK, Cycle
  <2>2. Logged' = Logged
    BY <2>1 DEF Logged
  <2> QED BY <2>1, <2>2 DEF LogInv, Shape, Sides, Pending, Settled, Turn
<1>2. CASE \E b \in Browser : subscribe(b) \/ unsubscribe(b) \/ stream_stock_updates(b)
  <2>1. /\ UNCHANGED <<watch, base, primed, regionBase, regionPrimed, row, cycle>>
        /\ hist'.gap = hist.gap /\ hist'.doubled = hist.doubled
    BY <1>2, <1>t DEF subscribe, unsubscribe, stream_stock_updates, users, mem, HistOK
  <2> QED BY <2>1 DEF LogInv, Shape, Sides, Pending, Settled, Logged
<1>3. CASE prune_stock_events
  <2>1. /\ UNCHANGED <<watch, base, primed, regionBase, regionPrimed, cycle, hist>>
        /\ cycle.pc = "sleep"
        /\ \A p \in Plan : row'[p] = row[p] \/ row'[p] = "none"
    BY <1>3, <1>t DEF prune_stock_events, users, mem
  <2>2. Logged = {}
    BY <2>1, <1>t DEF Shape, Logged, NoRows
  <2> QED BY <2>1, <2>2 DEF LogInv, Shape, Sides, Pending, Settled, Logged
<1> QED BY <1>1, <1>2, <1>3

LEMMA LogStep ==
  ASSUME LogInv, [Next]_vars PROVE LogInv'
<1>1. TypeOK'
  BY TypeStep DEF LogInv
<1>2. CASE UNCHANGED vars
  <2>1. UNCHANGED <<watch, base, primed, regionBase, regionPrimed, row, cycle, hist>>
    BY <1>2 DEF vars, users, mem
  <2> QED BY <1>1, <2>1 DEF LogInv, Shape, Sides, Pending, Settled, Logged
<1>3. CASE Next
  BY <1>1, <1>3, UserLog, FetchLog, RegionLog, LogLog, CutLog, PlanLog, RestLog, Zenon
     DEF Next, CycleStep
<1> QED BY <1>2, <1>3

LEMMA LogSays == LogInv => LogFollowsStock
<1> SUFFICES ASSUME LogInv PROVE LogFollowsStock
  OBVIOUS
<1>1. AtRest => Logged = {}
  BY DEF LogInv, Shape, AtRest, Logged, NoRows
<1> QED BY <1>1 DEF LogInv, Settled, LogFollowsStock, Recorded, LastSeen, in_stock_now

(* Whatever changes hands between the loop over the watched plans and the  *)
(* region ticker, and whatever fails, no stock_events row repeats the one  *)
(* before, and the newest says what the poller last saw of the plan, but   *)
(* for the reasons named (_poll_account, _process_region_snapshot).        *)
THEOREM LogIsTrue == Spec => []LogFollowsStock
<1>1. LogInv /\ [Next]_vars => LogInv'
  BY LogStep
<1> QED BY LogInit, <1>1, LogSays, PTL DEF Spec


-----------------------------------------------------------------------------
(* What the baseline holds to be in stock is accounted for; and a cycle    *)
(* has a plan to tell about only between its row and its notification.     *)
TellInv ==
  /\ RestockIsAccounted
  /\ cycle.pc \notin {"planLog", "planTell"} => cycle.tell = {}

(* A plan's turn: what is new against the baseline goes with the cycle, or *)
(* has its reason at once.                                                 *)
LEMMA TellDiff ==
  ASSUME TypeOK, TellInv, NEW p \in Plan, PlanDiff(p) PROVE TellInv'
<1>t. cycle \in Cycle /\ HistOK /\ MemoryOK
  BY Parts DEF Typed
<1> DEFINE rows == IF p \in primed THEN PlanRows(p) ELSE NoRows
           tell == {q \in rows.up : watch[q] = "on"}
<1>1. /\ cycle.pc = "plans" /\ cycle.tell = {}
      /\ base' = (base \ {p}) \cup ({p} \cap cycle.snap) /\ primed' = primed \cup {p}
  BY DEF PlanDiff, TellInv
<1>2. CASE rows = NoRows /\ p \in primed
  <2>1. /\ cycle'.tell = {} /\ hist'.told = hist.told /\ hist'.lost = hist.lost
    BY <1>t, <1>1, <1>2 DEF PlanDiff, Cycle, HistOK
  <2>2. base' \subseteq base /\ primed' = primed
    BY <1>1, <1>2 DEF PlanRows, NoRows
  <2> QED BY <1>1, <2>1, <2>2 DEF TellInv, RestockIsAccounted
<1>3. CASE p \notin primed
  <2>1. /\ cycle'.tell = {} /\ hist'.told = hist.told \ {p}
        /\ hist'.lost = (hist.lost \ {p}) \cup ({p} \cap cycle.snap)
    BY <1>t, <1>1, <1>3 DEF PlanDiff, Cycle, HistOK
  <2> QED BY <1>1, <2>1 DEF TellInv, RestockIsAccounted
<1>4. CASE rows # NoRows /\ p \in primed
  <2>1. /\ cycle'.tell = tell /\ cycle'.pc = "planLog"
        /\ hist'.told = hist.told \ rows.down
        /\ hist'.lost = (hist.lost \ rows.down) \cup {q \in rows.up : watch[q] # "on"}
    BY <1>t, <1>4 DEF PlanDiff, Cycle, HistOK
  <2>2. rows.up = {p} \cap (cycle.snap \ base) /\ rows.down = {p} \cap (base \ cycle.snap)
    BY <1>4 DEF PlanRows
  <2>3. rows.up \subseteq hist'.lost \cup tell
    BY <2>1
  <2>4. primed' \cap base' \subseteq ((primed \cap base) \ rows.down) \cup rows.up
    BY <1>1, <1>4, <2>2
  <2> QED BY <1>1, <2>1, <2>3, <2>4 DEF TellInv, RestockIsAccounted
<1> QED BY <1>2, <1>3, <1>4 DEF NoRows

LEMMA TellStep ==
  ASSUME TypeOK, TellInv, [Next]_vars PROVE TellInv'
<1>t. cycle \in Cycle /\ HistOK
  BY Parts DEF Typed
<1>1. CASE \/ UNCHANGED vars \/ prune_stock_events
           \/ \E p \in Plan : StockMoves(p) \/ WatchOn(p) \/ Pause(p) \/ Unwatch(p)
           \/ \E enabled \in BOOLEAN : set_region_enabled(enabled)
           \/ \E b \in Browser : subscribe(b) \/ unsubscribe(b) \/ stream_stock_updates(b)
  <2>1. cycle' = cycle /\ base' \subseteq base /\ primed' \subseteq primed
    BY <1>1 DEF vars, mem, prune_stock_events, StockMoves, WatchOn, Pause, Unwatch,
                set_region_enabled, subscribe, unsubscribe, stream_stock_updates
  <2>2. hist'.told = hist.told /\ hist'.lost = hist.lost
    BY <1>1, <1>t DEF vars, prune_stock_events, StockMoves, WatchOn, Pause, Unwatch,
         set_region_enabled, subscribe, unsubscribe, stream_stock_updates, HistOK
  <2> QED BY <2>1, <2>2 DEF TellInv, RestockIsAccounted
<1>2. CASE CycleStart \/ Fetch \/ FetchFails \/ RegionDiff \/ Publish \/ start
  <2>1. /\ UNCHANGED <<base, primed>> /\ cycle.tell = {}
        /\ hist'.told = hist.told /\ hist'.lost = hist.lost
    BY <1>2, <1>t DEF CycleStart, Fetch, FetchFails, RegionDiff, Publish, start, mem,
         TellInv, HistOK
  <2>2. cycle'.tell = {}
    <3>1. CASE CycleStart
      BY <3>1 DEF CycleStart, At
    <3>2. CASE Fetch \/ RegionDiff
      BY <1>t, <2>1, <3>2 DEF Fetch, RegionDiff, Cycle
    <3>3. CASE FetchFails \/ Publish \/ start
      BY <3>3 DEF FetchFails, Publish, start, At
    <3> QED BY <1>2, <3>1, <3>2, <3>3
  <2> QED BY <2>1, <2>2 DEF TellInv, RestockIsAccounted
<1>3. CASE Log \/ LogFails
  <2>1. /\ UNCHANGED <<base, primed>> /\ AfterLog
        /\ hist'.told = hist.told /\ hist'.lost = hist.lost
    BY <1>3, <1>t DEF Log, LogFails, HistOK
  <2>2. cycle'.tell = cycle.tell /\ (cycle'.pc # "planTell" => cycle.tell = {})
    BY <1>t, <2>1 DEF AfterLog, Cycle, TellInv
  <2> QED BY <2>1, <2>2 DEF TellInv, RestockIsAccounted
<1>4. CASE PriceFails \/ Notify \/ NotifyFails
  <2>1. /\ UNCHANGED <<base, primed>> /\ cycle'.tell = {}
        /\ hist.told \cup hist.lost \cup cycle.tell \subseteq hist'.told \cup hist'.lost
    BY <1>4, <1>t DEF PriceFails, Notify, NotifyFails, mem, Cycle, HistOK
  <2> QED BY <2>1 DEF TellInv, RestockIsAccounted
<1>5. CASE stop
  <2>1. UNCHANGED <<base, primed>> /\ cycle'.tell = {}
    BY <1>5 DEF stop, mem, At
  <2>2. Cut.told = hist.told /\ Cut.lost = hist.lost \cup cycle.tell /\ "told" \in DOMAIN Cut
    BY <1>t DEF Cut, HistOK
  <2>3. PICK sent : hist' = [Cut EXCEPT !.told = @ \cup sent]
    BY <1>5 DEF stop
  <2>4. hist'.told = Cut.told \cup sent /\ hist'.lost = Cut.lost
    BY <2>2, <2>3
  <2> QED BY <2>1, <2>2, <2>4 DEF TellInv, RestockIsAccounted
<1>6. CASE Restart
  BY <1>6 DEF Restart, At, TellInv, RestockIsAccounted
<1> QED BY <1>1, <1>2, <1>3, <1>4, <1>5, <1>6, TellDiff DEF Next, CycleStep

(* A restock that the baseline has taken in was announced, is about to be, *)
(* or was lost for a reason: no interleaving of alerts, failures, stops    *)
(* and cycles swallows one (_poll_account, monitor.py).                    *)
THEOREM NoRestockIsSwallowed == Spec => []RestockIsAccounted
<1>1. Init => TellInv
  BY DEF Init, At, TellInv, RestockIsAccounted
<1>2. TellInv => RestockIsAccounted
  BY DEF TellInv
<1> QED BY <1>1, <1>2, TellStep, TypeCorrect, PTL DEF Spec

-----------------------------------------------------------------------------
(* The picture follows the baseline.  Of a primed plan that a browser has  *)
(* not missed, the last word that is on its way says what the baseline     *)
(* does: the change that the cycle holds, or else the last item of the     *)
(* queue that speaks of the plan, or else what the browser shows.          *)
Speaks(item, p) == item.kind = "stock_update" /\ p \in Plans(item.diff)

(* The last item of the queue that speaks of the plan.                     *)
LastOf(q, p, i) ==
  /\ i \in 1 .. Len(q) /\ Speaks(q[i], p)
  /\ \A j \in 1 .. Len(q) : j > i => ~ Speaks(q[j], p)

Silent(q, p) == \A i \in 1 .. Len(q) : ~ Speaks(q[i], p)

(* A plan changes once in a cycle, when its turn has come.                 *)
ChangesOnce ==
  /\ cycle.pc \in {"off", "sleep", "fetch"} => cycle.changes = NoRows
  /\ Plans(cycle.changes) \cap cycle.todo = {}

Channels ==
  /\ \A i \in 1 .. Len(regionEvents) : regionEvents[i].kind = "region_restock"
  /\ \A b \in Browser \ open : queue[b] = <<>>

HeldIsTrue ==
  \A p \in primed \cap Plans(cycle.changes) : p \in cycle.changes.up <=> p \in base

SentIsTrue ==
  \A b \in Browser : \A p \in primed \ hist.missed[b] :
    p \notin Plans(cycle.changes) =>
      \A i \in 1 .. Len(queue[b]) :
        LastOf(queue[b], p, i) => (p \in queue[b][i].diff.up <=> p \in base)

ShownIsTrue ==
  \A b \in Browser : \A p \in primed \ hist.missed[b] :
    p \notin Plans(cycle.changes) /\ Silent(queue[b], p) /\ picture[b][p] # "none"
      => (picture[b][p] = "up" <=> p \in base)

PictureInv ==
  TypeOK /\ ChangesOnce /\ Channels /\ HeldIsTrue /\ SentIsTrue /\ ShownIsTrue

LEMMA NoPlans == Plans(NoRows) = {}
BY DEF Plans, NoRows

LEMMA PictureInit == Init => PictureInv
<1> SUFFICES ASSUME Init PROVE PictureInv
  OBVIOUS
<1>1. TypeOK
  BY TypeInit
<1>2. primed = {} /\ regionEvents = <<>> /\ open = Browser
  BY DEF Init
<1>3. cycle.changes = NoRows /\ cycle.todo = {}
  BY DEF Init, At
<1>4. Channels
  BY <1>2 DEF Channels
<1> QED BY <1>1, <1>2, <1>3, <1>4, NoPlans
        DEF PictureInv, ChangesOnce, HeldIsTrue, SentIsTrue, ShownIsTrue

(* A step that takes no word away, and leaves each plan that stays primed  *)
(* as the poller last saw it.                                              *)
LEMMA PictureKeeps ==
  ASSUME PictureInv, TypeOK',
         open \subseteq open', UNCHANGED <<queue, picture>>,
         cycle'.changes = cycle.changes,
         cycle'.todo \subseteq cycle.todo \/ cycle.changes = NoRows,
         cycle'.pc \in {"off", "sleep", "fetch"} => cycle.changes = NoRows,
         primed' \subseteq primed,
         \A p \in primed' : p \in base' <=> p \in base,
         \A b \in Browser : hist.missed[b] \subseteq hist'.missed[b],
         \A i \in 1 .. Len(regionEvents') : regionEvents'[i].kind = "region_restock"
  PROVE  PictureInv'
<1>1. ChangesOnce'
  BY NoPlans DEF PictureInv, ChangesOnce
<1>2. Channels'
  BY DEF PictureInv, Channels
<1>3. HeldIsTrue'
  BY DEF PictureInv, HeldIsTrue
<1>4. SentIsTrue'
  BY DEF PictureInv, SentIsTrue
<1>5. ShownIsTrue'
  BY DEF PictureInv, ShownIsTrue
<1> QED BY <1>1, <1>2, <1>3, <1>4, <1>5 DEF PictureInv

(* A cycle that ends, or begins, and whose changes no browser gets.        *)
LEMMA PictureDrops ==
  ASSUME PictureInv, TypeOK',
         UNCHANGED <<open, queue, picture, primed, base, regionEvents>>,
         cycle'.changes = NoRows,
         \A b \in Browser :
           hist.missed[b] \cup Plans(cycle.changes) \subseteq hist'.missed[b]
  PROVE  PictureInv'
<1>1. ChangesOnce' /\ HeldIsTrue'
  BY NoPlans DEF ChangesOnce, HeldIsTrue
<1>2. Channels'
  BY DEF PictureInv, Channels
<1>3. SentIsTrue'
  BY DEF PictureInv, SentIsTrue
<1>4. ShownIsTrue'
  BY DEF PictureInv, ShownIsTrue
<1> QED BY <1>1, <1>2, <1>3, <1>4 DEF PictureInv

LEMMA UserPicture ==
  ASSUME PictureInv, TypeOK',
         \/ \E p \in Plan : StockMoves(p) \/ WatchOn(p) \/ Pause(p) \/ Unwatch(p)
         \/ \E enabled \in BOOLEAN : set_region_enabled(enabled)
         \/ start \/ prune_stock_events
         \/ \E b \in Browser : subscribe(b)
  PROVE  PictureInv'
<1>t. TypeOK /\ HistOK
  BY Parts DEF PictureInv, Typed
<1>e. \A i \in 1 .. Len(regionEvents) : regionEvents[i].kind = "region_restock"
  BY DEF PictureInv, Channels
<1>1. ASSUME NEW p \in Plan, StockMoves(p) \/ WatchOn(p) \/ Pause(p) PROVE PictureInv'
  <2>1. /\ UNCHANGED <<base, primed, regionEvents, cycle, open, queue, picture>>
        /\ hist'.missed = hist.missed
    BY <1>1, <1>t DEF StockMoves, WatchOn, Pause, mem, fan, HistOK
  <2> QED BY <1>e, <2>1, PictureKeeps DEF PictureInv, ChangesOnce
<1>2. ASSUME NEW p \in Plan, Unwatch(p) PROVE PictureInv'
  <2>1. /\ UNCHANGED <<regionEvents, cycle, open, queue, picture>>
        /\ base' = base \ {p} /\ primed' = primed \ {p} /\ hist'.missed = hist.missed
    BY <1>2, <1>t DEF Unwatch, fan, HistOK
  <2> QED BY <1>e, <2>1, PictureKeeps DEF PictureInv, ChangesOnce
<1>3. ASSUME NEW enabled \in BOOLEAN, set_region_enabled(enabled) PROVE PictureInv'
  <2>1. UNCHANGED <<base, primed, regionEvents, cycle, open, queue, picture, hist>>
    BY <1>3 DEF set_region_enabled, fan
  <2> QED BY <1>e, <2>1, PictureKeeps DEF PictureInv, ChangesOnce
<1>4. CASE start
  <2>1. /\ UNCHANGED <<base, primed, regionEvents, open, queue, picture, hist>>
        /\ cycle'.changes = NoRows /\ cycle.pc = "off"
    BY <1>4 DEF start, mem, fan, At
  <2>2. cycle.changes = NoRows
    BY <2>1 DEF PictureInv, ChangesOnce
  <2> QED BY <2>1, <2>2, NoPlans, PictureDrops
<1>5. CASE prune_stock_events
  <2>1. UNCHANGED <<base, primed, regionEvents, cycle, open, queue, picture, hist>>
    BY <1>5 DEF prune_stock_events, mem, fan
  <2> QED BY <1>e, <2>1, PictureKeeps DEF PictureInv, ChangesOnce
<1>6. ASSUME NEW b \in Browser, subscribe(b) PROVE PictureInv'
  <2>1. /\ UNCHANGED <<base, primed, regionEvents, cycle, queue, picture, hist>>
        /\ open \subseteq open'
    BY <1>6 DEF subscribe, mem
  <2> QED BY <1>e, <2>1, PictureKeeps DEF PictureInv, ChangesOnce
<1> QED BY <1>1, <1>2, <1>3, <1>4, <1>5, <1>6

(* The ticker's restocks are the only events that _region_events holds.    *)
LEMMA GainedKinds ==
  ASSUME TypeOK, Channels, NEW plans \in SUBSET Plan
  PROVE  \A i \in 1 .. Len(Gained(regionEvents, plans)) :
           Gained(regionEvents, plans)[i].kind = "region_restock"
<1> DEFINE item == [kind |-> "region_restock", diff |-> [up |-> plans, down |-> {}]]
<1>1. item \in Message /\ item.kind = "region_restock"
  BY DEF Message, Rows
<1>2. regionEvents \in Seq(Message)
  BY DEF TypeOK
<1> HIDE DEF item
<1>3. /\ Len(Append(regionEvents, item)) = Len(regionEvents) + 1
      /\ \A i \in 1 .. Len(regionEvents) :
           Append(regionEvents, item)[i] = regionEvents[i]
      /\ Append(regionEvents, item)[Len(regionEvents) + 1] = item
      /\ Len(regionEvents) \in Nat
  BY <1>1, <1>2, AppendProperties, LenProperties
<1>4. \A i \in 1 .. Len(Append(regionEvents, item)) :
        Append(regionEvents, item)[i].kind = "region_restock"
  <2> SUFFICES ASSUME NEW i \in 1 .. Len(regionEvents) + 1
               PROVE  Append(regionEvents, item)[i].kind = "region_restock"
    BY <1>3
  <2>1. CASE i = Len(regionEvents) + 1
    BY <1>1, <1>3, <2>1
  <2>2. CASE i # Len(regionEvents) + 1
    <3>1. i \in 1 .. Len(regionEvents)
      BY <1>3, <2>2
    <3> QED BY <1>3, <3>1 DEF Channels
  <2> QED BY <2>1, <2>2
<1> QED BY <1>4 DEF Gained, item, Channels

LEMMA CyclePicture ==
  ASSUME PictureInv, TypeOK',
         \/ CycleStart \/ Fetch \/ FetchFails \/ RegionDiff \/ Log \/ LogFails
         \/ PriceFails \/ Notify \/ NotifyFails
  PROVE  PictureInv'
<1>t. TypeOK /\ HistOK /\ cycle \in Cycle /\ Channels
  BY Parts DEF PictureInv, Typed
<1>e. \A i \in 1 .. Len(regionEvents) : regionEvents[i].kind = "region_restock"
  BY <1>t DEF Channels
<1>1. CASE CycleStart \/ FetchFails
  <2>1. /\ UNCHANGED <<base, primed, regionEvents, open, queue, picture, hist>>
        /\ cycle.pc \in {"sleep", "fetch"}
    BY <1>1 DEF CycleStart, FetchFails, mem, fan
  <2>2. cycle'.changes = NoRows
    <3>1. \/ cycle' = [At("publish") EXCEPT !.plans = Watched]
          \/ cycle' = [At("fetch") EXCEPT !.plans = Watched]
          \/ cycle' = At("publish")
      BY <1>1 DEF CycleStart, FetchFails
    <3> QED BY <3>1 DEF At
  <2>3. cycle.changes = NoRows
    BY <2>1 DEF PictureInv, ChangesOnce
  <2> QED BY <2>1, <2>2, <2>3, NoPlans, PictureDrops
<1>2. CASE Fetch
  <2>1. /\ UNCHANGED <<base, primed, regionEvents, open, queue, picture, hist>>
        /\ cycle.pc = "fetch" /\ cycle'.changes = cycle.changes
    BY <1>2, <1>t DEF Fetch, mem, fan, Cycle
  <2>2. cycle.changes = NoRows
    BY <2>1 DEF PictureInv, ChangesOnce
  <2> QED BY <1>e, <2>1, <2>2, PictureKeeps
<1>3. CASE RegionDiff
  <2>1. /\ UNCHANGED <<base, primed, open, queue, picture>>
        /\ hist'.missed = hist.missed
        /\ cycle'.changes = cycle.changes /\ cycle'.todo = cycle.todo
        /\ cycle'.pc \in {"plans", "regionLog"}
    BY <1>3, <1>t DEF RegionDiff, fan, HistOK, Cycle
  <2>2. \/ regionEvents' = regionEvents
        \/ regionEvents' = Gained(regionEvents, cycle.snap \ regionBase)
    BY <1>3 DEF RegionDiff
  <2>3. cycle.snap \ regionBase \in SUBSET Plan
    BY <1>t DEF Cycle
  <2>4. \A i \in 1 .. Len(regionEvents') : regionEvents'[i].kind = "region_restock"
    BY <1>t, <1>e, <2>2, <2>3, GainedKinds
  <2> QED BY <2>1, <2>4, PictureKeeps
<1>4. CASE Log \/ LogFails
  <2>1. /\ UNCHANGED <<base, primed, open, queue, picture>>
        /\ hist'.missed = hist.missed /\ AfterLog
    BY <1>4, <1>t DEF Log, LogFails, fan, HistOK
  <2>2. /\ cycle'.changes = cycle.changes /\ cycle'.todo = cycle.todo
        /\ cycle'.pc \in {"plans", "planTell"}
    BY <2>1, <1>t DEF AfterLog, Cycle
  <2>3. \/ regionEvents' = regionEvents
        \/ regionEvents' = Gained(regionEvents, cycle.restocks)
    BY <2>1 DEF AfterLog
  <2>4. cycle.restocks \in SUBSET Plan
    BY <1>t DEF Cycle
  <2>5. \A i \in 1 .. Len(regionEvents') : regionEvents'[i].kind = "region_restock"
    BY <1>t, <1>e, <2>3, <2>4, GainedKinds
  <2> QED BY <2>1, <2>2, <2>5, PictureKeeps
<1>5. CASE PriceFails \/ Notify \/ NotifyFails
  <2>1. /\ UNCHANGED <<base, primed, regionEvents, open, queue, picture>>
        /\ hist'.missed = hist.missed
        /\ cycle'.changes = cycle.changes /\ cycle'.todo = cycle.todo
        /\ cycle'.pc = "plans"
    BY <1>5, <1>t DEF PriceFails, Notify, NotifyFails, mem, fan, HistOK, Cycle
  <2> QED BY <1>e, <2>1, PictureKeeps
<1> QED BY <1>1, <1>2, <1>3, <1>4, <1>5

(* A plan's turn: its edge, if it has one, is the cycle's word about it.   *)
LEMMA PlanPicture ==
  ASSUME PictureInv, TypeOK', NEW p \in Plan, PlanDiff(p) PROVE PictureInv'
<1> DEFINE rows == IF p \in primed THEN PlanRows(p) ELSE NoRows
           changes == [up   |-> cycle.changes.up \cup rows.up,
                       down |-> cycle.changes.down \cup rows.down]
<1>t. TypeOK /\ HistOK /\ cycle \in Cycle
  BY Parts DEF PictureInv, Typed
<1>1. /\ UNCHANGED <<regionEvents, open, queue, picture>>
      /\ base' = (base \ {p}) \cup ({p} \cap cycle.snap) /\ primed' = primed \cup {p}
      /\ cycle.pc = "plans" /\ p \in cycle.todo
  BY DEF PlanDiff, fan
<1>2. \A b \in Browser :
        hist'.missed[b] = IF p \in primed THEN hist.missed[b] ELSE hist.missed[b] \cup {p}
  <2>1. \/ p \in primed /\ hist'.missed = hist.missed
        \/ p \notin primed /\ hist'.missed = [b \in Browser |-> hist.missed[b] \cup {p}]
    BY <1>t DEF PlanDiff, PlanRows, NoRows, HistOK
  <2> QED BY <2>1
<1>3. /\ cycle'.changes = changes /\ cycle'.todo = cycle.todo \ {p}
      /\ cycle'.pc \in {"plans", "planLog"}
  <2> DEFINE next == [cycle EXCEPT !.todo = @ \ {p}, !.changes = changes]
  <2>1. [cycle EXCEPT !.todo = @ \ {p},
                      !.changes = [up   |-> @.up \cup rows.up,
                                   down |-> @.down \cup rows.down]] = next
    BY <1>t DEF Cycle
  <2>2. \/ cycle' = next
        \/ \E tell, fire : cycle' = [next EXCEPT !.pc = "planLog", !.rows = rows,
                                                !.tell = tell, !.fire = fire]
    BY <2>1 DEF PlanDiff
  <2> HIDE DEF changes, rows
  <2>3. CASE cycle' = next
    BY <1>1, <1>t, <2>3 DEF Cycle
  <2>4. ASSUME NEW tell, NEW fire,
               cycle' = [next EXCEPT !.pc = "planLog", !.rows = rows,
                                     !.tell = tell, !.fire = fire]
        PROVE  /\ cycle'.changes = changes /\ cycle'.todo = cycle.todo \ {p}
               /\ cycle'.pc = "planLog"
    BY <1>t, <2>4 DEF Cycle
  <2> QED BY <2>2, <2>3, <2>4
<1>4. /\ p \in primed => rows.up = {p} \cap (cycle.snap \ base)
                         /\ rows.down = {p} \cap (base \ cycle.snap)
      /\ p \notin primed => rows.up = {} /\ rows.down = {}
  BY DEF PlanRows, NoRows
<1>5. changes.up = cycle.changes.up \cup rows.up
      /\ changes.down = cycle.changes.down \cup rows.down
  OBVIOUS
<1> HIDE DEF rows, changes
<1>6. p \notin Plans(cycle.changes)
  BY <1>1 DEF PictureInv, ChangesOnce
<1>7. /\ Plans(cycle.changes) \subseteq Plans(changes)
      /\ Plans(changes) \subseteq Plans(cycle.changes) \cup {p}
      /\ \A q \in Plan \ {p} : q \in changes.up <=> q \in cycle.changes.up
      /\ p \in primed => /\ p \in changes.up <=> p \in cycle.snap \ base
                         /\ p \in Plans(changes) \/ (p \in base <=> p \in cycle.snap)
      /\ p \in primed /\ p \in Plans(changes) => (p \in changes.up <=> p \in cycle.snap)
  BY <1>4, <1>5, <1>6 DEF Plans
<1>8. ChangesOnce'
  BY <1>3, <1>7 DEF PictureInv, ChangesOnce
<1>9. Channels'
  BY <1>1 DEF PictureInv, Channels
<1>10. ASSUME NEW b \in Browser, NEW q \in primed' \ hist'.missed[b]
       PROVE  /\ q \in primed \ hist.missed[b]
              /\ q # p => (q \in base' <=> q \in base)
              /\ q = p => (q \in base' <=> q \in cycle.snap)
  BY <1>1, <1>2, <1>10
<1>11. primed \subseteq Plan
  BY <1>t DEF TypeOK
<1>12. HeldIsTrue'
  <2> SUFFICES ASSUME NEW q \in primed' \cap Plans(changes)
               PROVE  q \in changes.up <=> q \in base'
    BY <1>3 DEF HeldIsTrue
  <2>1. CASE q = p
    <3>1. p \in primed
      BY <1>4, <1>5, <1>6, <2>1 DEF Plans
    <3> QED BY <1>1, <1>7, <2>1, <3>1
  <2>2. CASE q # p
    BY <1>1, <1>7, <1>11, <2>2 DEF PictureInv, HeldIsTrue
  <2> QED BY <2>1, <2>2
<1>13. ASSUME NEW b \in Browser, NEW q \in primed' \ hist'.missed[b],
              q \notin Plans(changes)
       PROVE  /\ q \in primed \ hist.missed[b] /\ q \notin Plans(cycle.changes)
              /\ q \in base' <=> q \in base
  BY <1>7, <1>10, <1>13
<1>14. SentIsTrue'
  BY <1>1, <1>3, <1>13 DEF PictureInv, SentIsTrue
<1>15. ShownIsTrue'
  BY <1>1, <1>3, <1>13 DEF PictureInv, ShownIsTrue
<1> QED BY <1>8, <1>9, <1>12, <1>14, <1>15 DEF PictureInv

(* A browser's queue after the broadcast: what it held, then, as far as    *)
(* there is room, the items.                                               *)
LEMMA PutKeeps ==
  ASSUME NEW q \in Seq(Message), Len(q) <= QueueSize, NEW items \in Seq(Message),
         NEW r, r = put_nowait(q, items)
  PROVE  /\ Len(r) \in Nat /\ Len(q) <= Len(r) /\ Len(r) <= Len(q) + Len(items)
         /\ Len(r) <= QueueSize
         /\ Len(q) < QueueSize /\ Len(items) > 0 => Len(r) > Len(q)
         /\ \A i \in 1 .. Len(q) : r[i] = q[i]
         /\ \A i \in Len(q) + 1 .. Len(r) : r[i] = items[i - Len(q)]
<1> DEFINE all == q \o items
           n == IF Len(all) > QueueSize THEN QueueSize ELSE Len(all)
<1>1. /\ all \in Seq(Message) /\ Len(all) = Len(q) + Len(items)
      /\ Len(q) \in Nat /\ Len(items) \in Nat /\ QueueSize \in Nat \ {0}
      /\ \A i \in 1 .. Len(q) + Len(items) :
           all[i] = IF i <= Len(q) THEN q[i] ELSE items[i - Len(q)]
  BY ConcatProperties, LenProperties, StockFeedAssumption
<1>2. n \in 0 .. Len(all) /\ n <= QueueSize /\ n \in Nat /\ Len(q) <= n
      /\ (Len(q) < QueueSize /\ Len(items) > 0 => n > Len(q))
  BY <1>1
<1>3. \A i \in 1 .. n : all[i] \in Message
  BY <1>1, <1>2, ElementOfSeq
<1>4. r = SubSeq(all, 1, n)
  BY DEF put_nowait
<1> HIDE DEF all, n
<1>5. /\ Len(r) = IF 1 <= n THEN n - 1 + 1 ELSE 0
      /\ \A i \in 1 .. n - 1 + 1 : r[i] = all[1 + i - 1]
  BY <1>2, <1>3, <1>4, SubSeqProperties
<1>6. Len(r) = n /\ \A i \in 1 .. n : r[i] = all[i]
  <2>1. n - 1 + 1 = n /\ \A i \in 1 .. n : 1 + i - 1 = i
    BY <1>2
  <2> QED BY <1>2, <1>5, <2>1
<1> QED BY <1>1, <1>2, <1>6

LEMMA PublishPicture ==
  ASSUME PictureInv, TypeOK', Publish PROVE PictureInv'
<1> DEFINE diff  == cycle.changes
           word  == [kind |-> "stock_update", diff |-> diff]
           first == IF diff = NoRows THEN <<>> ELSE <<word>>
           items == first \o regionEvents
<1>t. TypeOK /\ HistOK /\ FanOK /\ MemoryOK /\ cycle \in Cycle
  BY Parts DEF PictureInv, Typed
<1>1. /\ cycle' = At("sleep") /\ regionEvents' = <<>>
      /\ queue' = [b \in Browser |-> IF b \in open THEN put_nowait(queue[b], items)
                                                   ELSE <<>>]
      /\ UNCHANGED <<base, primed, open, picture>>
  BY DEF Publish
<1>2. \A b \in Browser :
        hist'.missed[b] = IF b \in open /\ Len(queue[b]) < QueueSize
                          THEN hist.missed[b] \ Plans(diff)
                          ELSE hist.missed[b] \cup Plans(diff)
  BY <1>t DEF Publish, HistOK
<1>3. /\ diff \in Rows /\ word \in Message /\ first \in Seq(Message)
      /\ regionEvents \in Seq(Message)
  <2>1. diff \in Rows /\ regionEvents \in Seq(Message)
    BY <1>t DEF Cycle, MemoryOK
  <2>2. word \in Message
    BY <2>1 DEF Message
  <2> QED BY <2>1, <2>2, EmptySeq
<1>4. cycle'.changes = NoRows /\ cycle'.todo = {}
  BY <1>1 DEF At
<1>5. ChangesOnce' /\ HeldIsTrue' /\ Channels'
  <2>1. Channels'
    BY <1>1 DEF Channels
  <2> QED BY <1>4, <2>1, NoPlans DEF ChangesOnce, HeldIsTrue
<1>f. /\ diff = NoRows => Len(first) = 0
      /\ diff # NoRows => Len(first) = 1 /\ first[1] = word
  OBVIOUS
<1>l. Len(first) \in {0, 1} /\ (diff = NoRows <=> Len(first) = 0)
  OBVIOUS
<1>g. word.kind = "stock_update" /\ word.diff = diff
  OBVIOUS
<1> HIDE DEF first, word, diff
<1>6. /\ items \in Seq(Message) /\ Len(items) = Len(first) + Len(regionEvents)
      /\ Len(regionEvents) \in Nat
      /\ diff # NoRows => items[1] = word
      /\ \A i \in Len(first) + 1 .. Len(items) : items[i].kind = "region_restock"
  <2>1. /\ items \in Seq(Message) /\ Len(items) = Len(first) + Len(regionEvents)
        /\ Len(first) \in Nat /\ Len(regionEvents) \in Nat
        /\ \A i \in 1 .. Len(first) + Len(regionEvents) :
             items[i] = IF i <= Len(first) THEN first[i] ELSE regionEvents[i - Len(first)]
    BY <1>3, ConcatProperties, LenProperties
  <2>2. diff # NoRows => items[1] = word
    <3>1. SUFFICES ASSUME diff # NoRows PROVE items[1] = word
      OBVIOUS
    <3>2. Len(first) = 1
      BY <1>l, <3>1
    <3>3. 1 \in 1 .. Len(first) + Len(regionEvents) /\ 1 <= Len(first)
      BY <2>1, <3>2
    <3> QED BY <1>f, <2>1, <3>1, <3>3
  <2>3. ASSUME NEW i \in Len(first) + 1 .. Len(items)
        PROVE  items[i].kind = "region_restock"
    <3>1. i \in 1 .. Len(first) + Len(regionEvents) /\ ~ (i <= Len(first))
          /\ i - Len(first) \in 1 .. Len(regionEvents)
      BY <2>1
    <3> QED BY <2>1, <3>1 DEF PictureInv, Channels
  <2> QED BY <2>1, <2>2, <2>3
<1> HIDE DEF items
<1>7. ASSUME NEW b \in Browser
      PROVE  /\ queue[b] \in Seq(Message) /\ Len(queue[b]) \in Nat
             /\ Len(queue[b]) <= QueueSize
  BY <1>t, LenProperties DEF FanOK
(* What the broadcast says of a plan that the browser has not missed.      *)
<1>8. ASSUME NEW b \in Browser, NEW p \in primed' \ hist'.missed[b],
             p \in Plans(diff)
      PROVE  /\ \A i \in 1 .. Len(queue'[b]) :
                  LastOf(queue'[b], p, i) => (p \in queue'[b][i].diff.up <=> p \in base)
             /\ ~ Silent(queue'[b], p)
  <2> DEFINE r == queue'[b]
             m == Len(queue[b])
  <2>1. b \in open /\ m < QueueSize
    BY <1>2, <1>8
  <2>2. r = put_nowait(queue[b], items)
    BY <1>1, <2>1
  <2>3. diff # NoRows
    BY <1>8, NoPlans
  <2>4. Len(items) > 0 /\ items[1] = word /\ Len(first) = 1
    <3>1. Len(first) = 1
      BY <1>l, <2>3
    <3>2. Len(items) = Len(first) + Len(regionEvents) /\ Len(regionEvents) \in Nat
      BY <1>6
    <3> QED BY <1>6, <2>3, <3>1, <3>2
  <2>5. /\ Len(r) \in Nat /\ m + 1 \in 1 .. Len(r) /\ Len(r) <= m + Len(items)
        /\ \A i \in m + 1 .. Len(r) : r[i] = items[i - m]
    <3> HIDE DEF r
    <3>1. /\ queue[b] \in Seq(Message) /\ Len(queue[b]) <= QueueSize
          /\ items \in Seq(Message) /\ m \in Nat
      BY <1>6, <1>7
    <3>2. /\ Len(r) \in Nat /\ Len(r) <= m + Len(items)
          /\ m < QueueSize /\ Len(items) > 0 => Len(r) > m
          /\ \A i \in m + 1 .. Len(r) : r[i] = items[i - m]
      BY <2>2, <3>1, PutKeeps
    <3> QED BY <2>1, <2>4, <3>1, <3>2
  <2>6. r[m + 1] = word /\ Speaks(r[m + 1], p)
    <3>1. (m + 1) - m = 1 /\ m + 1 \in m + 1 .. Len(r)
      BY <1>7, <2>5
    <3>2. r[m + 1] = word
      BY <2>4, <2>5, <3>1
    <3> QED BY <1>8, <1>g, <3>2 DEF Speaks
  <2>7. \A i \in m + 2 .. Len(r) : ~ Speaks(r[i], p)
    <3> SUFFICES ASSUME NEW i \in m + 2 .. Len(r) PROVE r[i].kind = "region_restock"
      BY DEF Speaks
    <3>1. i \in m + 1 .. Len(r) /\ i - m \in Len(first) + 1 .. Len(items)
      BY <1>7, <2>4, <2>5
    <3> QED BY <1>6, <2>5, <3>1
  <2>8. ASSUME NEW i \in 1 .. Len(r), LastOf(r, p, i)
        PROVE  i = m + 1
    <3>1. ~ (m + 1 > i)
      BY <2>5, <2>6, <2>8 DEF LastOf
    <3>2. i \notin m + 2 .. Len(r)
      BY <2>7, <2>8 DEF LastOf
    <3> QED BY <1>7, <2>5, <3>1, <3>2
  <2>9. p \in diff.up <=> p \in base
    BY <1>1, <1>8 DEF PictureInv, HeldIsTrue, diff
  <2> QED BY <1>g, <2>5, <2>6, <2>8, <2>9 DEF Silent
<1>9. ASSUME NEW b \in Browser, NEW p \in primed' \ hist'.missed[b],
             p \notin Plans(diff)
      PROVE  /\ p \in primed \ hist.missed[b]
             /\ Len(queue[b]) <= Len(queue'[b]) /\ Len(queue'[b]) \in Nat
             /\ \A i \in 1 .. Len(queue[b]) : queue'[b][i] = queue[b][i]
             /\ \A i \in Len(queue[b]) + 1 .. Len(queue'[b]) : ~ Speaks(queue'[b][i], p)
  <2>1. p \in primed \ hist.missed[b]
    BY <1>1, <1>2, <1>9
  <2>2. CASE b \notin open
    <3>1. queue[b] = <<>> /\ queue'[b] = <<>>
      BY <1>1, <2>2 DEF PictureInv, Channels
    <3> QED BY <2>1, <3>1
  <2>3. CASE b \in open
    <3> DEFINE r == queue'[b]
               m == Len(queue[b])
    <3>1. r = put_nowait(queue[b], items)
      BY <1>1, <2>3
    <3> HIDE DEF r
    <3>0. /\ queue[b] \in Seq(Message) /\ Len(queue[b]) <= QueueSize
          /\ items \in Seq(Message) /\ m \in Nat
      BY <1>6, <1>7
    <3>2. /\ Len(r) \in Nat /\ m <= Len(r) /\ Len(r) <= m + Len(items)
          /\ Len(r) <= QueueSize
          /\ \A i \in 1 .. m : r[i] = queue[b][i]
          /\ \A i \in m + 1 .. Len(r) : r[i] = items[i - m]
      BY <3>0, <3>1, PutKeeps
    <3>3. ASSUME NEW i \in m + 1 .. Len(r) PROVE ~ Speaks(r[i], p)
      <4>0. Len(items) \in Nat /\ m \in Nat /\ Len(first) \in Nat
        BY <1>6, <1>7, <1>l
      <4>1. i - m \in 1 .. Len(items) /\ r[i] = items[i - m]
        BY <3>2, <4>0
      <4>2. CASE i - m > Len(first)
        <5>1. i - m \in Len(first) + 1 .. Len(items)
          BY <4>0, <4>1, <4>2
        <5> QED BY <1>6, <4>1, <5>1 DEF Speaks
      <4>3. CASE ~ (i - m > Len(first))
        <5>1. diff # NoRows /\ i - m = 1
          <6>1. Len(first) # 0
            BY <4>0, <4>1, <4>3
          <6>2. Len(first) = 1
            BY <1>l, <6>1
          <6> QED BY <1>l, <4>0, <4>1, <4>3, <6>2
        <5> QED BY <1>6, <1>9, <1>g, <4>1, <5>1 DEF Speaks
      <4> QED BY <4>2, <4>3
    <3> QED BY <2>1, <3>2, <3>3 DEF r
  <2> QED BY <2>2, <2>3
<1>10. SentIsTrue'
  <2> SUFFICES ASSUME NEW b \in Browser, NEW p \in primed' \ hist'.missed[b],
                      NEW i \in 1 .. Len(queue'[b]), LastOf(queue'[b], p, i)
               PROVE  p \in queue'[b][i].diff.up <=> p \in base
    BY <1>1 DEF SentIsTrue, LastOf
  <2>1. CASE p \in Plans(diff)
    BY <1>8, <2>1
  <2>2. CASE p \notin Plans(diff)
    <3>1. i \in 1 .. Len(queue[b])
      BY <1>7, <1>9, <2>2 DEF LastOf
    <3>2. LastOf(queue[b], p, i) /\ queue'[b][i] = queue[b][i]
      BY <1>7, <1>9, <2>2, <3>1 DEF LastOf
    <3> QED BY <1>9, <2>2, <3>1, <3>2 DEF PictureInv, SentIsTrue, diff
  <2> QED BY <2>1, <2>2
<1>11. ShownIsTrue'
  <2> SUFFICES ASSUME NEW b \in Browser, NEW p \in primed' \ hist'.missed[b],
                      Silent(queue'[b], p), picture[b][p] # "none"
               PROVE  picture[b][p] = "up" <=> p \in base
    BY <1>1 DEF ShownIsTrue, Silent
  <2>1. p \notin Plans(diff)
    BY <1>8
  <2>2. Silent(queue[b], p)
    BY <1>7, <1>9, <2>1 DEF Silent
  <2> QED BY <1>9, <2>1, <2>2 DEF PictureInv, ShownIsTrue, diff
<1> QED BY <1>5, <1>10, <1>11 DEF PictureInv

(* A connection that goes takes its queue along.                           *)
LEMMA LeavePicture ==
  ASSUME PictureInv, TypeOK', NEW b \in Browser, unsubscribe(b) PROVE PictureInv'
<1>t. TypeOK /\ HistOK /\ FanOK
  BY Parts DEF PictureInv, Typed
<1>1. /\ UNCHANGED <<base, primed, regionEvents, cycle, picture>>
      /\ open' = open \ {b} /\ queue' = [queue EXCEPT ![b] = <<>>]
      /\ hist' = [hist EXCEPT !.missed[b] = @ \cup InQueue(b)]
  BY DEF unsubscribe, mem
<1>2. /\ hist'.missed[b] = hist.missed[b] \cup InQueue(b)
      /\ \A c \in Browser \ {b} : hist'.missed[c] = hist.missed[c]
      /\ queue'[b] = <<>> /\ \A c \in Browser \ {b} : queue'[c] = queue[c]
  BY <1>1, <1>t DEF HistOK, FanOK
<1>3. \A p \in Plan : p \notin InQueue(b) => Silent(queue[b], p)
  <2>1. DOMAIN queue[b] = 1 .. Len(queue[b])
    BY <1>t, LenProperties DEF FanOK
  <2> QED BY <2>1 DEF InQueue, Silent, Speaks
<1>4. ChangesOnce' /\ Channels'
  BY <1>1, <1>2 DEF PictureInv, ChangesOnce, Channels
<1>5. HeldIsTrue'
  BY <1>1, <1>2 DEF PictureInv, HeldIsTrue
<1>6. SentIsTrue'
  <2> SUFFICES ASSUME NEW c \in Browser, NEW p \in primed' \ hist'.missed[c],
                      p \notin Plans(cycle.changes),
                      NEW i \in 1 .. Len(queue'[c]), LastOf(queue'[c], p, i)
               PROVE  p \in queue'[c][i].diff.up <=> p \in base
    BY <1>1 DEF SentIsTrue
  <2>1. c # b
    BY <1>2
  <2> QED BY <1>1, <1>2, <2>1 DEF PictureInv, SentIsTrue
<1>7. ShownIsTrue'
  <2> SUFFICES ASSUME NEW c \in Browser, NEW p \in primed' \ hist'.missed[c],
                      p \notin Plans(cycle.changes), Silent(queue'[c], p),
                      picture[c][p] # "none"
               PROVE  picture[c][p] = "up" <=> p \in base
    BY <1>1 DEF ShownIsTrue
  <2>1. p \in primed \ hist.missed[c] /\ p \in Plan
    BY <1>1, <1>2, <1>t DEF TypeOK
  <2>2. Silent(queue[c], p)
    BY <1>2, <1>3, <2>1
  <2> QED BY <2>1, <2>2 DEF PictureInv, ShownIsTrue
<1> QED BY <1>4, <1>5, <1>6, <1>7 DEF PictureInv

(* The browser shows what it is sent.                                      *)
LEMMA StreamPicture ==
  ASSUME PictureInv, TypeOK', NEW b \in Browser, stream_stock_updates(b)
  PROVE  PictureInv'
<1> DEFINE q == queue[b]
           item == Head(q)
<1>t. TypeOK /\ HistOK /\ FanOK
  BY Parts DEF PictureInv, Typed
<1>1. /\ UNCHANGED <<base, primed, regionEvents, cycle, open, hist>>
      /\ q # <<>> /\ queue' = [queue EXCEPT ![b] = Tail(q)]
      /\ picture' = IF item.kind = "region_restock" THEN picture
                    ELSE [picture EXCEPT ![b] =
                           [p \in Plan |-> IF p \in item.diff.up THEN "up"
                                           ELSE IF p \in item.diff.down THEN "down"
                                           ELSE picture[b][p]]]
  BY <1>t DEF stream_stock_updates, mem, FanOK
<1>2. /\ q \in Seq(Message) /\ item \in Message /\ item = q[1]
      /\ Len(q) \in Nat /\ Len(q) >= 1
      /\ Len(Tail(q)) = Len(q) - 1
      /\ \A i \in 1 .. Len(Tail(q)) : Tail(q)[i] = q[i + 1]
  <2>1. q \in Seq(Message)
    BY <1>t DEF FanOK
  <2> QED BY <1>1, <2>1, HeadTailProperties, LenProperties, EmptySeq
<1>3. /\ queue'[b] = Tail(q)
      /\ \A c \in Browser \ {b} : queue'[c] = queue[c] /\ picture'[c] = picture[c]
  BY <1>1, <1>t DEF FanOK
<1>4. \A p \in Plan :
        picture'[b][p] = IF Speaks(item, p)
                         THEN IF p \in item.diff.up THEN "up" ELSE "down"
                         ELSE picture[b][p]
  <2>1. item.kind \in {"stock_update", "region_restock"}
    BY <1>2 DEF Message
  <2> QED BY <1>1, <1>t, <2>1 DEF Speaks, Plans, FanOK
<1>5. b \in open
  BY <1>1 DEF PictureInv, Channels
<1>6. ChangesOnce' /\ Channels' /\ HeldIsTrue'
  <2>1. Channels'
    BY <1>1, <1>3, <1>5 DEF PictureInv, Channels
  <2> QED BY <1>1, <2>1 DEF PictureInv, ChangesOnce, HeldIsTrue
<1> HIDE DEF q, item
<1>7. \A p : Silent(Tail(q), p) <=> \A i \in 2 .. Len(q) : ~ Speaks(q[i], p)
  <2>1. ASSUME NEW p, NEW i \in 2 .. Len(q), Silent(Tail(q), p)
        PROVE  ~ Speaks(q[i], p)
    <3>1. i - 1 \in 1 .. Len(Tail(q)) /\ (i - 1) + 1 = i
      BY <1>2
    <3>2. Tail(q)[i - 1] = q[(i - 1) + 1]
      BY <1>2, <3>1
    <3> QED BY <2>1, <3>1, <3>2 DEF Silent
  <2>2. ASSUME NEW p, \A i \in 2 .. Len(q) : ~ Speaks(q[i], p),
               NEW i \in 1 .. Len(Tail(q))
        PROVE  ~ Speaks(Tail(q)[i], p)
    <3>1. i + 1 \in 2 .. Len(q)
      BY <1>2
    <3> QED BY <1>2, <2>2, <3>1
  <2> QED BY <2>1, <2>2 DEF Silent
<1>8. SentIsTrue'
  <2> SUFFICES ASSUME NEW c \in Browser, NEW p \in primed \ hist.missed[c],
                      p \notin Plans(cycle.changes),
                      NEW i \in 1 .. Len(queue'[c]), LastOf(queue'[c], p, i)
               PROVE  p \in queue'[c][i].diff.up <=> p \in base
    BY <1>1 DEF SentIsTrue
  <2>1. CASE c # b
    BY <1>3, <2>1 DEF PictureInv, SentIsTrue
  <2>2. CASE c = b
    <3>1. i \in 1 .. Len(Tail(q)) /\ LastOf(Tail(q), p, i)
      BY <1>3, <2>2
    <3>2. i + 1 \in 1 .. Len(q) /\ Tail(q)[i] = q[i + 1]
      BY <1>2, <3>1
    <3>3. ASSUME NEW j \in 1 .. Len(q), j > i + 1 PROVE ~ Speaks(q[j], p)
      <4>1. j - 1 \in 1 .. Len(Tail(q)) /\ j - 1 > i /\ (j - 1) + 1 = j
        BY <1>2, <3>1, <3>3
      <4>2. Tail(q)[j - 1] = q[(j - 1) + 1]
        BY <1>2, <4>1
      <4> QED BY <3>1, <4>1, <4>2 DEF LastOf
    <3>4. LastOf(q, p, i + 1)
      BY <3>1, <3>2, <3>3 DEF LastOf
    <3>5. \A k \in 1 .. Len(queue[b]) :
            LastOf(queue[b], p, k) => (p \in queue[b][k].diff.up <=> p \in base)
      BY <2>2 DEF PictureInv, SentIsTrue
    <3>6. p \in q[i + 1].diff.up <=> p \in base
      BY <3>2, <3>4, <3>5 DEF q
    <3> QED BY <1>3, <2>2, <3>2, <3>6
  <2> QED BY <2>1, <2>2
<1>9. ShownIsTrue'
  <2> SUFFICES ASSUME NEW c \in Browser, NEW p \in primed \ hist.missed[c],
                      p \notin Plans(cycle.changes), Silent(queue'[c], p),
                      picture'[c][p] # "none"
               PROVE  picture'[c][p] = "up" <=> p \in base
    BY <1>1 DEF ShownIsTrue
  <2>1. CASE c # b
    BY <1>3, <2>1 DEF PictureInv, ShownIsTrue
  <2>2. CASE c = b
    <3>1. \A i \in 2 .. Len(q) : ~ Speaks(q[i], p)
      BY <1>3, <1>7, <2>2
    <3>p. p \in Plan
      BY <1>t DEF TypeOK
    <3>2. CASE Speaks(item, p)
      <4>1. LastOf(q, p, 1) /\ 1 \in 1 .. Len(q)
        BY <1>2, <3>1, <3>2 DEF LastOf
      <4>2. p \in q[1].diff.up <=> p \in base
        BY <2>2, <4>1 DEF PictureInv, SentIsTrue, q
      <4> QED BY <1>2, <1>4, <2>2, <3>p, <3>2, <4>2
    <3>3. CASE ~ Speaks(item, p)
      <4>1. Silent(q, p)
        <5>1. \A i \in 1 .. Len(q) : i = 1 \/ i \in 2 .. Len(q)
          BY <1>2
        <5> QED BY <1>2, <3>1, <3>3, <5>1 DEF Silent
      <4>2. picture'[c][p] = picture[c][p]
        BY <1>4, <2>2, <3>p, <3>3
      <4> QED BY <2>2, <4>1, <4>2 DEF PictureInv, ShownIsTrue, q
    <3> QED BY <3>2, <3>3
  <2> QED BY <2>1, <2>2
<1> QED BY <1>6, <1>8, <1>9 DEF PictureInv

LEMMA EndPicture ==
  ASSUME PictureInv, TypeOK', stop \/ Restart PROVE PictureInv'
<1>t. TypeOK /\ HistOK
  BY Parts DEF PictureInv, Typed
<1>1. \A b \in Browser :
        hist'.missed[b] = hist.missed[b] \cup Plans(cycle.changes)
  <2>1. Cut.missed = [b \in Browser |-> hist.missed[b] \cup Plans(cycle.changes)]
    BY <1>t DEF Cut, HistOK
  <2>2. hist'.missed = Cut.missed
    <3>1. CASE stop
      <4>1. PICK sent : hist' = [Cut EXCEPT !.told = @ \cup sent]
        BY <3>1 DEF stop
      <4> QED BY <4>1, <1>t DEF Cut, HistOK
    <3>2. CASE Restart
      BY <3>2 DEF Restart
    <3> QED BY <3>1, <3>2
  <2> QED BY <2>1, <2>2
<1>2. cycle'.changes = NoRows /\ cycle'.todo = {}
  BY DEF stop, Restart, At
<1>3. CASE stop
  <2>1. UNCHANGED <<base, primed, regionEvents, open, queue, picture>>
    BY <1>3 DEF stop, mem, fan
  <2> QED BY <1>1, <1>2, <2>1, PictureDrops
<1>4. CASE Restart
  <2>1. /\ primed' = {} /\ regionEvents' = <<>>
        /\ queue' = [b \in Browser |-> <<>>]
    BY <1>4 DEF Restart
  <2>2. Channels'
    BY <2>1 DEF Channels
  <2> QED BY <1>2, <2>1, <2>2, NoPlans
          DEF PictureInv, ChangesOnce, HeldIsTrue, SentIsTrue, ShownIsTrue
<1> QED BY <1>3, <1>4

LEMMA PictureStep ==
  ASSUME PictureInv, [Next]_vars PROVE PictureInv'
<1>1. TypeOK'
  BY TypeStep DEF PictureInv
<1>2. CASE UNCHANGED vars
  <2>1. UNCHANGED <<base, primed, regionEvents, cycle, open, queue, picture, hist>>
    BY <1>2 DEF vars, mem, fan
  <2>2. \A i \in 1 .. Len(regionEvents') : regionEvents'[i].kind = "region_restock"
    BY <2>1 DEF PictureInv, Channels
  <2> QED BY <1>1, <2>1, <2>2, PictureKeeps DEF PictureInv, ChangesOnce
<1>3. CASE Next
  BY <1>1, <1>3, UserPicture, CyclePicture, PlanPicture, PublishPicture,
     LeavePicture, StreamPicture, EndPicture, Zenon DEF Next, CycleStep
<1> QED BY <1>2, <1>3

LEMMA PictureSays == PictureInv => PictureIsCurrent
<1> SUFFICES ASSUME PictureInv, AtRest, NEW b \in Browser, queue[b] = <<>>,
                    NEW p \in primed \ hist.missed[b], picture[b][p] # "none"
             PROVE  picture[b][p] = "up" <=> p \in base
  BY DEF PictureIsCurrent
<1>1. p \notin Plans(cycle.changes)
  BY NoPlans DEF PictureInv, ChangesOnce, AtRest
<1>2. Silent(queue[b], p)
  BY DEF Silent
<1> QED BY <1>1, <1>2 DEF PictureInv, ShownIsTrue

(* A browser that has read its queue shows of each plan what the poller    *)
(* last saw, but for the changes that were dropped at a full queue, came   *)
(* while it was away or were lost with their cycle: baselines, the cycle's *)
(* one broadcast and the queues are filled in that order (_run, _publish,  *)
(* stream_stock_updates).                                                  *)
THEOREM PicturesAreCurrent == Spec => []PictureIsCurrent
<1>1. PictureInv /\ [Next]_vars => PictureInv'
  BY PictureStep
<1> QED BY PictureInit, <1>1, PictureSays, PTL DEF Spec

=============================================================================

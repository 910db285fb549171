---------------------------- MODULE CatalogWatch ----------------------------
(***************************************************************************)
(* The price, promotion and catalogue watch of one account:                *)
(* MonitorService._check_prices_and_promos and _diff_catalog               *)
(* (app/services/monitor.py) against their tables, and the price watch     *)
(* handlers (app/api/price_watch.py) that write one of these tables.       *)
(*                                                                         *)
(* One check runs at a time, on the catalogue it fetched when it began.    *)
(* Each notification and each database call is an await.  The handlers     *)
(* have none, so a save or a deletion is one step between two of the       *)
(* check's.  All promotions here belong to one campaign: one message.      *)
(***************************************************************************)
EXTENDS Integers, FiniteSets

CONSTANTS
  Plan,
  Price,
  NoPrice,   \* not in the catalogue; not notified yet
  NoWatch,   \* no price_watches row
  Offers,    \* catalogues considered: the price of each plan
  Campaigns, \* sets of plans that may carry the campaign
  Watchable, \* plans users set a watch for
  MaxOps     \* bound: what users and OVH do, failures and restarts

ASSUME CatalogAssumption ==
  /\ IsFiniteSet(Plan)
  /\ Price \subseteq Int /\ NoPrice \notin Price
  /\ Offers \subseteq [Plan -> Price \cup {NoPrice}]
  /\ {} \in Campaigns /\ Campaigns \subseteq SUBSET Plan
  /\ Watchable \subseteq Plan
  /\ MaxOps \in Nat

VARIABLES
  offer,    \* OVH: the price of each plan
  promo,    \* OVH: the plans that carry the campaign
  watch,    \* price_watches: the row of each plan
  promos,   \* promo_events: plans whose promotion is recorded
  snapshot, \* catalog_plans
  changes,  \* catalog_changes: additions minus removals logged for each plan
  enabled,  \* the setting catalog_watch_enabled
  check,    \* the running check: where it is and its local variables
  told,     \* history: the price the user of each watch was notified of last
  split,    \* history: plans whose last notification was cut from its mark,
            \*   by a save of the watch or by the check's end
  heard,    \* history: how often each plan's promotion was announced
  unheard,  \* history: promotions recorded by a check that broke off
  primed,   \* history: the plans of the silent first snapshot
  reported, \* history: additions minus removals published for each plan
  cut,      \* history: plans whose change was recorded, and the check broke off
  nextId,   \* watches created so far: names them
  ops

rows    == <<watch, promos, snapshot, changes>>
history == <<told, split, heard, unheard, primed, reported, cut>>
vars    == <<offer, promo, rows, enabled, check, history, nextId, ops>>

Watch == [id : Nat, plan : Plan, cap : Price, notified : Price \cup {NoPrice}]
Offer == [Plan -> Price \cup {NoPrice}]
Idle  == [pc |-> "idle", offer |-> [p \in Plan |-> NoPrice], promo |-> {},
          todo |-> {}, hit |-> {}, fresh |-> {}]

TypeOK ==
  /\ offer \in Offer
  /\ promo \subseteq Plan /\ promos \subseteq Plan /\ snapshot \subseteq Plan
  /\ watch \in [Plan -> Watch \cup {NoWatch}]
  /\ changes \in [Plan -> Int] /\ reported \in [Plan -> Int]
  /\ enabled \in BOOLEAN
  /\ check \in [pc : {"idle", "price", "mark", "promo", "diff", "publish"},
                offer : Offer, promo : SUBSET Plan, todo : SUBSET Watch,
                hit : SUBSET Watch, fresh : SUBSET Plan]
  /\ told \in [Plan -> Price \cup {NoPrice}]
  /\ heard \in [Plan -> Nat]
  /\ {split, unheard, primed, cut} \subseteq SUBSET Plan
  /\ nextId \in Nat /\ ops \in 0 .. MaxOps

Init ==
  /\ offer \in Offers /\ promo = {}
  /\ watch = [p \in Plan |-> NoWatch]
  /\ promos = {} /\ snapshot = {} /\ changes = [p \in Plan |-> 0]
  /\ enabled = TRUE
  /\ check = Idle
  /\ told = [p \in Plan |-> NoPrice] /\ split = {}
  /\ heard = [p \in Plan |-> 0] /\ unheard = {}
  /\ primed = {} /\ reported = [p \in Plan |-> 0] /\ cut = {}
  /\ nextId = 0 /\ ops = 0

Op == ops < MaxOps /\ ops' = ops + 1
Offered(o) == {p \in Plan : o[p] # NoPrice}

-----------------------------------------------------------------------------
(* OVH changes its catalogue, a user a setting.                            *)

(* Prices and plans may change together (a retired range, an answer that   *)
(* is cut short), and so may the plans of the campaign.                    *)
CatalogMoves ==
  /\ Op
  /\ \/ offer' \in Offers \ {offer} /\ UNCHANGED promo
     \/ promo' \in Campaigns \ {promo} /\ UNCHANGED offer
  /\ UNCHANGED <<rows, enabled, check, history, nextId>>

SetEnabled ==
  /\ Op
  /\ enabled' = ~ enabled
  /\ UNCHANGED <<offer, promo, rows, check, history, nextId>>

-----------------------------------------------------------------------------
(* The price watch handlers.                                               *)

(* Mutant of upsert_price_watch: saving again does not arm again.          *)
upsert_keeps_state(p, cap) ==
  IF watch[p] = NoWatch
  THEN /\ watch' = [watch EXCEPT ![p] = [id |-> nextId, plan |-> p,
                                         cap |-> cap, notified |-> NoPrice]]
       /\ nextId' = nextId + 1
  ELSE watch' = [watch EXCEPT ![p].cap = cap] /\ UNCHANGED nextId

(* One row for each plan; saving it again keeps its id, and arms it again. *)
upsert_price_watch(p, cap) ==
  IF watch[p] = NoWatch
  THEN /\ watch' = [watch EXCEPT ![p] = [id |-> nextId, plan |-> p,
                                         cap |-> cap, notified |-> NoPrice]]
       /\ nextId' = nextId + 1
  ELSE /\ watch' = [watch EXCEPT ![p] = [@ EXCEPT !.cap = cap,
                                                  !.notified = NoPrice]]
       /\ UNCHANGED nextId

(* The notification of p's watch is out, and its row not marked yet.       *)
BeingNotified(p) == \E w \in check.hit : w.plan = p

create_price_watch(p, cap) ==
  /\ Op
  /\ upsert_price_watch(p, cap)
  /\ told' = [told EXCEPT ![p] = NoPrice]
  /\ split' = IF BeingNotified(p) THEN split \cup {p} ELSE split \ {p}
  /\ UNCHANGED <<offer, promo, promos, snapshot, changes, enabled, check,
                 heard, unheard, primed, reported, cut>>

delete_price_watch(p) ==
  /\ Op
  /\ watch[p] # NoWatch
  /\ watch' = [watch EXCEPT ![p] = NoWatch]
  /\ told' = [told EXCEPT ![p] = NoPrice]
  /\ split' = split \ {p}
  /\ UNCHANGED <<offer, promo, promos, snapshot, changes, enabled, check,
                 heard, unheard, primed, reported, cut, nextId>>

-----------------------------------------------------------------------------
(* _check_prices_and_promos.                                               *)

(* The catalogue (no older than OVH_CACHE_TTL: an answer of an earlier     *)
(* moment) and the rows.  Nothing the check depends on changes both.       *)
CheckStarts ==
  /\ check.pc = "idle"
  /\ check' = [Idle EXCEPT !.pc = "price", !.offer = offer, !.promo = promo,
                           !.todo = {watch[p] : p \in Plan} \ {NoWatch}]
  /\ UNCHANGED <<offer, promo, rows, enabled, history, nextId, ops>>

(* Mutant of Hit: any price at or below the cap.                           *)
HitEachTime(w) ==
  LET price == check.offer[w.plan] IN price # NoPrice /\ price <= w.cap

(* At or below the cap, and not the price it was notified of last.         *)
Hit(w) ==
  LET price == check.offer[w.plan] IN
  price # NoPrice /\ price <= w.cap /\ price # w.notified

PassWatch(w) ==
  /\ check.pc = "price" /\ w \in check.todo
  /\ ~ Hit(w)
  /\ check' = [check EXCEPT !.todo = @ \ {w}]
  /\ UNCHANGED <<offer, promo, rows, enabled, history, nextId, ops>>

Stored(w) == watch[w.plan] # NoWatch /\ watch[w.plan].id = w.id

(* notify_price_drop, which may fail to deliver, and is not tried again.   *)
NotifyDrop(w) ==
  /\ check.pc = "price" /\ w \in check.todo
  /\ Hit(w)
  /\ IF Stored(w)
     THEN /\ told' = [told EXCEPT ![w.plan] = check.offer[w.plan]]
          /\ split' = split \ {w.plan}
     ELSE UNCHANGED <<told, split>>
  /\ check' = [check EXCEPT !.pc = "mark", !.todo = @ \ {w}, !.hit = {w}]
  /\ UNCHANGED <<offer, promo, rows, enabled, nextId, ops, heard, unheard,
                 primed, reported, cut>>

(* Mutant of Marked: nothing is marked.                                    *)
MarksNothing(w) == watch

(* UPDATE ... WHERE id = ?: the row may have been saved again, or be gone. *)
Marked(w) ==
  IF Stored(w)
  THEN [watch EXCEPT ![w.plan].notified = check.offer[w.plan]]
  ELSE watch

mark_price_watch_notified ==
  /\ check.pc = "mark"
  /\ \E w \in check.hit : watch' = Marked(w)
  /\ check' = [check EXCEPT !.pc = "price", !.hit = {}]
  /\ UNCHANGED <<offer, promo, promos, snapshot, changes, enabled, history,
                 nextId, ops>>

PricesDone ==
  /\ check.pc = "price" /\ check.todo = {}
  /\ check' = [check EXCEPT !.pc = "promo"]
  /\ UNCHANGED <<offer, promo, rows, enabled, history, nextId, ops>>

(* Mutant of record_promo: any sighting counts as new.                     *)
record_promo_again(p) ==
  /\ check.pc = "promo" /\ p \in check.promo
  /\ promos' = promos \cup {p}
  /\ check' = [check EXCEPT !.promo = @ \ {p}, !.fresh = @ \cup {p}]
  /\ UNCHANGED <<offer, promo, watch, snapshot, changes, enabled, history,
                 nextId, ops>>

(* One promotion after the other: new ones are remembered for the message. *)
record_promo(p) ==
  /\ check.pc = "promo" /\ p \in check.promo
  /\ promos' = promos \cup {p}
  /\ check' = [check EXCEPT !.promo = @ \ {p},
                            !.fresh = IF p \in promos THEN @ ELSE @ \cup {p}]
  /\ UNCHANGED <<offer, promo, watch, snapshot, changes, enabled, history,
                 nextId, ops>>

(* A failing write is logged, and the promotion skipped.                   *)
RecordFails(p) ==
  /\ Op
  /\ check.pc = "promo" /\ p \in check.promo
  /\ check' = [check EXCEPT !.promo = @ \ {p}]
  /\ UNCHANGED <<offer, promo, rows, enabled, history, nextId>>

(* notify_promo, once for the campaign.                                    *)
NotifyPromos ==
  /\ check.pc = "promo" /\ check.promo = {}
  /\ heard' = [p \in Plan |-> heard[p] + IF p \in check.fresh THEN 1 ELSE 0]
  /\ check' = [check EXCEPT !.pc = "diff", !.fresh = {}]
  /\ UNCHANGED <<offer, promo, rows, enabled, nextId, ops, told, split,
                 unheard, primed, reported, cut>>

-----------------------------------------------------------------------------
(* _diff_catalog.  Nobody else writes the snapshot, so loading it and      *)
(* applying the difference is one step.                                    *)

Current == Offered(check.offer)
Gone    == snapshot \ Current
New     == Current \ snapshot
Net     == [p \in Plan |-> IF p \in New THEN 1 ELSE IF p \in Gone THEN -1 ELSE 0]

(* Mutant of MostlyMissing: half of the plans are too many, too.           *)
HalfMissing == 2 * Cardinality(Gone) >= Cardinality(snapshot)

MostlyMissing == 2 * Cardinality(Gone) > Cardinality(snapshot)

SkipDiff ==
  /\ check.pc = "diff"
  /\ \/ ~ enabled
     \/ Current = {}
     \/ snapshot # {} /\ (Gone \cup New = {} \/ MostlyMissing)
  /\ check' = Idle
  /\ UNCHANGED <<offer, promo, rows, enabled, history, nextId, ops>>

(* The first snapshot is taken in silence.                                 *)
Prime ==
  /\ check.pc = "diff" /\ enabled /\ Current # {} /\ snapshot = {}
  /\ snapshot' = Current /\ primed' = Current
  /\ check' = Idle
  /\ UNCHANGED <<offer, promo, watch, promos, changes, enabled, nextId, ops,
                 told, split, heard, unheard, reported, cut>>

CanApply ==
  /\ check.pc = "diff" /\ enabled /\ Current # {} /\ snapshot # {}
  /\ Gone \cup New # {} /\ ~ MostlyMissing

(* One transaction: the snapshot and the log of changes.                   *)
apply_catalog_diff ==
  /\ snapshot' = Current
  /\ changes' = [p \in Plan |-> changes[p] + Net[p]]

ApplyDiff ==
  /\ CanApply
  /\ apply_catalog_diff
  /\ check' = [check EXCEPT !.pc = "publish", !.fresh = Gone \cup New]
  /\ UNCHANGED <<offer, promo, watch, promos, enabled, history, nextId, ops>>

(* The event for the browsers, and with catalog_watch_notify a message.    *)
PublishChange ==
  /\ check.pc = "publish"
  /\ reported' = [p \in Plan |-> IF p \notin check.fresh THEN reported[p]
                             ELSE IF p \in snapshot THEN reported[p] + 1
                             ELSE reported[p] - 1]
  /\ check' = Idle
  /\ UNCHANGED <<offer, promo, rows, enabled, nextId, ops, told, split,
                 heard, unheard, primed, cut>>

-----------------------------------------------------------------------------
(* The check ends early: mark_price_watch_notified or a read or write of   *)
(* the diff raises, stop() cancels the poller, or the process restarts.    *)
(* A write that is in its worker thread may happen all the same.           *)
BreaksOff ==
  /\ Op
  /\ check.pc # "idle"
  /\ \/ UNCHANGED rows
     \/ /\ check.pc = "mark" /\ \E w \in check.hit : watch' = Marked(w)
        /\ UNCHANGED <<promos, snapshot, changes>>
     \/ /\ check.pc = "promo" /\ \E p \in check.promo : promos' = promos \cup {p}
        /\ UNCHANGED <<watch, snapshot, changes>>
     \/ CanApply /\ apply_catalog_diff /\ UNCHANGED <<watch, promos>>
  /\ split' = split \cup {p \in Plan : BeingNotified(p) /\ watch' = watch}
  /\ unheard' = unheard \cup (promos' \ promos)
                  \cup IF check.pc = "promo" THEN check.fresh ELSE {}
  /\ cut' = cut \cup {p \in Plan : changes'[p] # changes[p]}
                \cup IF check.pc = "publish" THEN check.fresh ELSE {}
  /\ check' = Idle
  /\ UNCHANGED <<offer, promo, enabled, nextId, told, heard, primed,
                 reported>>

-----------------------------------------------------------------------------
CheckStep ==
  \/ CheckStarts
  \/ \E w \in check.todo : PassWatch(w) \/ NotifyDrop(w)
  \/ mark_price_watch_notified
  \/ PricesDone
  \/ \E p \in check.promo : record_promo(p)
  \/ NotifyPromos
  \/ SkipDiff
  \/ Prime
  \/ ApplyDiff
  \/ PublishChange

Next ==
  \/ CheckStep
  \/ CatalogMoves
  \/ SetEnabled
  \/ \E p \in Watchable :
       (\E cap \in Price : create_price_watch(p, cap)) \/ delete_price_watch(p)
  \/ \E p \in check.promo : RecordFails(p)
  \/ BreaksOff

(* _run comes back to the check every price_check_interval seconds, and    *)
(* each call of it returns or raises.                                      *)
Spec == Init /\ [][Next]_vars /\ WF_vars(CheckStep)

-----------------------------------------------------------------------------
(* Properties.                                                             *)

(* "No spam while it sits at the same level" (monitor.py:952): a watch is  *)
(* not notified twice in a row of the same price, unless the first time    *)
(* was cut from its mark, or the watch was saved in between.               *)
DropToldOnce ==
  [][\A w \in check.todo :
       NotifyDrop(w) /\ Stored(w) /\ w.plan \notin split
         => told[w.plan] # check.offer[w.plan]]_vars

(* "Re-posting the same plan updates the threshold and re-arms the         *)
(* notification state" (price_watch.py:31): a watch counts as notified of  *)
(* the price it was notified of since it was saved last, or of none,       *)
(* unless that save came between a notification and its mark, or the check *)
(* ended there.                                                            *)
NotifiedWasTold ==
  \A p \in Plan \ split :
    watch[p] # NoWatch /\ ~ BeingNotified(p)
      => watch[p].notified = told[p]

(* A price that stays at or below the cap of a watch that stays is         *)
(* notified in the end, whatever fails now and then.                       *)
DropIsTold ==
  \A p \in Watchable :
    <>[](watch[p] # NoWatch /\ offer[p] # NoPrice /\ offer[p] <= watch[p].cap)
      => <>[](watch[p] # NoWatch /\ watch[p].notified = offer[p])

(* A promotion of a plan is announced once, after it was recorded; only a  *)
(* check that breaks off in between loses it.                              *)
PromoAccounted ==
  LET collected == IF check.pc = "promo" THEN check.fresh ELSE {} IN
  \A p \in Plan :
    heard[p] = IF p \in promos \ (unheard \cup collected) THEN 1 ELSE 0

(* The log of changes explains the snapshot from the first one on, and     *)
(* what it holds was published, except by a check that broke off.          *)
ChangesAccounted ==
  LET publishing == IF check.pc = "publish" THEN check.fresh ELSE {} IN
  \A p \in Plan :
    /\ p \in snapshot => changes[p] = IF p \in primed THEN 0 ELSE 1
    /\ p \notin snapshot => changes[p] = IF p \in primed THEN -1 ELSE 0
    /\ p \notin cut \cup publishing => reported[p] = changes[p]

(* What was recorded was reported, promotions and changes alike: only a    *)
(* check that broke off owes a report.                                     *)
ReportsAccounted == PromoAccounted /\ ChangesAccounted

(* A catalogue that stays ends up as the snapshot, unless it is empty or   *)
(* lacks more than half of the snapshot's plans: these are "a bad          *)
(* catalogue response" (monitor.py:1089) however long they last.           *)
SnapshotCatchesUp ==
  <>[]enabled =>
    <>[](\/ snapshot = Offered(offer)
         \/ Offered(offer) = {}
         \/ 2 * Cardinality(snapshot \ Offered(offer)) > Cardinality(snapshot))

=============================================================================

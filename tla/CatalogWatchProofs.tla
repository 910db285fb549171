------------------------- MODULE CatalogWatchProofs -------------------------
(***************************************************************************)
(* Theorems about CatalogWatch, for any plans, prices, campaigns, watches  *)
(* and bound.                                                              *)
(***************************************************************************)
EXTENDS CatalogWatch, TLAPS

Pcs == {"idle", "price", "mark", "promo", "diff", "publish"}
Checks == [pc : Pcs, offer : Offer, promo : SUBSET Plan, todo : SUBSET Watch,
           hit : SUBSET Watch, fresh : SUBSET Plan]

(* No check is a check.                                                    *)
LEMMA IdleIsCheck == Idle \in Checks
BY DEF Idle, Checks, Pcs, Offer

(* Marking a watch keeps the type of the rows.                             *)
LEMMA MarkedType ==
  ASSUME TypeOK, NEW w \in Watch
  PROVE  Marked(w) \in [Plan -> Watch \cup {NoWatch}]
<1>1. CASE ~ Stored(w)
  BY <1>1 DEF Marked, TypeOK
<1>2. CASE Stored(w)
  <2> DEFINE p == w.plan
             price == check.offer[p]
             row == [watch[p] EXCEPT !.notified = price]
  <2>1. p \in Plan /\ price \in Price \cup {NoPrice}
    BY DEF Watch, TypeOK, Offer
  <2>2. watch[p] \in Watch
    BY <1>2, <2>1 DEF Stored, TypeOK
  <2>3. row \in Watch
    BY <2>1, <2>2 DEF Watch
  <2>4. Marked(w) = [watch EXCEPT ![p] = row]
    BY <1>2, <2>1 DEF Marked, TypeOK
  <2> HIDE DEF p, row
  <2> QED
    BY <2>1, <2>3, <2>4 DEF TypeOK
<1> QED BY <1>1, <1>2

(* A check that breaks off leaves rows of the right type.                  *)
LEMMA BreaksOffRows ==
  ASSUME TypeOK, BreaksOff
  PROVE  /\ watch' \in [Plan -> Watch \cup {NoWatch}]
         /\ promos' \subseteq Plan /\ snapshot' \subseteq Plan
         /\ changes' \in [Plan -> Int]
<1>t. check \in Checks
  BY DEF TypeOK, Checks, Pcs
<1>0. \/ UNCHANGED rows
      \/ /\ \E w \in check.hit : watch' = Marked(w)
         /\ UNCHANGED <<promos, snapshot, changes>>
      \/ /\ \E p \in check.promo : promos' = promos \cup {p}
         /\ UNCHANGED <<watch, snapshot, changes>>
      \/ apply_catalog_diff /\ UNCHANGED <<watch, promos>>
  BY DEF BreaksOff
<1>1. CASE UNCHANGED rows
  BY <1>1 DEF rows, TypeOK
<1>2. ASSUME NEW w \in check.hit, watch' = Marked(w), UNCHANGED <<promos, snapshot, changes>>
      PROVE  /\ watch' \in [Plan -> Watch \cup {NoWatch}]
             /\ promos' \subseteq Plan /\ snapshot' \subseteq Plan
             /\ changes' \in [Plan -> Int]
  <2>1. w \in Watch
    BY <1>t DEF Checks
  <2> QED BY <1>2, <2>1, MarkedType DEF TypeOK
<1>3. ASSUME NEW p \in check.promo, promos' = promos \cup {p}, UNCHANGED <<watch, snapshot, changes>>
      PROVE  /\ watch' \in [Plan -> Watch \cup {NoWatch}]
             /\ promos' \subseteq Plan /\ snapshot' \subseteq Plan
             /\ changes' \in [Plan -> Int]
  <2>1. p \in Plan
    BY <1>t DEF Checks
  <2> QED BY <1>3, <2>1 DEF TypeOK
<1>4. CASE apply_catalog_diff /\ UNCHANGED <<watch, promos>>
  <2>1. Net \in [Plan -> Int]
    BY DEF Net
  <2> QED
    BY <1>4, <2>1 DEF apply_catalog_diff, TypeOK, Current, Offered
<1> QED BY <1>0, <1>1, <1>2, <1>3, <1>4

(* Every step keeps the types.                                             *)
LEMMA TypeStep == TypeOK /\ [Next]_vars => TypeOK'
<1> SUFFICES ASSUME TypeOK, [Next]_vars PROVE TypeOK'
  OBVIOUS
<1>t. check \in Checks /\ check.offer \in Offer /\ check.promo \subseteq Plan
      /\ check.todo \subseteq Watch /\ check.hit \subseteq Watch /\ check.fresh \subseteq Plan
  BY DEF TypeOK, Checks, Pcs
<1>o. ASSUME Op PROVE ops' \in 0 .. MaxOps
  BY <1>o, CatalogAssumption DEF Op, TypeOK
<1>c. ASSUME check' \in Checks,
             offer' \in Offer, promo' \subseteq Plan,
             watch' \in [Plan -> Watch \cup {NoWatch}],
             promos' \subseteq Plan, snapshot' \subseteq Plan,
             changes' \in [Plan -> Int], reported' \in [Plan -> Int],
             enabled' \in BOOLEAN,
             told' \in [Plan -> Price \cup {NoPrice}],
             heard' \in [Plan -> Nat],
             split' \subseteq Plan, unheard' \subseteq Plan,
             primed' \subseteq Plan, cut' \subseteq Plan,
             nextId' \in Nat, ops' \in 0 .. MaxOps
      PROVE  TypeOK'
  BY <1>c DEF TypeOK, Checks, Pcs
<1>1. ASSUME CatalogMoves PROVE TypeOK'
  BY <1>1, <1>c, <1>o, <1>t, CatalogAssumption DEF CatalogMoves, rows, history, TypeOK, Offer
<1>2. ASSUME SetEnabled PROVE TypeOK'
  BY <1>2, <1>c, <1>o, <1>t DEF SetEnabled, rows, history, TypeOK
<1>3. ASSUME NEW p \in Watchable, NEW cap \in Price, create_price_watch(p, cap)
      PROVE  TypeOK'
  <2>1. p \in Plan
    BY CatalogAssumption
  <2>2. watch' \in [Plan -> Watch \cup {NoWatch}] /\ nextId' \in Nat
    <3>1. CASE watch[p] = NoWatch
      <4>1. [id |-> nextId, plan |-> p, cap |-> cap, notified |-> NoPrice] \in Watch
        BY <2>1 DEF Watch, TypeOK
      <4> QED BY <1>3, <2>1, <3>1, <4>1 DEF create_price_watch, upsert_price_watch, TypeOK
    <3>2. CASE watch[p] # NoWatch
      <4> DEFINE row == [watch[p] EXCEPT !.cap = cap, !.notified = NoPrice]
      <4>1. watch[p] \in Watch
        BY <2>1, <3>2 DEF TypeOK
      <4>2. row \in Watch
        BY <4>1 DEF Watch
      <4>3. watch' = [watch EXCEPT ![p] = row] /\ UNCHANGED nextId
        BY <1>3, <2>1, <3>2 DEF create_price_watch, upsert_price_watch, TypeOK
      <4> HIDE DEF row
      <4> QED BY <2>1, <4>2, <4>3 DEF TypeOK
    <3> QED BY <3>1, <3>2
  <2>3. told' \in [Plan -> Price \cup {NoPrice}] /\ split' \subseteq Plan
    BY <1>3, <2>1 DEF create_price_watch, TypeOK
  <2> QED
    BY <1>3, <1>c, <1>o, <1>t, <2>2, <2>3 DEF create_price_watch, TypeOK
<1>4. ASSUME NEW p \in Watchable, delete_price_watch(p) PROVE TypeOK'
  <2>1. p \in Plan
    BY CatalogAssumption
  <2>2. /\ watch' \in [Plan -> Watch \cup {NoWatch}]
        /\ told' \in [Plan -> Price \cup {NoPrice}] /\ split' \subseteq Plan
    BY <1>4, <2>1 DEF delete_price_watch, TypeOK
  <2> QED
    BY <1>4, <1>c, <1>o, <1>t, <2>2 DEF delete_price_watch, TypeOK
<1>5. ASSUME CheckStarts PROVE TypeOK'
  <2> DEFINE todo == {watch[p] : p \in Plan} \ {NoWatch}
  <2>0. todo \subseteq Watch
    BY DEF TypeOK
  <2>a. check' = [Idle EXCEPT !.pc = "price", !.offer = offer, !.promo = promo, !.todo = todo]
    BY <1>5 DEF CheckStarts
  <2> HIDE DEF todo
  <2>1. check' \in Checks
    BY <2>0, <2>a, IdleIsCheck DEF Checks, Pcs, TypeOK
  <2> QED
    BY <1>5, <1>c, <2>1 DEF CheckStarts, rows, history, TypeOK
<1>6. ASSUME NEW w \in check.todo, PassWatch(w) \/ NotifyDrop(w) PROVE TypeOK'
  <2>1. w.plan \in Plan /\ w \in Watch
    BY <1>t DEF Watch
  <2>2. check' \in Checks
    <3>1. check.todo \ {w} \subseteq Watch /\ {w} \subseteq Watch
      BY <1>t, <2>1
    <3>2. CASE PassWatch(w)
      BY <1>t, <3>1, <3>2 DEF PassWatch, Checks
    <3>3. CASE NotifyDrop(w)
      BY <1>t, <3>1, <3>3 DEF NotifyDrop, Checks, Pcs
    <3> QED BY <1>6, <3>2, <3>3
  <2>3. told' \in [Plan -> Price \cup {NoPrice}] /\ split' \subseteq Plan
    BY <1>6, <1>t, <2>1 DEF PassWatch, NotifyDrop, history, TypeOK, Offer
  <2> QED
    BY <1>6, <1>c, <2>2, <2>3 DEF PassWatch, NotifyDrop, rows, history, TypeOK
<1>7. ASSUME mark_price_watch_notified PROVE TypeOK'
  <2>1. watch' \in [Plan -> Watch \cup {NoWatch}]
    BY <1>7, <1>t, MarkedType DEF mark_price_watch_notified
  <2>2. check' \in Checks
    BY <1>7, <1>t DEF mark_price_watch_notified, Checks, Pcs
  <2> QED
    BY <1>7, <1>c, <2>1, <2>2 DEF mark_price_watch_notified, history, TypeOK
<1>8. ASSUME PricesDone \/ SkipDiff \/ Prime PROVE TypeOK'
  <2>1. check' \in Checks
    BY <1>8, <1>t, IdleIsCheck DEF PricesDone, SkipDiff, Prime, Checks, Pcs
  <2>2. snapshot' \subseteq Plan /\ primed' \subseteq Plan
    BY <1>8 DEF PricesDone, SkipDiff, Prime, rows, history, Current, Offered, TypeOK
  <2> QED
    BY <1>8, <1>c, <2>1, <2>2 DEF PricesDone, SkipDiff, Prime, rows, history, TypeOK
<1>9. ASSUME NEW p \in check.promo, record_promo(p) \/ RecordFails(p) PROVE TypeOK'
  <2>1. p \in Plan
    BY <1>t
  <2>2. check' \in Checks
    <3>1. check.promo \ {p} \subseteq Plan
      BY <1>t
    <3>2. CASE record_promo(p)
      <4> DEFINE fresh == IF p \in promos THEN check.fresh ELSE check.fresh \cup {p}
      <4>1. fresh \subseteq Plan
        BY <1>t, <2>1
      <4>2. check' = [check EXCEPT !.promo = check.promo \ {p}, !.fresh = fresh]
        BY <3>2 DEF record_promo
      <4> HIDE DEF fresh
      <4> QED BY <1>t, <3>1, <4>1, <4>2 DEF Checks
    <3>3. CASE RecordFails(p)
      BY <1>t, <3>1, <3>3 DEF RecordFails, Checks
    <3> QED BY <1>9, <3>2, <3>3
  <2>3. promos' \subseteq Plan /\ ops' \in 0 .. MaxOps
    BY <1>9, <1>o, <2>1 DEF record_promo, RecordFails, rows, TypeOK
  <2> QED
    BY <1>9, <1>c, <2>2, <2>3 DEF record_promo, RecordFails, rows, history, TypeOK
<1>10. ASSUME NotifyPromos PROVE TypeOK'
  <2>1. check' \in Checks
    BY <1>10, <1>t DEF NotifyPromos, Checks, Pcs
  <2>2. heard' \in [Plan -> Nat]
    BY <1>10 DEF NotifyPromos, TypeOK
  <2> QED
    BY <1>10, <1>c, <2>1, <2>2 DEF NotifyPromos, rows, TypeOK
<1>11. ASSUME ApplyDiff PROVE TypeOK'
  <2>1. Gone \cup New \subseteq Plan /\ Current \subseteq Plan
    BY DEF Gone, New, Current, Offered, TypeOK
  <2>2. check' \in Checks
    BY <1>11, <1>t, <2>1 DEF ApplyDiff, Checks, Pcs
  <2>3. changes' \in [Plan -> Int]
    <3>1. Net \in [Plan -> Int]
      BY DEF Net
    <3> QED BY <1>11, <3>1 DEF ApplyDiff, apply_catalog_diff, TypeOK
  <2> QED
    BY <1>11, <1>c, <2>1, <2>2, <2>3 DEF ApplyDiff, apply_catalog_diff, history, TypeOK
<1>12. ASSUME PublishChange PROVE TypeOK'
  <2>1. reported' \in [Plan -> Int]
    BY <1>12 DEF PublishChange, TypeOK
  <2> QED
    BY <1>12, <1>c, <2>1, IdleIsCheck DEF PublishChange, rows, TypeOK
<1>13. ASSUME BreaksOff PROVE TypeOK'
  <2>1. /\ watch' \in [Plan -> Watch \cup {NoWatch}]
        /\ promos' \subseteq Plan /\ snapshot' \subseteq Plan
        /\ changes' \in [Plan -> Int]
    BY <1>13, BreaksOffRows
  <2>2. split' \subseteq Plan /\ unheard' \subseteq Plan /\ cut' \subseteq Plan
    BY <1>13, <1>t, <2>1 DEF BreaksOff, TypeOK
  <2> QED
    BY <1>13, <1>c, <1>o, <2>1, <2>2, IdleIsCheck DEF BreaksOff, TypeOK
<1>14. ASSUME UNCHANGED vars PROVE TypeOK'
  BY <1>14, <1>c, <1>t DEF vars, rows, history, TypeOK
<1> QED
  BY <1>1, <1>2, <1>3, <1>4, <1>5, <1>6, <1>7, <1>8, <1>9, <1>10, <1>11, <1>12,
     <1>13, <1>14 DEF Next, CheckStep

(* The types hold at the start.                                            *)
LEMMA TypeInit == Init => TypeOK
<1>1. ASSUME Init PROVE check \in Checks /\ offer \in Offer /\ ops \in 0 .. MaxOps
  BY <1>1, IdleIsCheck, CatalogAssumption DEF Init, Offer
<1> QED BY <1>1 DEF Init, TypeOK, Checks, Pcs

(* Every variable keeps its type.                                          *)
THEOREM TypeCorrect == Spec => []TypeOK
BY TypeInit, TypeStep, PTL DEF Spec

-----------------------------------------------------------------------------
(* Promotions.                                                             *)

(* What a check has recorded and not announced was never given up.         *)
PromoInv ==
  /\ unheard \subseteq promos
  /\ check.pc \in {"idle", "price", "mark", "diff"} => check.fresh = {}
  /\ check.pc = "promo" => check.fresh \subseteq promos \ unheard
  /\ PromoAccounted

(* Every step keeps it.                                                    *)
LEMMA PromoStep == TypeOK /\ PromoInv /\ [Next]_vars => PromoInv'
<1> SUFFICES ASSUME TypeOK, PromoInv, [Next]_vars PROVE PromoInv'
  OBVIOUS
<1>t. check \in Checks /\ heard \in [Plan -> Nat] /\ promos \subseteq Plan
  BY DEF TypeOK, Checks, Pcs
<1>p. /\ unheard \subseteq promos
      /\ check.pc \in {"idle", "price", "mark", "diff"} => check.fresh = {}
      /\ check.pc = "promo" => check.fresh \subseteq promos \ unheard
      /\ check.pc = "promo" => \A p \in Plan :
           heard[p] = IF p \in promos \ (unheard \cup check.fresh) THEN 1 ELSE 0
      /\ check.pc # "promo" => \A p \in Plan :
           heard[p] = IF p \in promos \ unheard THEN 1 ELSE 0
  BY DEF PromoInv, PromoAccounted
(* Away from the promotions a check has nothing collected.                 *)
<1>q. ASSUME UNCHANGED <<heard, promos, unheard>>, check.pc # "promo",
             check' \in Checks, check'.pc # "promo",
             check'.pc # "publish" => check'.fresh = {}
      PROVE  PromoInv'
  BY <1>p, <1>q DEF PromoInv, PromoAccounted, Checks, Pcs
<1>1. ASSUME UNCHANGED <<heard, promos, unheard, check>> PROVE PromoInv'
  BY <1>1 DEF PromoInv, PromoAccounted
<1>2. CASE CheckStarts
  BY <1>2, <1>p, <1>q, TypeStep DEF CheckStarts, rows, history, Idle, TypeOK, Checks, Pcs
<1>3. ASSUME NEW w \in check.todo, PassWatch(w) \/ NotifyDrop(w) PROVE PromoInv'
  <2>1. /\ UNCHANGED <<heard, promos, unheard>> /\ check.pc = "price"
        /\ check'.pc \in {"price", "mark"} /\ check'.fresh = check.fresh
    BY <1>3, <1>t DEF PassWatch, NotifyDrop, rows, history, Checks
  <2>2. check' \in Checks
    BY TypeStep DEF TypeOK, Checks, Pcs
  <2> QED BY <1>p, <1>q, <2>1, <2>2
<1>4. CASE mark_price_watch_notified
  <2>1. /\ UNCHANGED <<heard, promos, unheard>> /\ check.pc = "mark"
        /\ check'.pc = "price" /\ check'.fresh = check.fresh
    BY <1>4, <1>t DEF mark_price_watch_notified, history, Checks
  <2>2. check' \in Checks
    BY TypeStep DEF TypeOK, Checks, Pcs
  <2> QED BY <1>p, <1>q, <2>1, <2>2
<1>5. CASE PricesDone
  <2>1. /\ UNCHANGED <<heard, promos, unheard>> /\ check.pc = "price"
        /\ check'.pc = "promo" /\ check'.fresh = check.fresh
    BY <1>5, <1>t DEF PricesDone, rows, history, Checks
  <2> QED BY <1>p, <2>1 DEF PromoInv, PromoAccounted
<1>6. ASSUME NEW p \in check.promo, record_promo(p) PROVE PromoInv'
  <2>1. /\ check.pc = "promo" /\ check'.pc = "promo"
        /\ check'.fresh = IF p \in promos THEN check.fresh ELSE check.fresh \cup {p}
        /\ promos' = promos \cup {p} /\ UNCHANGED <<heard, unheard>>
    BY <1>6, <1>t DEF record_promo, history, Checks
  <2> QED BY <1>p, <2>1 DEF PromoInv, PromoAccounted
<1>7. ASSUME NEW p \in check.promo, RecordFails(p) PROVE PromoInv'
  <2>1. /\ check.pc = "promo" /\ check'.pc = "promo" /\ check'.fresh = check.fresh
        /\ UNCHANGED <<heard, promos, unheard>>
    BY <1>7, <1>t DEF RecordFails, rows, history, Checks
  <2> QED BY <1>p, <2>1 DEF PromoInv, PromoAccounted
<1>8. CASE NotifyPromos
  <2>1. /\ check.pc = "promo" /\ check'.pc = "diff" /\ check'.fresh = {}
        /\ heard' = [p \in Plan |-> heard[p] + IF p \in check.fresh THEN 1 ELSE 0]
        /\ UNCHANGED <<promos, unheard>>
    BY <1>8, <1>t DEF NotifyPromos, rows, Checks
  <2>2. \A p \in Plan : heard'[p] = IF p \in promos \ unheard THEN 1 ELSE 0
    BY <1>p, <2>1
  <2> QED BY <1>p, <2>1, <2>2 DEF PromoInv, PromoAccounted
<1>9. CASE SkipDiff \/ Prime \/ PublishChange
  <2>1. /\ UNCHANGED <<heard, promos, unheard>> /\ check.pc # "promo" /\ check' = Idle
    BY <1>9 DEF SkipDiff, Prime, PublishChange, rows, history
  <2> QED BY <1>q, <2>1, IdleIsCheck DEF Idle
<1>10. CASE ApplyDiff
  <2>1. /\ UNCHANGED <<heard, promos, unheard>> /\ check.pc = "diff" /\ check'.pc = "publish"
    BY <1>10, <1>t DEF ApplyDiff, CanApply, history, Checks
  <2>2. check' \in Checks
    BY TypeStep DEF TypeOK, Checks, Pcs
  <2> QED BY <1>q, <2>1, <2>2
<1>11. CASE BreaksOff
  <2>1. /\ check' = Idle /\ UNCHANGED heard /\ promos \subseteq promos'
        /\ check.pc # "promo" => promos' = promos
        /\ unheard' = unheard \cup (promos' \ promos)
                      \cup IF check.pc = "promo" THEN check.fresh ELSE {}
    BY <1>11 DEF BreaksOff, CanApply, rows
  <2>2. check'.pc = "idle" /\ check'.fresh = {}
    BY <2>1 DEF Idle
  <2> QED BY <1>p, <2>1, <2>2 DEF PromoInv, PromoAccounted
<1>12. CASE CatalogMoves \/ SetEnabled \/ UNCHANGED vars
  BY <1>1, <1>12 DEF CatalogMoves, SetEnabled, vars, rows, history
<1>13. ASSUME NEW p \in Watchable,
              (\E cap \in Price : create_price_watch(p, cap)) \/ delete_price_watch(p)
       PROVE  PromoInv'
  BY <1>1, <1>13 DEF create_price_watch, delete_price_watch
<1> QED
  BY <1>2, <1>3, <1>4, <1>5, <1>6, <1>7, <1>8, <1>9, <1>10, <1>11, <1>12, <1>13
     DEF Next, CheckStep

(* Each promotion recorded is announced exactly once, when the scan that   *)
(* recorded it ends, or was recorded by a check that broke off.            *)
THEOREM PromotionsAreAnnounced == Spec => []PromoAccounted
<1>1. Init => TypeOK /\ PromoInv
  <2>1. Init => PromoInv
    BY DEF Init, PromoInv, PromoAccounted, Idle
  <2> QED BY <2>1, TypeInit
<1>2. PromoInv => PromoAccounted
  BY DEF PromoInv
<1> QED
  BY <1>1, <1>2, TypeStep, PromoStep, PTL DEF Spec

-----------------------------------------------------------------------------
(* The log of changes.                                                     *)

(* The first snapshot is the only one taken in silence, and a change that  *)
(* was applied and not published yet is the only thing the log is ahead of *)
(* what was published.                                                     *)
ChangesInv ==
  /\ snapshot = {} => primed = {}
  /\ \A p \in snapshot : changes[p] = IF p \in primed THEN 0 ELSE 1
  /\ \A p \in Plan \ snapshot : changes[p] = IF p \in primed THEN -1 ELSE 0
  /\ check.pc # "publish" => \A p \in Plan \ cut : reported[p] = changes[p]
  /\ check.pc = "publish" => \A p \in Plan \ cut :
       IF p \notin check.fresh THEN reported[p] = changes[p]
       ELSE IF p \in snapshot THEN reported[p] + 1 = changes[p]
       ELSE reported[p] - 1 = changes[p]

(* Applying a difference keeps the log in line with the snapshot.          *)
LEMMA ApplyKeepsLog ==
  ASSUME TypeOK, ChangesInv, CanApply, apply_catalog_diff
  PROVE  /\ snapshot' # {}
         /\ \A p \in snapshot' : changes'[p] = IF p \in primed THEN 0 ELSE 1
         /\ \A p \in Plan \ snapshot' : changes'[p] = IF p \in primed THEN -1 ELSE 0
         /\ \A p \in Plan :
              IF p \in New THEN p \in snapshot' /\ changes'[p] = changes[p] + 1
              ELSE IF p \in Gone THEN p \notin snapshot' /\ changes'[p] = changes[p] - 1
              ELSE changes'[p] = changes[p]
<1>t. /\ changes \in [Plan -> Int] /\ snapshot \subseteq Plan /\ Current \subseteq Plan
  BY DEF TypeOK, Current, Offered
<1>1. /\ snapshot' = Current /\ Current # {}
      /\ changes' = [p \in Plan |-> changes[p] + Net[p]]
  BY DEF apply_catalog_diff, CanApply
<1>2. \A p \in Plan :
        changes'[p] = IF p \in New THEN changes[p] + 1
                      ELSE IF p \in Gone THEN changes[p] - 1 ELSE changes[p]
  <2>1. \A p \in Plan :
          Net[p] = IF p \in New THEN 1 ELSE IF p \in Gone THEN -1 ELSE 0
    BY DEF Net
  <2> QED BY <1>t, <1>1, <2>1
<1>3. /\ \A p : p \in New <=> p \in Current /\ p \notin snapshot
      /\ \A p : p \in Gone <=> p \in snapshot /\ p \notin Current
  BY DEF New, Gone
<1>4. /\ \A p \in snapshot : changes[p] = IF p \in primed THEN 0 ELSE 1
      /\ \A p \in Plan \ snapshot : changes[p] = IF p \in primed THEN -1 ELSE 0
  BY DEF ChangesInv
<1> HIDE DEF New, Gone, Current
<1>5. \A p \in Plan \ Current : changes'[p] = IF p \in primed THEN -1 ELSE 0
  BY <1>t, <1>2, <1>3, <1>4
<1>6. \A p \in Current : changes'[p] = IF p \in primed THEN 0 ELSE 1
  BY <1>t, <1>2, <1>3, <1>4
<1> QED BY <1>t, <1>1, <1>2, <1>3, <1>5, <1>6

(* Every step keeps it.                                                    *)
LEMMA ChangesStep == TypeOK /\ ChangesInv /\ [Next]_vars => ChangesInv'
<1> SUFFICES ASSUME TypeOK, ChangesInv, [Next]_vars PROVE ChangesInv'
  OBVIOUS
<1>t. /\ check \in Checks /\ changes \in [Plan -> Int] /\ reported \in [Plan -> Int]
      /\ snapshot \subseteq Plan /\ Current \subseteq Plan
  BY DEF TypeOK, Checks, Pcs, Current, Offered
<1>1. ASSUME UNCHANGED <<snapshot, changes, primed, reported, cut>>,
             \/ check' = check
             \/ check.pc # "publish" /\ check'.pc # "publish"
      PROVE  ChangesInv'
  BY <1>1 DEF ChangesInv
<1>2. CASE CatalogMoves \/ SetEnabled \/ UNCHANGED vars
  BY <1>1, <1>2 DEF CatalogMoves, SetEnabled, vars, rows, history
<1>3. ASSUME NEW p \in Watchable,
             (\E cap \in Price : create_price_watch(p, cap)) \/ delete_price_watch(p)
      PROVE  ChangesInv'
  BY <1>1, <1>3 DEF create_price_watch, delete_price_watch
<1>4. CASE CheckStarts \/ mark_price_watch_notified \/ PricesDone \/ NotifyPromos
  <2>1. /\ UNCHANGED <<snapshot, changes, primed, reported, cut>>
        /\ check.pc # "publish" /\ check'.pc # "publish"
    BY <1>4, <1>t DEF CheckStarts, mark_price_watch_notified, PricesDone, NotifyPromos,
                      rows, history, Idle, Checks
  <2> QED BY <1>1, <2>1
<1>5. ASSUME NEW w \in check.todo, PassWatch(w) \/ NotifyDrop(w) PROVE ChangesInv'
  <2>1. /\ UNCHANGED <<snapshot, changes, primed, reported, cut>>
        /\ check.pc # "publish" /\ check'.pc # "publish"
    BY <1>5, <1>t DEF PassWatch, NotifyDrop, rows, history, Checks
  <2> QED BY <1>1, <2>1
<1>6. ASSUME NEW p \in check.promo, record_promo(p) \/ RecordFails(p) PROVE ChangesInv'
  <2>1. /\ UNCHANGED <<snapshot, changes, primed, reported, cut>>
        /\ check.pc # "publish" /\ check'.pc # "publish"
    BY <1>6, <1>t DEF record_promo, RecordFails, rows, history, Checks
  <2> QED BY <1>1, <2>1
<1>7. CASE SkipDiff
  <2>1. /\ UNCHANGED <<snapshot, changes, primed, reported, cut>>
        /\ check.pc # "publish" /\ check'.pc # "publish"
    BY <1>7 DEF SkipDiff, rows, history, Idle
  <2> QED BY <1>1, <2>1
<1>8. CASE Prime
  <2>1. /\ snapshot = {} /\ snapshot' = Current /\ primed' = Current /\ Current # {}
        /\ UNCHANGED <<changes, reported, cut>> /\ check.pc = "diff" /\ check'.pc = "idle"
    BY <1>8 DEF Prime, Idle
  <2>2. \A p \in Plan : changes[p] = 0
    BY <2>1 DEF ChangesInv
  <2> QED BY <1>t, <2>1, <2>2 DEF ChangesInv
<1>9. CASE ApplyDiff
  <2>1. /\ CanApply /\ apply_catalog_diff
        /\ check.pc = "diff" /\ check'.pc = "publish" /\ check'.fresh = Gone \cup New
        /\ UNCHANGED <<primed, reported, cut>>
    BY <1>9, <1>t DEF ApplyDiff, CanApply, history, Checks
  <2>2. \A p \in Plan \ cut : reported[p] = changes[p]
    BY <2>1 DEF ChangesInv
  <2>3. \A p \in Plan \ cut :
          IF p \notin check'.fresh THEN reported[p] = changes'[p]
          ELSE IF p \in snapshot' THEN reported[p] + 1 = changes'[p]
          ELSE reported[p] - 1 = changes'[p]
    <3> HIDE DEF New, Gone
    <3> QED BY <1>t, <2>1, <2>2, ApplyKeepsLog
  <2> QED BY <2>1, <2>3, ApplyKeepsLog DEF ChangesInv
<1>10. CASE PublishChange
  <2>1. /\ check.pc = "publish" /\ check'.pc = "idle"
        /\ reported' = [p \in Plan |-> IF p \notin check.fresh THEN reported[p]
                                        ELSE IF p \in snapshot THEN reported[p] + 1
                                        ELSE reported[p] - 1]
        /\ UNCHANGED <<snapshot, changes, primed, cut>>
    BY <1>10 DEF PublishChange, rows, Idle
  <2>2. \A p \in Plan \ cut : reported'[p] = changes[p]
    BY <2>1 DEF ChangesInv
  <2> QED BY <2>1, <2>2 DEF ChangesInv
<1>11. CASE BreaksOff
  <2>1. /\ check'.pc = "idle" /\ UNCHANGED <<primed, reported>>
        /\ cut' = cut \cup {p \in Plan : changes'[p] # changes[p]}
                      \cup IF check.pc = "publish" THEN check.fresh ELSE {}
        /\ UNCHANGED <<snapshot, changes>> \/ (CanApply /\ apply_catalog_diff)
    BY <1>11 DEF BreaksOff, rows, Idle
  <2>2. \A p \in Plan \ cut' : reported'[p] = changes'[p]
    BY <2>1 DEF ChangesInv
  <2>3. CASE UNCHANGED <<snapshot, changes>>
    BY <2>1, <2>2, <2>3 DEF ChangesInv
  <2>4. CASE CanApply /\ apply_catalog_diff
    BY <2>1, <2>2, <2>4, ApplyKeepsLog DEF ChangesInv
  <2> QED BY <2>1, <2>3, <2>4
<1> QED
  BY <1>2, <1>3, <1>4, <1>5, <1>6, <1>7, <1>8, <1>9, <1>10, <1>11 DEF Next, CheckStep

(* The log of changes always explains the snapshot, and whatever it holds  *)
(* was published, except by a check that broke off in between.             *)
THEOREM ChangesArePublished == Spec => []ChangesAccounted
<1>1. Init => TypeOK /\ ChangesInv
  <2>1. Init => ChangesInv
    BY DEF Init, ChangesInv, Idle
  <2> QED BY <2>1, TypeInit
<1>2. TypeOK /\ ChangesInv => ChangesAccounted
  BY DEF TypeOK, ChangesInv, ChangesAccounted
<1> QED
  BY <1>1, <1>2, TypeStep, ChangesStep, PTL DEF Spec

(* What a check recorded, it reported, unless it broke off in between:     *)
(* promotions and changes of the catalogue, for any plans and campaigns.   *)
THEOREM ReportsAreMade == Spec => []ReportsAccounted
<1>1. PromoAccounted /\ ChangesAccounted => ReportsAccounted
  BY DEF ReportsAccounted
<1> QED
  BY <1>1, PromotionsAreAnnounced, ChangesArePublished, PTL

-----------------------------------------------------------------------------
(* Price watches.                                                          *)

(* The rows carry their plan, and an id that was given to no other.        *)
RowsNamed ==
  \A p \in Plan :
    watch[p] # NoWatch => watch[p].plan = p /\ watch[p].id < nextId

(* The watches a check has loaded and not passed: one of each plan, and at *)
(* most one of them notified and not marked.                               *)
OneOfEachPlan ==
  /\ check.pc = "mark" <=> check.hit # {}
  /\ \A v, w \in check.hit : v = w
  /\ \A v \in check.todo : \A w \in check.hit : v.plan # w.plan
  /\ \A v, w \in check.todo : v.plan = w.plan => v = w
  /\ \A w \in check.todo \cup check.hit : w.id < nextId

(* A watch still to be looked at was loaded with the price its user was    *)
(* told, or was saved since.                                               *)
LoadedIsTold ==
  \A w \in check.todo :
    Stored(w) /\ w.plan \notin split => told[w.plan] \in {NoPrice, w.notified}

(* The watch being notified was told the price it will be marked with; if  *)
(* its row is gone, the mark touches nothing, and the row that took its    *)
(* place agrees with what was told.                                        *)
MarkIsTold ==
  \A w \in check.hit :
    w.plan \notin split =>
      /\ Stored(w) => told[w.plan] = check.offer[w.plan]
      /\ ~ Stored(w) /\ watch[w.plan] # NoWatch
           => watch[w.plan].notified = told[w.plan]

WatchInv ==
  RowsNamed /\ OneOfEachPlan /\ LoadedIsTold /\ MarkIsTold /\ NotifiedWasTold

(* A watch that was marked has its price; the other rows are as they were. *)
LEMMA MarkedRow ==
  ASSUME TypeOK, NEW w \in Watch
  PROVE  /\ ~ Stored(w) => Marked(w) = watch
         /\ \A p \in Plan \ {w.plan} : Marked(w)[p] = watch[p]
         /\ Stored(w) =>
              /\ Marked(w)[w.plan] # NoWatch => Marked(w)[w.plan].notified = check.offer[w.plan]
              /\ Marked(w)[w.plan].plan = watch[w.plan].plan
              /\ Marked(w)[w.plan].id = watch[w.plan].id
<1> DEFINE p == w.plan
           row == [watch[p] EXCEPT !.notified = check.offer[p]]
<1>1. CASE ~ Stored(w)
  BY <1>1 DEF Marked
<1>2. CASE Stored(w)
  <2>1. p \in Plan /\ watch[p] \in Watch
    BY <1>2 DEF Watch, Stored, TypeOK
  <2>2. row.notified = check.offer[p] /\ row.plan = watch[p].plan /\ row.id = watch[p].id
    BY <2>1 DEF Watch
  <2>3. Marked(w) = [watch EXCEPT ![p] = row]
    BY <1>2, <2>1 DEF Marked, TypeOK
  <2> HIDE DEF row
  <2> QED BY <1>2, <2>1, <2>2, <2>3 DEF TypeOK
<1> QED BY <1>1, <1>2

(* Without a check there are only the rows to speak of.                    *)
LEMMA BetweenChecks ==
  ASSUME check.hit = {}, check.todo = {}, check.pc # "mark", RowsNamed,
         \A p \in Plan \ split : watch[p] # NoWatch => watch[p].notified = told[p]
  PROVE  WatchInv
BY DEF WatchInv, RowsNamed, OneOfEachPlan, LoadedIsTold, MarkIsTold, NotifiedWasTold

(* Every step keeps the invariant of the watches.                          *)
LEMMA WatchStep == TypeOK /\ WatchInv /\ [Next]_vars => WatchInv'
<1> SUFFICES ASSUME TypeOK, WatchInv, [Next]_vars PROVE WatchInv'
  OBVIOUS
<1>t. /\ check \in Checks /\ told \in [Plan -> Price \cup {NoPrice}] /\ nextId \in Nat
      /\ watch \in [Plan -> Watch \cup {NoWatch}]
      /\ check.todo \subseteq Watch /\ check.hit \subseteq Watch
      /\ \A w \in Watch : w.plan \in Plan /\ w.id \in Nat
  BY DEF TypeOK, Checks, Pcs, Watch
<1>w. RowsNamed /\ OneOfEachPlan /\ LoadedIsTold /\ MarkIsTold /\ NotifiedWasTold
  BY DEF WatchInv
<1>1. ASSUME UNCHANGED <<watch, told, split, nextId>>,
             check'.todo = check.todo, check'.hit = check.hit,
             check'.offer = check.offer, check'.pc = "mark" <=> check.pc = "mark"
      PROVE  WatchInv'
  BY <1>1, <1>w DEF WatchInv, RowsNamed, OneOfEachPlan, LoadedIsTold, MarkIsTold,
                    NotifiedWasTold, Stored, BeingNotified
<1>2. CASE CatalogMoves \/ SetEnabled \/ UNCHANGED vars
  BY <1>1, <1>2 DEF CatalogMoves, SetEnabled, vars, rows, history
<1>3. CASE PricesDone \/ NotifyPromos \/ ApplyDiff
  BY <1>1, <1>3, <1>t DEF PricesDone, NotifyPromos, ApplyDiff, CanApply, rows, history,
                          Checks
<1>4. ASSUME NEW p \in check.promo, record_promo(p) \/ RecordFails(p) PROVE WatchInv'
  BY <1>1, <1>4, <1>t DEF record_promo, RecordFails, rows, history, Checks
<1>5. CASE SkipDiff \/ Prime \/ PublishChange
  <2>1. /\ check' = Idle /\ UNCHANGED <<watch, told, split, nextId>> /\ check.hit = {}
    BY <1>5, <1>w DEF SkipDiff, Prime, PublishChange, rows, history, OneOfEachPlan
  <2>2. check'.hit = {} /\ check'.todo = {} /\ check'.pc # "mark"
    BY <2>1 DEF Idle
  <2> QED
    BY <1>w, <2>1, <2>2
    DEF WatchInv, RowsNamed, OneOfEachPlan, LoadedIsTold, MarkIsTold, NotifiedWasTold,
        BeingNotified
<1>6. CASE CheckStarts
  <2> DEFINE todo == {watch[p] : p \in Plan} \ {NoWatch}
  <2>1. /\ check.hit = {} /\ UNCHANGED <<watch, told, split, nextId>>
        /\ check' = [Idle EXCEPT !.pc = "price", !.offer = offer, !.promo = promo, !.todo = todo]
    BY <1>6, <1>w DEF CheckStarts, rows, history, OneOfEachPlan
  <2>2. /\ \A w \in todo : w \in Watch /\ w = watch[w.plan] /\ w.id < nextId
        /\ \A p \in Plan \ split : watch[p] # NoWatch => watch[p].notified = told[p]
    BY <1>t, <1>w, <2>1 DEF RowsNamed, NotifiedWasTold, BeingNotified
  <2> HIDE DEF todo
  <2>3. check'.hit = {} /\ check'.todo = todo /\ check'.pc = "price"
    BY <2>1 DEF Idle
  <2>4. OneOfEachPlan'
    BY <2>1, <2>2, <2>3 DEF OneOfEachPlan
  <2>5. LoadedIsTold'
    BY <1>t, <2>1, <2>2, <2>3 DEF LoadedIsTold, Stored
  <2> QED
    BY <1>w, <2>1, <2>2, <2>3, <2>4, <2>5
    DEF WatchInv, RowsNamed, MarkIsTold, NotifiedWasTold
<1>7. ASSUME NEW w \in check.todo, PassWatch(w) PROVE WatchInv'
  <2>1. /\ UNCHANGED <<watch, told, split, nextId>> /\ check.pc = "price"
        /\ check'.pc = "price" /\ check'.todo = check.todo \ {w}
        /\ check'.hit = check.hit /\ check'.offer = check.offer
    BY <1>7, <1>t DEF PassWatch, rows, history, Checks
  <2> QED
    BY <1>w, <2>1 DEF WatchInv, RowsNamed, OneOfEachPlan, LoadedIsTold, MarkIsTold,
                      NotifiedWasTold, Stored, BeingNotified
<1>8. ASSUME NEW w \in check.todo, NotifyDrop(w) PROVE WatchInv'
  <2> DEFINE p == w.plan
             price == check.offer[p]
  <2>1. /\ UNCHANGED <<watch, nextId>> /\ check.pc = "price" /\ check.hit = {}
        /\ check'.pc = "mark" /\ check'.todo = check.todo \ {w}
        /\ check'.hit = {w} /\ check'.offer = check.offer
    BY <1>8, <1>t, <1>w DEF NotifyDrop, rows, Checks, OneOfEachPlan
  <2>2. /\ Stored(w) => told' = [told EXCEPT ![p] = price] /\ split' = split \ {p}
        /\ ~ Stored(w) => told' = told /\ split' = split
    BY <1>8 DEF NotifyDrop
  <2>3. w \in Watch /\ p \in Plan
    BY <1>t
  <2>4. RowsNamed' /\ OneOfEachPlan'
    BY <1>w, <2>1, <2>3 DEF RowsNamed, OneOfEachPlan
  <2>5. \A q \in Plan \ {p} : told'[q] = told[q] /\ (q \in split' <=> q \in split)
    BY <1>t, <2>2, <2>3
  <2>6. LoadedIsTold'
    <3>1. \A v \in check.todo \ {w} : v.plan # p
      BY <1>w DEF OneOfEachPlan
    <3> QED BY <1>t, <1>w, <2>1, <2>5, <3>1 DEF LoadedIsTold, Stored
  <2>7. NotifiedWasTold'
    BY <1>w, <2>1, <2>5 DEF NotifiedWasTold, BeingNotified
  <2>8. MarkIsTold'
    <3>1. CASE Stored(w)
      BY <1>t, <2>1, <2>2, <2>3, <3>1 DEF MarkIsTold, Stored
    <3>2. CASE ~ Stored(w)
      BY <1>w, <2>1, <2>2, <2>3, <3>2 DEF MarkIsTold, Stored, NotifiedWasTold, BeingNotified
    <3> QED BY <3>1, <3>2
  <2> QED BY <2>4, <2>6, <2>7, <2>8 DEF WatchInv
<1>9. CASE mark_price_watch_notified
  <2>1. PICK w \in check.hit : watch' = Marked(w)
    BY <1>9 DEF mark_price_watch_notified
  <2>2. /\ UNCHANGED <<told, split, nextId>> /\ check.pc = "mark" /\ check'.pc = "price"
        /\ check'.todo = check.todo /\ check'.hit = {} /\ check'.offer = check.offer
    BY <1>9, <1>t DEF mark_price_watch_notified, history, Checks
  <2>3. w \in Watch /\ w.plan \in Plan /\ check.hit = {w}
    BY <1>t, <1>w DEF OneOfEachPlan
  <2>4. /\ \A p \in Plan \ {w.plan} : watch'[p] = watch[p]
        /\ ~ Stored(w) => watch' = watch
        /\ Stored(w) => /\ watch'[w.plan] # NoWatch => watch'[w.plan].notified = check.offer[w.plan]
                        /\ watch'[w.plan].plan = watch[w.plan].plan
                        /\ watch'[w.plan].id = watch[w.plan].id
    BY <2>1, <2>3, MarkedRow
  <2>5. RowsNamed'
    BY <1>w, <2>2, <2>3, <2>4 DEF RowsNamed, Stored
  <2>6. OneOfEachPlan'
    BY <1>w, <2>2 DEF OneOfEachPlan
  <2>7. LoadedIsTold' /\ MarkIsTold'
    <3>1. \A v \in check.todo : v.plan \in Plan \ {w.plan}
      BY <1>t, <1>w, <2>3 DEF OneOfEachPlan
    <3> QED BY <1>w, <2>2, <2>4, <3>1 DEF LoadedIsTold, MarkIsTold, Stored
  <2>8. ASSUME NEW p \in Plan, p \notin split, watch'[p] # NoWatch
        PROVE  watch'[p].notified = told[p]
    <3>1. CASE p # w.plan
      BY <1>w, <2>3, <2>4, <2>8, <3>1 DEF NotifiedWasTold, BeingNotified
    <3>2. CASE p = w.plan
      BY <1>w, <2>3, <2>4, <2>8, <3>2 DEF MarkIsTold
    <3> QED BY <3>1, <3>2
  <2>9. NotifiedWasTold'
    BY <2>2, <2>8 DEF NotifiedWasTold
  <2> QED BY <2>5, <2>6, <2>7, <2>9 DEF WatchInv
<1>10. ASSUME NEW p \in Watchable, NEW cap \in Price, create_price_watch(p, cap)
       PROVE  WatchInv'
  <2>1. p \in Plan
    BY CatalogAssumption
  <2>2. /\ check' = check /\ told' = [told EXCEPT ![p] = NoPrice]
        /\ split' = IF BeingNotified(p) THEN split \cup {p} ELSE split \ {p}
    BY <1>10 DEF create_price_watch
  <2>3. /\ nextId' \in Nat /\ nextId <= nextId'
        /\ \A q \in Plan \ {p} : watch'[q] = watch[q]
        /\ watch'[p] # NoWatch => /\ watch'[p].notified = NoPrice /\ watch'[p].plan = p
                                  /\ watch'[p].id < nextId'
        /\ IF watch[p] = NoWatch THEN watch'[p].id = nextId ELSE watch'[p].id = watch[p].id
    <3>1. CASE watch[p] = NoWatch
      BY <1>10, <1>t, <2>1, <3>1 DEF create_price_watch, upsert_price_watch
    <3>2. CASE watch[p] # NoWatch
      <4> DEFINE row == [watch[p] EXCEPT !.cap = cap, !.notified = NoPrice]
      <4>1. watch[p] \in Watch
        BY <1>t, <2>1, <3>2
      <4>2. row.notified = NoPrice /\ row.plan = watch[p].plan /\ row.id = watch[p].id
        BY <4>1 DEF Watch
      <4>3. watch' = [watch EXCEPT ![p] = row] /\ UNCHANGED nextId
        BY <1>10, <1>t, <2>1, <3>2 DEF create_price_watch, upsert_price_watch
      <4> HIDE DEF row
      <4> QED BY <1>t, <1>w, <2>1, <3>2, <4>2, <4>3 DEF RowsNamed
    <3> QED BY <3>1, <3>2
  <2>4. RowsNamed'
    BY <1>t, <1>w, <2>3 DEF RowsNamed, Watch
  <2>5. OneOfEachPlan'
    BY <1>t, <1>w, <2>2, <2>3 DEF OneOfEachPlan
  <2>6. \A w \in check.todo \cup check.hit :
          /\ w.plan = p => told'[w.plan] = NoPrice
          /\ w.plan # p => /\ told'[w.plan] = told[w.plan] /\ watch'[w.plan] = watch[w.plan]
                           /\ w.plan \in split' <=> w.plan \in split
    BY <1>t, <2>1, <2>2, <2>3
  <2>7. LoadedIsTold'
    BY <1>w, <2>2, <2>6 DEF LoadedIsTold, Stored
  <2>8. MarkIsTold'
    <3>1. \A w \in check.hit : w.plan = p => w.plan \in split'
      BY <2>2 DEF BeingNotified
    <3> QED BY <1>w, <2>2, <2>6, <3>1 DEF MarkIsTold, Stored
  <2>9. NotifiedWasTold'
    BY <1>t, <1>w, <2>1, <2>2, <2>3 DEF NotifiedWasTold, BeingNotified
  <2> QED BY <2>4, <2>5, <2>7, <2>8, <2>9 DEF WatchInv
<1>11. ASSUME NEW p \in Watchable, delete_price_watch(p) PROVE WatchInv'
  <2>1. p \in Plan
    BY CatalogAssumption
  <2>2. /\ check' = check /\ told' = [told EXCEPT ![p] = NoPrice] /\ nextId' = nextId
        /\ split' = split \ {p} /\ watch' = [watch EXCEPT ![p] = NoWatch]
    BY <1>11 DEF delete_price_watch
  <2>3. /\ watch'[p] = NoWatch
        /\ \A q \in Plan \ {p} : /\ watch'[q] = watch[q] /\ told'[q] = told[q]
                                 /\ q \in split' <=> q \in split
    BY <1>t, <2>1, <2>2
  <2>4. RowsNamed' /\ OneOfEachPlan' /\ NotifiedWasTold'
    BY <1>w, <2>2, <2>3 DEF RowsNamed, OneOfEachPlan, NotifiedWasTold, BeingNotified
  <2>5. LoadedIsTold' /\ MarkIsTold'
    BY <1>t, <1>w, <2>2, <2>3 DEF LoadedIsTold, MarkIsTold, Stored
  <2> QED BY <2>4, <2>5 DEF WatchInv
<1>12. CASE BreaksOff
  <2>1. /\ check' = Idle /\ UNCHANGED <<told, nextId>>
        /\ split' = split \cup {p \in Plan : BeingNotified(p) /\ watch' = watch}
        /\ \/ watch' = watch
           \/ check.pc = "mark" /\ \E w \in check.hit : watch' = Marked(w)
    BY <1>12 DEF BreaksOff, rows
  <2>2. check'.hit = {} /\ check'.todo = {} /\ check'.pc # "mark"
    BY <2>1 DEF Idle
  <2>3. CASE watch' = watch
    BY <1>w, <2>1, <2>2, <2>3
    DEF WatchInv, RowsNamed, OneOfEachPlan, LoadedIsTold, MarkIsTold, NotifiedWasTold,
        BeingNotified
  <2>4. ASSUME NEW w \in check.hit, watch' = Marked(w), watch' # watch PROVE WatchInv'
    <3>1. w \in Watch /\ w.plan \in Plan /\ check.hit = {w}
      BY <1>t, <1>w DEF OneOfEachPlan
    <3>2. Stored(w) /\ \A p \in Plan \ {w.plan} : watch'[p] = watch[p]
      BY <2>4, <3>1, MarkedRow
    <3>3. /\ watch'[w.plan] # NoWatch => watch'[w.plan].notified = check.offer[w.plan]
          /\ watch'[w.plan].plan = watch[w.plan].plan
          /\ watch'[w.plan].id = watch[w.plan].id
      BY <2>4, <3>1, <3>2, MarkedRow
    <3>4. RowsNamed'
      BY <1>w, <2>1, <3>1, <3>2, <3>3 DEF RowsNamed, Stored
    <3>5. split \subseteq split'
      BY <2>1
    <3>6. ASSUME NEW p \in Plan, p \notin split', watch'[p] # NoWatch
          PROVE  watch'[p].notified = told[p]
      <4>1. CASE p # w.plan
        BY <1>w, <3>1, <3>2, <3>5, <3>6, <4>1 DEF NotifiedWasTold, BeingNotified
      <4>2. CASE p = w.plan
        BY <1>w, <3>1, <3>2, <3>3, <3>5, <3>6, <4>2 DEF MarkIsTold
      <4> QED BY <4>1, <4>2
    <3> QED
      BY <2>1, <2>2, <3>4, <3>6
      DEF WatchInv, RowsNamed, OneOfEachPlan, LoadedIsTold, MarkIsTold, NotifiedWasTold,
          BeingNotified
  <2> QED BY <2>1, <2>3, <2>4
<1> QED
  BY <1>2, <1>3, <1>4, <1>5, <1>6, <1>7, <1>8, <1>9, <1>10, <1>11, <1>12
     DEF Next, CheckStep

(* The invariant of the watches holds at the start.                        *)
LEMMA WatchInit == Init => WatchInv
BY DEF Init, Idle, WatchInv, RowsNamed, OneOfEachPlan, LoadedIsTold, MarkIsTold,
       NotifiedWasTold

(* A watch is marked with the price its user was notified of, whatever     *)
(* saves and deletions come between the check's steps.                     *)
THEOREM MarksAreTrue == Spec => []NotifiedWasTold
<1>1. WatchInv => NotifiedWasTold
  BY DEF WatchInv
<1> QED
  BY <1>1, WatchInit, TypeInit, TypeStep, WatchStep, PTL DEF Spec

(* Nobody is notified of the same price twice in a row.                    *)
THEOREM DropsAreToldOnce == Spec => DropToldOnce
<1>1. TypeOK /\ WatchInv /\ [Next]_vars =>
        [\A w \in check.todo :
           NotifyDrop(w) /\ Stored(w) /\ w.plan \notin split
             => told[w.plan] # check.offer[w.plan]]_vars
  <2> SUFFICES ASSUME WatchInv, NEW w \in check.todo, NotifyDrop(w), Stored(w),
                      w.plan \notin split
               PROVE  told[w.plan] # check.offer[w.plan]
    OBVIOUS
  <2>1. told[w.plan] \in {NoPrice, w.notified}
    BY DEF WatchInv, LoadedIsTold
  <2> QED BY <2>1 DEF NotifyDrop, Hit
<1> QED
  BY <1>1, WatchInit, TypeInit, TypeStep, WatchStep, PTL DEF Spec, DropToldOnce
=============================================================================

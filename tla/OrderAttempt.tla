---------------------------- MODULE OrderAttempt ----------------------------
(***************************************************************************)
(* What one call of _execute_rush_order (app/api/checkout.py) promises to  *)
(* its two callers, the rush route and SniperService._fire: it ends, once, *)
(* in "ordered" or "failed"; OVH takes at most one order on its behalf;    *)
(* "ordered" is only said of an order OVH took.  It does not promise that  *)
(* "failed" means nothing was ordered.                                     *)
(***************************************************************************)
VARIABLES
  status,  \* "pending", "ordered" or "failed": what the caller is told
  placed   \* OVH has taken the order

vars == <<status, placed>>

TypeOK == status \in {"pending", "ordered", "failed"} /\ placed \in BOOLEAN

Init == status = "pending" /\ placed = FALSE

(* OVH takes the order while the caller still waits.                       *)
Accept == status = "pending" /\ ~ placed /\ placed' = TRUE /\ UNCHANGED status

Succeed == status = "pending" /\ status' = "ordered" /\ placed' = TRUE

(* A failure says nothing about an order that OVH has taken or takes now.  *)
Fail == status = "pending" /\ status' = "failed" /\ placed' \in {placed, TRUE}

Next == Accept \/ Succeed \/ Fail

Safety == Init /\ [][Next]_vars

Spec == Safety /\ WF_vars(Succeed \/ Fail)

=============================================================================

--------------------------- MODULE AccountsProofs ---------------------------
(***************************************************************************)
(* Theorems about Accounts, for any accounts, credentials, requests and    *)
(* bound.  Each invariant is inductive with TypeOK, except                 *)
(* UnverifiedNeedsOverlap, which needs to know what a pending update has   *)
(* read (PendingInv).                                                      *)
(***************************************************************************)
EXTENDS Accounts, WellFoundedInduction, TLAPS

(* A non-empty set of account ids has an oldest member.                    *)
LEMMA MinIsMember ==
  ASSUME NEW S \in SUBSET Nat, S # {}
  PROVE  Min(S) \in S
<1> DEFINE R == {ss \in Nat \X Nat : ss[1] < ss[2]}
<1>1. \E x \in S : \A y \in S : ~ (<<y, x>> \in R)
  <2>1. OpToRel(<, Nat) = R
    BY DEF OpToRel
  <2> HIDE DEF R
  <2>2. IsWellFoundedOn(R, Nat)
    BY <2>1, NatLessThanWellFounded
  <2> QED BY <2>2, WFMin
<1>2. \E x \in S : \A y \in S : x =< y
  <2>1. PICK x \in S : \A y \in S : ~ (<<y, x>> \in R)
    BY <1>1
  <2>2. ASSUME NEW y \in S PROVE x =< y
    <3>1. x \in Nat /\ y \in Nat
      OBVIOUS
    <3>2. ~ (y < x)
      BY <2>1, <3>1
    <3> QED BY <3>1, <3>2
  <2> QED BY <2>2
<1> QED BY <1>2 DEF Min

-----------------------------------------------------------------------------
(* Type correctness.                                                       *)

Kinds == {"free", "create", "update", "switch"}
Requests == [kind : Kinds, account : Account \cup {None}, form : Form,
             checked : Cred \cup {None}, previous : Account \cup {None}]

(* The state of a request slot that is not in use is a request state.      *)
LEMMA FreeIsRequest == Free \in Requests
BY DEF Free, Requests, Kinds, Form

(* Merging a form into credentials leaves no empty field.                  *)
LEMMA MergeIsCred ==
  ASSUME NEW form \in Form, NEW cred \in Cred
  PROVE  Merge(form, cred) \in Cred
BY AccountsAssumption DEF Form, Cred, Merge

(* A request that is filled in, or answered, keeps the type.               *)
LEMMA RequestKeeps ==
  ASSUME request \in [Request -> Requests], NEW r \in Request,
         NEW q \in Requests, request' = [request EXCEPT ![r] = q]
  PROVE  request' \in [Request -> Requests]
OBVIOUS

(* What a pending update names: an account that has or had a row.          *)
UpdateNamesAccount ==
  \A r \in Request : request[r].kind = "update" => request[r].account \in Account

TypeInv == TypeOK /\ UpdateNamesAccount

(* Every step keeps the types: TypeOK is inductive with what an update     *)
(* names.                                                                  *)
LEMMA TypeStep == TypeInv /\ [Next]_vars => TypeInv'
<1> SUFFICES ASSUME TypeOK, UpdateNamesAccount, [Next]_vars PROVE TypeInv'
  BY DEF TypeInv
<1>a. request \in [Request -> Requests]
  BY DEF TypeOK, Requests, Kinds
<1>b. ASSUME request' \in [Request -> Requests],
             stored' \in [Account -> Cred \cup {None}],
             active' \in Account \cup {None},
             services' \in [Account -> Cred \cup {None}],
             deleted' \subseteq Account, overlapped' \subseteq Account,
             verified' \subseteq Account \X Cred, torn' \in BOOLEAN,
             ops' \in 0 .. MaxOps, UpdateNamesAccount'
      PROVE  TypeInv'
  BY <1>b DEF TypeInv, TypeOK, Requests, Kinds
<1>c. ASSUME Op PROVE ops' \in 0 .. MaxOps
  BY <1>c, AccountsAssumption DEF Op, TypeOK
<1>d. ASSUME NEW S, reset_ovh_service(S)
      PROVE  services' \in [Account -> Cred \cup {None}]
  BY <1>d DEF reset_ovh_service, TypeOK
<1>e. ASSUME NEW r \in Request, Answer(r)
      PROVE  request' \in [Request -> Requests] /\ UpdateNamesAccount'
  <2>1. request' \in [Request -> Requests]
    BY <1>e, <1>a, FreeIsRequest DEF Answer
  <2>2. UpdateNamesAccount'
    BY <1>e, <1>a DEF Answer, UpdateNamesAccount, Free
  <2> QED BY <2>1, <2>2
<1>f. ASSUME NEW r \in Request, NEW q \in Requests,
             request' = [request EXCEPT ![r] = q],
             q.kind = "update" => q.account \in Account
      PROVE  request' \in [Request -> Requests] /\ UpdateNamesAccount'
  <2>1. request' \in [Request -> Requests]
    BY <1>f, <1>a
  <2>2. UpdateNamesAccount'
    BY <1>f, <1>a DEF UpdateNamesAccount
  <2> QED BY <2>1, <2>2
<1>1. ASSUME NEW r \in Request, NEW cred \in Cred, CreateChecks(r, cred)
      PROVE  TypeInv'
  <2> DEFINE q == [Free EXCEPT !.kind = "create", !.checked = cred]
  <2>1. q \in Requests /\ q.kind = "create"
    BY FreeIsRequest DEF Requests, Kinds
  <2>2. request' = [request EXCEPT ![r] = q]
    BY <1>1 DEF CreateChecks
  <2> HIDE DEF q
  <2>3. request' \in [Request -> Requests] /\ UpdateNamesAccount'
    BY <1>f, <2>1, <2>2
  <2> QED
    BY <1>1, <1>b, <1>c, <2>3 DEF CreateChecks, TypeOK
<1>2. ASSUME NEW r \in Request, CreateSaves(r)
      PROVE  TypeInv'
  <2> DEFINE c == Min(NewIds)
             cred == request[r].checked
  <2>1. c \in NewIds
    BY <1>2, MinIsMember, AccountsAssumption DEF CreateSaves, NewIds
  <2>2. c \in Account
    BY <2>1 DEF NewIds
  <2>3. cred \in Cred
    BY <1>2, AccountsAssumption DEF CreateSaves
  <2>4. /\ stored' = [stored EXCEPT ![c] = cred]
        /\ verified' = verified \cup {<<c, cred>>}
        /\ Activate(c)
        /\ Answer(r)
        /\ UNCHANGED <<services, deleted, overlapped, ops>>
    BY <1>2 DEF CreateSaves
  <2> HIDE DEF c, cred
  <2>5. active' \in Account \cup {None} /\ torn' \in BOOLEAN
    BY <2>2, <2>4 DEF Activate, TypeOK
  <2>6. verified' \subseteq Account \X Cred
    BY <2>2, <2>3, <2>4 DEF TypeOK
  <2> QED
    BY <1>b, <1>e, <2>2, <2>3, <2>4, <2>5, <2>6 DEF TypeOK
<1>3. ASSUME NEW r \in Request, NEW c \in Account, NEW form \in Form,
             UpdateChecks(r, c, form)
      PROVE  TypeInv'
  <2> DEFINE q == [Free EXCEPT !.kind = "update", !.account = c, !.form = form,
                               !.checked = Merge(form, stored[c])]
  <2>1. Merge(form, stored[c]) \in Cred
    BY <1>3, MergeIsCred DEF UpdateChecks, Rows, TypeOK
  <2>2. q \in Requests /\ q.account = c
    BY <2>1, FreeIsRequest DEF Requests, Kinds
  <2>3. request' = [request EXCEPT ![r] = q]
    BY <1>3 DEF UpdateChecks
  <2> HIDE DEF q
  <2>4. request' \in [Request -> Requests] /\ UpdateNamesAccount'
    BY <1>f, <2>2, <2>3
  <2> QED
    BY <1>3, <1>b, <1>c, <2>4 DEF UpdateChecks, TypeOK
<1>4. ASSUME NEW r \in Request, UpdateSaves(r)
      PROVE  TypeInv'
  <2> DEFINE c == request[r].account
             form == request[r].form
             cred == request[r].checked
  <2>1. form \in Form /\ cred \in Cred /\ c \in Account
    BY <1>4, <1>a, AccountsAssumption DEF UpdateSaves, Requests, UpdateNamesAccount
  <2>2. /\ stored' = [stored EXCEPT ![c] = IF @ = None THEN None ELSE Merge(form, @)]
        /\ verified' = verified \cup {<<c, cred>>}
        /\ overlapped' \subseteq overlapped \cup {c}
        /\ reset_ovh_service({c})
        /\ Answer(r)
        /\ UNCHANGED <<active, deleted, torn, ops>>
    BY <1>4 DEF UpdateSaves, save_account
  <2> HIDE DEF c, form, cred
  <2>3. stored[c] # None => Merge(form, stored[c]) \in Cred
    BY <2>1, MergeIsCred DEF TypeOK
  <2>4. stored' \in [Account -> Cred \cup {None}]
    BY <2>1, <2>2, <2>3 DEF TypeOK
  <2>5. verified' \subseteq Account \X Cred /\ overlapped' \subseteq Account
    BY <2>1, <2>2 DEF TypeOK
  <2> QED
    BY <1>b, <1>d, <1>e, <2>2, <2>4, <2>5 DEF TypeOK
<1>5. ASSUME NEW r \in Request, CheckFails(r) \/ SwitchDone(r) PROVE TypeInv'
  BY <1>5, <1>b, <1>e DEF CheckFails, SwitchDone, TypeOK
<1>6. ASSUME NEW r \in Request, NEW c \in Account, set_active(r, c)
      PROVE  TypeInv'
  <2> DEFINE q == [Free EXCEPT !.kind = "switch", !.account = c, !.previous = active]
  <2>1. q \in Requests /\ q.kind = "switch"
    BY FreeIsRequest DEF Requests, Kinds, TypeOK
  <2>2. request' = [request EXCEPT ![r] = q]
    BY <1>6 DEF set_active
  <2> HIDE DEF q
  <2>3. request' \in [Request -> Requests] /\ UpdateNamesAccount'
    BY <1>f, <2>1, <2>2
  <2> QED
    BY <1>6, <1>b, <1>c, <2>3 DEF set_active, TypeOK
<1>7. ASSUME NEW r \in Request, SwitchReverts(r) PROVE TypeInv'
  <2>1. active' \in Account \cup {None}
    BY <1>7, <1>a DEF SwitchReverts, Requests
  <2> QED
    BY <1>7, <1>b, <1>e, <2>1 DEF SwitchReverts, TypeOK
<1>8. ASSUME get_active \/ RebuildCache PROVE TypeInv'
  <2>1. UNCHANGED request
    BY <1>8 DEF get_active, RebuildCache
  <2>2. UpdateNamesAccount'
    BY <2>1 DEF UpdateNamesAccount
  <2> QED
    BY <1>8, <1>a, <1>b, <1>d, <2>1, <2>2 DEF get_active, RebuildCache, TypeOK
<1>9. ASSUME NEW c \in Account, delete_account(c) PROVE TypeInv'
  <2> DEFINE left == Rows \ {c}
  <2>1. left # {} => Min(left) \in Account
    BY MinIsMember, AccountsAssumption DEF Rows
  <2>2. FallBack(c) /\ UNCHANGED <<request, verified, overlapped>> /\ Op
    BY <1>9 DEF delete_account
  <2>3. active' \in Account \cup {None} /\ torn' \in BOOLEAN
    BY <2>1, <2>2 DEF FallBack, TypeOK
  <2>4. services' \in [Account -> Cred \cup {None}]
    BY <1>d, <2>2 DEF FallBack
  <2>5. UpdateNamesAccount'
    BY <2>2 DEF UpdateNamesAccount
  <2> QED
    BY <1>9, <1>a, <1>b, <1>c, <2>2, <2>3, <2>4, <2>5 DEF delete_account, TypeOK
<1>10. ASSUME NEW c \in Account, get_ovh_service(c) PROVE TypeInv'
  <2>1. UpdateNamesAccount'
    BY <1>10 DEF get_ovh_service, UpdateNamesAccount
  <2> QED
    BY <1>10, <1>a, <1>b, <2>1 DEF get_ovh_service, TypeOK
<1>11. ASSUME Restart PROVE TypeInv'
  <2>1. request' \in [Request -> Requests]
    BY <1>11, FreeIsRequest DEF Restart
  <2>2. UpdateNamesAccount'
    BY <1>11 DEF Restart, UpdateNamesAccount, Free
  <2> QED
    BY <1>11, <1>b, <1>c, <2>1, <2>2 DEF Restart, TypeOK
<1>12. ASSUME UNCHANGED vars PROVE TypeInv'
  <2>1. UpdateNamesAccount'
    BY <1>12 DEF vars, UpdateNamesAccount
  <2> QED
    BY <1>12, <1>a, <1>b, <2>1 DEF vars, TypeOK
<1> QED
  BY <1>1, <1>2, <1>3, <1>4, <1>5, <1>6, <1>7, <1>8, <1>9, <1>10, <1>11, <1>12
     DEF Next

(* The types hold at the start.                                           *)
LEMMA TypeInit == Init => TypeInv
<1> SUFFICES ASSUME Init PROVE TypeInv
  OBVIOUS
<1>1. request \in [Request -> Requests]
  BY FreeIsRequest DEF Init
<1>2. UpdateNamesAccount
  BY DEF Init, UpdateNamesAccount, Free
<1>3. ops \in 0 .. MaxOps
  BY AccountsAssumption DEF Init
<1> QED
  BY <1>1, <1>2, <1>3 DEF Init, TypeInv, TypeOK, Requests, Kinds

(* The types and names always hold.                                       *)
LEMMA TypeInvAlways == Spec => []TypeInv
BY TypeInit, TypeStep, PTL DEF Spec

(* Every variable keeps its type.                                          *)
THEOREM TypeCorrect == Spec => []TypeOK
<1>1. TypeInv => TypeOK
  BY DEF TypeInv
<1> QED
  BY <1>1, TypeInvAlways, PTL

-----------------------------------------------------------------------------
(* What each step does to the rows, the deleted accounts and the registry. *)

(* Rows change in three ways only.                                         *)
Inserted(c, cred) ==
  /\ c \in Account \ (Rows \cup deleted) /\ cred \in Cred
  /\ stored' = [stored EXCEPT ![c] = cred]
  /\ UNCHANGED <<services, deleted, overlapped>>

Updated(c, form) ==
  /\ c \in Account /\ form \in Form
  /\ stored' = [stored EXCEPT ![c] = IF @ = None THEN None ELSE Merge(form, @)]
  /\ reset_ovh_service({c})
  /\ UNCHANGED <<active, deleted, torn>>

Deleted(c) ==
  /\ c \in Rows
  /\ stored' = [stored EXCEPT ![c] = None]
  /\ deleted' = deleted \cup {c}
  /\ FallBack(c)
  /\ UNCHANGED overlapped

(* Saving a new account inserts one row, under an id never used before.    *)
LEMMA SaveIsInserted ==
  ASSUME TypeInv, NEW r \in Request, CreateSaves(r)
  PROVE  Inserted(Min(NewIds), request[r].checked)
<1>1. Min(NewIds) \in NewIds
  BY MinIsMember, AccountsAssumption DEF CreateSaves, NewIds
<1> QED
  BY <1>1, AccountsAssumption DEF CreateSaves, Inserted, NewIds

(* Saving an update changes one row, if it is still there.                 *)
LEMMA UpdateIsUpdated ==
  ASSUME TypeInv, NEW r \in Request, UpdateSaves(r)
  PROVE  Updated(request[r].account, request[r].form)
<1>1. request[r] \in Requests
  BY DEF TypeInv, TypeOK, Requests, Kinds
<1>2. request[r].account \in Account /\ request[r].form \in Form
  BY <1>1 DEF UpdateSaves, TypeInv, UpdateNamesAccount, Requests
<1> QED
  BY <1>2 DEF UpdateSaves, save_account, Updated

(* The other steps leave rows and deleted accounts alone.                  *)
RowsStay ==
  UNCHANGED <<stored, deleted>>

(* Every step is an insertion, an update, a deletion, or leaves the rows   *)
(* alone.                                                                  *)
LEMMA StepKinds ==
  ASSUME TypeInv, [Next]_vars
  PROVE  \/ \E r \in Request : CreateSaves(r) /\ Inserted(Min(NewIds), request[r].checked)
         \/ \E r \in Request : UpdateSaves(r) /\ Updated(request[r].account, request[r].form)
         \/ \E c \in Account : delete_account(c) /\ Deleted(c)
         \/ /\ RowsStay /\ UNCHANGED overlapped
            /\ \/ UNCHANGED services
               \/ \E S : reset_ovh_service(S)
               \/ \E c \in Account : get_ovh_service(c)
               \/ services' = [c \in Account |-> None]
            /\ \/ UNCHANGED <<active, torn>>
               \/ torn'
               \/ active' \in Rows /\ UNCHANGED torn
               \/ active # None /\ active \notin Rows /\ UNCHANGED torn
<1> USE DEF RowsStay
<1>1. ASSUME NEW r \in Request, CreateSaves(r) PROVE Inserted(Min(NewIds), request[r].checked)
  BY <1>1, SaveIsInserted
<1>2. ASSUME NEW r \in Request, UpdateSaves(r) PROVE Updated(request[r].account, request[r].form)
  BY <1>2, UpdateIsUpdated
<1>3. ASSUME NEW c \in Account, delete_account(c) PROVE Deleted(c)
  BY <1>3 DEF delete_account, Deleted
<1>4. CASE UNCHANGED vars
  BY <1>4 DEF vars
<1>5. CASE Next
  BY <1>1, <1>2, <1>3, <1>5
     DEF Next, CreateChecks, UpdateChecks, CheckFails, set_active, SwitchDone,
         SwitchReverts, get_active, get_ovh_service, RebuildCache, Restart
<1> QED
  BY <1>4, <1>5

-----------------------------------------------------------------------------
(* Each of these keeps cached services equal to their rows.                *)
LEMMA RegistryStep == TypeInv /\ RegistryFresh /\ [Next]_vars => RegistryFresh'
<1> SUFFICES ASSUME TypeInv, RegistryFresh, [Next]_vars PROVE RegistryFresh'
  OBVIOUS
<1>t. stored \in [Account -> Cred \cup {None}] /\ services \in [Account -> Cred \cup {None}]
  BY DEF TypeInv, TypeOK
<1>1. ASSUME NEW c, NEW cred, Inserted(c, cred) PROVE RegistryFresh'
  BY <1>1, <1>t DEF Inserted, RegistryFresh, Rows
<1>2. ASSUME NEW c, NEW form, Updated(c, form) PROVE RegistryFresh'
  BY <1>2, <1>t DEF Updated, RegistryFresh, reset_ovh_service
<1>3. ASSUME NEW c, Deleted(c) PROVE RegistryFresh'
  BY <1>3, <1>t DEF Deleted, FallBack, RegistryFresh, Rows, reset_ovh_service
<1>4. ASSUME RowsStay, \/ UNCHANGED services
                       \/ \E S : reset_ovh_service(S)
                       \/ \E c \in Account : get_ovh_service(c)
                       \/ services' = [c \in Account |-> None]
      PROVE  RegistryFresh'
  BY <1>4, <1>t DEF RowsStay, RegistryFresh, reset_ovh_service, get_ovh_service
<1> QED
  BY <1>1, <1>2, <1>3, <1>4, StepKinds

(* A cached service always has the credentials of its account's row: no    *)
(* order of updates, deletions and first uses leaves a stale one.          *)
THEOREM ServicesAreFresh == Spec => []RegistryFresh
<1>1. Init => RegistryFresh
  BY DEF Init, RegistryFresh
<1> QED
  BY <1>1, RegistryStep, TypeInvAlways, PTL DEF Spec

-----------------------------------------------------------------------------
(* No step brings back a deleted row.                                      *)
LEMMA DeletedStep == TypeInv /\ DeletedStaysGone /\ [Next]_vars => DeletedStaysGone'
<1> SUFFICES ASSUME TypeInv, DeletedStaysGone, [Next]_vars PROVE DeletedStaysGone'
  OBVIOUS
<1>t. stored \in [Account -> Cred \cup {None}]
  BY DEF TypeInv, TypeOK
<1>1. ASSUME NEW c, NEW cred, Inserted(c, cred) PROVE DeletedStaysGone'
  BY <1>1, <1>t DEF Inserted, DeletedStaysGone, Rows
<1>2. ASSUME NEW c, NEW form, Updated(c, form) PROVE DeletedStaysGone'
  BY <1>2, <1>t DEF Updated, DeletedStaysGone, Rows
<1>3. ASSUME NEW c, Deleted(c) PROVE DeletedStaysGone'
  BY <1>3, <1>t DEF Deleted, DeletedStaysGone, Rows
<1>4. ASSUME RowsStay PROVE DeletedStaysGone'
  BY <1>4 DEF RowsStay, DeletedStaysGone, Rows
<1> QED
  BY <1>1, <1>2, <1>3, <1>4, StepKinds

(* No account comes back after its deletion, whatever updates and          *)
(* creations were being checked at OVH at the time.                        *)
THEOREM DeletionsAreFinal == Spec => []DeletedStaysGone
<1>1. Init => DeletedStaysGone
  BY DEF Init, DeletedStaysGone
<1> QED
  BY <1>1, DeletedStep, TypeInvAlways, PTL DEF Spec

-----------------------------------------------------------------------------
(* No step but a switch put back, or a handler that fails half way, leaves *)
(* an active id without its row.                                           *)
LEMMA ActiveStep == TypeInv /\ ActiveIsStored /\ [Next]_vars => ActiveIsStored'
<1> SUFFICES ASSUME TypeInv, ActiveIsStored, [Next]_vars PROVE ActiveIsStored'
  OBVIOUS
<1>t. stored \in [Account -> Cred \cup {None}] /\ None \notin Account /\ None \notin Cred
  BY AccountsAssumption DEF TypeInv, TypeOK
<1>1. ASSUME NEW r \in Request, CreateSaves(r),
             Inserted(Min(NewIds), request[r].checked)
      PROVE  ActiveIsStored'
  <2> DEFINE c == Min(NewIds)
             cred == request[r].checked
  <2>1. Activate(c) /\ Inserted(c, cred)
    BY <1>1 DEF CreateSaves
  <2> HIDE DEF c, cred
  <2>2. Rows' = Rows \cup {c}
    BY <1>t, <2>1 DEF Inserted, Rows
  <2> QED
    BY <1>t, <2>1, <2>2 DEF Activate, Inserted, ActiveIsStored
<1>2. ASSUME NEW c, NEW form, Updated(c, form) PROVE ActiveIsStored'
  <2>1. stored[c] # None => Merge(form, stored[c]) \in Cred
    BY <1>2, <1>t, MergeIsCred DEF Updated
  <2>2. Rows' = Rows
    BY <1>2, <1>t, <2>1 DEF Updated, Rows
  <2> QED
    BY <1>2, <2>2 DEF Updated, ActiveIsStored
<1>3. ASSUME NEW c \in Account, Deleted(c) PROVE ActiveIsStored'
  <2> DEFINE left == Rows \ {c}
  <2>1. Rows' = left
    BY <1>3, <1>t DEF Deleted, Rows
  <2>2. left # {} => Min(left) \in left
    BY MinIsMember, AccountsAssumption DEF Rows
  <2>3. \/ active # c /\ UNCHANGED <<active, torn>>
        \/ active' = IF left = {} THEN None ELSE Min(left)
        \/ torn'
    BY <1>3 DEF Deleted, FallBack
  <2>4. c \in Rows
    BY <1>3 DEF Deleted
  <2> HIDE DEF left
  <2> QED
    BY <1>t, <2>1, <2>2, <2>3, <2>4 DEF left, ActiveIsStored
<1>4. ASSUME RowsStay,
             \/ UNCHANGED <<active, torn>>
             \/ torn'
             \/ active' \in Rows /\ UNCHANGED torn
             \/ active # None /\ active \notin Rows /\ UNCHANGED torn
      PROVE  ActiveIsStored'
  BY <1>4 DEF RowsStay, ActiveIsStored, Rows
<1> QED
  BY <1>1, <1>2, <1>3, <1>4, StepKinds

(* While there is an account, one that exists is active, unless a switch   *)
(* was put back or a handler failed half way.                              *)
THEOREM ActiveExists == Spec => []ActiveIsStored
<1>1. Init => ActiveIsStored
  BY DEF Init, ActiveIsStored, Rows
<1> QED
  BY <1>1, ActiveStep, TypeInvAlways, PTL DEF Spec

-----------------------------------------------------------------------------
(* A pending update was made for an account that has a row or had one, and *)
(* unless another update was saved meanwhile, what OVH is checking is what *)
(* saving would store now.                                                 *)
PendingAt(r) ==
  request[r].kind = "update" =>
    /\ request[r].account \in Rows \cup deleted
    /\ request[r].account \in Rows \ overlapped =>
         request[r].checked = Merge(request[r].form, stored[request[r].account])

PendingInv == \A r \in Request : PendingAt(r)

VerifiedInv == TypeInv /\ DeletedStaysGone /\ PendingInv /\ UnverifiedNeedsOverlap

(* Every step keeps what is known of each pending update.                  *)
LEMMA PendingStep == VerifiedInv /\ [Next]_vars => PendingInv'
<1> SUFFICES ASSUME VerifiedInv, [Next]_vars PROVE PendingInv'
  OBVIOUS
<1>t. /\ TypeInv /\ request \in [Request -> Requests]
      /\ stored \in [Account -> Cred \cup {None}] /\ None \notin Cred
  BY AccountsAssumption DEF VerifiedInv, TypeInv, TypeOK, Requests, Kinds
<1>p. \A r \in Request : PendingAt(r)
  BY DEF VerifiedInv, PendingInv
<1>s. SUFFICES \A r \in Request : PendingAt(r)'
  BY DEF PendingInv
<1>f. ASSUME NEW s \in Request, request'[s] = Free PROVE PendingAt(s)'
  BY <1>f DEF PendingAt, Free
<1>1. ASSUME NEW r \in Request, CreateSaves(r),
             Inserted(Min(NewIds), request[r].checked), NEW s \in Request
      PROVE  PendingAt(s)'
  <2>1. request'[s] = Free \/ request'[s] = request[s]
    BY <1>1, <1>t DEF CreateSaves, Answer
  <2>2. ASSUME PendingAt(s), request'[s] = request[s] PROVE PendingAt(s)'
    BY <1>1, <1>t, <2>2 DEF PendingAt, Inserted, Rows
  <2> QED BY <1>f, <1>p, <2>1, <2>2
<1>2. ASSUME NEW r \in Request, UpdateSaves(r),
             Updated(request[r].account, request[r].form), NEW s \in Request
      PROVE  PendingAt(s)'
  <2>1. request'[s] = Free \/ (s # r /\ request'[s] = request[s])
    BY <1>2, <1>t DEF UpdateSaves, Answer
  <2>2. ASSUME s # r, request'[s] = request[s], request[s].kind = "update",
               request[s].account = request[r].account
        PROVE  request[s].account \in overlapped'
    BY <1>2, <2>2 DEF UpdateSaves, Updates
  <2>3. ASSUME s # r, request'[s] = request[s] PROVE PendingAt(s)'
    <3> DEFINE c == request[r].account
               form == request[r].form
    <3>1. Updated(c, form) /\ overlapped \subseteq overlapped'
      BY <1>2 DEF UpdateSaves
    <3> HIDE DEF c, form
    <3>2. stored[c] # None => Merge(form, stored[c]) \in Cred
      BY <1>t, <3>1, MergeIsCred DEF Updated
    <3>3. Rows' = Rows /\ deleted' = deleted
      BY <1>t, <3>1, <3>2 DEF Updated, Rows
    <3>4. \A d \in Account : d # c => stored'[d] = stored[d]
      BY <1>t, <3>1 DEF Updated
    <3>5. request[s].kind = "update" /\ request[s].account = c
            => request[s].account \in overlapped'
      BY <2>2, <2>3 DEF c
    <3>6. request[s].kind = "update" => request[s].account \in Account
      BY <1>t DEF TypeInv, UpdateNamesAccount
    <3> QED
      BY <1>p, <2>3, <3>1, <3>3, <3>4, <3>5, <3>6 DEF PendingAt
  <2> QED BY <1>f, <2>1, <2>3
<1>3. ASSUME NEW c \in Account, delete_account(c), Deleted(c), NEW s \in Request
      PROVE  PendingAt(s)'
  <2>1. request' = request
    BY <1>3 DEF delete_account
  <2> QED BY <1>3, <1>p, <1>t, <2>1 DEF PendingAt, Deleted, Rows
<1>4. ASSUME RowsStay, UNCHANGED overlapped, NEW s \in Request,
             request'[s] = request[s]
      PROVE  PendingAt(s)'
  BY <1>4, <1>p DEF PendingAt, RowsStay, Rows
<1>5. ASSUME RowsStay, UNCHANGED overlapped, NEW s \in Request,
             request'[s].kind # "update"
      PROVE  PendingAt(s)'
  BY <1>5 DEF PendingAt
<1>6. ASSUME NEW r \in Request, NEW c \in Account, NEW form \in Form,
             UpdateChecks(r, c, form), NEW s \in Request
      PROVE  PendingAt(s)'
  <2> DEFINE q == [Free EXCEPT !.kind = "update", !.account = c, !.form = form,
                               !.checked = Merge(form, stored[c])]
  <2>1. /\ request' = [request EXCEPT ![r] = q]
        /\ RowsStay /\ UNCHANGED overlapped /\ c \in Rows
    BY <1>6 DEF UpdateChecks, RowsStay
  <2>2. q.account = c /\ q.form = form /\ q.checked = Merge(form, stored[c])
    BY DEF Free
  <2> HIDE DEF q
  <2>3. request'[r] = q
    BY <1>t, <2>1
  <2>4. CASE s = r
    BY <2>1, <2>2, <2>3, <2>4 DEF PendingAt, RowsStay, Rows
  <2>5. CASE s # r
    BY <1>4, <1>t, <2>1, <2>5
  <2> QED BY <2>4, <2>5
<1>7. ASSUME NEW r \in Request, NEW s \in Request,
             \/ \E cred \in Cred : CreateChecks(r, cred)
             \/ CheckFails(r)
             \/ \E c \in Account : set_active(r, c)
             \/ SwitchDone(r)
             \/ SwitchReverts(r)
      PROVE  PendingAt(s)'
  <2>0. RowsStay /\ UNCHANGED overlapped
    BY <1>7 DEF CreateChecks, CheckFails, set_active, SwitchDone, SwitchReverts, RowsStay
  <2>1. \/ \E cred \in Cred : request' = [request EXCEPT ![r] =
                [Free EXCEPT !.kind = "create", !.checked = cred]]
        \/ \E c \in Account : request' = [request EXCEPT ![r] =
                [Free EXCEPT !.kind = "switch", !.account = c, !.previous = active]]
        \/ request' = [request EXCEPT ![r] = Free]
    BY <1>7 DEF CreateChecks, CheckFails, set_active, SwitchDone, SwitchReverts, Answer
  <2>a. ASSUME NEW q, request' = [request EXCEPT ![r] = q], q.kind # "update"
        PROVE  request'[s] = request[s] \/ request'[s].kind # "update"
    BY <1>t, <2>a
  <2>b. Free.kind # "update"
    BY DEF Free
  <2>c. \A cred : [Free EXCEPT !.kind = "create", !.checked = cred].kind # "update"
    BY DEF Free
  <2>d. \A c, p : [Free EXCEPT !.kind = "switch", !.account = c, !.previous = p].kind # "update"
    BY DEF Free
  <2>2. request'[s] = request[s] \/ request'[s].kind # "update"
    <3>1. CASE request' = [request EXCEPT ![r] = Free]
      BY <2>a, <2>b, <3>1
    <3>2. ASSUME NEW cred, request' = [request EXCEPT ![r] =
                 [Free EXCEPT !.kind = "create", !.checked = cred]]
          PROVE  request'[s] = request[s] \/ request'[s].kind # "update"
      BY <2>a, <2>c, <3>2
    <3>3. ASSUME NEW c, request' = [request EXCEPT ![r] =
                 [Free EXCEPT !.kind = "switch", !.account = c, !.previous = active]]
          PROVE  request'[s] = request[s] \/ request'[s].kind # "update"
      BY <2>a, <2>d, <3>3
    <3> QED BY <2>1, <3>1, <3>2, <3>3
  <2> QED BY <1>4, <1>5, <2>0, <2>2
<1>8. ASSUME NEW s \in Request,
             \/ get_active \/ RebuildCache \/ UNCHANGED vars
             \/ \E c \in Account : get_ovh_service(c)
      PROVE  PendingAt(s)'
  <2>1. RowsStay /\ UNCHANGED overlapped /\ request'[s] = request[s]
    BY <1>8 DEF get_active, RebuildCache, vars, get_ovh_service, RowsStay
  <2> QED BY <1>4, <2>1
<1>9. ASSUME Restart, NEW s \in Request PROVE PendingAt(s)'
  BY <1>9, <1>f DEF Restart
<1> QED
  <2>1. ASSUME NEW r \in Request, CreateSaves(r) PROVE Inserted(Min(NewIds), request[r].checked)
    BY <1>t, <2>1, SaveIsInserted
  <2>2. ASSUME NEW r \in Request, UpdateSaves(r) PROVE Updated(request[r].account, request[r].form)
    BY <1>t, <2>2, UpdateIsUpdated
  <2>3. ASSUME NEW c \in Account, delete_account(c) PROVE Deleted(c)
    BY <2>3 DEF delete_account, Deleted
  <2> QED
    BY <1>1, <1>2, <1>3, <1>6, <1>7, <1>8, <1>9, <2>1, <2>2, <2>3 DEF Next

(* No step stores what was not accepted, for an account without overlap.   *)
LEMMA VerifiedStep == VerifiedInv /\ [Next]_vars => UnverifiedNeedsOverlap'
<1> SUFFICES ASSUME VerifiedInv, [Next]_vars PROVE UnverifiedNeedsOverlap'
  OBVIOUS
<1>t. /\ TypeInv
      /\ stored \in [Account -> Cred \cup {None}] /\ None \notin Cred
  BY AccountsAssumption DEF VerifiedInv, TypeInv, TypeOK
<1>u. \A c \in Rows \ overlapped : <<c, stored[c]>> \in verified
  BY DEF VerifiedInv, UnverifiedNeedsOverlap
<1>1. ASSUME NEW r \in Request, CreateSaves(r),
             Inserted(Min(NewIds), request[r].checked)
      PROVE  UnverifiedNeedsOverlap'
  <2> DEFINE c == Min(NewIds)
             cred == request[r].checked
  <2>1. Inserted(c, cred) /\ verified' = verified \cup {<<c, cred>>}
    BY <1>1 DEF CreateSaves
  <2> HIDE DEF c, cred
  <2> QED
    BY <1>t, <1>u, <2>1 DEF Inserted, UnverifiedNeedsOverlap, Rows
<1>2. ASSUME NEW r \in Request, UpdateSaves(r),
             Updated(request[r].account, request[r].form)
      PROVE  UnverifiedNeedsOverlap'
  <2> DEFINE c == request[r].account
             form == request[r].form
             cred == request[r].checked
  <2>1. /\ Updated(c, form) /\ verified' = verified \cup {<<c, cred>>}
        /\ overlapped \subseteq overlapped'
    BY <1>2 DEF UpdateSaves
  <2>2. c \in Rows \ overlapped => cred = Merge(form, stored[c])
    BY <1>2 DEF VerifiedInv, PendingInv, PendingAt, UpdateSaves
  <2> HIDE DEF c, form, cred
  <2>3. stored'[c] = IF stored[c] = None THEN None ELSE Merge(form, stored[c])
    BY <1>t, <2>1 DEF Updated
  <2>4. \A d \in Account : d # c => stored'[d] = stored[d]
    BY <1>t, <2>1 DEF Updated
  <2>5. SUFFICES ASSUME NEW d \in Rows' \ overlapped'
                 PROVE  <<d, stored'[d]>> \in verified'
    BY DEF UnverifiedNeedsOverlap
  <2>6. d \in Account /\ stored'[d] # None /\ d \notin overlapped
    BY <2>1, <2>5 DEF Rows
  <2>7. d \in Rows
    BY <2>3, <2>4, <2>6 DEF Rows
  <2>8. CASE d = c
    BY <2>1, <2>2, <2>3, <2>6, <2>7, <2>8
  <2>9. CASE d # c
    BY <1>u, <2>1, <2>4, <2>6, <2>7, <2>9
  <2> QED BY <2>8, <2>9
<1>3. ASSUME NEW c \in Account, delete_account(c), Deleted(c)
      PROVE  UnverifiedNeedsOverlap'
  <2>1. verified' = verified
    BY <1>3 DEF delete_account
  <2> QED
    BY <1>3, <1>t, <1>u, <2>1 DEF Deleted, UnverifiedNeedsOverlap, Rows
<1>4. ASSUME RowsStay, UNCHANGED <<overlapped, verified>>
      PROVE  UnverifiedNeedsOverlap'
  BY <1>4, <1>u DEF RowsStay, UnverifiedNeedsOverlap, Rows
<1>5. \/ \E r \in Request : CreateSaves(r) \/ UpdateSaves(r)
      \/ \E c \in Account : delete_account(c)
      \/ RowsStay /\ UNCHANGED <<overlapped, verified>>
  <2>1. CASE UNCHANGED vars
    BY <2>1 DEF vars, RowsStay
  <2>2. CASE Next
    BY <2>2 DEF Next, CreateChecks, UpdateChecks, CheckFails, set_active, SwitchDone,
         SwitchReverts, get_active, get_ovh_service, RebuildCache, Restart, RowsStay
  <2> QED BY <2>1, <2>2
<1> QED
  <2>1. ASSUME NEW r \in Request, CreateSaves(r) PROVE Inserted(Min(NewIds), request[r].checked)
    BY <1>t, <2>1, SaveIsInserted
  <2>2. ASSUME NEW r \in Request, UpdateSaves(r) PROVE Updated(request[r].account, request[r].form)
    BY <1>t, <2>2, UpdateIsUpdated
  <2>3. ASSUME NEW c \in Account, delete_account(c) PROVE Deleted(c)
    BY <2>3 DEF delete_account, Deleted
  <2> QED
    BY <1>1, <1>2, <1>3, <1>4, <1>5, <2>1, <2>2, <2>3

(* What is stored for an account was accepted by OVH as a whole, unless two *)
(* updates of the account were being checked at the same time.              *)
THEOREM UnverifiedTakesTwo == Spec => []UnverifiedNeedsOverlap
<1>1. Init => VerifiedInv
  BY TypeInit DEF Init, VerifiedInv, DeletedStaysGone, PendingInv, PendingAt, UnverifiedNeedsOverlap, Rows, Free
<1>2. VerifiedInv /\ [Next]_vars => VerifiedInv'
  BY TypeStep, DeletedStep, PendingStep, VerifiedStep DEF VerifiedInv
<1>3. VerifiedInv => UnverifiedNeedsOverlap
  BY DEF VerifiedInv
<1> QED
  BY <1>1, <1>2, <1>3, PTL DEF Spec
=============================================================================

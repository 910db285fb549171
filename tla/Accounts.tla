------------------------------ MODULE Accounts ------------------------------
(***************************************************************************)
(* The stored accounts, the active one, and the registry of OVH services:  *)
(* app/api/accounts.py, the account rows of Storage, and get_ovh_service   *)
(* and reset_ovh_service (app/services/ovh_service.py).                    *)
(*                                                                         *)
(* Creating and updating an account await OVH's check of the credentials   *)
(* before anything is written; switching awaits the monitor's reload after *)
(* it.  Everything else is one step.                                       *)
(***************************************************************************)
EXTENDS Naturals, FiniteSets, FiniteSetsExt

CONSTANTS
  Account,   \* account ids, numbered in the order of creation
  App,       \* application key and secret, which belong together
  Consumer,  \* consumer keys
  Valid,     \* the credentials OVH accepts
  Keep,      \* a field left empty: keep what is stored
  None,      \* no account, no credentials, no service
  Request,   \* requests that can be in progress at one time
  MaxOps     \* bound: requests and restarts

Cred == App \X Consumer
Form == (App \cup {Keep}) \X (Consumer \cup {Keep})

ASSUME AccountsAssumption ==
  /\ Account \subseteq Nat /\ IsFiniteSet(Account)
  /\ Valid \subseteq Cred
  /\ Keep \notin App \cup Consumer
  /\ None \notin Account /\ None \notin Cred
  /\ MaxOps \in Nat

VARIABLES
  stored,     \* accounts rows: the credentials of each account, or None
  active,     \* the setting active_account_id
  services,   \* _services: the credentials each cached service was built from
  request,    \* what each request in progress waits for
  deleted,    \* history: accounts that were deleted
  verified,   \* history: credentials OVH accepted in a check for each account
  overlapped, \* history: accounts saved by an update while another was at it
  torn,       \* history: active was put back by a failed switch, or not moved
              \*   by a handler that failed half way
  ops

vars == <<stored, active, services, request, deleted, verified, overlapped,
          torn, ops>>

Free == [kind |-> "free", account |-> None, form |-> <<Keep, Keep>>,
         checked |-> None, previous |-> None]

TypeOK ==
  /\ stored \in [Account -> Cred \cup {None}]
  /\ active \in Account \cup {None}
  /\ services \in [Account -> Cred \cup {None}]
  /\ request \in [Request -> [kind : {"free", "create", "update", "switch"},
                              account : Account \cup {None}, form : Form,
                              checked : Cred \cup {None},
                              previous : Account \cup {None}]]
  /\ deleted \subseteq Account /\ overlapped \subseteq Account
  /\ verified \subseteq Account \X Cred
  /\ torn \in BOOLEAN
  /\ ops \in 0 .. MaxOps

Init ==
  /\ stored = [c \in Account |-> None]
  /\ active = None
  /\ services = [c \in Account |-> None]
  /\ request = [r \in Request |-> Free]
  /\ deleted = {} /\ overlapped = {} /\ verified = {}
  /\ torn = FALSE /\ ops = 0

Op == ops < MaxOps /\ ops' = ops + 1
Rows == {c \in Account : stored[c] # None}
NewIds == Account \ (Rows \cup deleted)

(* What is stored when a form's empty fields keep what is there.           *)
Merge(form, cred) ==
  <<IF form[1] = Keep THEN cred[1] ELSE form[1],
    IF form[2] = Keep THEN cred[2] ELSE form[2]>>

(* Mutant of reset_ovh_service: nothing is dropped.                        *)
reset_nothing(S) == UNCHANGED services

reset_ovh_service(S) ==
  services' = [c \in Account |-> IF c \in S THEN None ELSE services[c]]

Answer(r) == request' = [request EXCEPT ![r] = Free]

-----------------------------------------------------------------------------
(* POST /api/accounts.                                                     *)

CreateChecks(r, cred) ==
  /\ Op
  /\ request[r] = Free
  /\ request' = [request EXCEPT ![r] = [Free EXCEPT !.kind = "create",
                                                    !.checked = cred]]
  /\ UNCHANGED <<stored, active, services, deleted, verified, overlapped, torn>>

(* The first account becomes active, if that second write succeeds.        *)
Activate(c) ==
  IF active # None THEN UNCHANGED <<active, torn>>
  ELSE \/ active' = c /\ UNCHANGED torn
       \/ torn' = TRUE /\ UNCHANGED active

CreateSaves(r) ==
  LET cred == request[r].checked IN
  /\ request[r].kind = "create" /\ cred \in Valid
  /\ NewIds # {}
  /\ LET c == Min(NewIds) IN
       /\ stored' = [stored EXCEPT ![c] = cred]
       /\ verified' = verified \cup {<<c, cred>>}
       /\ Activate(c)
  /\ Answer(r)
  /\ UNCHANGED <<services, deleted, overlapped, ops>>

-----------------------------------------------------------------------------
(* PUT /api/accounts/{id}.                                                 *)

UpdateChecks(r, c, form) ==
  /\ Op
  /\ request[r] = Free
  /\ c \in Rows
  /\ request' = [request EXCEPT ![r] =
                   [Free EXCEPT !.kind = "update", !.account = c,
                                !.form = form,
                                !.checked = Merge(form, stored[c])]]
  /\ UNCHANGED <<stored, active, services, deleted, verified, overlapped, torn>>

Updates(c) == {r \in Request : request[r].kind = "update" /\ request[r].account = c}

(* Mutant of save_account: the consumer key is not written.                *)
save_keeps_consumer(r) ==
  LET c == request[r].account IN
  stored' = [stored EXCEPT ![c] = IF @ = None THEN None
                                  ELSE <<Merge(request[r].form, @)[1], @[2]>>]

(* Storage.save_account: the empty fields keep what the row has by now;    *)
(* without a row there is nothing to update.                               *)
save_account(r) ==
  LET c == request[r].account IN
  stored' = [stored EXCEPT ![c] = IF @ = None THEN None
                                  ELSE Merge(request[r].form, @)]

UpdateSaves(r) ==
  LET c == request[r].account IN
  /\ request[r].kind = "update" /\ request[r].checked \in Valid
  /\ save_account(r)
  /\ verified' = verified \cup {<<c, request[r].checked>>}
  /\ overlapped' = IF Updates(c) = {r} THEN overlapped ELSE overlapped \cup {c}
  /\ reset_ovh_service({c})
  /\ Answer(r)
  /\ UNCHANGED <<active, deleted, torn, ops>>

(* OVH refuses the credentials, or cannot be asked.                        *)
CheckFails(r) ==
  /\ request[r].kind \in {"create", "update"}
  /\ Answer(r)
  /\ UNCHANGED <<stored, active, services, deleted, verified, overlapped, torn,
                 ops>>

-----------------------------------------------------------------------------
(* PUT /api/accounts/active.                                               *)

set_active(r, c) ==
  /\ Op
  /\ request[r] = Free
  /\ c \in Rows
  /\ active' = c
  /\ request' = [request EXCEPT ![r] = [Free EXCEPT !.kind = "switch",
                                                    !.account = c,
                                                    !.previous = active]]
  /\ UNCHANGED <<stored, services, deleted, verified, overlapped, torn>>

SwitchDone(r) ==
  /\ request[r].kind = "switch"
  /\ Answer(r)
  /\ UNCHANGED <<stored, active, services, deleted, verified, overlapped, torn,
                 ops>>

(* The except clause: back to the account that was active before, whatever *)
(* has become of it.  reload catches what its reads raise, so it takes an  *)
(* error of another kind.                                                  *)
SwitchReverts(r) ==
  /\ request[r].kind = "switch"
  /\ active' = request[r].previous
  /\ torn' = TRUE
  /\ Answer(r)
  /\ UNCHANGED <<stored, services, deleted, verified, overlapped, ops>>

(* GET /api/accounts/active drops an id without an account.                *)
get_active ==
  /\ active # None /\ active \notin Rows
  /\ active' = None
  /\ UNCHANGED <<stored, services, request, deleted, verified, overlapped,
                 torn, ops>>

-----------------------------------------------------------------------------
(* DELETE /api/accounts/{id}, up to its reload (see Monitor, Sniper).      *)

(* Mutant of FallBack: the active id stays.                                *)
FallBackNever(c) == reset_ovh_service({c}) /\ UNCHANGED <<active, torn>>

(* If it was the active one, the oldest that is left takes its place, if   *)
(* the writes for that succeed.                                            *)
FallBack(c) ==
  LET left == Rows \ {c} IN
  \/ /\ active # c
     /\ reset_ovh_service({c})
     /\ UNCHANGED <<active, torn>>
  \/ /\ active = c
     /\ active' = IF left = {} THEN None ELSE Min(left)
     /\ reset_ovh_service(Account)
     /\ UNCHANGED torn
  \/ /\ active = c
     /\ reset_ovh_service({c})
     /\ torn' = TRUE /\ UNCHANGED active

delete_account(c) ==
  /\ Op
  /\ c \in Rows
  /\ stored' = [stored EXCEPT ![c] = None]
  /\ deleted' = deleted \cup {c}
  /\ FallBack(c)
  /\ UNCHANGED <<request, verified, overlapped>>

-----------------------------------------------------------------------------
(* The registry.                                                           *)

(* The first use of an account builds its service from the row; an account *)
(* without a row gets the unconfigured service, which is not cached.       *)
get_ovh_service(c) ==
  /\ services[c] = None /\ c \in Rows
  /\ services' = [services EXCEPT ![c] = stored[c]]
  /\ UNCHANGED <<stored, active, request, deleted, verified, overlapped, torn,
                 ops>>

(* PUT /api/settings/app with another use_cache or cache_ttl.              *)
RebuildCache ==
  /\ \E c \in Account : services[c] # None
  /\ reset_ovh_service(Account)
  /\ UNCHANGED <<stored, active, request, deleted, verified, overlapped, torn,
                 ops>>

Restart ==
  /\ Op
  /\ services' = [c \in Account |-> None]
  /\ request' = [r \in Request |-> Free]
  /\ UNCHANGED <<stored, active, deleted, verified, overlapped, torn>>

-----------------------------------------------------------------------------
Next ==
  \/ \E r \in Request :
       \/ \E cred \in Cred : CreateChecks(r, cred)
       \/ CreateSaves(r)
       \/ \E c \in Account, form \in Form : UpdateChecks(r, c, form)
       \/ UpdateSaves(r)
       \/ CheckFails(r)
       \/ \E c \in Account : set_active(r, c)
       \/ SwitchDone(r)
       \/ SwitchReverts(r)
  \/ get_active
  \/ \E c \in Account : delete_account(c) \/ get_ovh_service(c)
  \/ RebuildCache
  \/ Restart

Spec == Init /\ [][Next]_vars

-----------------------------------------------------------------------------
(* Properties.                                                             *)

(* "So the new credentials take effect immediately" (accounts.py:253): a   *)
(* cached service has the credentials its account has now, and a deleted   *)
(* account has no service, whatever checks were still out.                 *)
RegistryFresh ==
  \A c \in Account : services[c] # None => services[c] = stored[c]

(* "Hard block: never persist credentials OVH rejects" (accounts.py:133):  *)
(* what is stored for an account was accepted as a whole.  It takes two    *)
(* updates of one account at a time to store what was never checked.       *)
UnverifiedNeedsOverlap ==
  \A c \in Rows \ overlapped : <<c, stored[c]>> \in verified

(* While there is an account, one that exists is active, except after a    *)
(* switch that was put back or a handler that failed half way.             *)
ActiveIsStored ==
  torn \/ (IF Rows = {} THEN active = None ELSE active \in Rows)

(* An update that was being checked when its account was deleted does not  *)
(* bring the row back.                                                     *)
DeletedStaysGone == deleted \cap Rows = {}
=============================================================================

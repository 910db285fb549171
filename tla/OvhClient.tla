----------------------------- MODULE OvhClient -----------------------------
(***************************************************************************)
(* How an OVH call leaves the program: OVHService._call and _do_call, and  *)
(* the registry that hands out one service object per account.  A service  *)
(* sends one request at a time and tries it at most twice.  What OVH does  *)
(* with a request is the business of the module that extends this one.     *)
(***************************************************************************)
EXTENDS Naturals, FiniteSets

CONSTANTS
  Request,   \* HTTP requests to this program that call OVH
  Client,    \* OVHService objects of the account, one after the other
  NoOne

ASSUME OvhClientAssumption == NoOne \notin Request \cup Client

VARIABLES
  registry,  \* _services[account], or NoOne: no configured account
  lock,      \* who holds each service's _lock
  drifted,   \* the services whose cached time delta is wrong
  call       \* the OVH call of each request

clientVars == <<registry, lock, drifted, call>>

Verb   == {"GET", "POST", "PUT", "DELETE"}

(* "signature" is the 403 "application key is invalid"; "lost" is a call   *)
(* that failed without a status (time-out, connection).                    *)
Status == {"none", "ok", "absent", "forbidden", "conflict", "signature", "5xx", "lost"}

(* wait: for the lock; send: to be sent, with the lock held; back: the     *)
(* caller has the status.                                                  *)
Call == [pc : {"none", "wait", "send", "back"}, client : Client \cup {NoOne},
         again : BOOLEAN, status : Status]

ClientTypeOK ==
  /\ registry \in Client \cup {NoOne}
  /\ lock \in [Client -> Request \cup {NoOne}]
  /\ drifted \subseteq Client
  /\ call \in [Request -> Call]

NoCall == [pc |-> "none", client |-> NoOne, again |-> FALSE, status |-> "none"]

ClientInit ==
  /\ registry \in Client
  /\ lock = [c \in Client |-> NoOne]
  /\ drifted = {}
  /\ call = [r \in Request |-> NoCall]

(* The caller has the service, and its next call gets in line.             *)
Calls(r, client) ==
  call' = [call EXCEPT ![r] = [NoCall EXCEPT !.pc = "wait", !.client = client]]

Acquire(r) ==
  /\ call[r].pc = "wait" /\ lock[call[r].client] = NoOne
  /\ lock' = [lock EXCEPT ![call[r].client] = r]
  /\ call' = [call EXCEPT ![r].pc = "send"]
  /\ UNCHANGED <<registry, drifted>>

(* Mutant of Repeatable: POST is repeated like the others.                 *)
RepeatableAll(verb, status) == status \in {"signature", "5xx"}

(* A bad signature was refused before OVH looked at the request; after an  *)
(* error of OVH's only what may be done twice is repeated.                 *)
Repeatable(verb, status) ==
  \/ status = "signature"
  \/ status = "5xx" /\ verb # "POST"

(* Mutant of _call: the lock is not held over the pause before the repeat. *)
_callReleases(r, verb, status) ==
  LET c == call[r].client IN
  /\ lock' = [lock EXCEPT ![c] = NoOne]
  /\ drifted' = IF status = "signature" THEN drifted \ {c} ELSE drifted
  /\ call' = IF ~ call[r].again /\ Repeatable(verb, status)
               THEN [call EXCEPT ![r].pc = "wait", ![r].again = TRUE]
               ELSE [call EXCEPT ![r].pc = "back", ![r].status = status]
  /\ UNCHANGED registry

(* What _call makes of the outcome of a try: the lock is kept until the    *)
(* caller gets one.                                                        *)
_call(r, verb, status) ==
  LET c == call[r].client IN
  /\ \/ /\ ~ call[r].again /\ Repeatable(verb, status)
        /\ drifted' = IF status = "signature" THEN drifted \ {c} ELSE drifted
        /\ call' = [call EXCEPT ![r].again = TRUE]
        /\ UNCHANGED lock
     \/ /\ call[r].again \/ ~ Repeatable(verb, status)
        /\ lock' = [lock EXCEPT ![c] = NoOne]
        /\ call' = [call EXCEPT ![r].pc = "back", ![r].status = status]
        /\ UNCHANGED drifted
  /\ UNCHANGED registry

(* The clock steps: every delta computed before is wrong.                  *)
ClockSteps ==
  /\ drifted' = {c \in Client : c = registry \/ \E r \in Request : call[r].client = c}
  /\ UNCHANGED <<registry, lock, call>>

(* reset_ovh_service: requests that have the old service go on with it.    *)
reset_ovh_service ==
  /\ registry' \in (Client \cup {NoOne}) \ {registry}
  /\ registry' # NoOne => \A r \in Request : call[r].client # registry'
  /\ drifted' = drifted \ {registry'}
  /\ UNCHANGED <<lock, call>>

=============================================================================

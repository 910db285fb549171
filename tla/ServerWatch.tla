---------------------------- MODULE ServerWatch ----------------------------
(***************************************************************************)
(* The watch over an account's dedicated servers: MonitorService           *)
(* ._check_servers against owned_servers and the priming marker.  A        *)
(* machine that appears in OVH's list is what the user's order has become. *)
(*                                                                         *)
(* Any poller task may run the check, and which tasks there are is left to *)
(* the module that uses this one (Deliveries).  A task that is cancelled   *)
(* while a write of it is in a worker thread leaves the write behind.      *)
(***************************************************************************)
EXTENDS Naturals, FiniteSets

CONSTANTS
  Task,     \* poller tasks
  Server,
  MaxMoves  \* bound: servers delivered or terminated, failures, switches

VARIABLES
  owned,    \* OVH: GET /dedicated/server
  rows,     \* owned_servers
  marker,   \* the stored server_watch_primed_<account>
  enabled,  \* the account is monitored and order_check_interval > 0
  due,      \* the interval since _last_order_check has passed
  check,    \* what each task's _check_servers is doing
  hist,     \* history, see TypeOK
  moves

vars == <<owned, rows, marker, enabled, due, check, hist, moves>>

(* current: the answer; snapshot: the rows that were loaded.               *)
Check == [pc : {"idle", "list", "load", "marker", "primeRows", "primeMarker",
                "apply", "publish"},
          current : SUBSET Server, snapshot : SUBSET Server]
Idle == [pc |-> "idle", current |-> {}, snapshot |-> {}]

(* appeared, announced: how often each server came and was said to have    *)
(* come.  told: announced since it came.  based: there has been a first    *)
(* baseline.  lost: recorded, and not to be announced any more (one that   *)
(* is back before the watch saw it gone is recorded still).  overlap: two  *)
(* checks, or a check and a left-behind write, at the same time.           *)
TypeOK ==
  /\ owned \subseteq Server /\ rows \subseteq Server
  /\ marker \in BOOLEAN /\ enabled \in BOOLEAN /\ due \in BOOLEAN
  /\ check \in [Task -> Check]
  /\ hist \in [appeared : [Server -> Nat], announced : [Server -> Nat],
               told : SUBSET Server, based : BOOLEAN, lost : SUBSET Server,
               overlap : BOOLEAN]
  /\ moves \in 0 .. MaxMoves

Move == moves < MaxMoves /\ moves' = moves + 1
Still == moves' = moves
At(i, pc) == check[i].pc = pc
Goto(i, pc) == check' = [check EXCEPT ![i].pc = pc]
Over(i) == check' = [check EXCEPT ![i] = Idle]

Added(i)   == check[i].current \ check[i].snapshot
Removed(i) == check[i].snapshot \ check[i].current

-----------------------------------------------------------------------------
Delivered(s) ==
  /\ Move /\ s \notin owned
  /\ owned' = owned \cup {s}
  /\ hist' = [hist EXCEPT !.appeared[s] = @ + 1, !.told = @ \ {s},
                 !.lost = IF s \in rows THEN @ \cup {s} ELSE @ \ {s}]
  /\ UNCHANGED <<rows, marker, enabled, due, check>>

Terminated(s) ==
  /\ Move /\ s \in owned
  /\ owned' = owned \ {s}
  /\ UNCHANGED <<rows, marker, enabled, due, check, hist>>

(* The account's master switch, or the interval.                           *)
Switch ==
  /\ Move /\ enabled' = ~ enabled
  /\ UNCHANGED <<owned, rows, marker, due, check, hist>>

IntervalPasses ==
  /\ ~ due /\ due' = TRUE
  /\ Still
  /\ UNCHANGED <<owned, rows, marker, enabled, check, hist>>

-----------------------------------------------------------------------------
(* _maybe_check_orders_and_servers: the time of the last check is the      *)
(* service's, not the task's.                                              *)
Starts(i) ==
  /\ At(i, "idle") /\ due /\ enabled
  /\ due' = FALSE
  /\ Goto(i, "list")
  /\ hist' = [hist EXCEPT !.overlap = IF \E j \in Task : ~ At(j, "idle") THEN TRUE ELSE @]
  /\ Still
  /\ UNCHANGED <<owned, rows, marker, enabled>>

List(i) ==
  /\ At(i, "list")
  /\ check' = [check EXCEPT ![i].pc = "load", ![i].current = owned]
  /\ Still
  /\ UNCHANGED <<owned, rows, marker, enabled, due, hist>>

load_owned_servers(i) ==
  /\ At(i, "load")
  /\ check' = [check EXCEPT ![i].pc = "marker", ![i].snapshot = rows]
  /\ Still
  /\ UNCHANGED <<owned, rows, marker, enabled, due, hist>>

(* Mutant of AsksMarker: an empty snapshot has not been primed.            *)
AsksEmptiness(i) ==
  /\ At(i, "marker")
  /\ \/ rows = {} /\ Goto(i, "primeRows")
     \/ rows # {} /\ Added(i) \cup Removed(i) # {} /\ Goto(i, "apply")
     \/ rows # {} /\ Added(i) \cup Removed(i) = {} /\ Over(i)
  /\ Still
  /\ UNCHANGED <<owned, rows, marker, enabled, due, hist>>

AsksMarker(i) ==
  /\ At(i, "marker")
  /\ \/ ~ marker /\ Goto(i, "primeRows")
     \/ marker /\ Added(i) \cup Removed(i) # {} /\ Goto(i, "apply")
     \/ marker /\ Added(i) \cup Removed(i) = {} /\ Over(i)
  /\ Still
  /\ UNCHANGED <<owned, rows, marker, enabled, due, hist>>

(* apply_server_diff: one transaction.                                     *)
apply_server_diff(added, removed) == (rows \cup added) \ removed

(* What a write of check i does to the database.                           *)
Written(i) ==
  [rows   |-> IF At(i, "primeRows") THEN apply_server_diff(check[i].current, {})
              ELSE IF At(i, "apply") THEN apply_server_diff(Added(i), Removed(i))
              ELSE rows,
   marker |-> IF At(i, "primeMarker") THEN TRUE ELSE marker]

Writing(i) == check[i].pc \in {"primeRows", "primeMarker", "apply"}

(* A baseline swallows what it records.  There is a reason for a second    *)
(* one if the marker was not reached, or checks overlap.                   *)
Swallows(i) == At(i, "primeRows") /\ (~ hist.based \/ ~ marker \/ hist.overlap)

Based(i) ==
  [hist EXCEPT !.based = @ \/ At(i, "primeRows"),
     !.lost = (@ \cup IF Swallows(i) THEN check[i].current \ rows ELSE {})
                \ IF At(i, "apply") THEN Removed(i) ELSE {}]

(* Mutant of Writes: the marker first, then the rows.                      *)
WritesMarkerFirst(i) ==
  /\ \/ /\ At(i, "primeRows") /\ marker' = TRUE
        /\ rows' = rows /\ Goto(i, "primeMarker")
     \/ /\ At(i, "primeMarker") /\ Over(i) /\ marker' = marker
        /\ rows' = apply_server_diff(check[i].current, {})
     \/ /\ At(i, "apply") /\ Goto(i, "publish") /\ marker' = marker
        /\ rows' = apply_server_diff(Added(i), Removed(i))
  /\ hist' = Based(i)
  /\ Still
  /\ UNCHANGED <<owned, enabled, due>>

(* The rows, then the marker; or the rows, then the announcement.          *)
Writes(i) ==
  /\ Writing(i)
  /\ rows' = Written(i).rows /\ marker' = Written(i).marker
  /\ hist' = Based(i)
  /\ \/ At(i, "primeRows") /\ Goto(i, "primeMarker")
     \/ At(i, "primeMarker") /\ Over(i)
     \/ At(i, "apply") /\ Goto(i, "publish")
  /\ Still
  /\ UNCHANGED <<owned, enabled, due>>

(* A failing call or write ends the check.  A write whose commit failed is *)
(* seen by later reads all the same.                                       *)
Breaks(i) ==
  /\ Move
  /\ \/ check[i].pc \in {"list", "load", "marker"}
        /\ UNCHANGED <<rows, marker, hist>>
     \/ /\ Writing(i)
        /\ \/ /\ rows' = Written(i).rows /\ marker' = Written(i).marker
              /\ hist' = [Based(i) EXCEPT !.lost =
                            IF At(i, "apply") THEN @ \cup Added(i) ELSE @]
           \/ UNCHANGED <<rows, marker, hist>>
  /\ Over(i)
  /\ UNCHANGED <<owned, enabled, due>>

(* Mutant of Publishes: what is new is asked of the rows just written.     *)
PublishesAgainstRows(i) ==
  /\ At(i, "publish")
  /\ Over(i)
  /\ hist' = [hist EXCEPT !.told = @ \cup (check[i].current \ rows),
       !.announced = [s \in Server |-> IF s \in check[i].current \ rows
                                       THEN hist.announced[s] + 1 ELSE hist.announced[s]]]
  /\ Still
  /\ UNCHANGED <<owned, rows, marker, enabled, due>>

(* _publish and notify_server_change, whose failure is swallowed.          *)
Publishes(i) ==
  /\ At(i, "publish")
  /\ Over(i)
  /\ hist' = [hist EXCEPT !.told = @ \cup Added(i),
       !.announced = [s \in Server |-> IF s \in Added(i) THEN hist.announced[s] + 1
                                       ELSE hist.announced[s]]]
  /\ Still
  /\ UNCHANGED <<owned, rows, marker, enabled, due>>

Step(i) ==
  \/ Starts(i) \/ List(i) \/ load_owned_servers(i) \/ AsksMarker(i)
  \/ Writes(i) \/ Breaks(i) \/ Publishes(i)

-----------------------------------------------------------------------------
(* The task is cancelled at the await it is in.  A write in a worker       *)
(* thread that has started goes on without it.                             *)
Cancelled(i) ==
  /\ \/ Writing(i) /\ UNCHANGED check
     \/ Over(i)
  /\ hist' = IF At(i, "publish") THEN [hist EXCEPT !.lost = @ \cup Added(i)] ELSE hist
  /\ UNCHANGED <<owned, rows, marker, enabled, due, moves>>

LateWrite(i) ==
  /\ Writing(i)
  /\ rows' = Written(i).rows /\ marker' = Written(i).marker
  /\ hist' = [Based(i) EXCEPT !.lost = IF At(i, "apply") THEN @ \cup Added(i) ELSE @]
  /\ Over(i)
  /\ Still
  /\ UNCHANGED <<owned, enabled, due>>

(* The process goes: what was not written is not, and the next one checks  *)
(* at once.                                                                *)
Crash ==
  /\ check' = [i \in Task |-> Idle]
  /\ due' = TRUE
  /\ hist' = [hist EXCEPT !.lost =
                @ \cup UNION {Added(i) : i \in {j \in Task : At(j, "publish")}}]
  /\ UNCHANGED <<owned, rows, marker, enabled, moves>>

Init ==
  /\ owned \in SUBSET Server
  /\ rows = {} /\ marker = FALSE
  /\ enabled = TRUE /\ due = TRUE
  /\ check = [i \in Task |-> Idle]
  /\ hist = [appeared |-> [s \in Server |-> 0], announced |-> [s \in Server |-> 0],
             told |-> {}, based |-> FALSE, lost |-> {}, overlap |-> FALSE]
  /\ moves = 0

-----------------------------------------------------------------------------
(* Properties.                                                             *)

(* Servers that were there before the watch are not announced, and one     *)
(* that comes is announced at most once for each time it comes, whatever   *)
(* crashed in between: unless two checks were at work at the same time.    *)
AnnouncedWasDelivered ==
  ~ hist.overlap => \A s \in Server : hist.announced[s] <= hist.appeared[s]

(* The watch must not take a delivery "as a baseline and never announce    *)
(* it" (monitor.py:1302), nor forget it half way: a server that OVH lists  *)
(* and the rows have was announced since it came, or a check has the       *)
(* announcement before it, or it was lost: swallowed by the first baseline *)
(* or one with a reason, back before it was missed, or its check ended     *)
(* between the row and the announcement.                                   *)
RecordedIsTold ==
  \A s \in rows \cap owned :
    \/ s \in hist.told \cup hist.lost
    \/ \E i \in Task : At(i, "publish") /\ s \in Added(i)

=============================================================================

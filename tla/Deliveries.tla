---------------------------- MODULE Deliveries -----------------------------
(***************************************************************************)
(* The poller's life (Poller) and the watch over delivered servers that    *)
(* each of its tasks runs (ServerWatch): requests that stop and start the  *)
(* poller cut checks short, and a poller too many checks as well.          *)
(***************************************************************************)
EXTENDS Poller

CONSTANTS Server, MaxMoves

ASSUME DeliveriesAssumption == MaxMoves \in Nat

VARIABLES owned, rows, marker, enabled, due, check, hist, moves

Watch == INSTANCE ServerWatch

lifeVars  == vars
watchVars == <<owned, rows, marker, enabled, due, check, hist, moves>>
allVars   == <<lifeVars, watchVars>>

(* A running task goes on with its check.                                  *)
Checks(i) ==
  /\ state[i] = "running"
  /\ Watch!Step(i)
  /\ UNCHANGED lifeVars

Ends(i)  == TaskEnds(i) /\ Watch!Cancelled(i)
Late(i)  == state[i] = "done" /\ Watch!LateWrite(i) /\ UNCHANGED lifeVars
Reboot   == Restart /\ Watch!Crash

Surroundings ==
  \/ \E s \in Server : Watch!Delivered(s) \/ Watch!Terminated(s)
  \/ Watch!Switch \/ Watch!IntervalPasses

DeliveriesInit == Init /\ Watch!Init

DeliveriesNext ==
  \/ /\ \/ \E r \in Request : SwitchOn(r) \/ SwitchOff(r) \/ StopReturns(r)
        \/ StoreFails
     /\ UNCHANGED watchVars
  \/ Reboot
  \/ \E i \in Task : Checks(i) \/ Ends(i) \/ Late(i)
  \/ Surroundings /\ UNCHANGED lifeVars

(* The loop of a running task goes on, and time with it.                   *)
DeliveriesSpec ==
  /\ DeliveriesInit /\ [][DeliveriesNext]_allVars
  /\ \A i \in Task : WF_allVars(Checks(i))
  /\ WF_allVars(Watch!IntervalPasses /\ UNCHANGED lifeVars)

-----------------------------------------------------------------------------
(* Properties.                                                             *)

DeliveriesTypeOK == TypeOK /\ Watch!TypeOK

AnnouncedWasDelivered == Watch!AnnouncedWasDelivered

(* No delivery is swallowed: what the rows have was announced, is about to *)
(* be, or was lost in a way the watch has for it.                          *)
RecordedIsTold == Watch!RecordedIsTold

(* A server that comes after the first baseline is announced, as long as   *)
(* it stays, the account is watched and a poller runs; unless a stop, a    *)
(* failure or a crash came between its row and the announcement, or a      *)
(* crash before the marker made the watch take a second baseline.          *)
DeliveryIsTold ==
  \A s \in Server :
    hist.based /\ s \in owned \ rows
      ~> s \in hist.told \cup hist.lost \/ s \notin owned \/ ~ enabled \/ Running = {}

=============================================================================

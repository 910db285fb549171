----------------------------- MODULE MCMonitor -----------------------------
(* An instance of Monitor for TLC: two alerts on one plan, the second with *)
(* a pattern that no orderable configuration matches.                      *)
EXTENDS Monitor, TLC

CONSTANTS a1, a2, k1, c1, q1

OneKey       == [a \in Alert |-> k1]
OneAccount   == [k \in Key |-> c1]
FirstMatches == (a1 :> Fqn) @@ (a2 :> {})
=============================================================================

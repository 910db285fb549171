------------------------------ MODULE MCSniper ------------------------------
(* One alert, two configurations, and enough arm calls and tasks for the   *)
(* alert to be armed again while its first task runs; a reload that may    *)
(* run at any time until there is a second task, and be over by then.      *)
EXTENDS Sniper, TLC

CONSTANTS a1, acc1

OneOwner == [a \in Alert |-> acc1]

Symmetry == Permutations(Fqn)

ReloadsInTime == nextFire < 2 \/ ~ Overtaken
=============================================================================

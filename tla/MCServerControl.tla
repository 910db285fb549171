-------------------------- MODULE MCServerControl --------------------------
(***************************************************************************)
(* ServerControl for TLC: requests are alike, and so are service objects.  *)
(***************************************************************************)
EXTENDS ServerControl, TLC

Symmetry == Permutations(Request) \cup Permutations(Client)

=============================================================================

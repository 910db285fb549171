----------------------------- MODULE MCAccounts -----------------------------
(* Two applications; a consumer key is good for the one it was given to.   *)
EXTENDS Accounts

CONSTANTS A, B, a1, a2, b1

Matching == {<<A, a1>>, <<A, a2>>, <<B, b1>>}
=============================================================================

---------------------------- MODULE MCRushOrder ----------------------------
(* Two datacenters asked for, one twice, or none; a cap or none; one add-on *)
(* or none.                                                                *)
EXTENDS RushOrder

CONSTANTS d1, d2

Requests ==
  [cap : {1, NoPrice}, dcs : {<<>>, <<d1, d1>>, <<d1, d2>>}, addons : {0, 1}]
=============================================================================

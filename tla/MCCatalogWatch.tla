--------------------------- MODULE MCCatalogWatch ---------------------------
(* One watched plan at either price, or gone; two more that come and go;   *)
(* a campaign on none, one or two plans.                                   *)
EXTENDS CatalogWatch

CONSTANTS p1, p2, p3

SomeOffers == {o \in Offer : o[p2] # 2 /\ o[p3] # 2}
SomeCampaigns == {{}, {p1}, {p1, p2}}
=============================================================================

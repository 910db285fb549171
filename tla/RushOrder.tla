------------------------------ MODULE RushOrder ------------------------------
(***************************************************************************)
(* One rush order: _enforce_max_price and _execute_rush_order              *)
(* (app/api/checkout.py) against OVH's cart API as OVHService calls it.    *)
(* Each OVH call runs in a worker thread and ends in one of three ways:    *)
(* done, refused, or done with the reply lost (a 5xx or a dropped          *)
(* connection after OVH acted: a POST is never sent twice for that).       *)
(***************************************************************************)
EXTENDS Integers, Sequences

CONSTANTS
  Datacenter,
  Price,      \* monthly plan prices
  NoPrice,    \* no price: a cold cache, or no cap in the request
  Request     \* the RushOrderRequests considered, see RushAssumption

ASSUME RushAssumption ==
  /\ Price \subseteq Int
  /\ NoPrice \notin Price
  /\ Request \subseteq
       [cap : Price \cup {NoPrice}, dcs : Seq(Datacenter), addons : Nat]

VARIABLES
  req,         \* the RushOrderRequest
  pc,          \* the call _execute_rush_order is about to make, or its outcome
  livePrice,   \* the price OVH asks now
  cachedPrice, \* the plan's price in the cached catalog
  seenPrice,   \* the price _enforce_max_price compared with the cap
  datacenters, \* the list the loop runs over: asked for, or discovered
  tried,       \* how many of them the loop has called OVH about
  refused,     \* history: places in that list whose call came back as an error
  addonsLeft,
  configs,     \* the region and os calls of gather() that still run
  cart,        \* OVH's cart
  lost         \* history: a reply was lost, or the cart could not be deleted

rushVars == <<req, pc, livePrice, cachedPrice, seenPrice, datacenters,
          tried, refused, addonsLeft, configs, cart, lost>>

Config == {"region", "dedicated_os"}
RushOutcome == {"ordered", "failed", "dead"}
Calls == {"price", "discover", "create", "assign", "server", "addon",
          "datacenter", "config", "checkout", "delete"}

RushTypeOK ==
  /\ req \in Request
  /\ pc \in Calls \cup RushOutcome
  /\ livePrice \in Price
  /\ cachedPrice \in Price \cup {NoPrice}
  /\ seenPrice \in Price \cup {NoPrice}
  /\ datacenters \in Seq(Datacenter)
  /\ tried \in 0 .. Len(datacenters)
  /\ refused \subseteq 1 .. tried
  /\ addonsLeft \in Nat
  /\ configs \subseteq Config
  /\ cart \in [state : {"none", "open", "assigned", "ordered", "deleted"},
               server : BOOLEAN, addons : Nat, dcs : SUBSET Datacenter,
               configs : SUBSET Config]
  /\ lost \in BOOLEAN

RushInit ==
  /\ req \in Request
  /\ pc = "price"
  /\ livePrice \in Price
  /\ cachedPrice \in Price \cup {NoPrice}
  /\ seenPrice = NoPrice
  /\ datacenters = req.dcs
  /\ tried = 0
  /\ refused = {}
  /\ addonsLeft = req.addons
  /\ configs = {}
  /\ cart = [state |-> "none", server |-> FALSE, addons |-> 0, dcs |-> {},
             configs |-> {}]
  /\ lost = FALSE

Priced == <<livePrice, cachedPrice, seenPrice>>
Local  == <<datacenters, tried, refused, addonsLeft, configs>>

-----------------------------------------------------------------------------
(* The budget guard.                                                       *)

(* What looking up the price may give: that of the cached catalog while it *)
(* is warm, else OVH's, or none (an error, or a plan the catalog lacks).   *)
get_plan_price ==
  IF cachedPrice # NoPrice THEN {cachedPrice} ELSE {livePrice, NoPrice}

Compare(p) ==
  /\ seenPrice' = p
  /\ pc' = IF p > req.cap THEN "failed" ELSE "discover"

(* Mutant of _enforce_max_price: a price that cannot be looked up does not *)
(* stop the order.                                                         *)
EnforceFailsOpen ==
  /\ pc = "price"
  /\ IF req.cap # NoPrice /\ cachedPrice # NoPrice
     THEN Compare(cachedPrice) /\ UNCHANGED <<livePrice, cachedPrice>>
     ELSE pc' = "discover" /\ UNCHANGED Priced
  /\ UNCHANGED <<req, cart, lost>> /\ UNCHANGED Local

_enforce_max_price ==
  /\ pc = "price"
  /\ \/ /\ req.cap = NoPrice                          \* no cap: nothing to do
        /\ pc' = "discover"
        /\ UNCHANGED Priced
     \/ /\ req.cap # NoPrice
        /\ \E p \in get_plan_price \ {NoPrice} : Compare(p) /\ cachedPrice' = p
        /\ UNCHANGED livePrice
     \/ /\ req.cap # NoPrice /\ NoPrice \in get_plan_price
        /\ pc' = "failed"
        /\ UNCHANGED Priced
  /\ UNCHANGED <<req, cart, lost>> /\ UNCHANGED Local

(* OVH changes its price; the catalog entry reaches its TTL.               *)
PriceMoves ==
  /\ pc \in Calls
  /\ livePrice' \in Price \ {livePrice}
  /\ UNCHANGED <<req, pc, cachedPrice, seenPrice, cart, lost>>
  /\ UNCHANGED Local

CacheExpires ==
  /\ cachedPrice # NoPrice
  /\ cachedPrice' = NoPrice
  /\ UNCHANGED <<req, pc, livePrice, seenPrice, cart, lost>>
  /\ UNCHANGED Local

-----------------------------------------------------------------------------
(* The datacenters that the catalog may list for a plan.                   *)
get_plan_datacenters == {r.dcs : r \in Request}

(* No datacenter asked for: take the plan's own, if the catalog can be     *)
(* read and lists any.                                                     *)
DiscoverDatacenters ==
  /\ pc = "discover"
  /\ pc' = "create"
  /\ \/ req.dcs # <<>> /\ UNCHANGED datacenters
     \/ req.dcs = <<>> /\ datacenters' \in get_plan_datacenters
  /\ UNCHANGED <<req, tried, refused, addonsLeft, configs, cart, lost>>
  /\ UNCHANGED Priced

-----------------------------------------------------------------------------
(* The cart saga.                                                          *)

(* One call: OVH turns its cart into c, or does not, and the program goes  *)
(* on at ok or at err.                                                     *)
Call(c, ok, err) ==
  \/ cart' = c /\ pc' = ok /\ UNCHANGED lost
  \/ cart' = c /\ pc' = err /\ lost' = TRUE
  \/ pc' = err /\ UNCHANGED <<cart, lost>>

(* Without a reply there is no cart id, and nothing to delete.             *)
CreateCart ==
  /\ pc = "create"
  /\ Call([cart EXCEPT !.state = "open"], "assign", "failed")
  /\ UNCHANGED req /\ UNCHANGED Local /\ UNCHANGED Priced

(* Mutant of AssignCart: the cart is not deleted when it cannot be assigned. *)
AssignCartLeaks ==
  /\ pc = "assign"
  /\ Call([cart EXCEPT !.state = "assigned"], "server", "failed")
  /\ UNCHANGED req /\ UNCHANGED Local /\ UNCHANGED Priced

AssignCart ==
  /\ pc = "assign"
  /\ Call([cart EXCEPT !.state = "assigned"], "server", "delete")
  /\ UNCHANGED req /\ UNCHANGED Local /\ UNCHANGED Priced

AfterAddons == IF addonsLeft' > 0 THEN "addon" ELSE "datacenter"

add_server_to_cart == [cart EXCEPT !.server = TRUE]

AddServer ==
  /\ pc = "server"
  /\ UNCHANGED Local
  /\ Call(add_server_to_cart, AfterAddons, "delete")
  /\ UNCHANGED req /\ UNCHANGED Priced

AddOption ==
  /\ pc = "addon"
  /\ addonsLeft' = addonsLeft - 1
  /\ Call([cart EXCEPT !.addons = @ + 1], AfterAddons, "delete")
  /\ UNCHANGED <<req, datacenters, tried, refused, configs>> /\ UNCHANGED Priced

(* The datacenters in order; the first one accepted ends the loop, a       *)
(* refusal tries the next, and running out of them raises.                 *)
TryDatacenter ==
  LET d == datacenters[tried + 1] IN
  /\ pc = "datacenter" /\ tried < Len(datacenters)
  /\ tried' = tried + 1
  /\ Call([cart EXCEPT !.dcs = @ \cup {d}], "config", "datacenter")
  /\ refused' = IF pc' = "config" THEN refused ELSE refused \cup {tried + 1}
  /\ configs' = IF pc' = "config" THEN Config ELSE configs
  /\ UNCHANGED <<req, datacenters, addonsLeft>> /\ UNCHANGED Priced

NoDatacenter ==
  /\ pc = "datacenter" /\ tried = Len(datacenters)
  /\ pc' = "delete"
  /\ UNCHANGED <<req, cart, lost>> /\ UNCHANGED Local /\ UNCHANGED Priced

add_configuration_to_cart(c) == [cart EXCEPT !.configs = @ \cup {c}]

(* Mutant of SetConfig: the first of the two calls to return ends the wait. *)
SetFirstConfig(c) ==
  /\ pc = "config" /\ c \in configs
  /\ configs' = configs \ {c}
  /\ Call(add_configuration_to_cart(c), "checkout", "delete")
  /\ UNCHANGED <<req, datacenters, tried, refused, addonsLeft>>
  /\ UNCHANGED Priced

(* gather() over two threads.  The first error ends the wait, and the      *)
(* other thread runs on while the cart is being deleted.                   *)
SetConfig(c) ==
  /\ c \in configs
  /\ configs' = configs \ {c}
  /\ LET applied == add_configuration_to_cart(c)
         here    == IF configs' = {} THEN "checkout" ELSE "config"
     IN \/ pc = "config" /\ Call(applied, here, "delete")
        \/ /\ pc # "config"
           /\ cart' \in {cart} \cup {x \in {applied} : cart.state = "assigned"}
           /\ UNCHANGED <<pc, lost>>
  /\ UNCHANGED <<req, datacenters, tried, refused, addonsLeft>>
  /\ UNCHANGED Priced

(* Mutant of CheckoutCart: any end of the call counts as an order.         *)
CheckoutCartBlind ==
  /\ pc = "checkout"
  /\ Call([cart EXCEPT !.state = "ordered"], "ordered", "ordered")
  /\ UNCHANGED req /\ UNCHANGED Local /\ UNCHANGED Priced

CheckoutCart ==
  /\ pc = "checkout"
  /\ Call([cart EXCEPT !.state = "ordered"], "ordered", "delete")
  /\ UNCHANGED req /\ UNCHANGED Local /\ UNCHANGED Priced

(* delete_cart, best effort; OVH keeps a cart it has turned into an order. *)
DeleteCart ==
  /\ pc = "delete"
  /\ pc' = "failed"
  /\ \/ /\ cart' = [cart EXCEPT !.state =
                         IF @ = "ordered" THEN @ ELSE "deleted"]
        /\ UNCHANGED lost
     \/ lost' = TRUE /\ UNCHANGED cart
  /\ UNCHANGED req /\ UNCHANGED Local /\ UNCHANGED Priced

(* The process stops, or an exception that is no OVHServiceError leaves    *)
(* the function: no except clause runs.                                    *)
Die ==
  /\ pc \in Calls
  /\ pc' = "dead"
  /\ configs' = {}
  /\ \/ UNCHANGED cart
     \/ pc = "checkout" /\ cart' = [cart EXCEPT !.state = "ordered"]
  /\ UNCHANGED <<req, datacenters, tried, refused, addonsLeft, lost>>
  /\ UNCHANGED Priced

-----------------------------------------------------------------------------
Saga ==
  \/ _enforce_max_price
  \/ DiscoverDatacenters
  \/ CreateCart
  \/ AssignCart
  \/ AddServer
  \/ AddOption
  \/ TryDatacenter
  \/ NoDatacenter
  \/ \E c \in Config : SetConfig(c)
  \/ CheckoutCart
  \/ DeleteCart

RushNext == Saga \/ PriceMoves \/ CacheExpires \/ Die

(* Every OVH call returns or raises within the client's timeout.           *)
RushSpec == RushInit /\ [][RushNext]_rushVars /\ WF_rushVars(Saga)

-----------------------------------------------------------------------------
(* Properties.                                                             *)

Ordered == cart.state = "ordered"

(* Multi-datacenter fallback, "the first one OVH accepts wins": every       *)
(* datacenter ranked above the accepted one was refused, and OVH was asked *)
(* for none below it.                                                      *)
FirstAccepted ==
  /\ tried > 0 /\ datacenters[tried] \in cart.dcs
  /\ refused = 1 .. tried - 1
  /\ cart.dcs \subseteq {datacenters[i] : i \in 1 .. tried}

(* OVH is only asked to check out a complete cart: server, every add-on,   *)
(* region, OS, and the first datacenter it accepted ("OVH requires         *)
(* dedicated_datacenter before checkout", checkout.py:98).                 *)
CheckoutIsComplete ==
  pc = "checkout" =>
    /\ cart.state = "assigned" /\ cart.server
    /\ cart.addons = req.addons
    /\ cart.configs = Config /\ configs = {}
    /\ FirstAccepted

(* The cap fails closed: an order under a cap was preceded by a price that *)
(* was looked up and did not exceed it.                                    *)
CapFailsClosed ==
  Ordered /\ req.cap # NoPrice => seenPrice # NoPrice /\ seenPrice <= req.cap

(* "On any failure after cart creation, the cart is deleted to avoid       *)
(* orphans" (checkout.py:87): a failure with every reply received and the  *)
(* deletion done leaves no cart and no order, although a config call may   *)
(* still run when the cart is deleted.                                     *)
CleanFailure ==
  pc = "failed" /\ ~ lost => cart.state \in {"none", "deleted"}

-----------------------------------------------------------------------------
(* It implements the abstract attempt.                                     *)
RushAttempt == INSTANCE OrderAttempt WITH
  status <- CASE pc = "ordered" -> "ordered"
              [] pc \in {"failed", "dead"} -> "failed"
              [] OTHER -> "pending",
  placed <- Ordered

(* What _execute_rush_order promises its callers: see OrderAttempt.        *)
ImplementsAttempt == RushAttempt!Spec

=============================================================================

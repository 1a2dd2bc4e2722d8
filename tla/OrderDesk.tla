----------------------------- MODULE OrderDesk -----------------------------
(***************************************************************************)
(* Orders as the dashboard reads and marks them: the scopes of abac, the   *)
(* regions of an admin, the cached list and statistics, notes and marks,   *)
(* and the numbering of invoices.                                          *)
(***************************************************************************)
EXTENDS Naturals, FiniteSets

CONSTANTS
  Order, Region,
  RegionOf,     \* region_audit.pricing_country_used of an order, or NoRegion
  NoRegion,     \* an order older than region_audit
  DefaultRegion,
  Admin,
  ScopesOf,     \* of an admin
  RegionsOf,    \* of an admin, {} when unrestricted
  Root,         \* admins with is_root
  MaxChanges,   \* of the orders, a bound
  MaxPages      \* cached at a time, a bound

ASSUME DeskAssumption ==
  /\ NoRegion \notin Region /\ DefaultRegion \in Region
  /\ RegionOf \in [Order -> Region \cup {NoRegion}]
  /\ RegionsOf \in [Admin -> SUBSET Region]
  /\ Root \subseteq Admin /\ MaxChanges \in Nat /\ MaxPages \in Nat

VARIABLES
  status,     \* status.type, of an order
  paid,       \* orders with payment_status completed
  noted,      \* orders with a note, or a custom_status
  number,     \* invoice_number, 0 when there is none
  seq,        \* counters.invoice_number_<year>
  assigning,  \* order -> numbers drawn for it and not yet claimed
  shelf,      \* admin:orders:* and admin:stats:*, by key
  shown,      \* the last answer: to whom, and the orders it speaks of
  changes

deskVars == <<status, paid, noted, number, seq, assigning, shelf, shown, changes>>

Types == {"accepted", "rejected"}
Unfiltered == "all"

(* is_allowed: a policy for each permission, and no other; those of admins *)
(* need is_root besides.                                                   *)
IsAllowed(a, perm) ==
  /\ perm \in ScopesOf[a] \/ "*" \in ScopesOf[a]
  /\ perm \in {"admins:read", "admins:write"} => a \in Root

Unrestricted(a) == RegionsOf[a] = {} \/ a \in Root

(* An order without a region counts as the rest of the world here.         *)
OrderRegion(o) == IF RegionOf[o] = NoRegion THEN DefaultRegion ELSE RegionOf[o]

(* _enforce_order_region: 404 otherwise. *)
MayOpen(a, o) == Unrestricted(a) \/ OrderRegion(o) \in RegionsOf[a]

(* _region_filter: the regions a query is held to, {} for no filter.  A    *)
(* region of the admin's own narrows it, another is ignored.               *)
RegionFilter(a, country) ==
  IF Unrestricted(a) THEN {}
  ELSE IF country \in RegionsOf[a] THEN {country} ELSE RegionsOf[a]

(* _build_order_query: the forced regions take precedence over the one     *)
(* asked for.                                                              *)
OrderQuery(forced, country, type) ==
  {o \in Order :
     /\ type # Unfiltered => status[o] = type
     /\ IF forced # {} THEN RegionOf[o] \in forced
        ELSE country # NoRegion => RegionOf[o] = country}

(* revenue_mongo_match *)
Revenue(S) == {o \in S : o \in paid /\ status[o] # "rejected"}

DeskInit ==
  /\ status = [o \in Order |-> "accepted"]
  /\ paid = {} /\ noted = {}
  /\ number = [o \in Order |-> 0] /\ seq = 0
  /\ assigning = [o \in Order |-> {}]
  /\ shelf = <<>>
  /\ shown = [to |-> CHOOSE a \in Admin : TRUE, orders |-> {}]
  /\ changes = 0

Answers(a, S) == shown' = [to |-> a, orders |-> S]

Shelve(key, page) ==
  /\ key \in DOMAIN shelf \/ Cardinality(DOMAIN shelf) < MaxPages
  /\ shelf' = [k \in DOMAIN shelf \cup {key} |-> IF k = key THEN page ELSE shelf[k]]

-----------------------------------------------------------------------------
(* admin_list_orders: the key names every parameter that matters; a page   *)
(* that is found is served as it is, for 60 s.                             *)

ListKey(forced, country, type) == <<"orders", forced, country, type>>

ListOrders(a, asked, type) ==
  LET forced == RegionFilter(a, asked)
      country == IF forced # {} THEN NoRegion ELSE asked
      key == ListKey(forced, country, type)
      page == IF key \in DOMAIN shelf THEN shelf[key] ELSE OrderQuery(forced, country, type)
  IN  /\ IsAllowed(a, "orders:read")
      /\ Answers(a, page)
      /\ Shelve(key, page)
      /\ UNCHANGED <<status, paid, noted, number, seq, assigning, changes>>

(* admin_get_stats: its counts are those of the orders of the regions. *)
GetStats(a) ==
  LET forced == RegionFilter(a, NoRegion)
      key == <<"stats", forced>>
      counted == IF key \in DOMAIN shelf THEN shelf[key]
                 ELSE Revenue(OrderQuery(forced, NoRegion, Unfiltered))
  IN  /\ IsAllowed(a, "orders:read")
      /\ Answers(a, counted)
      /\ Shelve(key, counted)
      /\ UNCHANGED <<status, paid, noted, number, seq, assigning, changes>>

PageLapses(key) ==
  /\ key \in DOMAIN shelf
  /\ shelf' = [k \in DOMAIN shelf \ {key} |-> shelf[k]]
  /\ UNCHANGED <<status, paid, noted, number, seq, assigning, shown, changes>>

-----------------------------------------------------------------------------
(* One order.  Nothing here drops a cached page. *)

Changes == changes < MaxChanges /\ changes' = changes + 1

Opens(a, o, perm) == IsAllowed(a, perm) /\ MayOpen(a, o) /\ Answers(a, {o})

GetOrder(a, o) ==
  /\ Opens(a, o, "orders:read")
  /\ UNCHANGED <<status, paid, noted, number, seq, assigning, shelf, changes>>

UpdateOrderStatus(a, o, type) ==
  /\ Opens(a, o, "orders:write") /\ Changes
  /\ status' = [status EXCEPT ![o] = type]
  /\ UNCHANGED <<paid, noted, number, seq, assigning, shelf>>

MarkPaymentCollected(a, o) ==
  /\ Opens(a, o, "orders:write") /\ Changes
  /\ paid' = paid \cup {o}
  /\ UNCHANGED <<status, noted, number, seq, assigning, shelf>>

AddNote(a, o) ==
  /\ Opens(a, o, "orders:write") /\ Changes
  /\ noted' = noted \cup {o}
  /\ UNCHANGED <<status, paid, number, seq, assigning, shelf>>

SetCustomStatus(a, o) ==
  /\ Opens(a, o, "orders:write") /\ Changes
  /\ noted' \in {noted \cup {o}, noted \ {o}}
  /\ UNCHANGED <<status, paid, number, seq, assigning, shelf>>

(* get_or_assign_invoice_number: the order has none, so a number is drawn; *)
(* it is claimed only if the order still has none, and is lost otherwise.  *)
DrawNumber(a, o) ==
  /\ Opens(a, o, "orders:read") /\ Changes
  /\ number[o] = 0
  /\ seq' = seq + 1
  /\ assigning' = [assigning EXCEPT ![o] = @ \cup {seq + 1}]
  /\ UNCHANGED <<status, paid, noted, number, shelf>>

(* (ClaimAnyway: a mutant without the filter on the number.)               *)
ClaimAnyway(o, n) ==
  /\ n \in assigning[o]
  /\ number' = [number EXCEPT ![o] = n]
  /\ assigning' = [assigning EXCEPT ![o] = @ \ {n}]
  /\ UNCHANGED <<status, paid, noted, seq, shelf, shown, changes>>

ClaimNumber(o, n) ==
  /\ n \in assigning[o]
  /\ number' = [number EXCEPT ![o] = IF @ = 0 THEN n ELSE @]
  /\ assigning' = [assigning EXCEPT ![o] = @ \ {n}]
  /\ UNCHANGED <<status, paid, noted, seq, shelf, shown, changes>>

DeskNext ==
  \/ \E a \in Admin :
       \/ \E asked \in Region \cup {NoRegion}, type \in {Unfiltered, "rejected"} :
            ListOrders(a, asked, type)
       \/ GetStats(a)
       \/ \E o \in Order :
            \/ GetOrder(a, o) \/ MarkPaymentCollected(a, o) \/ AddNote(a, o)
            \/ SetCustomStatus(a, o) \/ DrawNumber(a, o)
            \/ \E type \in Types : UpdateOrderStatus(a, o, type)
  \/ \E key \in DOMAIN shelf : PageLapses(key)
  \/ \E o \in Order, n \in 1 .. seq : ClaimNumber(o, n)

DeskSpec == DeskInit /\ [][DeskNext]_deskVars

-----------------------------------------------------------------------------
(* Properties *)

(* The orders, their invoice numbers and the cached answers are in their   *)
(* types: no number is given that the counter has not reached.             *)
DeskTypeOK ==
  /\ status \in [Order -> Types] /\ paid \subseteq Order /\ noted \subseteq Order
  /\ number \in [Order -> 0 .. seq] /\ seq \in Nat
  /\ \A o \in Order : assigning[o] \subseteq 1 .. seq
  /\ \A key \in DOMAIN shelf : shelf[key] \subseteq Order
  /\ changes \in 0 .. MaxChanges

(* An admin of some regions is shown and changes orders of those alone,    *)
(* whoever filled the cache the answer comes from.                         *)
ShownIsInScope == \A o \in shown.orders : MayOpen(shown.to, o)

(* The number of an invoice is its own, and once given it stays: two       *)
(* requests for one order's invoice at once get one number.                *)
InvoiceNumberIsFinal ==
  [][\A o, p \in Order :
       /\ number[o] # 0 => number'[o] = number[o]
       /\ number'[o] # 0 /\ number'[o] = number'[p] => o = p]_deskVars
=============================================================================

----------------------------- MODULE MCCommerce -----------------------------
(* Selling: an order placed by a click, its prices, the product's listing, *)
(* the pages that show it, the carts that were left, and the guarded calls *)
(* to the services outside.  They share no store that two of them write,   *)
(* so each behaviour runs one of them, its subject.                        *)
EXTENDS MCCodOrder, Pricing, Catalogue, ContentCache, Leads, Guarded

VARIABLE subject

Subjects == {"order", "prices", "listing", "pages", "leads", "calls"}
commerceVars == <<subject, codVars, pricingVars, catalogueVars, cacheVars, leadsVars, guardVars>>

CommerceInit ==
  /\ subject \in Subjects /\ CodInit /\ PricingInit /\ CatalogueInit /\ CacheInit /\ LeadsInit /\ GuardInit
  /\ subject # "prices" => coupon = NoCoupon
  /\ subject # "pages" => family = FamilyOf("hero") /\ \A d \in Docs : content[d] = 0

CommerceNext ==
  /\ UNCHANGED subject
  /\ \/ subject = "order" /\ CodNext /\ UNCHANGED <<pricingVars, catalogueVars, cacheVars, leadsVars, guardVars>>
     \/ subject = "prices" /\ PricingNext /\ UNCHANGED <<codVars, catalogueVars, cacheVars, leadsVars, guardVars>>
     \/ subject = "listing" /\ CatalogueNext /\ UNCHANGED <<codVars, pricingVars, cacheVars, leadsVars, guardVars>>
     \/ subject = "pages" /\ CacheNext /\ UNCHANGED <<codVars, pricingVars, catalogueVars, leadsVars, guardVars>>
     \/ subject = "leads" /\ LeadsNext /\ UNCHANGED <<codVars, pricingVars, catalogueVars, cacheVars, guardVars>>
     \/ subject = "calls" /\ GuardNext /\ UNCHANGED <<codVars, pricingVars, catalogueVars, cacheVars, leadsVars>>

CommerceSpec == CommerceInit /\ [][CommerceNext]_commerceVars
-----------------------------------------------------------------------------
(* Small instances, the orders being those of MCCodOrder.                  *)
CONSTANTS x1, x2, t1, t2, d1

(* A root and an Australian admin edit one coupon; a ring with two prices, *)
(* a chain without an Australian one and a charm with only its old one.    *)
EditorRegions == x1 :> {} @@ x2 :> {"AU"}
AssortmentDef ==
  [ring |-> [prices |-> [IN |-> 9999, AU |-> 9333, default |-> 250], legacy |-> 9999, variants |-> {"small"}],
   chain |-> [prices |-> [IN |-> 4551, default |-> 125], legacy |-> 4551, variants |-> {"none"}],
   charm |-> [prices |-> <<>>, legacy |-> 777, variants |-> {"none"}]]
CartLine(p, q, v) == [product |-> p, quantity |-> q, variant |-> v]
CartsDef == {<<CartLine("ring", 3, "small"), CartLine("charm", 1, "none")>>}
PlacesDef == {[country |-> "IN", pin |-> "home", state |-> "far"],
              [country |-> "IN", pin |-> None, state |-> "far"],
              [country |-> "AU", pin |-> None, state |-> "far"]}
Offer(t, i, a, ps, cs) ==
  [type |-> t, indicator |-> i, amount |-> a, products |-> ps, countries |-> cs, active |-> TRUE]
CouponsDef == {NoCoupon, Offer("PRODUCT", "AMOUNT", 60, {"ring"}, {"AU"})}
PatchesDef == {[amount |-> 300], [indicator |-> "PERCENT"], [countries |-> {}]}
EditsDef == {[product |-> "ring", market |-> "IN", to |-> 8001]}
RatesDef == [IN |-> 30, AU |-> 100, NZ |-> 0]

(* The dashboard sets a price, switches the product off or sets its stock. *)
FormsDef == {[price |-> 2], [active |-> FALSE], [qty |-> 1]}

AustralianDesk == d1 :> {"AU"}

HomeDef == "c1" :> "backend" @@ "c2" :> "backend" @@ "c3" :> "worker"

Pairs == Permutations({t1, t2})
-----------------------------------------------------------------------------
(* Properties *)

(* Every variable of the six components is in its type.                   *)
CommerceTypeOK == CodTypeOK /\ PricingTypeOK /\ CatalogueTypeOK /\ CacheTypeOK /\ LeadsTypeOK /\ GuardTypeOK

(* One click is one order, with the units it took; one person has one      *)
(* cart; what was taken down is off Facebook; failures count in a window.  *)
RecordsAgree ==
  OneOrderUnlessCut /\ UnitsMatchOrders /\ OneCartPerPerson /\ OffUnlessCrossed /\ FailuresLapseUnlessCut

(* The invoice adds up to what was charged, and that is what was shown.    *)
PricesHold == InvoiceAddsUpUnlessTorn /\ ChargedAsPreviewed
=============================================================================

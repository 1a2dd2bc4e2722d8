------------------------------ MODULE Pricing ------------------------------
(***************************************************************************)
(* What an order costs, and the document that says so: the price of a      *)
(* market, a coupon, the totals, and the shares, tax and totals of an      *)
(* invoice drawn from the order later.  Prices and the coupon are edited   *)
(* while requests are at work; a request reads each product, and then the  *)
(* coupon, in reads of their own.                                          *)
(*                                                                         *)
(* Money is a number of the smallest unit: money() rounds there.           *)
(***************************************************************************)
EXTENDS Integers, Sequences, FiniteSets, FiniteSetsExt

CONSTANTS
  Shopper,       \* requests that price a cart
  CouponEditor,  \* requests that edit the coupon
  Regions,       \* CouponEditor -> the regions its admin has, {} for all
  Assortment,     \* product -> [prices, legacy, variants]
  Countries,     \* the countries a request may be about: of GeoAnswers
  Carts,         \* the carts: sequences of [product, quantity, variant]
  Places,        \* the addresses: [country, pin, state]
  Coupons,       \* the coupons there may be at first
  Patches,       \* what an edit of the coupon sets
  PriceEdits,    \* what an edit of a price sets: [product, market, to]
  Shippings,     \* what the dashboard charges for shipping
  Rates,         \* settings.gst_*: region -> tenths of a percent
  SellerPin, SellerState,  \* settings.invoice_seller_*
  MaxQuantity,   \* settings.order_max_quantity
  MaxEdits       \* a bound

None == "none"
NoCoupon == [type |-> None]
Product == DOMAIN Assortment

(* What a product may be saved with, and a coupon: none of the prices is   *)
(* below zero, and the rest of the world has one.                          *)
ArePrices(ps) == ps = <<>> \/ ("default" \in DOMAIN ps /\ \A m \in DOMAIN ps : ps[m] \in Nat)
IsOffer(c) == "amount" \in DOMAIN c /\ c.amount \in Int

ASSUME PricingAssumption ==
  /\ MaxEdits \in Nat /\ MaxQuantity \in Nat \ {0}
  /\ Shippings \subseteq Nat /\ Countries \subseteq {"IN", "AU", "NZ", "default"}
  /\ \A region \in DOMAIN Rates : Rates[region] \in Nat
  /\ \A cart \in Carts : cart \in Seq({cart[i] : i \in DOMAIN cart})
  /\ \A p \in DOMAIN Assortment : Assortment[p].legacy \in Nat /\ ArePrices(Assortment[p].prices)
  /\ \A edit \in PriceEdits : edit.to \in Nat
  /\ \A c \in Coupons \ {NoCoupon} : IsOffer(c)
  /\ \A patch \in Patches : "amount" \in DOMAIN patch => patch.amount \in Int
-----------------------------------------------------------------------------
(* Money *)

Rounded(n, d) == (2 * n + d) \div (2 * d)
HalfUp(n, d) == IF n < 0 THEN -Rounded(-n, d) ELSE Rounded(n, d)
Least(a, b) == IF a <= b THEN a ELSE b
AtLeastZero(n) == IF n < 0 THEN 0 ELSE n
Sum(f, S) == MapThenSumSet(LAMBDA i : f[i], S)

(* A share of an amount for each line of the mask, the last of which takes *)
(* what rounding has left.                                                 *)
SharesRounded(values, share, mask) ==
  LET all == Sum(values, mask)
      cap == Least(AtLeastZero(share), all)
  IN  [i \in DOMAIN values |-> IF i \in mask /\ cap > 0 THEN HalfUp(cap * values[i], all) ELSE 0]

AllocateShares(values, share, mask) ==
  LET all == Sum(values, mask)
      cap == Least(AtLeastZero(share), all)
      parts == SharesRounded(values, share, mask)
      last == Max(mask)
  IN  IF mask = {} \/ cap <= 0 THEN [i \in DOMAIN values |-> 0]
      ELSE [parts EXCEPT ![last] = cap - Sum(parts, mask \ {last})]
-----------------------------------------------------------------------------
(* Markets *)

Markets == {"IN", "AU", "NZ"}   \* settings.supported_market_countries
OrderAllowed == {"IN", "AU"}    \* settings.order_allowed_countries
PrepaidEnabled == {"IN"}        \* settings.prepaid_enabled_countries
Selections == Markets \cup {"ROW", None}
CurrencyOf == [IN |-> "INR", AU |-> "AUD", NZ |-> "NZD", default |-> "USD"]

UserSelected(selected) ==
  CASE selected = "ROW" -> "default" [] selected \in Markets -> selected [] OTHER -> None

(* What the lookup of an address says: its market, or nothing to go by     *)
(* when the service does not answer, which is kept like an answer.         *)
GeoAnswers == Markets \cup {"default"}

ResolveCountry(selected, geo) ==
  CASE UserSelected(selected) # None -> UserSelected(selected)
    [] geo \in Markets -> geo
    [] OTHER -> "default"

Bucket(prices, country) == IF country \in DOMAIN prices THEN country ELSE "default"

(* A product without prices is sold in rupees everywhere. *)
UnitPrice(prices, legacy, country) == IF prices = <<>> THEN legacy ELSE prices[Bucket(prices, country)]
Currency(prices, country) == IF prices = <<>> THEN "INR" ELSE CurrencyOf[Bucket(prices, country)]
InItsCurrency(prices, country) == prices = <<>> \/ Currency(prices, country) = CurrencyOf[country]

AcceptsCheckout(country, place, payment) ==
  /\ country \in OrderAllowed /\ place.country \in OrderAllowed
  /\ payment = "razorpay" => country \in PrepaidEnabled /\ place.country = "IN"
-----------------------------------------------------------------------------
(* Coupons *)

ValidCoupon(c) ==
  /\ c.amount > 0
  /\ c.indicator = "PERCENT" => c.amount <= 100
  /\ c.type = "PRODUCT" => c.products # {}

(* A CART coupon keeps no products. *)
Normal(c) == IF c.type = "PRODUCT" THEN c ELSE [c EXCEPT !.products = {}]

AllowsCountry(c, country) == c.countries = {} \/ country \in c.countries

MaskOf(c, lines) ==
  {i \in DOMAIN lines : c.type \in {None, "CART"} \/ lines[i].product \in c.products}

Subtotal(lines) == Sum([i \in DOMAIN lines |-> lines[i].price * lines[i].quantity], DOMAIN lines)

Eligible(c, lines) ==
  Sum([i \in DOMAIN lines |-> lines[i].price * lines[i].quantity], MaskOf(c, lines))

(* An amount is of the currency itself, not of its hundredths; the last    *)
(* cap is the subtotal, whatever the coupon is for.                        *)
ComputeDiscount(c, lines) ==
  Least(IF c.indicator = "PERCENT" THEN HalfUp(Eligible(c, lines) * c.amount, 100)
        ELSE Least(100 * c.amount, Eligible(c, lines)), Subtotal(lines))

Applies(c, lines, country) ==
  c # NoCoupon /\ c.active /\ AllowsCountry(c, country) /\ MaskOf(c, lines) # {}

Priced(lines, discount, shipping) ==
  [subtotal |-> Subtotal(lines), discount |-> discount, shipping |-> shipping,
   total |-> AtLeastZero(Subtotal(lines) - discount + shipping)]
-----------------------------------------------------------------------------
(* Documents *)

Documents == {"tax_invoice", "receipt", "bill_of_supply"}

TaxRegion(place) == IF place.country \in Markets THEN place.country ELSE "default"
TaxInvoiceEligible(place) == TaxRegion(place) # "default"
RateFor(region) == IF region \in DOMAIN Rates THEN Rates[region] ELSE 0

PinSays(pin) == pin = SellerPin
IntraState(place) ==
  IF place.pin # None THEN PinSays(place.pin) ELSE place.state = SellerState

(* The discount's share of each line.                                      *)
LineShares(o) ==
  AllocateShares([i \in DOMAIN o.lines |-> o.lines[i].price * o.lines[i].quantity],
                 o.discount, MaskOf(o.applied, o.lines))

(* What is left of a line, taxes within.                                   *)
TaxLines(o, document) ==
  LET region == TaxRegion(o.place)
      rate == RateFor(region)
      split == document # "bill_of_supply" /\ rate > 0
      india == split /\ region = "IN"
      intra == IntraState(o.place)
      shares == LineShares(o)
  IN  [i \in DOMAIN o.lines |->
         LET gross == o.lines[i].price * o.lines[i].quantity
             net == gross - shares[i]
             taxable == IF split THEN HalfUp(1000 * net, 1000 + rate) ELSE net
             tax == net - taxable
             half == HalfUp(tax, 2)
         IN  [gross |-> gross, net |-> net, taxable |-> taxable,
              cgst |-> IF india /\ intra THEN half ELSE 0,
              sgst |-> IF india /\ intra THEN tax - half ELSE 0,
              igst |-> IF india /\ ~intra THEN tax ELSE 0,
              gst |-> IF split /\ ~india THEN tax ELSE 0]]

CommercialTotal(rows, field) == Sum([i \in DOMAIN rows |-> rows[i][field]], DOMAIN rows)

(* The columns of taxes a document has.                                    *)
TaxColumns(o, document) ==
  LET region == TaxRegion(o.place)
      show == document # "bill_of_supply" /\
              (RateFor(region) > 0 \/ (document = "tax_invoice" /\ TaxInvoiceEligible(o.place)))
  IN  CASE ~show -> {}
        [] show /\ region = "IN" /\ IntraState(o.place) -> {"cgst", "sgst"}
        [] show /\ region = "IN" /\ ~IntraState(o.place) -> {"igst"}
        [] show /\ region # "IN" -> {"gst"}
-----------------------------------------------------------------------------
VARIABLES
  prices,    \* product -> its prices, market -> amount
  onSale,    \* the products that are active
  coupon,
  editing,   \* coupon editor -> what it is at, and its patch
  edits,     \* edits done
  shopping,  \* shopper -> its request
  preview,   \* shopper -> the last preview, and the edits there were
  ordered     \* shopper -> its order

pricingVars == <<prices, onSale, coupon, editing, edits, shopping, preview, ordered>>

NotShopping == [at |-> "idle"]
Nothing == [none |-> TRUE]
Quiet == [at |-> "idle", patch |-> <<>>]

PricingInit ==
  /\ prices = [p \in Product |-> Assortment[p].prices]
  /\ onSale = Product
  /\ coupon \in Coupons
  /\ editing = [e \in CouponEditor |-> Quiet]
  /\ edits = 0
  /\ shopping = [s \in Shopper |-> NotShopping]
  /\ preview = [s \in Shopper |-> Nothing]
  /\ ordered = [s \in Shopper |-> Nothing]

Edited == edits < MaxEdits /\ edits' = edits + 1

EditPrice(p, m, v) ==
  /\ m \in DOMAIN prices[p] /\ prices[p][m] # v
  /\ prices' = [prices EXCEPT ![p][m] = v]
  /\ Edited
  /\ UNCHANGED <<onSale, coupon, editing, shopping, preview, ordered>>

Retire(p) ==
  /\ p \in onSale /\ onSale' = onSale \ {p}
  /\ Edited
  /\ UNCHANGED <<prices, coupon, editing, shopping, preview, ordered>>
-----------------------------------------------------------------------------
(* An edit of the coupon: the route reads it and judges the whole, the     *)
(* service reads it again and judges the whole, and then writes the patch. *)

InScope(e, countries) == Regions[e] = {} \/ (countries # {} /\ countries \subseteq Regions[e])
PatchedBy(patch) ==
  [f \in DOMAIN patch \cup DOMAIN coupon |-> IF f \in DOMAIN patch THEN patch[f] ELSE coupon[f]]

CreateCoupon(e, c) ==
  /\ editing[e].at = "idle" /\ coupon = NoCoupon
  /\ ValidCoupon(c) /\ InScope(e, c.countries)
  /\ coupon' = Normal(c)
  /\ Edited
  /\ UNCHANGED <<prices, onSale, editing, shopping, preview, ordered>>

OpenCoupon(e, patch) ==
  /\ editing[e].at = "idle" /\ coupon # NoCoupon /\ edits < MaxEdits
  /\ ValidCoupon(PatchedBy(patch)) /\ InScope(e, PatchedBy(patch).countries)
  /\ editing' = [editing EXCEPT ![e] = [at |-> "opened", patch |-> patch]]
  /\ UNCHANGED <<prices, onSale, coupon, edits, shopping, preview, ordered>>

CheckCoupon(e) ==
  /\ editing[e].at = "opened"
  /\ editing' = [editing EXCEPT ![e] = IF coupon # NoCoupon /\ ValidCoupon(PatchedBy(editing[e].patch))
                                       THEN [editing[e] EXCEPT !.at = "checked"] ELSE Quiet]
  /\ UNCHANGED <<prices, onSale, coupon, edits, shopping, preview, ordered>>

WriteCoupon(e) ==
  /\ editing[e].at = "checked"
  /\ coupon' = IF coupon = NoCoupon THEN coupon ELSE PatchedBy(editing[e].patch)
  /\ editing' = [editing EXCEPT ![e] = Quiet]
  /\ Edited
  /\ UNCHANGED <<prices, onSale, shopping, preview, ordered>>

DeleteCoupon(e) ==
  /\ editing[e].at = "idle" /\ coupon # NoCoupon
  /\ coupon' = NoCoupon
  /\ Edited
  /\ UNCHANGED <<prices, onSale, editing, shopping, preview, ordered>>
-----------------------------------------------------------------------------
(* A request.  A preview knows the country its page shows, a checkout      *)
(* resolves its own, and an order of the dashboard is told it, and asks    *)
(* for the coupon of no country at all.                                    *)

BeginShopping(s, for, cart, country, asked, coded, place, shipping) ==
  shopping' = [shopping EXCEPT ![s] =
    [at |-> "lines", for |-> for, cart |-> cart, country |-> country, asked |-> asked, coded |-> coded,
     place |-> place, shipping |-> shipping, lines |-> <<>>, since |-> edits]]

Goods(cart) == [i \in DOMAIN cart |-> [product |-> cart[i].product, quantity |-> cart[i].quantity]]

(* (PreviewAtDefault: a mutant, the preview priced for the rest of world.) *)
PreviewAtDefault(s, cart, country) ==
  /\ shopping[s].at = "idle" /\ preview[s] = Nothing /\ ordered[s] = Nothing
  /\ BeginShopping(s, "preview", cart, "default", country, TRUE, Nothing, 0)
  /\ UNCHANGED <<prices, onSale, coupon, editing, edits, preview, ordered>>

BeginPreview(s, cart, country) ==
  /\ shopping[s].at = "idle" /\ preview[s] = Nothing /\ ordered[s] = Nothing
  /\ BeginShopping(s, "preview", cart, country, country, TRUE, Nothing, 0)
  /\ UNCHANGED <<prices, onSale, coupon, editing, edits, preview, ordered>>

BeginCheckout(s, cart, selected, geo, coded, place, payment) ==
  LET country == ResolveCountry(selected, geo) IN
  /\ shopping[s].at = "idle" /\ ordered[s] = Nothing
  /\ preview[s] # Nothing => preview[s].cart = Goods(cart)
  /\ AcceptsCheckout(country, place, payment)
  /\ BeginShopping(s, "checkout", cart, country, country, coded, place, 0)
  /\ UNCHANGED <<prices, onSale, coupon, editing, edits, preview, ordered>>

BeginDesk(s, cart, country, coded, place, shipping) ==
  /\ shopping[s].at = "idle" /\ ordered[s] = Nothing
  /\ preview[s] = Nothing
  /\ BeginShopping(s, "desk", cart, country, None, coded, place, shipping)
  /\ UNCHANGED <<prices, onSale, coupon, editing, edits, preview, ordered>>

Fits(line) == line.variant \in Assortment[line.product].variants

Takes(for, line, country) ==
  /\ line.product \in onSale
  /\ for = "preview" \/ ( /\ line.quantity \in 1 .. MaxQuantity /\ Fits(line)
                          /\ InItsCurrency(prices[line.product], country))

PriceLine(s) ==
  LET me == shopping[s]
      line == Head(me.cart)
      p == prices[line.product]
  IN  /\ me.at = "lines" /\ me.cart # <<>>
      /\ shopping' = [shopping EXCEPT ![s] =
           IF Takes(me.for, line, me.country)
           THEN [me EXCEPT !.cart = Tail(@),
                           !.lines = Append(@, [product |-> line.product, quantity |-> line.quantity,
                                                price |-> UnitPrice(p, Assortment[line.product].legacy, me.country),
                                                currency |-> Currency(p, me.country)])]
           ELSE NotShopping]
      /\ UNCHANGED <<prices, onSale, coupon, editing, edits, preview, ordered>>

Finish(s, discount, applied) ==
  LET me == shopping[s]
      priced == Priced(me.lines, discount, me.shipping)
  IN  /\ shopping' = [shopping EXCEPT ![s] = NotShopping]
      /\ IF me.for = "preview"
         THEN /\ preview' = [preview EXCEPT ![s] =
                    [cart |-> Goods(me.lines), country |-> me.asked, since |-> me.since, total |-> priced.total]]
              /\ UNCHANGED ordered
         ELSE /\ ordered' = [ordered EXCEPT ![s] =
                    [lines |-> me.lines, country |-> me.country, place |-> me.place, for |-> me.for,
                     coded |-> me.coded, applied |-> applied, at |-> edits, subtotal |-> priced.subtotal,
                     discount |-> priced.discount, shipping |-> priced.shipping, total |-> priced.total]]
              /\ UNCHANGED preview

ApplyCoupon(s) ==
  LET me == shopping[s] IN
  /\ me.at = "lines" /\ me.cart = <<>>
  /\ CASE ~me.coded -> Finish(s, 0, NoCoupon)
       [] me.coded /\ Applies(coupon, me.lines, me.asked) -> Finish(s, ComputeDiscount(coupon, me.lines), coupon)
       [] OTHER -> shopping' = [shopping EXCEPT ![s] = NotShopping] /\ UNCHANGED <<preview, ordered>>
  /\ UNCHANGED <<prices, onSale, coupon, editing, edits>>

PricingNext ==
  \/ \E edit \in PriceEdits : EditPrice(edit.product, edit.market, edit.to)
  \/ \E p \in Product : Retire(p)
  \/ \E e \in CouponEditor :
       \/ CheckCoupon(e) \/ WriteCoupon(e) \/ DeleteCoupon(e)
       \/ \E c \in Coupons \ {NoCoupon} : CreateCoupon(e, c)
       \/ \E patch \in Patches : OpenCoupon(e, patch)
  \/ \E s \in Shopper :
       \/ PriceLine(s) \/ ApplyCoupon(s)
       \/ \E cart \in Carts :
            \/ \E country \in Countries : BeginPreview(s, cart, country)
            \/ \E selected \in Selections, geo \in Countries, coded \in BOOLEAN,
                  place \in Places, payment \in {"cod", "razorpay"} :
                 BeginCheckout(s, cart, selected, geo, coded, place, payment)
            \/ \E country \in Countries, coded \in BOOLEAN, place \in Places, shipping \in Shippings :
                 BeginDesk(s, cart, country, coded, place, shipping)

PricingSpec == PricingInit /\ [][PricingNext]_pricingVars
-----------------------------------------------------------------------------
(* Properties *)

(* Prices, coupons and carts are in their types.                           *)
PricingTypeOK ==
  /\ DOMAIN prices = Product /\ onSale \subseteq Product
  /\ edits \in 0 .. MaxEdits
  /\ \A e \in CouponEditor : editing[e].at \in {"idle", "opened", "checked"}
  /\ \A s \in Shopper : shopping[s].at \in {"idle", "lines"}

Orders == {ordered[s] : s \in Shopper} \ {Nothing}

(* Each line before the last may round half a unit away from its share.    *)
Slack(rows) == (Cardinality(DOMAIN rows) - 1) \div 2

(* The documents made of the orders, each with the columns it has.         *)
Invoices ==
  {[order |-> o, rows |-> TaxLines(o, document), columns |-> TaxColumns(o, document)] :
     o \in Orders, document \in Documents}

AddsUp(invoice) ==
  /\ CommercialTotal(invoice.rows, "gross") = invoice.order.subtotal
  /\ CommercialTotal(invoice.rows, "net") + invoice.order.shipping = invoice.order.total
  /\ \A i \in DOMAIN invoice.rows :
       LET row == invoice.rows[i]
       IN  /\ -Slack(invoice.rows) <= row.net /\ row.net <= row.gross + Slack(invoice.rows)
           /\ row.taxable + Sum(row, invoice.columns) = row.net

(* Every document of every order adds up: the lines to the subtotal, what  *)
(* is left of them and the shipping to the total charged, and on each row  *)
(* the taxable value and the taxes in the columns the document has to the  *)
(* row's total, which is of nothing to the whole line, but for the half a  *)
(* unit that rounding each line before the last may leave to it.           *)
InvoiceAddsUp == \A invoice \in Invoices : AddsUp(invoice)

(* It does unless the order's coupon was one that no edit may make, which  *)
(* two edits at once can.                                                  *)
InvoiceAddsUpUnlessTorn ==
  \A invoice \in Invoices :
    (invoice.order.applied = NoCoupon \/ ValidCoupon(invoice.order.applied)) => AddsUp(invoice)

(* A checkout charges what the preview of its cart in its country said,    *)
(* unless a price or the coupon was edited since the preview began.        *)
ChargedAsPreviewed ==
  \A s \in Shopper :
    (/\ preview[s] # Nothing /\ ordered[s] # Nothing
     /\ ordered[s].for = "checkout" /\ ordered[s].coded
     /\ ordered[s].country = preview[s].country /\ ordered[s].at = preview[s].since)
    => ordered[s].total = preview[s].total
=============================================================================

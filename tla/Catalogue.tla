----------------------------- MODULE Catalogue -----------------------------
(***************************************************************************)
(* One product, and its listing in the catalogue of Facebook.  Requests of *)
(* the dashboard edit it, list it, take its listing down and delete it; an *)
(* edit of a listed product is pushed by a background task of the request, *)
(* a deletion takes the listing down by one; a loop of the worker lists    *)
(* again whatever is marked as listed; customers buy without telling       *)
(* Facebook.                                                               *)
(***************************************************************************)
EXTENDS Integers, FiniteSets, TLC

CONSTANTS
  Dashboard,       \* requests of the dashboard
  TheLoop,       \* facebook_catalog_loop of the worker
  Forms,         \* what an edit may set
  Stock,         \* units at first
  MaxRequests,      \* a bound: edits, listings and removals
  MaxAttempts,   \* settings.fb_sync_max_attempts
  MaxFailures      \* a bound: calls to Facebook that fail

ASSUME CatalogueAssumption ==
  /\ Stock \in Nat /\ MaxRequests \in Nat /\ MaxFailures \in Nat /\ MaxAttempts \in Nat \ {0}
  /\ TheLoop \notin Dashboard
  /\ \A form \in Forms : DOMAIN form \subseteq {"price", "active", "qty"} /\ ("qty" \in DOMAIN form => form.qty \in Int)

Agents == Dashboard \cup {TheLoop}
Gone == [exists |-> FALSE]
NoListing == [listed |-> FALSE]

VARIABLES
  product,
  listing,
  agent,    \* what each request and the loop is at, and what it has read
  wanted,    \* the last word of the dashboard: listed or not
  crossed,   \* a call to Facebook or its mark was under way when a removal ended,
             \* the removal after a deletion failed, or a first listing timed out
             \* though Facebook had taken it
  edited, failures

catalogueVars == <<product, listing, agent, wanted, crossed, edited, failures>>

NotCalling == [at |-> "idle", for |-> "none", form |-> <<>>, has |-> Gone, tries |-> 0]

CatalogueInit ==
  /\ product = [exists |-> TRUE, price |-> 1, active |-> TRUE, qty |-> Stock,
                synced |-> FALSE, error |-> FALSE, review |-> FALSE]
  /\ listing = NoListing
  /\ agent = [c \in Agents |-> NotCalling]
  /\ wanted = FALSE /\ crossed = FALSE
  /\ edited = 0 /\ failures = 0

Starts(c, for, at, form, has) ==
  /\ agent[c].at = "idle" /\ edited < MaxRequests
  /\ agent' = [agent EXCEPT ![c] = [at |-> at, for |-> for, form |-> form, has |-> has, tries |-> 1]]
  /\ edited' = edited + 1

GoesTo(c, at) == agent' = [agent EXCEPT ![c].at = at]
Posts(c, has) == agent' = [agent EXCEPT ![c].at = "posting", ![c].has = has, ![c].tries = 1]
Ends(c) == agent' = [agent EXCEPT ![c] = NotCalling]

(* An inactive product is taken down instead. *)
InStock(p) == p.qty > 0
RequestFor(p) == IF p.exists /\ p.active THEN [listed |-> TRUE, price |-> p.price, available |-> InStock(p)] ELSE NoListing
-----------------------------------------------------------------------------
(* An edit: the route looks for the product, the service reads it before,  *)
(* sets what the form sent, stock and all, and reads it after.             *)

BeginEdit(h, form) ==
  /\ product.exists
  /\ Starts(h, "edit", "before", form, product)
  /\ UNCHANGED <<product, listing, wanted, crossed, failures>>

SaveEdit(h) ==
  /\ agent[h].at = "before"
  /\ IF product.exists
     THEN /\ product' = [field \in DOMAIN product |-> IF field \in DOMAIN agent[h].form THEN agent[h].form[field]
                                                     ELSE product[field]]
          /\ GoesTo(h, "after")
     ELSE UNCHANGED product /\ Ends(h)
  /\ UNCHANGED <<listing, wanted, crossed, edited, failures>>

ReadSaved(h) ==
  /\ agent[h].at = "after"
  /\ IF product.exists /\ product.synced THEN GoesTo(h, "pushing") ELSE Ends(h)
  /\ UNCHANGED <<product, listing, wanted, crossed, edited, failures>>

(* _push_product_to_facebook *)
PushReads(h) ==
  /\ agent[h].at = "pushing"
  /\ IF product.exists /\ product.synced THEN Posts(h, product) ELSE Ends(h)
  /\ UNCHANGED <<product, listing, wanted, crossed, edited, failures>>

Buy ==
  /\ product.exists /\ product.qty > 0
  /\ product' = [product EXCEPT !.qty = @ - 1]
  /\ UNCHANGED <<listing, agent, wanted, crossed, edited, failures>>
-----------------------------------------------------------------------------
(* The other requests *)

BeginSync(h) ==
  /\ product.exists
  /\ Starts(h, "sync", "posting", <<>>, product)
  /\ wanted' = TRUE
  /\ UNCHANGED <<product, listing, crossed, failures>>

BeginRemove(h) ==
  /\ product.exists
  /\ Starts(h, "remove", "posting", <<>>, Gone)
  /\ UNCHANGED <<product, listing, wanted, crossed, failures>>

BeginDelete(h) ==
  /\ Starts(h, "delete", "deleting", <<>>, product)
  /\ UNCHANGED <<product, listing, wanted, crossed, failures>>

UnderWay(c) == \E o \in Agents \ {c} : agent[o].at \in {"posting", "marking"} /\ agent[o].has.exists

(* (DeleteOnly: a mutant that leaves the listing.)                         *)
DeleteOnly(h) ==
  /\ agent[h].at = "deleting"
  /\ product' = Gone /\ wanted' = FALSE /\ Ends(h)
  /\ UNCHANGED <<listing, crossed, edited, failures>>

DeleteProduct(h) ==
  /\ agent[h].at = "deleting"
  /\ product' = Gone
  /\ wanted' = IF product.exists THEN FALSE ELSE wanted
  /\ IF product.exists /\ agent[h].has.synced THEN Posts(h, Gone) ELSE Ends(h)
  /\ crossed' = (crossed \/ UnderWay(h) \/ (product.exists /\ product.synced # agent[h].has.synced))
  /\ UNCHANGED <<listing, edited, failures>>

BeginRefresh(h) ==
  /\ Starts(h, "refresh", "reviewing", <<>>, product)
  /\ UNCHANGED <<product, listing, wanted, crossed, failures>>

(* apply_facebook_review: a product not marked as listed keeps no verdict. *)
ApplyReview(c) ==
  /\ agent[c].at = "reviewing"
  /\ product' = IF product.exists /\ product.synced /\ listing.listed THEN [product EXCEPT !.review = TRUE] ELSE product
  /\ Ends(c)
  /\ UNCHANGED <<listing, wanted, crossed, edited, failures>>

(* The loop.                                                               *)
LoopLists ==
  /\ agent[TheLoop].at = "idle"
  /\ product.exists /\ product.synced
  /\ Posts(TheLoop, product)
  /\ UNCHANGED <<product, listing, wanted, crossed, edited, failures>>
-----------------------------------------------------------------------------
(* A call to Facebook *)

Land(c) ==
  /\ agent[c].at = "posting"
  /\ listing' = RequestFor(agent[c].has)
  /\ IF agent[c].for = "delete" THEN Ends(c) ELSE GoesTo(c, "marking")
  /\ UNCHANGED <<product, wanted, crossed, edited, failures>>

(* A push and the loop try a passing failure again, with what they have    *)
(* read; a listing, a removal or a deletion does not.                      *)
TriesAgain(c, passing) == passing /\ agent[c].for \in {"edit", "none"} /\ agent[c].tries < MaxAttempts

CallFails(c, landed, passing) ==
  /\ agent[c].at = "posting" /\ failures < MaxFailures
  /\ failures' = failures + 1
  /\ listing' = IF landed THEN RequestFor(agent[c].has) ELSE listing
  /\ IF TriesAgain(c, passing) THEN agent' = [agent EXCEPT ![c].tries = @ + 1]
     ELSE IF agent[c].for \in {"edit", "sync"} THEN GoesTo(c, "erring") ELSE Ends(c)
  /\ crossed' = (crossed \/ agent[c].for = "delete" \/ (landed /\ agent[c].for = "sync"))
  /\ UNCHANGED <<product, wanted, edited>>

(* set_facebook_state *)
NoteError(c) ==
  /\ agent[c].at = "erring"
  /\ product' = IF product.exists THEN [product EXCEPT !.error = TRUE] ELSE product
  /\ Ends(c)
  /\ UNCHANGED <<listing, wanted, crossed, edited, failures>>

(* mark_facebook_synced marks whatever product still has the id; the loop  *)
(* marks those it read as active, and then asks for Facebook's verdicts.   *)
MarkSynced(c) ==
  /\ agent[c].at = "marking" /\ agent[c].for # "remove"
  /\ product' =
       IF ~product.exists \/ (c = TheLoop /\ ~agent[c].has.active) THEN product
       ELSE [product EXCEPT !.synced = TRUE, !.error = FALSE,
                            !.review = IF agent[c].for = "sync" THEN FALSE ELSE @]
  /\ IF c = TheLoop THEN GoesTo(c, "reviewing") ELSE Ends(c)
  /\ UNCHANGED <<listing, wanted, crossed, edited, failures>>

EndRemove(h) ==
  /\ agent[h].at = "marking" /\ agent[h].for = "remove"
  /\ product' = IF product.exists
                THEN [product EXCEPT !.synced = FALSE, !.error = FALSE, !.review = FALSE] ELSE product
  /\ wanted' = FALSE
  /\ crossed' = (crossed \/ UnderWay(h) \/ listing.listed)
  /\ Ends(h)
  /\ UNCHANGED <<listing, edited, failures>>

HandlerSteps(h) == SaveEdit(h) \/ ReadSaved(h) \/ PushReads(h) \/ DeleteProduct(h) \/ EndRemove(h)
CallerSteps(c) == ApplyReview(c) \/ Land(c) \/ NoteError(c) \/ MarkSynced(c)

CatalogueNext ==
  \/ Buy
  \/ LoopLists
  \/ \E h \in Dashboard :
       \/ HandlerSteps(h)
       \/ BeginSync(h) \/ BeginRemove(h) \/ BeginDelete(h) \/ BeginRefresh(h)
       \/ \E form \in Forms : BeginEdit(h, form)
  \/ \E c \in Agents : CallerSteps(c) \/ \E landed, passing \in BOOLEAN : CallFails(c, landed, passing)

(* The worker's loop and every request already begun go on. *)
CatalogueFairness ==
  /\ WF_catalogueVars(LoopLists) /\ WF_catalogueVars(CallerSteps(TheLoop))
  /\ \A h \in Dashboard : WF_catalogueVars(HandlerSteps(h)) /\ WF_catalogueVars(CallerSteps(h))

CatalogueSpec == CatalogueInit /\ [][CatalogueNext]_catalogueVars /\ CatalogueFairness
-----------------------------------------------------------------------------
(* Properties *)

DashboardRests == \A h \in Dashboard : agent[h].at = "idle"

(* The product, its listing and the agents are in their types.             *)
CatalogueTypeOK ==
  /\ product.exists \in BOOLEAN /\ listing.listed \in BOOLEAN
  /\ product.exists => product.qty \in Int
  /\ \A c \in Agents :
       /\ agent[c].at \in {"idle", "before", "after", "pushing", "deleting", "posting", "marking", "erring", "reviewing"}
       /\ agent[c].tries \in 0 .. MaxAttempts
  /\ edited \in 0 .. MaxRequests /\ failures \in 0 .. MaxFailures

(* What the dashboard took down, or deleted, is off Facebook when its      *)
(* requests have ended, and no product it took down is marked as listed:   *)
(* unless a call that would list it was under way then, or the one call    *)
(* after a deletion failed, or a listing that landed was taken for failed. *)
OffUnlessCrossed ==
  (~wanted /\ ~crossed /\ DashboardRests) => ~listing.listed /\ (product.exists => ~product.synced)

(* The route says that it stops updates: what was taken down stays so,     *)
(* with no failure of Facebook.                                            *)
RemovedStaysOff ==
  (~wanted /\ product.exists /\ \A c \in Agents : agent[c].at = "idle") => ~listing.listed /\ ~product.synced

(* When the dashboard rests, what is marked as listed shows what is sold:  *)
(* units sold, and pushes that failed or overtook each other, included.    *)
ListingCatchesUp ==
  <>[](product.exists /\ product.synced => listing = RequestFor(product))
=============================================================================

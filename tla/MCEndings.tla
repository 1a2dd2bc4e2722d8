----------------------------- MODULE MCEndings -----------------------------
(* What must come to an end: holds on stock, guarded calls, stale pages    *)
(* and stale listings.  Each has a sweep, a timeout, a lapse or a loop of  *)
(* its own and shares no store with the others, so each behaviour runs one *)
(* of them, its subject.  In its initial state no fair action of a         *)
(* component can happen, so one that does not run is not obliged to.       *)
EXTENDS Inventory, Guarded, ContentCache, Catalogue

VARIABLE subject

Subjects == {"holds", "calls", "pages", "listing"}
endingsVars == <<subject, vars, guardVars, cacheVars, catalogueVars>>

EndingsInit ==
  /\ subject \in Subjects /\ Init /\ GuardInit /\ CacheInit /\ CatalogueInit
  /\ subject # "pages" => family = FamilyOf("hero") /\ \A d \in Docs : content[d] = 0

EndingsNext ==
  /\ UNCHANGED subject
  /\ \/ subject = "holds" /\ Next /\ UNCHANGED <<guardVars, cacheVars, catalogueVars>>
     \/ subject = "calls" /\ GuardNext /\ UNCHANGED <<vars, cacheVars, catalogueVars>>
     \/ subject = "pages" /\ CacheNext /\ UNCHANGED <<vars, guardVars, catalogueVars>>
     \/ subject = "listing" /\ CatalogueNext /\ UNCHANGED <<vars, guardVars, cacheVars>>

EndingsSpec ==
  /\ EndingsInit /\ [][EndingsNext]_endingsVars
  /\ Fairness /\ GuardFairness /\ CacheFairness /\ CatalogueFairness
-----------------------------------------------------------------------------
(* Small instances *)
CONSTANTS o1, ring, p1, p2

RingCarts == [o \in Order |-> << [row |-> ring, n |-> 1] >>]
TwoEach == [r \in Row |-> 2]
HomeDef == [c \in Client |-> "backend"]
FormsDef == {[price |-> 2], [active |-> FALSE], [qty |-> 1]}
-----------------------------------------------------------------------------
(* Properties *)

(* Holds end, callers are answered, pages show what was written and        *)
(* Facebook lists what is sold, however a step before went.                *)
EverythingEnds == HoldsEnd /\ CallsEnd /\ PagesCatchUp /\ ListingCatchesUp
=============================================================================

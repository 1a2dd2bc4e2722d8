----------------------------- MODULE MCCodOrder -----------------------------
(* Small instances of CodOrder: three requests of one key, two of them for *)
(* one cart.                                                               *)
EXTENDS CodOrder, TLC

CONSTANTS r1, r2, r3, k1, c1, c2

KeyOfRequest == [r \in Request |-> k1]
CartOfRequest == r1 :> c1 @@ r2 :> c1 @@ r3 :> c2

(* A cart that goes to review, and one that a rule of more priority than   *)
(* the duplicate's sends to review.                                        *)
CartFacts == c1 :> {"disposable_email"} @@ c2 :> {}
DearCartFacts == c1 :> {"high_value"} @@ c2 :> {}
=============================================================================

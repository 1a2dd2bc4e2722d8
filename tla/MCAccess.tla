------------------------------ MODULE MCAccess ------------------------------
(* Who may see and do what: the admins' accounts and sessions, the orders  *)
(* they are shown, the customers' logins and the limits on requests.  They *)
(* share no store that two of them write, so each behaviour runs one of    *)
(* them, its subject.                                                      *)
EXTENDS TLC, AdminAccess, OrderDesk, CustomerLogin, RateLimit

VARIABLE subject

Subjects == {"accounts", "desk", "logins", "limits"}
accessVars == <<subject, adminVars, deskVars, loginVars, rateVars>>

AccessInit ==
  subject \in Subjects /\ AdminInit /\ DeskInit /\ LoginInit /\ RateInit

AccessNext ==
  /\ UNCHANGED subject
  /\ \/ subject = "accounts" /\ AdminNext /\ UNCHANGED <<deskVars, loginVars, rateVars>>
     \/ subject = "desk" /\ DeskNext /\ UNCHANGED <<adminVars, loginVars, rateVars>>
     \/ subject = "logins" /\ LoginNext /\ UNCHANGED <<adminVars, deskVars, rateVars>>
     \/ subject = "limits" /\ RateNext /\ UNCHANGED <<adminVars, deskVars, loginVars>>

AccessSpec == AccessInit /\ [][AccessNext]_accessVars
-----------------------------------------------------------------------------
(* Small instances.  Requests of the admins and of the customers' tabs are *)
(* the same model values, so that one symmetry set serves both: no         *)
(* behaviour has both kinds.                                               *)
CONSTANTS q1, q2, q3, o1, o2, o3, in, au, rest, ina, aua, root

Requests == Permutations({q1, q2, q3})

(* An Indian order, an Australian one, and one older than the regions; an  *)
(* admin of India and the rest of the world, one of Australia, and a root. *)
OrderRegions == o1 :> in @@ o2 :> au @@ o3 :> NoRegion
AdminScopes == ina :> {"orders:read", "orders:write"} @@ aua :> {"*"} @@ root :> {"*"}
AdminRegions == ina :> {in, rest} @@ aua :> {au} @@ root :> {}

(* Orders are limited by address and by e-mail; the rest by address.       *)
RulesDef ==
  << [id |-> "orders", paths |-> {"order"}, fallback |-> FALSE,
      buckets |-> << [scope |-> "ip", rate |-> 2, burst |-> 2], [scope |-> "email", rate |-> 1, burst |-> 2] >>],
     [id |-> "public", paths |-> {"order", "other"}, fallback |-> TRUE,
      buckets |-> << [scope |-> "ip", rate |-> 3, burst |-> 0] >>] >>
-----------------------------------------------------------------------------
(* Properties *)

(* Every variable of the four components is in its type.                   *)
AccessTypeOK == AdminTypeOK /\ DeskTypeOK /\ LoginTypeOK /\ RateTypeOK

(* Who was shut out stays out: a deactivated admin, a narrowed scope, a    *)
(* replaced authenticator, a customer who logged out, a guesser of codes,  *)
(* a client beyond its rate, and an admin outside the regions given.       *)
AccessHolds ==
  /\ DeactivatedGetNoToken /\ ScopesReachTokens /\ RetiredSecretStaysOut
  /\ LoggedOutIsOut /\ GuessesBounded /\ GrantedWithinRateUnlessStepped /\ ShownIsInScope

(* Invoice numbers and one-time codes are spent once.                      *)
SpentOnce == InvoiceNumberIsFinal /\ CodeUsedOnceUnlessRaced
=============================================================================

------------------------------ MODULE PaidOrder ------------------------------
(***************************************************************************)
(* What OrderService promises of an online payment, whoever completes it,  *)
(* in whatever order the callers come and wherever one of them dies: the   *)
(* order is saved when it is paid and not before, its post-processing is   *)
(* claimed, entered in the ledger and finished once, and the stream keeps  *)
(* the payment's event until the order is there.                           *)
(***************************************************************************)
CONSTANT Order

VARIABLES
  stage,     \* how far the order is
  recorded,  \* orders whose payment is in the ledger
  notice     \* the payment's event in the stream

paidOrderVars == <<stage, recorded, notice>>

PaidOrderInit ==
  /\ stage = [o \in Order |-> "unpaid"]
  /\ recorded = {}
  /\ notice = [o \in Order |-> "none"]

Advances(o, from, to) ==
  /\ stage[o] = from
  /\ stage' = [stage EXCEPT ![o] = to]
  /\ UNCHANGED <<recorded, notice>>

PaysFor(o) == Advances(o, "unpaid", "paid")
Saves(o) == Advances(o, "paid", "pending")
Begins(o) == Advances(o, "pending", "in_progress")
Completes(o) == o \in recorded /\ Advances(o, "in_progress", "done")

Records(o) ==
  /\ stage[o] = "in_progress"
  /\ recorded' = recorded \cup {o}
  /\ UNCHANGED <<stage, notice>>

(* The event comes once, after the payment, or is lost on its way.         *)
Notifies(o) ==
  /\ stage[o] # "unpaid" /\ notice[o] = "none"
  /\ \E n \in {"queued", "lost"} : notice' = [notice EXCEPT ![o] = n]
  /\ UNCHANGED <<stage, recorded>>

Settles(o) ==
  /\ notice[o] = "queued"
  /\ \/ stage[o] \in {"pending", "in_progress", "done"} /\ notice' = [notice EXCEPT ![o] = "acked"]
     \/ notice' = [notice EXCEPT ![o] = "dead"]
  /\ UNCHANGED <<stage, recorded>>

PaidOrderNext ==
  \E o \in Order : PaysFor(o) \/ Saves(o) \/ Begins(o) \/ Records(o) \/ Completes(o)
                   \/ Notifies(o) \/ Settles(o)

PaidOrderSpec == PaidOrderInit /\ [][PaidOrderNext]_paidOrderVars
=============================================================================

----------------------- MODULE MCPaymentReconciliation -----------------------
(* Small instances of PaymentReconciliation: one or two checkouts. *)
EXTENDS PaymentReconciliation, TLC

CONSTANTS o1, o2
=============================================================================

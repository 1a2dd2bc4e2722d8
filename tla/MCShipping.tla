----------------------------- MODULE MCShipping -----------------------------
(* Small instance: three handlers, requests of the dashboard or webhooks,  *)
(* and one answer lost, handler killed or lock that lapses under one.      *)
EXTENDS Fulfilment, TLC

CONSTANTS h1, h2, h3

Handlers == Permutations(Handler)
=============================================================================

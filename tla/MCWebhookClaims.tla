-------------------------- MODULE MCWebhookClaims ---------------------------
(***************************************************************************)
(* Two deliveries that share an event: the first carries both events, the  *)
(* second is what is left of it in another order.                          *)
(***************************************************************************)
EXTENDS WebhookClaims, TLC

CONSTANTS w1, w2, e1, e2, d1, d2

MCWorkers == {w1, w2}
MCEvents == {e1, e2}
MCDeliveries == {d1, d2}
MCBatch == d1 :> <<e1, e2>> @@ d2 :> <<e2>>
=============================================================================

-------------------------- MODULE MCWebhookDispatcher --------------------------
(***************************************************************************)
(* Instances of WebhookDispatcher for TLC: one subscription to everything  *)
(* and one to a single event.                                              *)
(***************************************************************************)
EXTENDS WebhookDispatcher

CONSTANTS everything, inboundOnly, e1, e2, e3

MCWants == [h \in Hooks |-> IF h = everything THEN Events ELSE {e1}]
===============================================================================

----------------------------- MODULE MCWebhookSpool ----------------------------
(***************************************************************************)
(* Instances of WebhookSpool.  No action names an entry or a status, so    *)
(* both are interchangeable where only safety is checked.                  *)
(***************************************************************************)
EXTENDS WebhookSpool, TLC

Symmetry == Permutations(Entries) \cup Permutations(Statuses)
===============================================================================

--------------------------- MODULE MCWebhookService ---------------------------
(***************************************************************************)
(* Instances of WebhookService: the first webhook, its redelivery, another *)
(* delivery of the same workflow run, and one of a later workflow run of   *)
(* the same repository and branch.                                         *)
(***************************************************************************)
EXTENDS WebhookService, TLC

CONSTANTS first, redelivery, again, later, d1, d2, d3, run1, run2, branch

MCDeliveryOf == [e \in Entries |-> CASE e \in {first, redelivery} -> d1
                                     [] e = again -> d2
                                     [] e = later -> d3]
MCWorkflowOf == [e \in Entries |-> IF e = later THEN run2 ELSE run1]
MCQueueKeyOf == [w \in Workflows |-> branch]

\* Either delivery may be the first.
Symmetry == Permutations({first, redelivery})
===============================================================================

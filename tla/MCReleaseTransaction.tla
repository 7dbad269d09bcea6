-------------------------- MODULE MCReleaseTransaction --------------------------
(***************************************************************************)
(* Instances of ReleaseTransaction.  Release identities and tags are       *)
(* interchangeable: no action names one of them.                           *)
(***************************************************************************)
EXTENDS ReleaseTransaction, TLC

Full       == [push |-> TRUE, github |-> TRUE]
Local      == [push |-> FALSE, github |-> FALSE]
PushOnly   == [push |-> TRUE, github |-> FALSE]
GitHubOnly == [push |-> FALSE, github |-> TRUE]

FullModes == {Full}
AllModes  == {Full, Local, PushOnly, GitHubOnly}

Symmetry == Permutations(Releases) \cup Permutations(Tags)
===============================================================================

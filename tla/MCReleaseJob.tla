---------------------------- MODULE MCReleaseJob -----------------------------
(* Instances of ReleaseJob for TLC. *)
EXTENDS ReleaseJob

MCPlan == <<"v1", "w1">>
MCAssetsOf == [v1 |-> <<"SHA256SUMS", "app.tgz", "app.tgz.sigstore.json", "SHA256SUMS.sigstore.json">>, w1 |-> <<>>]
MCBundles == [n \in {"SHA256SUMS", "app.tgz", "notes.txt"} |-> n \o ".sigstore.json"]
MCPolicies == {{"license", "attestations"}, {"signatures"}}
MCDefective == {<<"b2", "app.tgz">>}
MCSources == <<"c1", "c2">>

Delivery(commit, conclusion) ==
  [commit |-> commit, action |-> "completed", conclusion |-> conclusion, event |-> "push",
   workflow |-> "ci", branch |-> "main", head |-> "own", clone |-> "own", repository |-> "repo",
   complete |-> TRUE]

\* The CI of the first commit succeeds, and its delivery names no head repository; that of the
\* second fails first; the release commit's own CI run is delivered too.
MCPayload ==
  [first  |-> [Delivery(Source("c1"), "success") EXCEPT !.head = "absent"],
   failed |-> Delivery(Source("c2"), "failure"),
   bot    |-> Delivery(ReleaseOf("c1"), "success"),
   fork   |-> [Delivery(Source("c2"), "success") EXCEPT !.head = "fork"],
   other  |-> [Delivery(Source("c2"), "success") EXCEPT !.clone = "other"]]
=============================================================================

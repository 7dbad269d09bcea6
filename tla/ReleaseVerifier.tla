--------------------------- MODULE ReleaseVerifier ---------------------------
(***************************************************************************)
(* `hooversion verify-release` (Verify in                                  *)
(* src/internal/verifyrelease/verify.go), run by somebody who trusts only  *)
(* what GitHub serves, while publishers and other people work on the same  *)
(* release: the release is looked up, its tag resolved, its inventory read *)
(* page by page, the checksum asset downloaded, and every payload is       *)
(* downloaded and compared with its checksum.                              *)
(*                                                                         *)
(* The checksum asset of a build has one entry for each payload of the     *)
(* release, and the entry matches that build's bytes only; a signature     *)
(* bundle is no payload, and signs one asset of one build.  An asset is    *)
(* downloaded by its id: one that was removed after the inventory was read *)
(* is gone.  A policy is what the caller demands beyond checksums; what    *)
(* the bytes of an asset say to it is a constant of the asset.             *)
(***************************************************************************)
EXTENDS GitHubPublication

CONSTANTS
  Sums,         \* the name of the checksum asset
  Bundles,      \* the signature bundles: the name of an asset -> the name of its bundle
  SBOMs,        \* the names of SBOM assets
  Archives,     \* the names of archives
  Defective,    \* <<build, name>>: an SBOM that is none, an archive without LICENSE
  Attested,     \* the builds GitHub has provenance attestations for
  Policies      \* what callers may demand: sets of "sbom", "license", "signatures", "attestations"

ASSUME VerifierAssumption ==
  /\ SBOMs \cap Archives = {} /\ Defective \subseteq Builds \X (SBOMs \cup Archives)
  /\ Attested \subseteq Builds
  /\ Policies \subseteq SUBSET {"sbom", "license", "signatures", "attestations"}
  /\ \A t \in DOMAIN AssetsOf : Len(AssetsOf[t]) > 0 => Sums \in Range(AssetsOf[t])

VARIABLE
  ver       \* what the verifier is doing

NotRunning == [pc |-> "idle", policy |-> {}, tag |-> "none", listed |-> <<>>, sums |-> "none", todo |-> {}]

\* What is verification material only.
Material == {Sums} \cup Range(Bundles)

\* parseChecksums: the entries of the checksum asset of tag t, of any build.
Entries(t) == Range(AssetsOf[t]) \ Material

\* The payloads of an inventory.
Payloads(inventory) == Names(inventory) \ Material

\* An error ends the run; it may be started again.
VerificationFails == ver' = NotRunning

\* lookupRelease and ResolveTag: a release that is absent or a draft is an error.
Verify(t) ==
  /\ ver.pc = "idle"
  /\ IF gh[t].meta \in {"absent", "draft"} THEN VerificationFails
     ELSE \E policy \in Policies :
            ver' = [NotRunning EXCEPT !.pc = "list", !.policy = policy, !.tag = t]
  /\ UNCHANGED pubVars

\* indexAssets: every asset must be uploaded.
Indexed(inventory) == \A a \in Range(inventory) : a.state = "uploaded"

\* ListReleaseAssets, then the index, in which the checksum asset must be.
ReadInventory ==
  LET seen == ver.listed
      batch == PageOf(gh[ver.tag], Len(seen) \div PageSize + 1)
      inventory == seen \o batch
  IN /\ ver.pc = "list"
     /\ IF Names(seen) \cap Names(batch) # {} THEN VerificationFails
        ELSE IF Len(batch) = PageSize THEN ver' = [ver EXCEPT !.listed = inventory]
        ELSE IF Sums \notin Names(inventory) \/ ~Indexed(inventory)
        THEN VerificationFails
        ELSE ver' = [ver EXCEPT !.pc = "sums", !.listed = inventory]
     /\ UNCHANGED pubVars

\* DownloadAsset of what the inventory names: by id, so a removed asset is not found.
Downloadable(n) == Named(ver.listed, n) \in Range(gh[ver.tag].assets)

\* checksumPayloads: the entries and the payloads of the inventory are the same set.
SameSet(payloads, entries) == payloads # {} /\ payloads = entries

DownloadSums ==
  /\ ver.pc = "sums"
  /\ IF Downloadable(Sums) /\ SameSet(Payloads(ver.listed), Entries(ver.tag))
     THEN ver' = [ver EXCEPT !.pc = "payloads", !.sums = Named(ver.listed, Sums).build,
                             !.todo = Payloads(ver.listed)]
     ELSE VerificationFails
  /\ UNCHANGED pubVars

\* validateSBOM, of every SBOM whatever the policy.
SBOMHolds(b, n) == n \in SBOMs => <<b, n>> \notin Defective

\* archiveContainsLicense.
LicenseHolds(b, n) == n \in Archives /\ "license" \in ver.policy => <<b, n>> \notin Defective

\* The bytes are those of the checksum entry.
MatchesItself(n) == Downloadable(n)
MatchesSums(n) == Downloadable(n) /\ Named(ver.listed, n).build = ver.sums

\* A payload that differs from the checksum asset is an error.
DownloadPayload ==
  /\ ver.pc = "payloads" /\ ver.todo # {}
  /\ LET n == CHOOSE m \in ver.todo : TRUE
         b == Named(ver.listed, n).build
     IN IF MatchesSums(n) /\ SBOMHolds(b, n) /\ LicenseHolds(b, n)
        THEN ver' = [ver EXCEPT !.todo = @ \ {n}]
        ELSE VerificationFails
  /\ UNCHANGED pubVars

SBOMIncluded == "sbom" \in ver.policy => Payloads(ver.listed) \cap SBOMs # {}

\* cosign verify-blob of the payloads and of the checksum asset, with their bundles.
SignaturesHold ==
  "signatures" \in ver.policy =>
    \A n \in Payloads(ver.listed) \cup {Sums} :
      /\ Bundles[n] \in Names(ver.listed) /\ Downloadable(Bundles[n])
      /\ Named(ver.listed, Bundles[n]).build = ver.sums

\* gh attestation verify.
AttestationsHold == "attestations" \in ver.policy => ver.sums \in Attested

\* The rest of the policy, and the statement that says PASSED.
Attest ==
  /\ ver.pc = "payloads" /\ ver.todo = {}
  /\ IF SBOMIncluded /\ SignaturesHold /\ AttestationsHold
     THEN ver' = [ver EXCEPT !.pc = "passed"] ELSE VerificationFails
  /\ UNCHANGED pubVars

\* Any of the reads fails.
VerifierReadFails ==
  /\ ver.pc \in {"list", "sums", "payloads"}
  /\ Fault
  /\ VerificationFails
  /\ UNCHANGED <<gh, late, pub, edits>>

VerifierInit == ver = NotRunning

VerifierStep ==
  \/ \E t \in DOMAIN AssetsOf : Verify(t)
  \/ ReadInventory \/ DownloadSums \/ DownloadPayload \/ Attest \/ VerifierReadFails

\* A statement that says PASSED covers the whole of one build: what the verifier read is every
\* configured payload and no other, all of one build, with the signatures and attestations the
\* policy asks for; never the first half of an upload in progress, two builds mixed by two
\* publishers, or an inventory whose pages shifted under it (Verify).  While nobody else edits the
\* release, that is also what GitHub still serves.
PassedIsWhole ==
  ver.pc = "passed" =>
    LET covered == Payloads(ver.listed) \cup {Sums}
        demanded == covered \cup IF "signatures" \in ver.policy THEN {Bundles[n] : n \in covered} ELSE {}
    IN /\ covered = {Sums} \cup Entries(ver.tag)
       /\ \A n \in demanded : Named(ver.listed, n).build = ver.sums
       /\ "attestations" \in ver.policy => ver.sums \in Attested
       /\ edits = 0 => \A n \in demanded : Named(gh[ver.tag].assets, n).build = ver.sums
=============================================================================

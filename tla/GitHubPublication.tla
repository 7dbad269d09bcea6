-------------------------- MODULE GitHubPublication --------------------------
(***************************************************************************)
(* How the GitHub Releases of a plan are published: the loop of            *)
(* publishGitHubReleasesWithEnv (src/internal/release/release.go) over the *)
(* client of src/internal/githubapi.                                       *)
(*                                                                         *)
(* Several publishers may run at once (the App's job, an operator who      *)
(* resumes the same release commit by hand), each with the asset files it  *)
(* has on its own disk: pub[p].build names that set of files, and two      *)
(* builds of one asset differ in their bytes.  A release is looked up by   *)
(* its tag; one that exists must have the planned metadata, and its        *)
(* inventory is read page by page and compared with the local files before *)
(* anything is uploaded; then the missing assets follow in the order of    *)
(* the configuration.  The first error ends the run.                       *)
(*                                                                         *)
(* A request that changes GitHub may be refused, may be performed with its *)
(* answer lost, and may be given up by the client and performed later.     *)
(* MaxFaults bounds those and the changes other people make to a release   *)
(* together, MaxEdits the latter.                                          *)
(***************************************************************************)
EXTENDS Naturals, FiniteSets, SequencesExt

CONSTANTS
  Publishers,   \* the processes that may publish
  Builds,       \* the sets of asset files a publisher may have on its disk
  Plan,         \* the tags to publish, in order
  AssetsOf,     \* the configured asset names of a tag, in order
  PageSize,     \* entries of one inventory page (100)
  Foreign,      \* an asset name no configuration has
  MaxFaults,    \* bound: faults of requests and changes by other people together
  MaxEdits      \* bound: changes other people make to a release

ASSUME PublicationAssumption ==
  /\ Publishers # {} /\ Builds # {}
  /\ Plan \in Seq(DOMAIN AssetsOf) /\ Len(Plan) > 0 /\ IsInjective(Plan)
  /\ \A t \in DOMAIN AssetsOf : AssetsOf[t] \in Seq(Range(AssetsOf[t]))
  /\ \A t \in DOMAIN AssetsOf : IsInjective(AssetsOf[t]) /\ Foreign \notin Range(AssetsOf[t])
  /\ PageSize \in Nat \ {0} /\ MaxFaults \in Nat /\ MaxEdits \in Nat

VARIABLES
  gh,       \* GitHub: the release of a tag, or Absent
  late,     \* requests a client gave up that GitHub may still perform
  pub,      \* pub[p]: what publisher p is doing
  faults,   \* faults so far
  edits     \* changes by other people so far

pubVars == <<gh, late, pub, faults, edits>>

Absent == [meta |-> "absent", assets |-> <<>>, ids |-> 0]

\* A release as CreateRelease makes it: public, named and described as planned.
Fresh == [meta |-> "planned", assets |-> <<>>, ids |-> 0]

Idle == [pc |-> "idle", build |-> CHOOSE b \in Builds : TRUE, at |-> 1, listed |-> <<>>, todo |-> {}]

Names(assets) == {assets[i].name : i \in DOMAIN assets}
Named(assets, n) == CHOOSE x \in Range(assets) : x.name = n

-----------------------------------------------------------------------------
(* What GitHub does with a request. *)

WithAsset(release, n, b, state) ==
  [release EXCEPT
     !.assets = Append(@, [name |-> n, id |-> release.ids + 1, state |-> state, build |-> b]),
     !.ids = @ + 1]

\* A request is refused when what it would make is already there.
Conflicts(r) ==
  IF r.op = "create" THEN gh[r.tag] # Absent
  ELSE gh[r.tag] = Absent \/ r.name \in Names(gh[r.tag].assets)

Performed(r) ==
  [gh EXCEPT ![r.tag] = IF r.op = "create" THEN Fresh ELSE WithAsset(@, r.name, r.build, "uploaded")]

\* An upload that breaks off leaves an asset that never becomes "uploaded".
BrokenOff(r) == [gh EXCEPT ![r.tag] = WithAsset(@, r.name, r.build, "starter")]

PageOf(release, k) ==
  SubSeq(release.assets, (k - 1) * PageSize + 1,
         IF k * PageSize < Len(release.assets) THEN k * PageSize ELSE Len(release.assets))

-----------------------------------------------------------------------------
(* One publisher. *)

Tag(p) == Plan[pub[p].at]
LocalNames(p) == AssetsOf[Tag(p)]

PublicationStarts(p, b) ==
  /\ pub[p].pc \notin {"lookup", "list", "create", "upload"}
  /\ pub' = [pub EXCEPT ![p] = [Idle EXCEPT !.pc = "lookup", !.build = b]]

Failed(p) == pub' = [pub EXCEPT ![p] = [Idle EXCEPT !.pc = "failed", !.build = pub[p].build]]

\* The next release of the plan, or the end of the run.
NextRelease(p) ==
  pub' = [pub EXCEPT ![p] = [Idle EXCEPT !.build = pub[p].build,
            !.pc = IF pub[p].at = Len(Plan) THEN "done" ELSE "lookup",
            !.at = IF pub[p].at = Len(Plan) THEN 1 ELSE pub[p].at + 1]]

\* The assets still to upload, as positions in the configuration.
Uploads(p, missing) ==
  IF missing = {} THEN NextRelease(p)
  ELSE pub' = [pub EXCEPT ![p].pc = "upload", ![p].listed = <<>>, ![p].todo = missing]

\* ReleaseByTag: a 404 is absence; a release with other metadata ends the run.
MetadataMatches(release) == release.meta = "planned"

LookUp(p) ==
  /\ pub[p].pc = "lookup"
  /\ IF gh[Tag(p)] = Absent THEN pub' = [pub EXCEPT ![p].pc = "create"]
     ELSE IF ~MetadataMatches(gh[Tag(p)]) THEN Failed(p)
     ELSE pub' = [pub EXCEPT ![p].pc = "list"]
  /\ UNCHANGED <<gh, late, faults, edits>>

\* VerifyExistingAssetFrom: what is there must be complete and equal the local file.
SizeOnlyMatchesLocal(p, a) == a.state = "uploaded"
MatchesLocal(p, a) == a.state = "uploaded" /\ a.build = pub[p].build

\* A page shorter than PageSize is the last one.  The inventory is then compared with the
\* local files, in the order of the configuration, before the first upload.
ListPage(p) ==
  LET seen == pub[p].listed
      batch == PageOf(gh[Tag(p)], Len(seen) \div PageSize + 1)
      inventory == seen \o batch
  IN /\ pub[p].pc = "list"
     /\ IF Names(seen) \cap Names(batch) # {} THEN Failed(p)
        ELSE IF Len(batch) = PageSize THEN pub' = [pub EXCEPT ![p].listed = inventory]
        ELSE IF \E n \in Range(LocalNames(p)) \cap Names(inventory) : ~MatchesLocal(p, Named(inventory, n))
        THEN Failed(p)
        ELSE Uploads(p, {i \in DOMAIN LocalNames(p) : LocalNames(p)[i] \notin Names(inventory)})
     /\ UNCHANGED <<gh, late, faults, edits>>

\* The request publisher p is about to send: CreateRelease, or the next missing asset.
Request(p) ==
  IF pub[p].pc = "create" THEN [op |-> "create", tag |-> Tag(p)]
  ELSE [op |-> "upload", tag |-> Tag(p), name |-> LocalNames(p)[Min(pub[p].todo)], build |-> pub[p].build]

Answered(p) ==
  /\ pub[p].pc \in {"create", "upload"}
  /\ IF Conflicts(Request(p)) THEN gh' = gh /\ Failed(p)
     ELSE /\ gh' = Performed(Request(p))
          /\ Uploads(p, IF pub[p].pc = "create" THEN DOMAIN LocalNames(p) ELSE pub[p].todo \ {Min(pub[p].todo)})
  /\ UNCHANGED <<late, faults, edits>>

Fault == faults + edits < MaxFaults /\ faults' = faults + 1
Edited == edits < MaxEdits /\ faults + edits < MaxFaults /\ edits' = edits + 1

FaultAt(p, pcs) ==
  /\ pub[p].pc \in pcs
  /\ Fault
  /\ Failed(p)
  /\ UNCHANGED <<gh, late, edits>>

\* The lookup or a page is answered with an error, or with something that is not its JSON.
ReadFails(p) == FaultAt(p, {"lookup", "list"})

\* CreateRelease or an upload is refused with nothing done.
RequestRefused(p) == FaultAt(p, {"create", "upload"})

\* A local asset file is missing, no regular file, a link, or changes while it is read, be it to
\* compare it or to upload it.
AssetUnreadable(p) == FaultAt(p, {"list", "upload"})

\* GitHub performs the request, wholly or in part, and the answer is lost.
AnswerLost(p) ==
  /\ pub[p].pc \in {"create", "upload"}
  /\ ~Conflicts(Request(p))
  /\ Fault
  /\ \/ gh' = Performed(Request(p))
     \/ pub[p].pc = "upload" /\ gh' = BrokenOff(Request(p))
  /\ Failed(p)
  /\ UNCHANGED <<late, edits>>

\* The client's time is up first; GitHub may perform the request afterwards.
RequestTimesOut(p) ==
  /\ pub[p].pc \in {"create", "upload"}
  /\ Fault
  /\ late' = late \cup {Request(p)}
  /\ Failed(p)
  /\ UNCHANGED <<gh, edits>>

LateRequest ==
  \E r \in late :
    /\ late' = late \ {r}
    /\ gh' = IF Conflicts(r) THEN gh ELSE Performed(r)
    /\ UNCHANGED <<pub, faults, edits>>

-----------------------------------------------------------------------------
(* Other people with access to the repository. *)

EditRelease(t) ==
  /\ gh[t] # Absent
  /\ \E m \in {"edited", "draft"} : gh' = [gh EXCEPT ![t].meta = m]
  /\ Edited
  /\ UNCHANGED <<late, pub, faults>>

RemoveAsset(t) ==
  /\ \E i \in DOMAIN gh[t].assets : gh' = [gh EXCEPT ![t].assets = RemoveAt(@, i)]
  /\ Edited
  /\ UNCHANGED <<late, pub, faults>>

AddForeignAsset(t) ==
  /\ gh[t] # Absent /\ Foreign \notin Names(gh[t].assets)
  /\ \E b \in Builds : gh' = [gh EXCEPT ![t] = WithAsset(@, Foreign, b, "uploaded")]
  /\ Edited
  /\ UNCHANGED <<late, pub, faults>>

-----------------------------------------------------------------------------
PublicationInit ==
  /\ gh = [t \in DOMAIN AssetsOf |-> Absent]
  /\ late = {}
  /\ pub = [p \in Publishers |-> Idle]
  /\ faults = 0 /\ edits = 0

PublisherStep(p) ==
  \/ LookUp(p) \/ ListPage(p) \/ Answered(p)
  \/ ReadFails(p) \/ RequestRefused(p) \/ AssetUnreadable(p) \/ AnswerLost(p) \/ RequestTimesOut(p)

OthersStep == \E t \in DOMAIN AssetsOf : EditRelease(t) \/ RemoveAsset(t) \/ AddForeignAsset(t)

-----------------------------------------------------------------------------
(* Properties. *)

\* The release of tag t is as planned and holds every configured asset of build b.
Whole(t, b) ==
  /\ gh[t].meta = "planned"
  /\ \A n \in Range(AssetsOf[t]) :
       \E a \in Range(gh[t].assets) : a.name = n /\ a.state = "uploaded" /\ a.build = b

\* A publisher that ends without an error has published its whole plan from its own files: every
\* release is public with the planned metadata and every configured asset is there, complete and
\* byte for byte the local one, whoever uploaded it, whatever requests were lost, repeated or
\* performed late, and whichever other publisher worked on the same release
\* (publishGitHubReleasesWithEnv).  Only somebody editing the release can take that away.
DoneIsWhole ==
  \A p \in Publishers :
    pub[p].pc = "done" /\ edits = 0 => \A i \in DOMAIN Plan : Whole(Plan[i], pub[p].build)
=============================================================================

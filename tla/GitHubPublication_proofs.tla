----------------------- MODULE GitHubPublication_proofs -----------------------
(***************************************************************************)
(* Proofs about GitHubPublication for any assets, builds, publishers, page *)
(* size and number of faults: while nobody else edits a release, what a    *)
(* publisher has seen or uploaded stays, so that its end is the end of the *)
(* whole publication.  The module has no specification of its own; the     *)
(* lemmas are about its steps, and ReleaseJob_proofs puts them together.   *)
(***************************************************************************)
EXTENDS GitHubPublication, WellFoundedInduction, NaturalsInduction, TLAPS

AssetNames == UNION {Range(AssetsOf[t]) : t \in DOMAIN AssetsOf}
Assets == [name : AssetNames, id : Nat, state : {"uploaded", "starter"}, build : Builds]
GitHubReleases == [meta : {"absent", "planned"}, assets : Seq(Assets), ids : Nat]
Requests ==
  [op : {"create"}, tag : DOMAIN AssetsOf]
    \cup [op : {"upload"}, tag : DOMAIN AssetsOf, name : AssetNames, build : Builds]
Active == {"lookup", "list", "create", "upload"}
Publications ==
  [pc : Active \cup {"idle", "done", "failed"}, build : Builds, at : DOMAIN Plan,
   listed : Seq(Assets), todo : SUBSET Nat]

\* The releases a publisher can meet while nobody edits one.
GitHubTypes(g) ==
  /\ g \in [DOMAIN AssetsOf -> GitHubReleases]
  /\ \A t \in DOMAIN AssetsOf : g[t].meta = "absent" <=> g[t] = Absent

\* Asset n of build b is in the release of tag t; the release is whole.
Stored(g, t, n, b) == \E a \in Range(g[t].assets) : a.name = n /\ a.state = "uploaded" /\ a.build = b
WholeIn(g, t, b) == g[t].meta = "planned" /\ \A n \in Range(AssetsOf[t]) : Stored(g, t, n, b)

\* What a publication in state P has achieved: the releases before the one it is at, and of that
\* one what it will not look at again.
Sound(g, P) ==
  LET t == Plan[P.at]
  IN /\ P.pc \in Active => \A i \in 1..(P.at - 1) : WholeIn(g, Plan[i], P.build)
     /\ P.pc = "done" => \A i \in DOMAIN Plan : WholeIn(g, Plan[i], P.build)
     /\ P.pc = "list" => g[t].meta = "planned" /\ Range(P.listed) \subseteq Range(g[t].assets)
     /\ P.pc = "lookup" => P.listed = <<>>
     /\ P.pc = "upload" =>
          /\ g[t].meta = "planned" /\ P.todo # {} /\ P.todo \subseteq DOMAIN AssetsOf[t]
          /\ \A k \in DOMAIN AssetsOf[t] \ P.todo : Stored(g, t, AssetsOf[t][k], P.build)

\* The invariant of publication.
PubInv ==
  /\ edits \in Nat
  /\ edits = 0 =>
       /\ GitHubTypes(gh) /\ late \subseteq Requests
       /\ pub \in [Publishers -> Publications]
       /\ \A p \in Publishers : Sound(gh, pub[p])

\* Nothing a publisher relies on is taken away.
Grows(g, h) ==
  \A t \in DOMAIN AssetsOf :
    g[t].meta = "planned" => h[t].meta = "planned" /\ Range(g[t].assets) \subseteq Range(h[t].assets)

-----------------------------------------------------------------------------
LEMMA SmallestPosition ==
  ASSUME NEW S \in SUBSET Nat, S # {}
  PROVE  Min(S) \in S
<1>1. PICK x \in S : \A y \in S : ~(<<y, x>> \in OpToRel(<, Nat))
  BY NatLessThanWellFounded, WFMin
<1>2. \A y \in S : y < x => <<y, x>> \in OpToRel(<, Nat)
  BY SMT DEF OpToRel
<1>3. ASSUME NEW y \in S PROVE x <= y
  <2>1. x \in Nat /\ y \in Nat /\ ~(y < x)
    BY <1>1, <1>2
  <2> QED BY <2>1
<1> QED BY <1>3 DEF Min

LEMMA PlanTags == \A i \in DOMAIN Plan : Plan[i] \in DOMAIN AssetsOf
BY PublicationAssumption

LEMMA PlanPositions == Len(Plan) \in Nat \ {0} /\ DOMAIN Plan = 1..Len(Plan)
BY PublicationAssumption

LEMMA AssetPositions ==
  \A t \in DOMAIN AssetsOf : DOMAIN AssetsOf[t] \subseteq Nat
    /\ \A k \in DOMAIN AssetsOf[t] : AssetsOf[t][k] \in AssetNames
BY PublicationAssumption DEF AssetNames, Range

LEMMA GrowsWhole ==
  ASSUME NEW g, NEW h, Grows(g, h), NEW t \in DOMAIN AssetsOf, NEW b, WholeIn(g, t, b)
  PROVE  WholeIn(h, t, b)
BY DEF Grows, WholeIn, Stored

\* A publication is as sound after the others' steps as before.
LEMMA GrowsSound ==
  ASSUME NEW g, NEW h, Grows(g, h), NEW P \in Publications, Sound(g, P)
  PROVE  Sound(h, P)
<1> DEFINE t == Plan[P.at]
<1>1. t \in DOMAIN AssetsOf
  BY PlanTags DEF Publications
<1>2. \A i \in DOMAIN Plan : WholeIn(g, Plan[i], P.build) => WholeIn(h, Plan[i], P.build)
  BY PlanTags, GrowsWhole
<1>3. \A i \in 1..(P.at - 1) : i \in DOMAIN Plan
  BY PlanPositions DEF Publications
<1>4. g[t].meta = "planned" => h[t].meta = "planned" /\ Range(g[t].assets) \subseteq Range(h[t].assets)
  BY <1>1 DEF Grows
<1> HIDE DEF t
<1>5. \A n, b : g[t].meta = "planned" /\ Stored(g, t, n, b) => Stored(h, t, n, b)
  BY <1>4 DEF Stored
<1> QED BY <1>2, <1>3, <1>4, <1>5 DEF Sound, t

-----------------------------------------------------------------------------
(* Requests. *)

LEMMA WithAssetGrows ==
  ASSUME NEW R \in GitHubReleases, NEW n \in AssetNames, NEW b \in Builds,
         NEW state \in {"uploaded", "starter"}
  PROVE  /\ WithAsset(R, n, b, state) \in GitHubReleases
         /\ WithAsset(R, n, b, state).meta = R.meta
         /\ Range(R.assets) \subseteq Range(WithAsset(R, n, b, state).assets)
         /\ \E a \in Range(WithAsset(R, n, b, state).assets) : a.name = n /\ a.state = state /\ a.build = b
<1> DEFINE a == [name |-> n, id |-> R.ids + 1, state |-> state, build |-> b]
           S == WithAsset(R, n, b, state)
<1>1. a \in Assets /\ R.assets \in Seq(Assets) /\ R.ids + 1 \in Nat
  BY DEF GitHubReleases, Assets
<1>2. S = [R EXCEPT !.assets = Append(R.assets, a), !.ids = R.ids + 1]
  BY DEF WithAsset
<1>3. a.name = n /\ a.state = state /\ a.build = b
  OBVIOUS
<1> HIDE DEF a, S
<1>4. Append(R.assets, a) \in Seq(Assets)
  BY <1>1
<1>5. S \in GitHubReleases /\ S.meta = R.meta /\ S.assets = Append(R.assets, a)
  BY <1>1, <1>2, <1>4 DEF GitHubReleases
<1>6. Range(R.assets) \subseteq Range(S.assets) /\ a \in Range(S.assets)
  BY <1>1, <1>5 DEF Range
<1> QED BY <1>3, <1>5, <1>6 DEF S

\* A request that is performed, wholly or in part, takes nothing away.
LEMMA PerformedGrows ==
  ASSUME GitHubTypes(gh), NEW r \in Requests, ~Conflicts(r)
  PROVE  /\ GitHubTypes(Performed(r)) /\ Grows(gh, Performed(r))
         /\ r.op = "create" => Performed(r)[r.tag].meta = "planned"
         /\ r.op = "upload" => gh[r.tag].meta = "planned" /\ Stored(Performed(r), r.tag, r.name, r.build)
         /\ r.op = "upload" => GitHubTypes(BrokenOff(r)) /\ Grows(gh, BrokenOff(r))
<1>1. r.tag \in DOMAIN AssetsOf /\ r.op \in {"create", "upload"}
  BY DEF Requests
<1>2. gh \in [DOMAIN AssetsOf -> GitHubReleases] /\ gh[r.tag] \in GitHubReleases
  BY <1>1 DEF GitHubTypes
<1>3. Fresh \in GitHubReleases /\ Fresh.meta = "planned" /\ Absent.meta = "absent"
  BY DEF Fresh, GitHubReleases, Absent
<1>4. CASE r.op = "create"
  <2>1. gh[r.tag] = Absent /\ Performed(r) = [gh EXCEPT ![r.tag] = Fresh]
    BY <1>4 DEF Conflicts, Performed
  <2>2. Fresh # Absent
    BY <1>3
  <2>3. GitHubTypes(Performed(r))
    BY <1>1, <1>2, <1>3, <2>1, <2>2 DEF GitHubTypes
  <2>4. Grows(gh, Performed(r))
    BY <1>1, <1>2, <1>3, <2>1 DEF Grows
  <2> QED BY <1>1, <1>2, <1>3, <1>4, <2>1, <2>3, <2>4
<1>5. CASE r.op = "upload"
  <2>1. r.name \in AssetNames /\ r.build \in Builds
    BY <1>5 DEF Requests
  <2>2. gh[r.tag] # Absent
    BY <1>5 DEF Conflicts
  <2>3. gh[r.tag].meta = "planned"
    BY <1>1, <1>2, <2>2 DEF GitHubTypes, GitHubReleases
  <2>4. ASSUME NEW state \in {"uploaded", "starter"}
        PROVE  LET S == WithAsset(gh[r.tag], r.name, r.build, state)
                   g == [gh EXCEPT ![r.tag] = S]
               IN GitHubTypes(g) /\ Grows(gh, g) /\ g[r.tag] = S
                  /\ \E a \in Range(S.assets) : a.name = r.name /\ a.state = state /\ a.build = r.build
    <3> DEFINE S == WithAsset(gh[r.tag], r.name, r.build, state)
               g == [gh EXCEPT ![r.tag] = S]
    <3>1. /\ S \in GitHubReleases /\ S.meta = "planned"
          /\ Range(gh[r.tag].assets) \subseteq Range(S.assets)
          /\ \E a \in Range(S.assets) : a.name = r.name /\ a.state = state /\ a.build = r.build
      <4>1. gh[r.tag] \in GitHubReleases
        BY <1>2
      <4>2. S \in GitHubReleases
        BY <2>1, <4>1, WithAssetGrows, Zenon
      <4>3. S.meta = gh[r.tag].meta
        BY <1>1 DEF WithAsset, GitHubReleases
      <4>4. Range(gh[r.tag].assets) \subseteq Range(S.assets)
        BY <2>1, <4>1, WithAssetGrows, Zenon
      <4>5. \E a \in Range(S.assets) : a.name = r.name /\ a.state = state /\ a.build = r.build
        BY <2>1, <4>1, WithAssetGrows
      <4> QED BY <2>3, <4>2, <4>3, <4>4, <4>5
    <3> HIDE DEF S
    <3>2. S # Absent
      BY <1>3, <3>1
    <3>3. GitHubTypes(g)
      BY <1>1, <1>2, <3>1, <3>2 DEF GitHubTypes
    <3>4. Grows(gh, g) /\ g[r.tag] = S
      BY <1>1, <1>2, <3>1 DEF Grows
    <3> QED BY <3>1, <3>3, <3>4 DEF S
  <2>5. /\ Performed(r) = [gh EXCEPT ![r.tag] = WithAsset(gh[r.tag], r.name, r.build, "uploaded")]
        /\ BrokenOff(r) = [gh EXCEPT ![r.tag] = WithAsset(gh[r.tag], r.name, r.build, "starter")]
    BY <1>5 DEF Performed, BrokenOff
  <2>6. GitHubTypes(Performed(r)) /\ Grows(gh, Performed(r)) /\ Stored(Performed(r), r.tag, r.name, r.build)
    BY <2>4, <2>5 DEF Stored
  <2>7. GitHubTypes(BrokenOff(r)) /\ Grows(gh, BrokenOff(r))
    BY <2>4, <2>5
  <2> QED BY <1>5, <2>3, <2>6, <2>7
<1> QED BY <1>1, <1>4, <1>5

-----------------------------------------------------------------------------
(* Publications. *)

LEMMA IdlePublication == Idle \in Publications /\ Idle.pc = "idle" /\ Idle.at = 1 /\ Idle.listed = <<>> /\ Idle.todo = {}
<1>1. (CHOOSE b \in Builds : TRUE) \in Builds
  BY PublicationAssumption
<1>2. 1 \in DOMAIN Plan
  BY PlanPositions
<1> QED BY <1>1, <1>2 DEF Idle, Publications

\* A publication that is over promises nothing, unless it is done.
LEMMA StoppedSound ==
  ASSUME NEW g, NEW P \in Publications, P.pc \in {"idle", "failed"}
  PROVE  Sound(g, P)
BY DEF Sound, Active

\* What a step must show: that GitHub takes nothing away and that publisher p stays sound.
LEMMA Together ==
  ASSUME PubInv, edits = 0, edits' = 0, GitHubTypes(gh'), late' \subseteq Requests, Grows(gh, gh'),
         NEW p \in Publishers, \E N \in Publications : pub' = [pub EXCEPT ![p] = N] /\ Sound(gh', N)
  PROVE  PubInv'
<1>1. PICK N \in Publications : pub' = [pub EXCEPT ![p] = N] /\ Sound(gh', N)
  OBVIOUS
<1>2. pub \in [Publishers -> Publications] /\ \A q \in Publishers : Sound(gh, pub[q])
  BY DEF PubInv
<1>3. pub' \in [Publishers -> Publications] /\ \A q \in Publishers : pub'[q] = pub[q] \/ pub'[q] = N
  BY <1>1, <1>2
<1>4. \A q \in Publishers : Sound(gh', pub[q])
  BY <1>2, GrowsSound
<1>5. \A q \in Publishers : Sound(gh', pub'[q])
  BY <1>1, <1>3, <1>4
<1> QED BY <1>3, <1>5 DEF PubInv, GitHubTypes, Requests

LEMMA SameGrows == \A g : Grows(g, g)
BY DEF Grows

LEMMA FailedPublication ==
  ASSUME PubInv, edits = 0, NEW p \in Publishers, Failed(p), NEW g
  PROVE  \E N \in Publications : pub' = [pub EXCEPT ![p] = N] /\ Sound(g, N)
<1> DEFINE N == [Idle EXCEPT !.pc = "failed", !.build = pub[p].build]
<1>1. pub[p].build \in Builds
  BY DEF PubInv, Publications
<1>2. N \in Publications /\ N.pc = "failed"
  BY <1>1, IdlePublication DEF Publications
<1>3. pub' = [pub EXCEPT ![p] = N]
  BY DEF Failed
<1> HIDE DEF N
<1> QED BY <1>2, <1>3, StoppedSound

\* Once the release at hand is whole but for the missing assets, a publication goes on with them,
\* with the next release, or to its end.
LEMMA UploadsSound ==
  ASSUME PubInv, edits = 0, NEW p \in Publishers, pub[p].pc \in Active,
         GitHubTypes(gh'), Grows(gh, gh'), gh'[Tag(p)].meta = "planned"
  PROVE  \A missing \in SUBSET DOMAIN LocalNames(p) :
           /\ \A k \in DOMAIN LocalNames(p) \ missing : Stored(gh', Tag(p), LocalNames(p)[k], pub[p].build)
           /\ Uploads(p, missing)
           => \E N \in Publications : pub' = [pub EXCEPT ![p] = N] /\ Sound(gh', N)
<1> SUFFICES ASSUME NEW missing \in SUBSET DOMAIN LocalNames(p),
                    \A k \in DOMAIN LocalNames(p) \ missing : Stored(gh', Tag(p), LocalNames(p)[k], pub[p].build),
                    Uploads(p, missing)
             PROVE  \E N \in Publications : pub' = [pub EXCEPT ![p] = N] /\ Sound(gh', N)
  OBVIOUS
<1> DEFINE P == pub[p]
           t == Plan[P.at]
<1>1. P \in Publications /\ Sound(gh, P)
  BY DEF PubInv
<1>2. P.build \in Builds /\ P.at \in DOMAIN Plan /\ t \in DOMAIN AssetsOf /\ P.pc \in Active
  BY <1>1, PlanTags DEF Publications
<1>3. Tag(p) = t /\ LocalNames(p) = AssetsOf[t]
  BY DEF Tag, LocalNames
<1>4. \A i \in 1..(P.at - 1) : WholeIn(gh', Plan[i], P.build)
  <2>1. Sound(gh', P)
    BY <1>1, GrowsSound
  <2> QED BY <1>2, <2>1 DEF Sound
<1>5. CASE missing = {}
  <2> DEFINE N == [Idle EXCEPT !.build = P.build,
                      !.pc = IF P.at = Len(Plan) THEN "done" ELSE "lookup",
                      !.at = IF P.at = Len(Plan) THEN 1 ELSE P.at + 1]
  <2>1. pub' = [pub EXCEPT ![p] = N]
    BY <1>5 DEF Uploads, NextRelease
  <2> DEFINE pc == IF P.at = Len(Plan) THEN "done" ELSE "lookup"
             next == IF P.at = Len(Plan) THEN 1 ELSE P.at + 1
  <2>a. next \in DOMAIN Plan
    BY <1>2, PlanPositions
  <2>b. pc \in {"done", "lookup"}
    OBVIOUS
  <2>c. N = [Idle EXCEPT !.build = P.build, !.pc = pc, !.at = next]
    OBVIOUS
  <2>d. N \in Publications /\ N.build = P.build /\ N.listed = <<>> /\ N.pc = pc /\ N.at = next
    <3> HIDE DEF N, pc, next
    <3> QED BY <1>2, <2>a, <2>b, <2>c, IdlePublication DEF Publications, Active
  <2>2. /\ N \in Publications /\ N.build = P.build /\ N.listed = <<>>
        /\ P.at = Len(Plan) => N.pc = "done" /\ N.at = 1
        /\ P.at # Len(Plan) => N.pc = "lookup" /\ N.at = P.at + 1
    <3> HIDE DEF N
    <3> QED BY <2>d
  <2>3. WholeIn(gh', t, P.build)
    BY <1>3, <1>5 DEF WholeIn, Range
  <2> HIDE DEF N
  <2>4. \A i \in 1..P.at : WholeIn(gh', Plan[i], P.build)
    BY <1>2, <1>4, <2>3, PlanPositions
  <2>5. Sound(gh', N)
    BY <1>2, <2>2, <2>4, PlanPositions DEF Sound, Active
  <2> QED BY <2>1, <2>2, <2>5
<1>6. CASE missing # {}
  <2> DEFINE N == [P EXCEPT !.pc = "upload", !.listed = <<>>, !.todo = missing]
  <2>1. pub' = [pub EXCEPT ![p] = N]
    <3>1. pub' = [pub EXCEPT ![p].pc = "upload", ![p].listed = <<>>, ![p].todo = missing]
      BY <1>6 DEF Uploads
    <3>2. p \in DOMAIN pub
      BY DEF PubInv
    <3> QED BY <3>1, <3>2
  <2>2. missing \subseteq Nat /\ missing \subseteq DOMAIN AssetsOf[t]
    BY <1>2, <1>3, AssetPositions
  <2>3. N \in Publications
    <3>1. <<>> \in Seq(Assets) /\ missing \in SUBSET Nat /\ "upload" \in Active \cup {"idle", "done", "failed"}
      BY <2>2 DEF Active
    <3> HIDE DEF P
    <3> QED BY <1>1, <3>1 DEF Publications
  <2>4. N.pc = "upload" /\ N.build = P.build /\ N.at = P.at /\ N.todo = missing
    BY <1>1 DEF Publications
  <2> HIDE DEF N
  <2>5. Sound(gh', N)
    BY <1>3, <1>4, <1>6, <2>2, <2>4 DEF Sound
  <2> QED BY <2>1, <2>3, <2>5
<1> QED BY <1>5, <1>6

-----------------------------------------------------------------------------
(* One publisher. *)

LEMMA PartOfSequence ==
  ASSUME NEW S, NEW s \in Seq(S), NEW m \in Nat \ {0}, NEW n \in Nat, n <= Len(s)
  PROVE  SubSeq(s, m, n) \in Seq(S) /\ Range(SubSeq(s, m, n)) \subseteq Range(s)
<1>1. SubSeq(s, m, n) \in Seq(S)
  OBVIOUS
<1>2. ASSUME NEW i \in DOMAIN SubSeq(s, m, n) PROVE SubSeq(s, m, n)[i] \in Range(s)
  <2>1. SubSeq(s, m, n)[i] = s[m + i - 1] /\ m + i - 1 \in DOMAIN s
    OBVIOUS
  <2> QED BY <2>1 DEF Range
<1> QED BY <1>1, <1>2 DEF Range

LEMMA PageIsPart ==
  ASSUME NEW R \in GitHubReleases, NEW k \in Nat \ {0}
  PROVE  PageOf(R, k) \in Seq(Assets) /\ Range(PageOf(R, k)) \subseteq Range(R.assets)
<1> DEFINE m == (k - 1) * PageSize + 1
           n == IF k * PageSize < Len(R.assets) THEN k * PageSize ELSE Len(R.assets)
<1>1. R.assets \in Seq(Assets) /\ Len(R.assets) \in Nat
  BY DEF GitHubReleases
<1>2. (k - 1) * PageSize \in Nat /\ k * PageSize \in Nat
  <2>1. PageSize \in Nat /\ k - 1 \in Nat
    BY PublicationAssumption
  <2> QED BY <2>1
<1>3. m \in Nat \ {0} /\ n \in Nat /\ n <= Len(R.assets)
  BY <1>1, <1>2
<1>4. PageOf(R, k) = SubSeq(R.assets, m, n)
  BY DEF PageOf
<1> HIDE DEF m, n
<1>5. SubSeq(R.assets, m, n) \in Seq(Assets) /\ Range(SubSeq(R.assets, m, n)) \subseteq Range(R.assets)
  BY <1>1, <1>3, PartOfSequence
<1> QED BY <1>4, <1>5

LEMMA RequestTyped ==
  ASSUME PubInv, edits = 0, NEW p \in Publishers, pub[p].pc \in {"create", "upload"}
  PROVE  /\ Request(p) \in Requests /\ Request(p).tag = Tag(p) /\ Request(p).op = pub[p].pc
         /\ pub[p].pc = "upload" =>
              /\ Request(p).build = pub[p].build
              /\ \E k \in pub[p].todo : Request(p).name = LocalNames(p)[k] /\ k = Min(pub[p].todo)
<1>1. pub[p] \in Publications /\ Sound(gh, pub[p])
  BY DEF PubInv
<1>2. Tag(p) \in DOMAIN AssetsOf /\ pub[p].build \in Builds
  BY <1>1, PlanTags DEF Tag, Publications
<1>3. CASE pub[p].pc = "create"
  BY <1>2, <1>3 DEF Request, Requests
<1>4. CASE pub[p].pc = "upload"
  <2> DEFINE k == Min(pub[p].todo)
             n == LocalNames(p)[k]
  <2>1. pub[p].todo # {} /\ pub[p].todo \subseteq DOMAIN LocalNames(p) /\ pub[p].todo \in SUBSET Nat
    BY <1>1, <1>4 DEF Sound, Publications, LocalNames, Tag
  <2>2. k \in pub[p].todo
    BY <2>1, SmallestPosition
  <2>3. n \in AssetNames
    BY <1>2, <2>1, <2>2, AssetPositions DEF LocalNames
  <2>4. Request(p) = [op |-> "upload", tag |-> Tag(p), name |-> n, build |-> pub[p].build]
    BY <1>4 DEF Request
  <2> HIDE DEF n
  <2>5. Request(p) \in Requests
    BY <1>2, <2>3, <2>4 DEF Requests
  <2> QED BY <1>4, <2>2, <2>4, <2>5 DEF n
<1> QED BY <1>3, <1>4

LEMMA LookUpInv ==
  ASSUME PubInv, edits = 0, NEW p \in Publishers, LookUp(p)
  PROVE  PubInv'
<1>1. pub[p] \in Publications /\ Sound(gh, pub[p]) /\ pub[p].pc = "lookup" /\ p \in DOMAIN pub
  BY DEF PubInv, LookUp
<1>2. gh' = gh /\ late' = late /\ edits' = edits
  BY DEF LookUp
<1>3. Tag(p) = Plan[pub[p].at] /\ Tag(p) \in DOMAIN AssetsOf
  BY <1>1, PlanTags DEF Tag, Publications
<1>4. \E N \in Publications : pub' = [pub EXCEPT ![p] = N] /\ Sound(gh, N)
  <2>1. CASE Failed(p)
    BY <2>1, FailedPublication
  <2>2. CASE pub' = [pub EXCEPT ![p].pc = "create"]
    <3> DEFINE N == [pub[p] EXCEPT !.pc = "create"]
    <3>1. N \in Publications /\ N.pc = "create" /\ N.at = pub[p].at /\ N.build = pub[p].build
      BY <1>1 DEF Publications, Active
    <3>2. pub' = [pub EXCEPT ![p] = N]
      BY <1>1, <2>2
    <3> HIDE DEF N
    <3>3. Sound(gh, N)
      BY <1>1, <3>1 DEF Sound, Active
    <3> QED BY <3>1, <3>2, <3>3
  <2>3. CASE pub' = [pub EXCEPT ![p].pc = "list"] /\ gh[Tag(p)] # Absent
    <3> DEFINE N == [pub[p] EXCEPT !.pc = "list"]
    <3>1. N \in Publications /\ N.pc = "list" /\ N.at = pub[p].at /\ N.build = pub[p].build /\ N.listed = pub[p].listed
      BY <1>1 DEF Publications, Active
    <3>2. pub' = [pub EXCEPT ![p] = N]
      BY <1>1, <2>3
    <3> HIDE DEF N
    <3>3. gh[Tag(p)].meta = "planned"
      BY <1>3, <2>3 DEF PubInv, GitHubTypes, GitHubReleases
    <3>4. Range(pub[p].listed) = {}
      BY <1>1 DEF Sound, Range
    <3>5. Sound(gh, N)
      BY <1>1, <1>3, <3>1, <3>3, <3>4 DEF Sound, Active
    <3> QED BY <3>1, <3>2, <3>5
  <2> QED BY <2>1, <2>2, <2>3 DEF LookUp
<1> QED BY <1>2, <1>4, SameGrows, Together DEF PubInv

LEMMA ListPageInv ==
  ASSUME PubInv, edits = 0, NEW p \in Publishers, ListPage(p)
  PROVE  PubInv'
<1> DEFINE P == pub[p]
           R == gh[Tag(p)]
           batch == PageOf(R, Len(P.listed) \div PageSize + 1)
           inventory == P.listed \o batch
<1>1. P \in Publications /\ Sound(gh, P) /\ P.pc = "list" /\ p \in DOMAIN pub
  BY DEF PubInv, ListPage
<1>2. gh' = gh /\ late' = late /\ edits' = edits
  BY DEF ListPage
<1>3. Tag(p) = Plan[P.at] /\ Tag(p) \in DOMAIN AssetsOf /\ R \in GitHubReleases
  BY <1>1, PlanTags DEF Tag, Publications, PubInv, GitHubTypes
<1>4. P.listed \in Seq(Assets) /\ Range(P.listed) \subseteq Range(R.assets) /\ R.meta = "planned"
  BY <1>1, <1>3 DEF Publications, Sound
<1>5. batch \in Seq(Assets) /\ Range(batch) \subseteq Range(R.assets)
  <2> DEFINE len == Len(P.listed)
  <2>a. len \in Nat /\ PageSize \in Nat \ {0}
    BY <1>4, PublicationAssumption
  <2>1. len \div PageSize + 1 \in Nat \ {0}
    <3> HIDE DEF len
    <3> QED BY <2>a
  <2> QED BY <1>3, <2>1, PageIsPart
<1>6. inventory \in Seq(Assets) /\ Range(inventory) \subseteq Range(R.assets)
  <2> HIDE DEF batch, P, R
  <2>1. inventory \in Seq(Assets) /\ \A i \in DOMAIN inventory : inventory[i] \in Range(P.listed) \cup Range(batch)
    BY <1>4, <1>5 DEF Range
  <2> QED BY <1>4, <1>5, <2>1 DEF Range
<1> HIDE DEF batch, inventory
<1>7. \E N \in Publications : pub' = [pub EXCEPT ![p] = N] /\ Sound(gh, N)
  <2>1. CASE Failed(p)
    BY <2>1, FailedPublication
  <2>2. CASE pub' = [pub EXCEPT ![p].listed = inventory]
    <3> DEFINE N == [P EXCEPT !.listed = inventory]
    <3>1. N \in Publications /\ N.pc = "list" /\ N.at = P.at /\ N.build = P.build /\ N.listed = inventory
      BY <1>1, <1>6 DEF Publications, Active
    <3>2. pub' = [pub EXCEPT ![p] = N]
      BY <1>1, <2>2
    <3> HIDE DEF N
    <3>3. Sound(gh, N)
      BY <1>1, <1>3, <1>4, <1>6, <3>1 DEF Sound, Active
    <3> QED BY <3>1, <3>2, <3>3
  <2>3. CASE /\ \A n \in Range(LocalNames(p)) \cap Names(inventory) : MatchesLocal(p, Named(inventory, n))
             /\ Uploads(p, {i \in DOMAIN LocalNames(p) : LocalNames(p)[i] \notin Names(inventory)})
    <3> DEFINE missing == {i \in DOMAIN LocalNames(p) : LocalNames(p)[i] \notin Names(inventory)}
    <3>1. ASSUME NEW k \in DOMAIN LocalNames(p) \ missing
          PROVE  Stored(gh, Tag(p), LocalNames(p)[k], P.build)
      <4> DEFINE n == LocalNames(p)[k]
      <4>1. n \in Range(LocalNames(p)) \cap Names(inventory)
        BY DEF Range
      <4>2. Named(inventory, n) \in Range(inventory) /\ Named(inventory, n).name = n
        BY <4>1 DEF Names, Named, Range
      <4>3. MatchesLocal(p, Named(inventory, n))
        BY <2>3, <4>1
      <4> QED BY <1>6, <4>2, <4>3 DEF MatchesLocal, Stored
    <3>2. missing \in SUBSET DOMAIN LocalNames(p) /\ Uploads(p, missing)
      BY <2>3
    <3>3. GitHubTypes(gh') /\ Grows(gh, gh') /\ gh'[Tag(p)].meta = "planned" /\ P.pc \in Active
      BY <1>1, <1>2, <1>4, SameGrows DEF PubInv, Active
    <3> HIDE DEF missing
    <3> QED BY <1>2, <3>1, <3>2, <3>3, UploadsSound
  <2> QED BY <2>1, <2>2, <2>3 DEF ListPage, inventory, batch
<1> QED BY <1>2, <1>7, SameGrows, Together DEF PubInv

LEMMA AnsweredInv ==
  ASSUME PubInv, edits = 0, NEW p \in Publishers, Answered(p)
  PROVE  PubInv'
<1> DEFINE r == Request(p)
           missing == IF pub[p].pc = "create" THEN DOMAIN LocalNames(p) ELSE pub[p].todo \ {Min(pub[p].todo)}
<1>1. pub[p].pc \in {"create", "upload"} /\ late' = late /\ edits' = edits
  BY DEF Answered
<1>2. GitHubTypes(gh) /\ late \subseteq Requests /\ Sound(gh, pub[p])
  BY DEF PubInv
<1>3. r \in Requests /\ r.tag = Tag(p) /\ r.op = pub[p].pc
  BY <1>1, RequestTyped
<1>4. CASE Conflicts(r)
  <2>1. gh' = gh /\ Failed(p)
    BY <1>4 DEF Answered
  <2>2. \E N \in Publications : pub' = [pub EXCEPT ![p] = N] /\ Sound(gh, N)
    BY <2>1, FailedPublication
  <2> QED BY <1>1, <1>2, <2>1, <2>2, SameGrows, Together
<1>5. CASE ~Conflicts(r)
  <2>1. gh' = Performed(r) /\ Uploads(p, missing)
    BY <1>5 DEF Answered
  <2> HIDE DEF r
  <2>2. GitHubTypes(gh') /\ Grows(gh, gh') /\ gh'[Tag(p)].meta = "planned"
    <3>1. GitHubTypes(Performed(r)) /\ Grows(gh, Performed(r))
      BY <1>2, <1>3, <1>5, PerformedGrows
    <3>2. CASE r.op = "create"
      BY <1>2, <1>3, <1>5, <2>1, <3>1, <3>2, PerformedGrows
    <3>3. CASE r.op = "upload"
      <4>1. gh[r.tag].meta = "planned"
        BY <1>2, <1>3, <1>5, <3>3, PerformedGrows
      <4>2. r.tag \in DOMAIN AssetsOf
        BY <1>3 DEF Requests
      <4> QED BY <1>3, <2>1, <3>1, <4>1, <4>2 DEF Grows
    <3> QED BY <1>1, <1>3, <3>2, <3>3
  <2>3. missing \in SUBSET DOMAIN LocalNames(p)
    <3>1. CASE pub[p].pc = "create"
      BY <3>1
    <3>2. CASE pub[p].pc = "upload"
      BY <1>2, <3>2 DEF Sound, LocalNames, Tag
    <3> QED BY <1>1, <3>1, <3>2
  <2>4. ASSUME NEW k \in DOMAIN LocalNames(p) \ missing
        PROVE  Stored(gh', Tag(p), LocalNames(p)[k], pub[p].build)
    <3>1. pub[p].pc = "upload"
      BY <1>1, <2>4
    <3>2. CASE k \notin pub[p].todo
      <4>1. gh[Tag(p)].meta = "planned" /\ Stored(gh, Tag(p), LocalNames(p)[k], pub[p].build)
        BY <1>2, <3>1, <3>2 DEF Sound, LocalNames, Tag
      <4>2. Tag(p) \in DOMAIN AssetsOf
        BY <1>3 DEF Requests
      <4> QED BY <2>2, <4>1, <4>2 DEF Grows, Stored
    <3>3. CASE k = Min(pub[p].todo)
      <4>1. r.name = LocalNames(p)[k] /\ r.build = pub[p].build
        BY <3>1, <3>3, RequestTyped DEF r
      <4>2. Stored(Performed(r), r.tag, r.name, r.build)
        BY <1>2, <1>3, <1>5, <3>1, PerformedGrows
      <4> QED BY <1>3, <2>1, <4>1, <4>2
    <3> QED BY <2>4, <3>1, <3>2, <3>3
  <2>5. pub[p].pc \in Active
    BY <1>1 DEF Active
  <2> HIDE DEF missing
  <2>6. \E N \in Publications : pub' = [pub EXCEPT ![p] = N] /\ Sound(gh', N)
    BY <2>1, <2>2, <2>3, <2>4, <2>5, UploadsSound
  <2> QED BY <1>1, <1>2, <2>2, <2>6, Together
<1> QED BY <1>4, <1>5

\* A fault stops the publisher; a request whose answer is lost may have been performed.
LEMMA FaultInv ==
  ASSUME PubInv, edits = 0, NEW p \in Publishers,
         ReadFails(p) \/ RequestRefused(p) \/ AssetUnreadable(p) \/ AnswerLost(p) \/ RequestTimesOut(p)
  PROVE  PubInv'
<1>1. Failed(p) /\ edits' = edits
  BY DEF ReadFails, RequestRefused, AssetUnreadable, FaultAt, AnswerLost, RequestTimesOut
<1>2. \A g : \E N \in Publications : pub' = [pub EXCEPT ![p] = N] /\ Sound(g, N)
  BY <1>1, FailedPublication
<1>3. GitHubTypes(gh) /\ late \subseteq Requests
  BY DEF PubInv
<1>4. CASE gh' = gh /\ late' = late
  BY <1>1, <1>2, <1>3, <1>4, SameGrows, Together
<1>5. CASE AnswerLost(p)
  <2>1. Request(p) \in Requests /\ Request(p).op = pub[p].pc /\ ~Conflicts(Request(p)) /\ late' = late
    BY <1>5, RequestTyped DEF AnswerLost
  <2>2. GitHubTypes(gh') /\ Grows(gh, gh')
    <3>1. gh' = Performed(Request(p)) \/ (pub[p].pc = "upload" /\ gh' = BrokenOff(Request(p)))
      BY <1>5 DEF AnswerLost
    <3> QED BY <1>3, <2>1, <3>1, PerformedGrows
  <2>3. \E N \in Publications : pub' = [pub EXCEPT ![p] = N] /\ Sound(gh', N)
    BY <1>2
  <2> QED BY <1>1, <1>3, <2>1, <2>2, <2>3, Together
<1>6. CASE RequestTimesOut(p)
  <2>1. Request(p) \in Requests /\ gh' = gh /\ late' = late \cup {Request(p)}
    BY <1>6, RequestTyped DEF RequestTimesOut
  <2> QED BY <1>1, <1>2, <1>3, <2>1, SameGrows, Together
<1> QED BY <1>4, <1>5, <1>6 DEF ReadFails, RequestRefused, AssetUnreadable, FaultAt

LEMMA EditedAlready == PubInv /\ edits # 0 /\ edits' = edits => PubInv'
BY DEF PubInv

LEMMA PublisherInv ==
  ASSUME PubInv, NEW p \in Publishers, PublisherStep(p)
  PROVE  PubInv'
<1>1. edits' = edits
  BY DEF PublisherStep, LookUp, ListPage, Answered, ReadFails, RequestRefused, AssetUnreadable, FaultAt,
         AnswerLost, RequestTimesOut
<1> QED BY <1>1, EditedAlready, LookUpInv, ListPageInv, AnsweredInv, FaultInv DEF PublisherStep

LEMMA LateRequestInv == PubInv /\ LateRequest => PubInv'
<1> SUFFICES ASSUME PubInv, LateRequest, edits = 0 PROVE PubInv'
  BY EditedAlready DEF LateRequest
<1>1. PICK r \in late : late' = late \ {r} /\ gh' = IF Conflicts(r) THEN gh ELSE Performed(r)
  BY DEF LateRequest
<1>2. pub' = pub /\ edits' = edits
  BY DEF LateRequest
<1>3. GitHubTypes(gh) /\ late \subseteq Requests /\ pub \in [Publishers -> Publications]
      /\ \A p \in Publishers : Sound(gh, pub[p])
  BY DEF PubInv
<1>4. GitHubTypes(gh') /\ Grows(gh, gh')
  <2>1. CASE Conflicts(r)
    BY <1>1, <1>3, <2>1, SameGrows
  <2>2. CASE ~Conflicts(r)
    BY <1>1, <1>3, <2>2, PerformedGrows
  <2> QED BY <2>1, <2>2
<1>5. \A p \in Publishers : Sound(gh', pub[p])
  BY <1>3, <1>4, GrowsSound
<1> QED BY <1>1, <1>2, <1>3, <1>4, <1>5 DEF PubInv, GitHubTypes

\* What other people take away is counted, and nothing is promised any more.
LEMMA OthersInv == PubInv /\ OthersStep => PubInv'
<1> SUFFICES ASSUME PubInv, OthersStep PROVE PubInv'
  OBVIOUS
<1>1. edits' = edits + 1 /\ edits \in Nat
  BY DEF OthersStep, EditRelease, RemoveAsset, AddForeignAsset, Edited, PubInv
<1> QED BY <1>1 DEF PubInv

-----------------------------------------------------------------------------
(* What the job does with its publisher. *)

LEMMA PublicationInitInv == PublicationInit => PubInv
<1> SUFFICES ASSUME PublicationInit PROVE PubInv
  OBVIOUS
<1>1. Absent \in GitHubReleases /\ Absent.meta = "absent"
  BY DEF Absent, GitHubReleases
<1>2. GitHubTypes(gh)
  BY <1>1 DEF PublicationInit, GitHubTypes
<1>3. pub \in [Publishers -> Publications] /\ \A p \in Publishers : pub[p] = Idle
  BY IdlePublication DEF PublicationInit
<1>4. \A p \in Publishers : Sound(gh, pub[p])
  BY <1>3, IdlePublication, StoppedSound
<1> QED BY <1>2, <1>3, <1>4 DEF PublicationInit, PubInv

\* A publisher that starts, gives up or is forgotten has nothing to lose.
LEMMA PublisherReset ==
  ASSUME PubInv, UNCHANGED <<gh, late, edits>>, NEW p \in Publishers,
         \/ pub' = [pub EXCEPT ![p] = Idle]
         \/ \E b \in Builds : PublicationStarts(p, b)
         \/ Failed(p)
         \/ pub' = pub
  PROVE  PubInv'
<1> SUFFICES ASSUME edits = 0 PROVE PubInv'
  BY EditedAlready
<1>1. GitHubTypes(gh') /\ late' \subseteq Requests /\ Grows(gh, gh') /\ edits' = 0
  BY SameGrows DEF PubInv
<1>2. CASE pub' = [pub EXCEPT ![p] = Idle]
  BY <1>1, <1>2, IdlePublication, StoppedSound, Together
<1>3. ASSUME NEW b \in Builds, PublicationStarts(p, b) PROVE PubInv'
  <2> DEFINE N == [Idle EXCEPT !.pc = "lookup", !.build = b]
  <2>1. N \in Publications /\ N.pc = "lookup" /\ N.at = 1 /\ N.listed = <<>>
    BY IdlePublication DEF Publications, Active
  <2>2. pub' = [pub EXCEPT ![p] = N]
    BY <1>3 DEF PublicationStarts
  <2> HIDE DEF N
  <2>3. Sound(gh', N)
    BY <2>1 DEF Sound, Active
  <2> QED BY <1>1, <2>1, <2>2, <2>3, Together
<1>4. CASE Failed(p)
  BY <1>1, <1>4, FailedPublication, Together
<1>5. CASE pub' = pub
  BY <1>5 DEF PubInv, GitHubTypes
<1> QED BY <1>2, <1>3, <1>4, <1>5

\* What stays as it is when a publisher works or a late request is performed.
LEMMA PublisherKeeps ==
  ASSUME PubInv, edits = 0, (\E p \in Publishers : PublisherStep(p)) \/ LateRequest
  PROVE  Grows(gh, gh') /\ \A q \in Publishers : pub'[q].build = pub[q].build
<1>1. GitHubTypes(gh) /\ late \subseteq Requests /\ pub \in [Publishers -> Publications]
  BY DEF PubInv
<1>2. CASE LateRequest
  <2>1. PICK r \in late : gh' = IF Conflicts(r) THEN gh ELSE Performed(r)
    BY <1>2 DEF LateRequest
  <2>2. Grows(gh, gh')
    <3>1. CASE Conflicts(r)
      BY <2>1, <3>1, SameGrows
    <3>2. CASE ~Conflicts(r)
      BY <1>1, <2>1, <3>2, PerformedGrows
    <3> QED BY <3>1, <3>2
  <2>3. pub' = pub
    BY <1>2 DEF LateRequest
  <2> QED BY <2>2, <2>3
<1>3. ASSUME NEW p \in Publishers, PublisherStep(p)
      PROVE  Grows(gh, gh') /\ \A q \in Publishers : pub'[q].build = pub[q].build
  <2>1. Grows(gh, gh')
    <3>1. CASE gh' = gh
      BY <3>1, SameGrows
    <3>2. CASE gh' # gh
      <4>1. Answered(p) \/ AnswerLost(p)
        BY <1>3, <3>2 DEF PublisherStep, LookUp, ListPage, ReadFails, RequestRefused, AssetUnreadable, FaultAt,
                          RequestTimesOut
      <4>2. /\ pub[p].pc \in {"create", "upload"} /\ ~Conflicts(Request(p))
            /\ gh' = Performed(Request(p)) \/ (pub[p].pc = "upload" /\ gh' = BrokenOff(Request(p)))
        BY <3>2, <4>1 DEF Answered, AnswerLost
      <4>3. Request(p) \in Requests /\ Request(p).op = pub[p].pc
        BY <4>2, RequestTyped
      <4> QED BY <1>1, <4>2, <4>3, PerformedGrows
    <3> QED BY <3>1, <3>2
  <2>a. p \in DOMAIN pub /\ pub[p] \in Publications
    BY <1>1
  <2>2. \A N : pub' = [pub EXCEPT ![p] = N] /\ N.build = pub[p].build
               => \A q \in Publishers : pub'[q].build = pub[q].build
    BY <1>1
  <2>3. Failed(p) => \A q \in Publishers : pub'[q].build = pub[q].build
    <3> DEFINE N == [Idle EXCEPT !.pc = "failed", !.build = pub[p].build]
    <3>1. N.build = pub[p].build
      BY DEF Idle
    <3>2. Failed(p) => pub' = [pub EXCEPT ![p] = N]
      BY DEF Failed
    <3> HIDE DEF N
    <3> QED BY <2>2, <3>1, <3>2
  <2>4. ASSUME NEW missing, Uploads(p, missing) PROVE \A q \in Publishers : pub'[q].build = pub[q].build
    <3>1. CASE missing = {}
      <4> DEFINE pc == IF pub[p].at = Len(Plan) THEN "done" ELSE "lookup"
                 next == IF pub[p].at = Len(Plan) THEN 1 ELSE pub[p].at + 1
                 N == [Idle EXCEPT !.build = pub[p].build, !.pc = pc, !.at = next]
      <4>1. pub' = [pub EXCEPT ![p] = N]
        BY <2>4, <3>1 DEF Uploads, NextRelease
      <4> HIDE DEF pc, next
      <4>2. N.build = pub[p].build
        BY DEF Idle
      <4> HIDE DEF N
      <4> QED BY <2>2, <4>1, <4>2
    <3>2. CASE missing # {}
      <4> DEFINE N == [pub[p] EXCEPT !.pc = "upload", !.listed = <<>>, !.todo = missing]
      <4>1. pub' = [pub EXCEPT ![p].pc = "upload", ![p].listed = <<>>, ![p].todo = missing]
        BY <2>4, <3>2 DEF Uploads
      <4>2. pub' = [pub EXCEPT ![p] = N]
        BY <2>a, <4>1
      <4>3. N.build = pub[p].build
        BY <2>a DEF Publications
      <4> HIDE DEF N
      <4> QED BY <2>2, <4>2, <4>3
    <3> QED BY <3>1, <3>2
  <2>5. CASE Failed(p)
    BY <2>1, <2>3, <2>5
  <2>6. CASE LookUp(p)
    <3>1. Failed(p) \/ pub' = [pub EXCEPT ![p].pc = "create"] \/ pub' = [pub EXCEPT ![p].pc = "list"]
      BY <2>6 DEF LookUp
    <3>2. ASSUME NEW pc, pub' = [pub EXCEPT ![p].pc = pc] PROVE \A q \in Publishers : pub'[q].build = pub[q].build
      <4> DEFINE N == [pub[p] EXCEPT !.pc = pc]
      <4>1. pub' = [pub EXCEPT ![p] = N]
        BY <2>a, <3>2
      <4>2. N.build = pub[p].build
        BY <2>a DEF Publications
      <4> HIDE DEF N
      <4> QED BY <2>2, <4>1, <4>2
    <3> QED BY <2>1, <2>3, <3>1, <3>2
  <2>7. CASE ListPage(p)
    <3> DEFINE inventory == pub[p].listed \o PageOf(gh[Tag(p)], Len(pub[p].listed) \div PageSize + 1)
               missing == {i \in DOMAIN LocalNames(p) : LocalNames(p)[i] \notin Names(inventory)}
    <3>1. Failed(p) \/ pub' = [pub EXCEPT ![p].listed = inventory] \/ Uploads(p, missing)
      BY <2>7, Zenon DEF ListPage
    <3> HIDE DEF inventory, missing
    <3>2. ASSUME NEW l, pub' = [pub EXCEPT ![p].listed = l] PROVE \A q \in Publishers : pub'[q].build = pub[q].build
      <4> DEFINE N == [pub[p] EXCEPT !.listed = l]
      <4>1. pub' = [pub EXCEPT ![p] = N]
        BY <2>a, <3>2
      <4>2. N.build = pub[p].build
        BY <2>a DEF Publications
      <4> HIDE DEF N
      <4> QED BY <2>2, <4>1, <4>2
    <3> QED BY <2>1, <2>3, <2>4, <3>1, <3>2
  <2>8. CASE Answered(p)
    <3> DEFINE missing == IF pub[p].pc = "create" THEN DOMAIN LocalNames(p) ELSE pub[p].todo \ {Min(pub[p].todo)}
    <3>1. Failed(p) \/ Uploads(p, missing)
      BY <2>8 DEF Answered
    <3> HIDE DEF missing
    <3> QED BY <2>1, <2>3, <2>4, <3>1
  <2> QED BY <1>3, <2>1, <2>5, <2>6, <2>7, <2>8 DEF PublisherStep, ReadFails, RequestRefused, AssetUnreadable, FaultAt,
                                                AnswerLost, RequestTimesOut
<1> QED BY <1>2, <1>3

-----------------------------------------------------------------------------
(* Names. *)

\* No two assets of a release have the same name: GitHub refuses the second one.
NamesUnique(g) ==
  \A t \in DOMAIN AssetsOf : \A a, b \in Range(g[t].assets) : a.name = b.name => a = b

LEMMA WithAssetUnique ==
  ASSUME NEW R \in GitHubReleases, NEW n, NEW b, NEW state, n \notin Names(R.assets),
         \A x, y \in Range(R.assets) : x.name = y.name => x = y
  PROVE  \A x, y \in Range(WithAsset(R, n, b, state).assets) : x.name = y.name => x = y
<1> DEFINE a == [name |-> n, id |-> R.ids + 1, state |-> state, build |-> b]
           s == R.assets
<1>1. WithAsset(R, n, b, state).assets = Append(s, a)
  BY DEF WithAsset, GitHubReleases
<1>2. a.name = n /\ s \in Seq(Assets)
  BY DEF GitHubReleases
<1>3. \A x \in Range(s) : x.name # n
  BY DEF Names, Range
<1>4. \A x, y \in Range(s) : x.name = y.name => x = y
  OBVIOUS
<1> HIDE DEF a, s
<1>5. \A x \in Range(Append(s, a)) : x \in Range(s) \/ x = a
  BY <1>2 DEF Range
<1> QED BY <1>1, <1>2, <1>3, <1>4, <1>5

LEMMA PerformedUnique ==
  ASSUME GitHubTypes(gh), NamesUnique(gh), NEW r \in Requests, ~Conflicts(r)
  PROVE  /\ NamesUnique(Performed(r))
         /\ r.op = "upload" => NamesUnique(BrokenOff(r))
<1>1. r.tag \in DOMAIN AssetsOf /\ r.op \in {"create", "upload"}
  BY DEF Requests
<1>2. gh \in [DOMAIN AssetsOf -> GitHubReleases] /\ gh[r.tag] \in GitHubReleases
  BY <1>1 DEF GitHubTypes
<1>3. ASSUME NEW S, \A x, y \in Range(S.assets) : x.name = y.name => x = y
      PROVE  NamesUnique([gh EXCEPT ![r.tag] = S])
  BY <1>1, <1>2, <1>3 DEF NamesUnique
<1>4. CASE r.op = "create"
  <2>1. Performed(r) = [gh EXCEPT ![r.tag] = Fresh]
    BY <1>4 DEF Performed
  <2>2. Range(Fresh.assets) = {}
    BY DEF Fresh, Range
  <2> QED BY <1>3, <1>4, <2>1, <2>2
<1>5. CASE r.op = "upload"
  <2>1. r.name \notin Names(gh[r.tag].assets)
    BY <1>5 DEF Conflicts
  <2>2. \A x, y \in Range(gh[r.tag].assets) : x.name = y.name => x = y
    BY <1>1 DEF NamesUnique
  <2>3. \A state : NamesUnique([gh EXCEPT ![r.tag] = WithAsset(gh[r.tag], r.name, r.build, state)])
    <3> SUFFICES ASSUME NEW state
                 PROVE  NamesUnique([gh EXCEPT ![r.tag] = WithAsset(gh[r.tag], r.name, r.build, state)])
      OBVIOUS
    <3> DEFINE S == WithAsset(gh[r.tag], r.name, r.build, state)
    <3>1. \A x, y \in Range(S.assets) : x.name = y.name => x = y
      BY <1>2, <2>1, <2>2, WithAssetUnique
    <3> HIDE DEF S
    <3>2. NamesUnique([gh EXCEPT ![r.tag] = S])
      BY <1>3, <3>1
    <3> QED BY <3>2 DEF S
  <2>4. /\ Performed(r) = [gh EXCEPT ![r.tag] = WithAsset(gh[r.tag], r.name, r.build, "uploaded")]
        /\ BrokenOff(r) = [gh EXCEPT ![r.tag] = WithAsset(gh[r.tag], r.name, r.build, "starter")]
    BY <1>5 DEF Performed, BrokenOff
  <2> QED BY <2>3, <2>4
<1> QED BY <1>1, <1>4, <1>5

LEMMA PublisherUnique ==
  ASSUME PubInv, edits = 0, NamesUnique(gh), (\E p \in Publishers : PublisherStep(p)) \/ LateRequest
  PROVE  NamesUnique(gh')
<1>1. GitHubTypes(gh) /\ late \subseteq Requests
  BY DEF PubInv
<1>2. CASE LateRequest
  <2>1. PICK r \in late : gh' = IF Conflicts(r) THEN gh ELSE Performed(r)
    BY <1>2 DEF LateRequest
  <2> QED BY <1>1, <2>1, PerformedUnique
<1>3. ASSUME NEW p \in Publishers, PublisherStep(p), gh' # gh PROVE NamesUnique(gh')
  <2>1. Answered(p) \/ AnswerLost(p)
    BY <1>3 DEF PublisherStep, LookUp, ListPage, ReadFails, RequestRefused, AssetUnreadable, FaultAt,
                RequestTimesOut
  <2>2. /\ pub[p].pc \in {"create", "upload"} /\ ~Conflicts(Request(p))
        /\ gh' = Performed(Request(p)) \/ (pub[p].pc = "upload" /\ gh' = BrokenOff(Request(p)))
    BY <1>3, <2>1 DEF Answered, AnswerLost
  <2>3. Request(p) \in Requests /\ Request(p).op = pub[p].pc
    BY <2>2, RequestTyped
  <2> QED BY <1>1, <2>2, <2>3, PerformedUnique
<1> QED BY <1>2, <1>3

LEMMA PubInvDone == PubInv => DoneIsWhole
BY DEF PubInv, DoneIsWhole, Sound, WholeIn, Whole, Stored
=============================================================================

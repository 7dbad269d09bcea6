-------------------------- MODULE ReleaseJob_proofs --------------------------
(***************************************************************************)
(* Proofs about ReleaseJob for any commits, deliveries, assets and bounds: *)
(* what is released was tested, a GitHub Release is made only for tags     *)
(* that are on the remote, a publisher that is done has published its      *)
(* whole plan, a success that is reported is one, and what a verifier says *)
(* PASSED of is the whole of one build.                                    *)
(***************************************************************************)
EXTENDS ReleaseJob, GitHubPublication_proofs, FiniteSetTheorems

Commits == [src : Range(Sources), release : BOOLEAN]
PCs == {"idle", "mint", "check", "clone", "verify", "push", "publish", "complete"}
Outcomes == {"none", "stale", "no_release", "published", "failed"}
Conclusions == {"in progress", "success", "failure", "neutral"}

Types ==
  /\ branch \in Seq(Commits) /\ Len(branch) > 0
  /\ job \in [pc : PCs, sha : Commits, clone : Commits, check : Nat, outcome : Outcomes, expired : BOOLEAN]
  /\ checks \in Seq([commit : Commits, conclusion : Conclusions])
  /\ attempts \in [Events \cup {Operator} -> Nat]
  /\ latePush \subseteq Range(Sources)
  /\ DOMAIN gh = DOMAIN AssetsOf /\ DOMAIN pub = Publishers

\* People push each source once, in order, so a commit that is no longer the tip never is again.
PushedCommits == {i \in DOMAIN branch : ~branch[i].release}
SourcesInOrder ==
  \A i \in PushedCommits : \E n \in 1..Cardinality(PushedCommits) : branch[i] = Source(Sources[n])
SourcesOnce == \A i \in PushedCommits, k \in DOMAIN branch : branch[i] = branch[k] => i = k

\* A handled event asked for the commit's release, according to the counts in tried.
TestedIn(c, tried) ==
  \E e \in Events : Payload[e].commit = c /\ Payload[e].conclusion = "success" /\ tried[e] > 0
Tested(c) == TestedIn(c, attempts)

\* Source c is on the branch, and nothing was released before it or at it.  What verifySource sees
\* at the tip stays true of c when the branch moves on, which is what a push that arrives later
\* relies on.
Clean(c) ==
  \E i \in DOMAIN branch : branch[i] = Source(c) /\ \A k \in 1..i : ~branch[k].release

JobTested == job.pc # "idle" => ~job.sha.release /\ Tested(job.sha)
CloneResumes == job.pc \in {"verify", "push"} => job.clone = job.sha \/ Resumes(job.clone, job.sha)
PushClean == job.pc = "push" /\ ~job.clone.release => Clean(job.sha.src)
LateClean == \A c \in latePush : Clean(c) /\ Tested(Source(c))

\* A publisher is between its start and its end.
Publishing == \E p \in Publishers : pub[p].pc \in {"lookup", "list", "create", "upload"}

\* Whatever may still reach GitHub, or has, comes after the tags.
GitHubAfterTags ==
  late # {} \/ Publishing \/ (\E t \in DOMAIN gh : gh[t] # Absent) => TagsOnRemote

BranchInv == SourcesInOrder /\ SourcesOnce /\ OnlyTestedReleased
JobInv == JobTested /\ CloneResumes /\ PushClean /\ LateClean
IInv == Types /\ BranchInv /\ JobInv /\ GitHubAfterTags

USE DEF vars, jobVars, pubVars, Resumes

-----------------------------------------------------------------------------
LEMMA CommitTypes ==
  \A c \in Range(Sources) : Source(c) \in Commits /\ ReleaseOf(c) \in Commits
BY DEF Source, ReleaseOf, Commits

LEMMA NoJobType ==
  NoJob \in [pc : PCs, sha : Commits, clone : Commits, check : Nat, outcome : Outcomes, expired : BOOLEAN]
<1>1. Head(Sources) \in Range(Sources)
  BY JobAssumption DEF Range
<1> QED BY <1>1, CommitTypes DEF NoJob, PCs, Outcomes

LEMMA TipType == Types => Tip \in Commits
BY DEF Types, Tip, Last

LEMMA Appended ==
  ASSUME NEW S, NEW s \in Seq(S), NEW x
  PROVE  LET t == Append(s, x)
         IN /\ Len(t) = Len(s) + 1
            /\ DOMAIN t = DOMAIN s \cup {Len(s) + 1} /\ Len(s) + 1 \notin DOMAIN s
            /\ t[Len(s) + 1] = x
            /\ \A i \in DOMAIN s : t[i] = s[i]
OBVIOUS

LEMMA SetField ==
  ASSUME NEW A, NEW B, NEW s \in Seq([commit : A, conclusion : B]), NEW i, NEW b \in B
  PROVE  [s EXCEPT ![i].conclusion = b] \in Seq([commit : A, conclusion : B])
<1> DEFINE R == [commit : A, conclusion : B]
           r == [s[i] EXCEPT !.conclusion = b]
<1>1. s \in Seq(R)
  OBVIOUS
<1>2. i \in DOMAIN s => s[i] \in R
  <2> HIDE DEF R
  <2> QED BY <1>1
<1>3. i \in DOMAIN s => r \in R
  BY <1>2
<1>4. [s EXCEPT ![i] = r] \in Seq(R)
  <2> HIDE DEF R, r
  <2>1. Len(s) \in Nat /\ DOMAIN s = 1..Len(s) /\ \A j \in 1..Len(s) : s[j] \in R
    BY <1>1
  <2> DEFINE t == [s EXCEPT ![i] = r]
  <2>2. DOMAIN t = 1..Len(s) /\ t = [j \in 1..Len(s) |-> t[j]]
    BY <1>1, <2>1
  <2>3. \A j \in 1..Len(s) : t[j] \in R
    BY <1>1, <1>3, <2>1
  <2> HIDE DEF t
  <2>4. t \in [1..Len(s) -> R]
    BY <2>2, <2>3
  <2>5. t \in Seq(R)
    BY <2>1, <2>4
  <2> QED BY <2>5 DEF t
<1> QED BY <1>4

LEMMA PushedFinite ==
  Types => IsFiniteSet(PushedCommits) /\ Cardinality(PushedCommits) \in Nat
<1> SUFFICES ASSUME Types PROVE IsFiniteSet(PushedCommits) /\ Cardinality(PushedCommits) \in Nat
  OBVIOUS
<1>1. IsFiniteSet(1..Len(branch))
  BY FS_Interval DEF Types
<1>2. PushedCommits \subseteq 1..Len(branch)
  BY DEF PushedCommits, Types
<1> QED BY <1>1, <1>2, FS_Subset, FS_CardinalityType

-----------------------------------------------------------------------------
LEMMA InitIInv == Init => IInv
<1> SUFFICES ASSUME Init PROVE IInv
  OBVIOUS
<1> DEFINE first == Source(Head(Sources))
<1>1. first \in Commits /\ ~first.release /\ Head(Sources) = Sources[1]
  BY JobAssumption, CommitTypes DEF Range, Source
<1>2. branch = <<first>> /\ Len(branch) = 1 /\ branch[1] = first /\ DOMAIN branch = {1}
  BY DEF Init
<1>3. Types
  <2>1. branch \in Seq(Commits) /\ Len(branch) > 0
    BY <1>1, <1>2
  <2>2. attempts \in [Events \cup {Operator} -> Nat]
    BY DEF Init
  <2> QED BY <2>1, <2>2, NoJobType DEF Init, Types, PublicationInit
<1>4. BranchInv
  <2>0. PushedCommits = {1}
    BY <1>1, <1>2 DEF PushedCommits
  <2>1. PushedCommits = {1} /\ Cardinality(PushedCommits) = 1
    BY <2>0, FS_Singleton
  <2>2. SourcesInOrder
    BY <1>1, <1>2, <2>1 DEF SourcesInOrder
  <2>3. SourcesOnce /\ OnlyTestedReleased
    BY <1>1, <1>2, <2>1 DEF SourcesOnce, OnlyTestedReleased
  <2> QED BY <2>2, <2>3 DEF BranchInv
<1>5. JobInv
  BY DEF Init, NoJob, JobInv, JobTested, CloneResumes, PushClean, LateClean
<1>6. GitHubAfterTags
  BY DEF Init, PublicationInit, GitHubAfterTags, Publishing, Idle
<1> QED BY <1>3, <1>4, <1>5, <1>6 DEF IInv

-----------------------------------------------------------------------------
(* The publication of the job. *)

LEMMA PubInvStep == PubInv /\ [Next]_vars => PubInv'
<1> SUFFICES ASSUME PubInv, [Next]_vars PROVE PubInv'
  OBVIOUS
<1>0. App \in Publishers /\ Operator \in Publishers /\ Checkout \in Builds
  BY JobAssumption
<1>1. CASE \E p \in Publishers : PublisherStep(p)
  BY <1>1, PublisherInv
<1>2. CASE LateRequest \/ OthersStep
  BY <1>2, LateRequestInv, OthersInv
<1>3. CASE UNCHANGED <<gh, late, edits, pub>>
  BY <1>0, <1>3, PublisherReset
<1>4. CASE Push \/ PublishReturns \/ Expire \/ Crash
  <2>1. UNCHANGED <<gh, late, edits>>
    BY <1>4 DEF Push, PublishReturns, Expire, Crash
  <2>2. \/ pub' = [pub EXCEPT ![App] = Idle] \/ PublicationStarts(App, Checkout)
        \/ Failed(App) \/ pub' = pub
    BY <1>4 DEF Push, PublishReturns, Expire, Crash
  <2> QED BY <1>0, <2>1, <2>2, PublisherReset
<1>5. CASE OperatorResumes
  <2>1. UNCHANGED <<gh, late, edits>> /\ \E b \in Builds : PublicationStarts(Operator, b)
    BY <1>5 DEF OperatorResumes
  <2> QED BY <1>0, <2>1, PublisherReset
<1>6. CASE \E e \in Events : StartAttempt(e)
  BY <1>3, <1>6 DEF StartAttempt
<1>7. CASE MintToken \/ CreateCheckRun \/ CreateCheckRunFails \/ Clone \/ VerifySource \/ PushAnswerLost
             \/ PushTimesOut \/ StepFails \/ CompleteCheckRun \/ ExpireAtEnd
  BY <1>3, <1>7 DEF MintToken, CreateCheckRun, CreateCheckRunFails, Clone, VerifySource, PushAnswerLost,
                    PushTimesOut, StepFails, CompleteCheckRun, ExpireAtEnd
<1>8. CASE LatePush \/ OthersPush
  BY <1>3, <1>8 DEF LatePush, OthersPush
<1>9. CASE VerifierStep
  BY <1>3, <1>9 DEF VerifierStep, Verify, ReadInventory, DownloadSums, DownloadPayload, Attest, VerifierReadFails
<1> QED BY <1>1, <1>2, <1>3, <1>4, <1>5, <1>6, <1>7, <1>8, <1>9 DEF Next, JobStep

-----------------------------------------------------------------------------
(* The steps at GitHub leave the job and the branch alone. *)

GitHubStep == (\E p \in Publishers : PublisherStep(p)) \/ LateRequest \/ OthersStep

USE DEF Performed, BrokenOff, Failed, Answered, LookUp, ListPage, Uploads, NextRelease, FaultAt, ReadFails,
        RequestRefused, AssetUnreadable, AnswerLost, RequestTimesOut, EditRelease, RemoveAsset, AddForeignAsset

LEMMA PublisherShape ==
  \A p \in Publishers : PublisherStep(p) => DOMAIN gh' = DOMAIN gh /\ DOMAIN pub' = DOMAIN pub
<1> SUFFICES ASSUME NEW p \in Publishers, PublisherStep(p)
             PROVE  DOMAIN gh' = DOMAIN gh /\ DOMAIN pub' = DOMAIN pub
  OBVIOUS
<1>1. CASE LookUp(p) \/ ListPage(p)
  BY <1>1
<1>2. CASE Answered(p)
  BY <1>2
<1>3. CASE ReadFails(p) \/ RequestRefused(p) \/ AssetUnreadable(p)
  BY <1>3
<1>4. CASE AnswerLost(p) \/ RequestTimesOut(p)
  BY <1>4
<1> QED BY <1>1, <1>2, <1>3, <1>4 DEF PublisherStep

LEMMA GitHubShape == GitHubStep => DOMAIN gh' = DOMAIN gh /\ DOMAIN pub' = DOMAIN pub
<1>1. LateRequest => DOMAIN gh' = DOMAIN gh /\ DOMAIN pub' = DOMAIN pub
  BY DEF LateRequest
<1>2. OthersStep => DOMAIN gh' = DOMAIN gh /\ DOMAIN pub' = DOMAIN pub
  BY DEF OthersStep
<1> QED BY <1>1, <1>2, PublisherShape DEF GitHubStep

\* Before the tags are there, none of them can happen.
LEMMA GitHubWaits == Types /\ GitHubAfterTags /\ GitHubStep => TagsOnRemote
<1> SUFFICES ASSUME Types, GitHubAfterTags, GitHubStep PROVE TagsOnRemote
  OBVIOUS
<1>1. ASSUME NEW p \in Publishers, PublisherStep(p) PROVE Publishing
  BY <1>1 DEF PublisherStep, Publishing
<1>2. LateRequest => late # {}
  BY DEF LateRequest
<1>3. ASSUME NEW t \in DOMAIN AssetsOf, EditRelease(t) \/ RemoveAsset(t) \/ AddForeignAsset(t)
      PROVE  gh[t] # Absent
  BY <1>3 DEF Absent
<1> QED BY <1>1, <1>2, <1>3 DEF GitHubStep, OthersStep, GitHubAfterTags, Types

-----------------------------------------------------------------------------
(* Types. *)

LEMMA TypesStep == IInv /\ [Next]_vars => Types'
<1> SUFFICES ASSUME IInv, [Next]_vars PROVE Types'
  OBVIOUS
<1> USE DEF IInv, Types
<1>0. Append(checks, InProgress(job.sha)) \in Seq([commit : Commits, conclusion : Conclusions])
  <2>1. InProgress(job.sha) \in [commit : Commits, conclusion : Conclusions]
    BY DEF InProgress, Conclusions
  <2> QED BY <2>1
<1>1. CASE GitHubStep /\ UNCHANGED jobVars
  BY <1>1, GitHubShape
<1>2. CASE VerifierStep /\ UNCHANGED jobVars
  BY <1>2 DEF VerifierStep, Verify, ReadInventory, DownloadSums, DownloadPayload, Attest, VerifierReadFails
<1>3. CASE \E e \in Events : StartAttempt(e)
  <2>1. PICK e \in Events : StartAttempt(e)
    BY <1>3
  <2>2. Payload[e].commit \in Commits
    BY <2>1 DEF StartAttempt, Range
  <2>3. JobOf(e) \in [pc : PCs, sha : Commits, clone : Commits, check : Nat, outcome : Outcomes, expired : BOOLEAN]
    BY <2>2, NoJobType DEF JobOf, PCs
  <2>4. branch' = branch /\ checks' = checks /\ latePush' = latePush /\ gh' = gh /\ pub' = pub
    BY <2>1 DEF StartAttempt
  <2>5. attempts' \in [Events \cup {Operator} -> Nat]
    BY <2>1 DEF StartAttempt
  <2>6. job' \in {job, JobOf(e)}
    BY <2>1 DEF StartAttempt
  <2> QED BY <2>3, <2>4, <2>5, <2>6
<1>4. CASE MintToken
  BY <1>4 DEF MintToken, PCs
<1>5. CASE CreateCheckRun
  <2>1. checks' = Append(checks, InProgress(job.sha)) /\ Len(checks) + 1 \in Nat
    BY <1>5 DEF CreateCheckRun
  <2>2. job' = [job EXCEPT !.pc = "clone", !.check = Len(checks) + 1]
    BY <1>5 DEF CreateCheckRun
  <2>3. job' \in [pc : PCs, sha : Commits, clone : Commits, check : Nat, outcome : Outcomes, expired : BOOLEAN]
    BY <2>1, <2>2 DEF PCs
  <2> QED BY <1>5, <1>0, <2>1, <2>3 DEF CreateCheckRun
<1>6. CASE CreateCheckRunFails
  <2>1. checks' \in {checks, Append(checks, InProgress(job.sha))}
    BY <1>6 DEF CreateCheckRunFails
  <2>2. job' \in [pc : PCs, sha : Commits, clone : Commits, check : Nat, outcome : Outcomes, expired : BOOLEAN]
    BY <1>6 DEF CreateCheckRunFails, PCs
  <2> QED BY <1>6, <1>0, <2>1, <2>2 DEF CreateCheckRunFails
<1>7. CASE Clone \/ VerifySource
  BY <1>7, TipType DEF Clone, VerifySource, Ends, PCs, Outcomes
<1>8. CASE Push \/ PushAnswerLost
  <2>1. ReleaseOf(job.sha.src) \in Commits
    BY CommitTypes DEF Commits
  <2>2. Pushed \in Seq(Commits) /\ Len(Pushed) > 0
    BY <2>1 DEF Pushed
  <2>3. branch' \in Seq(Commits) /\ Len(branch') > 0
    BY <1>8, <2>2 DEF Push, PushAnswerLost
  <2>4. job' \in [pc : PCs, sha : Commits, clone : Commits, check : Nat, outcome : Outcomes, expired : BOOLEAN]
    BY <1>8 DEF Push, PushAnswerLost, Ends, PCs, Outcomes
  <2>5. DOMAIN pub' = Publishers
    BY <1>8 DEF Push, PushAnswerLost, PublicationStarts
  <2> QED BY <1>8, <2>3, <2>4, <2>5 DEF Push, PushAnswerLost
<1>9. CASE PushTimesOut
  BY <1>9 DEF PushTimesOut, Ends, PCs, Outcomes, Commits
<1>10. CASE PublishReturns
  BY <1>10 DEF PublishReturns, Ends, PCs, Outcomes
<1>11. CASE StepFails
  BY <1>11, NoJobType DEF StepFails, Ends, PCs, Outcomes
<1>12. CASE CompleteCheckRun
  <2>1. \A c : Conclusion(c) \in Conclusions
    BY DEF Conclusion, Conclusions
  <2>2. \A i : [checks EXCEPT ![i].conclusion = Conclusion(job.outcome)]
                 \in Seq([commit : Commits, conclusion : Conclusions])
    BY <2>1, SetField
  <2>3. checks' = checks \/ checks' = [checks EXCEPT ![job.check].conclusion = Conclusion(job.outcome)]
    BY <1>12 DEF CompleteCheckRun, Completed
  <2> QED BY <1>12, <2>2, <2>3, NoJobType DEF CompleteCheckRun
<1>13. CASE Expire \/ ExpireAtEnd \/ Crash
  BY <1>13, NoJobType DEF Expire, ExpireAtEnd, Crash
<1>14. CASE LatePush
  BY <1>14, CommitTypes DEF LatePush
<1>15. CASE OthersPush
  <2>1. Cardinality(PushedCommits) \in Nat
    BY PushedFinite
  <2>2. Source(Sources[Cardinality(PushedCommits) + 1]) \in Commits
    BY <1>15, <2>1, CommitTypes, JobAssumption DEF OthersPush, PushedCommits, Range
  <2> QED BY <1>15, <2>2 DEF OthersPush, PushedCommits
<1>16. CASE OperatorResumes
  BY <1>16 DEF OperatorResumes, PublicationStarts
<1>17. CASE UNCHANGED vars
  BY <1>17
<1> QED BY <1>1, <1>2, <1>3, <1>4, <1>5, <1>6, <1>7, <1>8, <1>9, <1>10, <1>11, <1>12, <1>13, <1>14, <1>15,
           <1>16, <1>17 DEF Next, JobStep, GitHubStep

-----------------------------------------------------------------------------
(* The branch. *)

\* A push that is performed finds the tip at the commit of the job, nothing released yet, and the
\* commit tested.
Releases(c) == branch' = Append(branch, ReleaseOf(c)) /\ Tip = Source(c) /\ Clean(c) /\ Tested(Source(c))

LEMMA PushReleases ==
  IInv /\ job.pc = "push" /\ PushAccepted => Pushed = branch \/ (~job.clone.release /\ job.clone = job.sha
    /\ Pushed = Append(branch, ReleaseOf(job.sha.src)) /\ job.sha = Source(job.sha.src))
<1> SUFFICES ASSUME IInv, job.pc = "push", PushAccepted
             PROVE  Pushed = branch \/ (~job.clone.release /\ job.clone = job.sha
                      /\ Pushed = Append(branch, ReleaseOf(job.sha.src)) /\ job.sha = Source(job.sha.src))
  OBVIOUS
<1>1. CASE job.clone.release
  BY <1>1 DEF PushAccepted, Pushed
<1>2. CASE ~job.clone.release
  <2>1. job.clone = job.sha /\ ~Tip.release
    BY <1>2 DEF IInv, JobInv, CloneResumes, PushAccepted
  <2>2. job.sha = Source(job.sha.src)
    BY <1>2, <2>1 DEF IInv, Types, Commits, Source
  <2> QED BY <1>2, <2>1, <2>2 DEF Pushed
<1> QED BY <1>1, <1>2

LEMMA BranchStep ==
  IInv /\ [Next]_vars => branch' = branch \/ (\E c \in Range(Sources) : Releases(c)) \/ OthersPush
<1> SUFFICES ASSUME IInv, [Next]_vars
             PROVE  branch' = branch \/ (\E c \in Range(Sources) : Releases(c)) \/ OthersPush
  OBVIOUS
<1>1. CASE Push \/ PushAnswerLost
  <2>1. branch' = branch \/ (job.pc = "push" /\ PushAccepted /\ branch' = Pushed)
    BY <1>1 DEF Push, PushAnswerLost
  <2>2. SUFFICES ASSUME job.pc = "push", PushAccepted, ~job.clone.release, job.clone = job.sha,
                        branch' = Append(branch, ReleaseOf(job.sha.src)), job.sha = Source(job.sha.src)
                 PROVE  \E c \in Range(Sources) : Releases(c)
    BY <2>1, PushReleases
  <2>3. job.sha.src \in Range(Sources)
    BY DEF IInv, Types, Commits
  <2>4. Clean(job.sha.src) /\ Tested(job.sha)
    BY <2>2 DEF IInv, JobInv, PushClean, JobTested
  <2>5. Tip = Source(job.sha.src)
    BY <2>2 DEF PushAccepted
  <2> QED BY <2>2, <2>3, <2>4, <2>5 DEF Releases
<1>2. CASE LatePush
  <2>1. PICK c \in latePush : branch' = IF Tip = Source(c) THEN Append(branch, ReleaseOf(c)) ELSE branch
    BY <1>2 DEF LatePush
  <2>2. c \in Range(Sources) /\ Clean(c) /\ Tested(Source(c))
    BY DEF IInv, Types, JobInv, LateClean
  <2> QED BY <2>1, <2>2 DEF Releases
<1>3. CASE \E e \in Events : StartAttempt(e)
  BY <1>3 DEF StartAttempt
<1>4. CASE MintToken \/ CreateCheckRun \/ CreateCheckRunFails \/ Clone \/ VerifySource \/ PushTimesOut
            \/ PublishReturns \/ StepFails \/ CompleteCheckRun \/ Expire \/ ExpireAtEnd \/ Crash
  BY <1>4 DEF MintToken, CreateCheckRun, CreateCheckRunFails, Clone, VerifySource, PushTimesOut,
              PublishReturns, StepFails, CompleteCheckRun, Expire, ExpireAtEnd, Crash
<1>5. CASE OperatorResumes
  BY <1>5 DEF OperatorResumes
<1> QED BY <1>1, <1>2, <1>3, <1>4, <1>5 DEF Next, JobStep

\* Nothing is taken off the branch, and a handled event stays handled.
LEMMA BranchGrows ==
  IInv /\ [Next]_vars =>
    \/ branch' = branch
    \/ /\ Len(branch') = Len(branch) + 1
       /\ DOMAIN branch' = DOMAIN branch \cup {Len(branch) + 1}
       /\ \A i \in DOMAIN branch : branch'[i] = branch[i]
<1> SUFFICES ASSUME IInv, [Next]_vars, branch' # branch
             PROVE  /\ Len(branch') = Len(branch) + 1
                    /\ DOMAIN branch' = DOMAIN branch \cup {Len(branch) + 1}
                    /\ \A i \in DOMAIN branch : branch'[i] = branch[i]
  OBVIOUS
<1>1. \E x : branch' = Append(branch, x)
  BY BranchStep DEF Releases, OthersPush
<1>2. branch \in Seq(Commits)
  BY DEF IInv, Types
<1> QED BY <1>1, <1>2, Appended

LEMMA CleanStays == IInv /\ [Next]_vars => \A c \in Range(Sources) : Clean(c) => Clean(c)'
<1> SUFFICES ASSUME IInv, [Next]_vars, NEW c \in Range(Sources), Clean(c) PROVE Clean(c)'
  OBVIOUS
<1>1. PICK i \in DOMAIN branch : branch[i] = Source(c) /\ \A k \in 1..i : ~branch[k].release
  BY DEF Clean
<1>2. i \in 1..Len(branch) /\ \A k \in 1..i : k \in DOMAIN branch
  BY <1>1 DEF IInv, Types
<1>3. i \in DOMAIN branch' /\ \A k \in 1..i : branch'[k] = branch[k]
  BY <1>2, BranchGrows
<1> QED BY <1>1, <1>2, <1>3 DEF Clean, Source

LEMMA AttemptsGrow == IInv /\ [Next]_vars => \A e \in Events : attempts'[e] \in Nat /\ attempts'[e] >= attempts[e]
<1> SUFFICES ASSUME IInv, [Next]_vars, NEW e \in Events
             PROVE  attempts'[e] \in Nat /\ attempts'[e] >= attempts[e]
  OBVIOUS
<1> USE DEF IInv, Types
<1>1. CASE \E x \in Events : StartAttempt(x)
  BY <1>1 DEF StartAttempt
<1>2. CASE OperatorResumes
  BY <1>2 DEF OperatorResumes
<1>3. CASE MintToken \/ CreateCheckRun \/ CreateCheckRunFails \/ Clone \/ VerifySource \/ PushTimesOut
            \/ PublishReturns \/ StepFails \/ CompleteCheckRun \/ Expire \/ ExpireAtEnd \/ Crash
  BY <1>3 DEF MintToken, CreateCheckRun, CreateCheckRunFails, Clone, VerifySource, PushTimesOut,
              PublishReturns, StepFails, CompleteCheckRun, Expire, ExpireAtEnd, Crash
<1>4. CASE Push \/ PushAnswerLost \/ LatePush \/ OthersPush
  BY <1>4 DEF Push, PushAnswerLost, LatePush, OthersPush
<1> QED BY <1>1, <1>2, <1>3, <1>4 DEF Next, JobStep

LEMMA TestedStays == IInv /\ [Next]_vars => \A c : Tested(c) => TestedIn(c, attempts')
BY AttemptsGrow DEF Tested, TestedIn, IInv, Types, Events

\* Sources stay in order and are pushed once.
LEMMA SourcesStep == IInv /\ [Next]_vars => (SourcesInOrder /\ SourcesOnce)'
<1> SUFFICES ASSUME IInv, [Next]_vars PROVE (SourcesInOrder /\ SourcesOnce)'
  OBVIOUS
<1> USE DEF IInv, Types, BranchInv
<1>1. CASE branch' = branch
  BY <1>1 DEF SourcesInOrder, SourcesOnce, PushedCommits, Source
<1>2. CASE \E c \in Range(Sources) : Releases(c)
  <2>1. PICK c \in Range(Sources) : Releases(c)
    BY <1>2
  <2>2. branch' = Append(branch, ReleaseOf(c)) /\ ReleaseOf(c).release
    BY <2>1 DEF Releases, ReleaseOf
  <2>3. PushedCommits' = PushedCommits
    BY <2>2 DEF PushedCommits
  <2>4. \A i \in PushedCommits : branch'[i] = branch[i] /\ i \in DOMAIN branch
    BY <2>2 DEF PushedCommits
  <2>5. SourcesInOrder'
    BY <2>3, <2>4 DEF SourcesInOrder, Source
  <2>6. SourcesOnce'
    BY <2>2, <2>3, <2>4 DEF SourcesOnce, PushedCommits
  <2> QED BY <2>5, <2>6
<1>3. CASE OthersPush
  <2> DEFINE n == Cardinality(PushedCommits)
             s == Source(Sources[n + 1])
             top == Len(branch) + 1
  <2>1. n \in Nat /\ IsFiniteSet(PushedCommits)
    BY PushedFinite
  <2>2. branch' = Append(branch, s) /\ n < Len(Sources) /\ ~s.release
    BY <1>3 DEF OthersPush, PushedCommits, Source
  <2>3. /\ DOMAIN branch' = DOMAIN branch \cup {top} /\ top \notin DOMAIN branch
        /\ branch'[top] = s
        /\ \A i \in DOMAIN branch : branch'[i] = branch[i]
    <3> HIDE DEF s
    <3> QED BY <2>2, Appended
  <2> HIDE DEF s, top, n
  <2>4. PushedCommits' = PushedCommits \cup {top} /\ top \notin PushedCommits
    BY <2>2, <2>3 DEF PushedCommits
  <2>5. Cardinality(PushedCommits') = n + 1
    BY <2>1, <2>4, FS_AddElement DEF n
  <2>6. \A i \in PushedCommits : i \in DOMAIN branch
    BY DEF PushedCommits
  <2>7. ASSUME NEW i \in PushedCommits' PROVE \E m \in 1..(n + 1) : branch'[i] = Source(Sources[m])
    <3>1. CASE i = top
      BY <2>1, <2>3, <3>1 DEF s
    <3>2. CASE i \in PushedCommits
      <4>1. PICK m \in 1..n : branch[i] = Source(Sources[m])
        BY <3>2 DEF SourcesInOrder, n
      <4> QED BY <4>1, <3>2, <2>1, <2>3, <2>6
    <3> QED BY <2>4, <3>1, <3>2
  <2>8. SourcesInOrder'
    BY <2>5, <2>7 DEF SourcesInOrder, Source
  <2>9. \A i \in DOMAIN branch : branch[i] # s
    <3> SUFFICES ASSUME NEW i \in DOMAIN branch, branch[i] = s PROVE FALSE
      OBVIOUS
    <3>1. i \in PushedCommits
      BY <2>2 DEF PushedCommits
    <3>2. PICK m \in 1..n : branch[i] = Source(Sources[m])
      BY <3>1 DEF SourcesInOrder, n
    <3>3. Sources[m] = Sources[n + 1]
      BY <3>2 DEF Source, s
    <3>4. m \in DOMAIN Sources /\ n + 1 \in DOMAIN Sources /\ m # n + 1
      BY <2>1, <2>2, JobAssumption
    <3> QED BY <3>3, <3>4, JobAssumption DEF IsInjective
  <2>10. SourcesOnce'
    BY <2>2, <2>3, <2>4, <2>6, <2>9 DEF SourcesOnce
  <2> QED BY <2>8, <2>10
<1> QED BY <1>1, <1>2, <1>3, BranchStep

\* With the tip at c, which nothing was released before, nothing is released at all.
LEMMA CleanTip ==
  ASSUME IInv, NEW c \in Range(Sources), Clean(c), Tip = Source(c)
  PROVE  \A k \in DOMAIN branch : ~branch[k].release
<1>1. PICK i \in DOMAIN branch : branch[i] = Source(c) /\ \A k \in 1..i : ~branch[k].release
  BY DEF Clean
<1>2. DOMAIN branch = 1..Len(branch) /\ Len(branch) \in DOMAIN branch
  BY DEF IInv, Types
<1>3. i \in PushedCommits /\ branch[i] = branch[Len(branch)]
  BY <1>1 DEF PushedCommits, Source, Tip, Last
<1>4. i = Len(branch)
  BY <1>2, <1>3 DEF IInv, BranchInv, SourcesOnce
<1> QED BY <1>1, <1>2, <1>4

LEMMA OnlyTestedStep == IInv /\ [Next]_vars => OnlyTestedReleased'
<1> SUFFICES ASSUME IInv, [Next]_vars PROVE OnlyTestedReleased'
  OBVIOUS
<1>a. branch \in Seq(Commits)
  BY DEF IInv, Types
<1>0. DOMAIN branch = 1..Len(branch) /\ Len(branch) \in Nat \ {0}
  BY DEF IInv, Types
<1>1. ASSUME NEW i \in DOMAIN branch, branch[i].release
      PROVE  /\ i > 1 /\ branch[i - 1] = Source(branch[i].src) /\ i - 1 \in DOMAIN branch
             /\ \A k \in DOMAIN branch : branch[k].release => k = i
             /\ TestedIn(branch[i - 1], attempts')
  <2>1. /\ i > 1 /\ branch[i - 1] = Source(branch[i].src)
        /\ \A k \in DOMAIN branch : branch[k].release => k = i
        /\ Tested(branch[i - 1])
    BY <1>1 DEF IInv, BranchInv, OnlyTestedReleased, Tested, TestedIn
  <2>2. i - 1 \in DOMAIN branch
    BY <1>0, <2>1
  <2> QED BY <2>1, <2>2, TestedStays
<1>2. CASE branch' = branch
  BY <1>1, <1>2 DEF OnlyTestedReleased, TestedIn, Source
<1>3. CASE \E c \in Range(Sources) : Releases(c)
  <2>1. PICK c \in Range(Sources) : Releases(c)
    BY <1>3
  <2> DEFINE r == ReleaseOf(c)
             top == Len(branch) + 1
  <2>2. \A k \in DOMAIN branch : ~branch[k].release
    BY <2>1, CleanTip DEF Releases
  <2>3. /\ DOMAIN branch' = DOMAIN branch \cup {top} /\ branch'[top] = r
        /\ \A i \in DOMAIN branch : branch'[i] = branch[i]
    <3>1. branch' = Append(branch, r)
      BY <2>1 DEF Releases
    <3> HIDE DEF r
    <3> QED BY <1>a, <3>1, Appended
  <2>4. r.src = c
    BY DEF ReleaseOf
  <2>5. branch'[top - 1] = Source(c) /\ top > 1
    <3>1. branch[Len(branch)] = Source(c)
      BY <2>1 DEF Releases, Tip, Last
    <3>2. top - 1 = Len(branch) /\ Len(branch) \in DOMAIN branch /\ top > 1
      BY <1>0
    <3> QED BY <2>3, <3>1, <3>2
  <2>6. TestedIn(Source(c), attempts')
    BY <2>1, TestedStays DEF Releases
  <2> HIDE DEF r, top
  <2>7. \A i \in DOMAIN branch' : branch'[i].release => i = top
    BY <2>2, <2>3
  <2> QED BY <2>3, <2>4, <2>5, <2>6, <2>7 DEF OnlyTestedReleased, TestedIn, Source
<1>4. CASE OthersPush
  <2> DEFINE s == Source(Sources[Cardinality(PushedCommits) + 1])
             top == Len(branch) + 1
  <2>1. branch' = Append(branch, s) /\ ~s.release
    BY <1>4 DEF OthersPush, PushedCommits, Source
  <2> HIDE DEF s
  <2>2. /\ DOMAIN branch' = DOMAIN branch \cup {top} /\ branch'[top] = s
        /\ \A i \in DOMAIN branch : branch'[i] = branch[i]
    BY <1>a, <2>1, Appended
  <2> HIDE DEF top
  <2>3. ASSUME NEW i \in DOMAIN branch', branch'[i].release
        PROVE  /\ i > 1 /\ branch'[i - 1] = Source(branch'[i].src)
               /\ \A k \in DOMAIN branch' : branch'[k].release => k = i
               /\ TestedIn(branch'[i - 1], attempts')
    <3>1. i \in DOMAIN branch /\ branch[i].release
      BY <2>1, <2>2, <2>3
    <3>2. i > 1 /\ branch[i - 1] = Source(branch[i].src) /\ i - 1 \in DOMAIN branch
      BY <1>1, <3>1
    <3>3. \A k \in DOMAIN branch : branch[k].release => k = i
      BY <1>1, <3>1
    <3>4. TestedIn(branch[i - 1], attempts')
      BY <1>1, <3>1
    <3> QED BY <2>1, <2>2, <3>1, <3>2, <3>3, <3>4
  <2> QED BY <2>3 DEF OnlyTestedReleased, TestedIn, Source
<1> QED BY <1>2, <1>3, <1>4, BranchStep

-----------------------------------------------------------------------------
(* The job. *)

\* Every step but StartAttempt keeps the commit of a job that goes on.
LEMMA JobKeepsCommit ==
  IInv /\ [Next]_vars =>
    \/ job'.pc = "idle"
    \/ job.pc # "idle" /\ job'.sha = job.sha
    \/ \E e \in Events : StartAttempt(e)
<1> SUFFICES ASSUME IInv, [Next]_vars, ~\E e \in Events : StartAttempt(e)
             PROVE  job'.pc = "idle" \/ (job.pc # "idle" /\ job'.sha = job.sha)
  OBVIOUS
<1> USE DEF IInv, Types
<1>1. CASE MintToken \/ CreateCheckRun \/ CreateCheckRunFails \/ Clone \/ VerifySource \/ PushTimesOut
  BY <1>1 DEF MintToken, CreateCheckRun, CreateCheckRunFails, Clone, VerifySource, PushTimesOut, Ends
<1>2. CASE Push \/ PushAnswerLost \/ PublishReturns \/ StepFails \/ CompleteCheckRun
  <2>1. CASE Push
    BY <2>1 DEF Push, Ends
  <2>2. CASE PushAnswerLost \/ PublishReturns
    BY <2>2 DEF PushAnswerLost, PublishReturns, Ends
  <2>3. CASE StepFails
    BY <2>3 DEF StepFails, Ends, NoJob
  <2>4. CASE CompleteCheckRun
    BY <2>4 DEF CompleteCheckRun, NoJob
  <2> QED BY <1>2, <2>1, <2>2, <2>3, <2>4
<1>3. CASE Expire \/ ExpireAtEnd \/ Crash
  BY <1>3 DEF Expire, ExpireAtEnd, Crash, NoJob
<1>4. CASE job' = job
  BY <1>4
<1> QED BY <1>1, <1>2, <1>3, <1>4 DEF Next, JobStep, LatePush, OthersPush, OperatorResumes

LEMMA JobTestedStep == IInv /\ [Next]_vars => JobTested'
<1> SUFFICES ASSUME IInv, [Next]_vars, job'.pc # "idle"
             PROVE  ~job'.sha.release /\ TestedIn(job'.sha, attempts')
  BY DEF JobTested, Tested, TestedIn
<1>1. CASE \E e \in Events : StartAttempt(e)
  <2>1. PICK e \in Events : StartAttempt(e)
    BY <1>1
  <2>2. CASE ~ShouldHandle(Payload[e])
    BY <2>1, <2>2 DEF StartAttempt
  <2>3. CASE ShouldHandle(Payload[e])
    <3>1. Payload[e].conclusion = "success" /\ ~Payload[e].commit.release
      BY <2>3 DEF ShouldHandle, IsReleaseCommit
    <3>2. job'.sha = Payload[e].commit
      BY <2>1, <2>3, NoJobType DEF StartAttempt, JobOf
    <3>3. attempts'[e] > 0
      BY <2>1, <2>3 DEF StartAttempt, IInv, Types
    <3> QED BY <3>1, <3>2, <3>3 DEF TestedIn
  <2> QED BY <2>2, <2>3
<1>2. CASE job.pc # "idle" /\ job'.sha = job.sha
  BY <1>2, TestedStays DEF IInv, JobInv, JobTested
<1> QED BY <1>1, <1>2, JobKeepsCommit

\* A job comes to its push with a commit that verifySource has just seen.
LEMMA PushStep == IInv /\ [Next]_vars => (CloneResumes /\ PushClean)'
<1> SUFFICES ASSUME IInv, [Next]_vars PROVE (CloneResumes /\ PushClean)'
  OBVIOUS
<1>t. job \in [pc : PCs, sha : Commits, clone : Commits, check : Nat, outcome : Outcomes, expired : BOOLEAN]
  BY DEF IInv, Types
<1>j. CloneResumes /\ PushClean
  BY DEF IInv, JobInv
<1>1. CASE Clone
  <2>1. job'.pc \in {"verify", "complete"}
    BY <1>1, <1>t DEF Clone, Ends
  <2>2. job'.pc = "verify" => job'.clone = job'.sha \/ Resumes(job'.clone, job'.sha)
    BY <1>1, <1>t DEF Clone, Ends
  <2> QED BY <2>1, <2>2 DEF CloneResumes, PushClean
<1>2. CASE VerifySource
  <2>1. /\ job.pc = "verify" /\ job'.pc \in {"push", "complete"} /\ branch' = branch
        /\ job'.sha = job.sha /\ job'.clone = job.clone
    BY <1>2, <1>t DEF VerifySource, Ends
  <2>2. CloneResumes'
    BY <2>1, <1>j DEF CloneResumes
  <2>3. ASSUME job'.pc = "push", ~job'.clone.release PROVE Clean(job.sha.src)
    <3>1. Tip = job.clone /\ ~TagsOnRemote
      BY <1>2, <1>t, <2>3 DEF VerifySource, Ends
    <3>2. job.clone = job.sha /\ ~job.sha.release
      BY <2>1, <2>3, <1>j DEF CloneResumes
    <3>3. job.sha = Source(job.sha.src)
      BY <3>2, <1>t DEF Source, Commits
    <3>4. Len(branch) \in DOMAIN branch /\ \A k \in 1..Len(branch) : k \in DOMAIN branch
      BY DEF IInv, Types
    <3>5. \A k \in 1..Len(branch) : ~branch[k].release
      BY <3>1, <3>4 DEF TagsOnRemote
    <3> QED BY <3>1, <3>2, <3>3, <3>4, <3>5 DEF Clean, Tip, Last
  <2>4. PushClean'
    BY <2>1, <2>3 DEF PushClean, Clean, Source
  <2> QED BY <2>2, <2>4
<1>3. CASE job'.pc \notin {"verify", "push"}
  BY <1>3 DEF CloneResumes, PushClean
<1>4. CASE job' = job
  <2>1. CloneResumes'
    BY <1>4, <1>j DEF CloneResumes
  <2>2. job.sha.src \in Range(Sources)
    BY <1>t DEF Commits
  <2>3. Clean(job.sha.src) => Clean(job.sha.src)'
    BY <1>4, <2>2, CleanStays DEF Clean, Source
  <2>4. PushClean'
    BY <1>4, <1>j, <2>3 DEF PushClean
  <2> QED BY <2>1, <2>4
<1>5. ~(Clone \/ VerifySource) => job'.pc \notin {"verify", "push"} \/ job' = job \/ (job.pc = "verify" /\ Expire) \/ (job.pc = "push" /\ Expire)
  <2> SUFFICES ASSUME ~(Clone \/ VerifySource)
               PROVE  job'.pc \notin {"verify", "push"} \/ job' = job \/ (job.pc \in {"verify", "push"} /\ Expire)
    OBVIOUS
  <2>1. CASE \E e \in Events : StartAttempt(e)
    BY <2>1, NoJobType DEF StartAttempt, JobOf
  <2>2. CASE MintToken \/ CreateCheckRun \/ CreateCheckRunFails \/ PushTimesOut
    BY <2>2, <1>t DEF MintToken, CreateCheckRun, CreateCheckRunFails, PushTimesOut, Ends
  <2>3. CASE Push \/ PushAnswerLost \/ PublishReturns \/ StepFails \/ CompleteCheckRun
    <3>1. CASE Push
      BY <3>1, <1>t DEF Push, Ends
    <3>2. CASE PushAnswerLost \/ PublishReturns
      BY <3>2, <1>t DEF PushAnswerLost, PublishReturns, Ends
    <3>3. CASE StepFails
      BY <3>3, <1>t DEF StepFails, Ends, NoJob
    <3>4. CASE CompleteCheckRun
      BY <3>4, <1>t DEF CompleteCheckRun, NoJob
    <3> QED BY <2>3, <3>1, <3>2, <3>3, <3>4
  <2>4. CASE Expire \/ ExpireAtEnd \/ Crash
    BY <2>4, <1>t DEF Expire, ExpireAtEnd, Crash, NoJob
  <2> QED BY <2>1, <2>2, <2>3, <2>4 DEF Next, JobStep, LatePush, OthersPush, OperatorResumes
<1>6. CASE Expire
  <2>1. branch' = branch /\ job'.pc = job.pc /\ job'.sha = job.sha /\ job'.clone = job.clone
    BY <1>6, <1>t DEF Expire
  <2> QED BY <2>1, <1>j DEF CloneResumes, PushClean, Clean, Source
<1> QED BY <1>1, <1>2, <1>3, <1>4, <1>5, <1>6

LEMMA LateCleanStep == IInv /\ [Next]_vars => LateClean'
<1> SUFFICES ASSUME IInv, [Next]_vars, NEW c \in latePush' PROVE Clean(c)' /\ TestedIn(Source(c), attempts')
  BY DEF LateClean, Tested, TestedIn, Source
<1>1. CASE c \in latePush
  <2>1. c \in Range(Sources) /\ Clean(c) /\ Tested(Source(c))
    BY <1>1 DEF IInv, Types, JobInv, LateClean
  <2> QED BY <2>1, CleanStays, TestedStays
<1>2. CASE c \notin latePush
  <2>1. PushTimesOut
    <3>1. CASE \E e \in Events : StartAttempt(e)
      BY <1>2, <3>1 DEF StartAttempt
    <3>2. CASE MintToken \/ CreateCheckRun \/ CreateCheckRunFails \/ Clone \/ VerifySource
      BY <1>2, <3>2 DEF MintToken, CreateCheckRun, CreateCheckRunFails, Clone, VerifySource
    <3>3. CASE Push \/ PushAnswerLost \/ PublishReturns \/ StepFails \/ CompleteCheckRun
      BY <1>2, <3>3 DEF Push, PushAnswerLost, PublishReturns, StepFails, CompleteCheckRun
    <3>4. CASE Expire \/ ExpireAtEnd \/ Crash
      BY <1>2, <3>4 DEF Expire, ExpireAtEnd, Crash
    <3>5. CASE LatePush \/ OthersPush \/ OperatorResumes
      BY <1>2, <3>5 DEF LatePush, OthersPush, OperatorResumes
    <3> QED BY <1>2, <3>1, <3>2, <3>3, <3>4, <3>5 DEF Next, JobStep
  <2>2. c = job.sha.src /\ job.pc = "push" /\ ~job.clone.release
    BY <1>2, <2>1 DEF PushTimesOut
  <2>3. job.clone = job.sha /\ c \in Range(Sources) /\ job.sha = Source(c)
    BY <2>2 DEF IInv, Types, JobInv, CloneResumes, Commits, Source
  <2>4. Clean(c) /\ Tested(Source(c))
    BY <2>2, <2>3 DEF IInv, JobInv, PushClean, JobTested
  <2> QED BY <2>3, <2>4, CleanStays, TestedStays
<1> QED BY <1>1, <1>2

-----------------------------------------------------------------------------
(* GitHub. *)

LEMMA TagsStay == IInv /\ [Next]_vars => (TagsOnRemote => TagsOnRemote')
BY BranchGrows DEF TagsOnRemote

LEMMA GitHubStepAfterTags == IInv /\ [Next]_vars => GitHubAfterTags'
<1> SUFFICES ASSUME IInv, [Next]_vars, ~TagsOnRemote' PROVE GitHubAfterTags'
  BY DEF GitHubAfterTags
<1>1. ~TagsOnRemote /\ late = {} /\ ~Publishing /\ \A t \in DOMAIN gh : gh[t] = Absent
  BY TagsStay DEF IInv, GitHubAfterTags
<1>2. ~GitHubStep
  BY <1>1, GitHubWaits DEF IInv
<1>3. DOMAIN pub = Publishers
  BY DEF IInv, Types
<1>q. ASSUME gh' = gh, late' = late, \A p \in Publishers : pub'[p].pc \notin {"lookup", "list", "create", "upload"}
      PROVE  GitHubAfterTags'
  BY <1>1, <1>q DEF GitHubAfterTags, Publishing
<1>4. CASE UNCHANGED <<gh, late, pub>>
  BY <1>1, <1>4, <1>q DEF Publishing
<1>5. ~Push \/ UNCHANGED <<gh, late, pub>>
  <2> SUFFICES ASSUME Push, pub' # pub PROVE FALSE
    BY DEF Push
  <2>1. branch' = Pushed
    BY DEF Push
  <2>2. Pushed = Append(branch, ReleaseOf(job.sha.src)) /\ branch \in Seq(Commits)
    BY <1>1 DEF Pushed, TagsOnRemote, Tip, Last, IInv, Types
  <2>3. Len(branch) + 1 \in DOMAIN branch' /\ branch'[Len(branch) + 1] = ReleaseOf(job.sha.src)
    BY <2>1, <2>2, Appended
  <2> QED BY <2>3 DEF TagsOnRemote, ReleaseOf
<1>6. ~OperatorResumes
  BY <1>1 DEF OperatorResumes, TagsOnRemote, Tip, Last, IInv, Types
<1>7. CASE PublishReturns \/ Expire \/ Crash
  <2>1. gh' = gh /\ late' = late
    BY <1>7 DEF PublishReturns, Expire, Crash
  <2> DEFINE stopped == [Idle EXCEPT !.pc = "failed", !.build = pub[App].build]
  <2>2. pub' = pub \/ pub' = [pub EXCEPT ![App] = Idle] \/ pub' = [pub EXCEPT ![App] = stopped]
    BY <1>7 DEF PublishReturns, Expire, Crash
  <2>3. Idle.pc = "idle" /\ stopped.pc = "failed"
    BY DEF Idle
  <2> HIDE DEF stopped
  <2>4. \A p \in Publishers : pub'[p] \in {pub[p], Idle, stopped}
    BY <1>3, <2>2
  <2>5. \A p \in Publishers : pub'[p].pc \notin {"lookup", "list", "create", "upload"}
    BY <1>1, <2>3, <2>4 DEF Publishing
  <2> QED BY <2>1, <2>5, <1>q
<1>8. CASE \E e \in Events : StartAttempt(e)
  BY <1>4, <1>8 DEF StartAttempt
<1>9. CASE MintToken \/ CreateCheckRun \/ CreateCheckRunFails \/ Clone \/ VerifySource \/ PushAnswerLost
             \/ PushTimesOut \/ StepFails \/ CompleteCheckRun \/ ExpireAtEnd
  BY <1>4, <1>9 DEF MintToken, CreateCheckRun, CreateCheckRunFails, Clone, VerifySource, PushAnswerLost,
                    PushTimesOut, StepFails, CompleteCheckRun, ExpireAtEnd
<1>10. CASE LatePush \/ OthersPush
  BY <1>4, <1>10 DEF LatePush, OthersPush
<1>11. CASE VerifierStep /\ UNCHANGED jobVars
  BY <1>4, <1>11 DEF VerifierStep, Verify, ReadInventory, DownloadSums, DownloadPayload, Attest, VerifierReadFails
<1> QED BY <1>2, <1>4, <1>5, <1>6, <1>7, <1>8, <1>9, <1>10, <1>11 DEF Next, JobStep, GitHubStep

-----------------------------------------------------------------------------
LEMMA StepIInv == IInv /\ [Next]_vars => IInv'
BY TypesStep, SourcesStep, OnlyTestedStep, JobTestedStep, PushStep, LateCleanStep, GitHubStepAfterTags
   DEF IInv, BranchInv, JobInv

\* However often an event is replayed and whenever a push given up arrives, the branch gets one
\* release commit, directly on a commit whose CI run succeeded and asked for it
\* (ShouldHandleWorkflowRun, verifySource, git push --atomic).
THEOREM OnlyTested == Spec => []OnlyTestedReleased
<1>1. Init => IInv
  BY InitIInv
<1>2. IInv /\ [Next]_vars => IInv'
  BY StepIInv
<1>3. IInv => OnlyTestedReleased
  BY DEF IInv, BranchInv
<1> QED BY <1>1, <1>2, <1>3, PTL DEF Spec

\* A GitHub Release is created only for tags that are on the remote, by whichever publisher and
\* however late its request is performed (publishGitHubReleases after git push --atomic).
THEOREM TagsBeforeReleases == Spec => []ReleasesHaveTags
<1>1. Init => IInv
  BY InitIInv
<1>2. IInv /\ [Next]_vars => IInv'
  BY StepIInv
<1>3. IInv => ReleasesHaveTags
  BY DEF IInv, GitHubAfterTags, ReleasesHaveTags
<1> QED BY <1>1, <1>2, <1>3, PTL DEF Spec

\* A publisher that ends without an error has published its whole plan from its own files, whoever
\* else worked on the releases and whatever requests were lost or came late
\* (publishGitHubReleasesWithEnv).
THEOREM PublicationComplete == Spec => []DoneIsWhole
<1>1. Init => PubInv
  BY PublicationInitInv DEF Init
<1>2. PubInv /\ [Next]_vars => PubInv'
  BY PubInvStep
<1>3. PubInv => DoneIsWhole
  BY PubInvDone
<1> QED BY <1>1, <1>2, <1>3, PTL DEF Spec

-----------------------------------------------------------------------------
(* What a check run says. *)

\* Commit c was released on branch b, and its releases are whole unless somebody edited one.
PublishedIn(c, b, g, e) ==
  /\ ReleaseOf(c.src) \in Range(b)
  /\ e = 0 => \A k \in DOMAIN Plan : WholeIn(g, Plan[k], Checkout)

\* The check run of an attempt is for its commit.
CheckOfJob == job.pc # "idle" /\ job.check # 0 => job.check \in DOMAIN checks /\ checks[job.check].commit = job.sha
\* A job publishes a commit that is released, from its own checkout.
PublishesRelease ==
  job.pc = "publish" => ReleaseOf(job.sha.src) \in Range(branch) /\ (edits = 0 => pub[App].build = Checkout)
PublishedOutcome == job.pc = "complete" /\ job.outcome = "published" => PublishedIn(job.sha, branch, gh, edits)
SuccessSound ==
  \A i \in DOMAIN checks : checks[i].conclusion = "success" => PublishedIn(checks[i].commit, branch, gh, edits)

ReportInv == IInv /\ PubInv /\ CheckOfJob /\ PublishesRelease /\ PublishedOutcome /\ SuccessSound

\* The steps that change GitHub or a publisher, as far as nobody edits a release.
LEMMA GitHubKeeps ==
  ASSUME IInv, PubInv, [Next]_vars, edits' = 0
  PROVE  /\ edits = 0 /\ Grows(gh, gh')
         /\ job.pc = "publish" /\ job'.pc = "publish" => pub'[App].build = pub[App].build
<1>0. edits \in Nat /\ App \in Publishers /\ Operator \in Publishers /\ App # Operator /\ DOMAIN pub = Publishers
  BY JobAssumption DEF PubInv, IInv, Types
<1>1. CASE (\E p \in Publishers : PublisherStep(p)) \/ LateRequest
  <2>1. edits' = edits
    BY <1>1 DEF PublisherStep, LateRequest
  <2> QED BY <1>0, <1>1, <2>1, PublisherKeeps
<1>2. CASE OthersStep
  BY <1>0, <1>2 DEF OthersStep, Edited
<1>3. CASE UNCHANGED <<gh, edits, pub>>
  BY <1>3, SameGrows
<1>4. CASE Push \/ PublishReturns \/ Crash
  <2>1. UNCHANGED <<gh, edits>>
    BY <1>4 DEF Push, PublishReturns, Crash
  <2>2. job.pc # "publish" \/ job'.pc # "publish"
    <3>1. CASE Push
      BY <3>1 DEF Push
    <3>2. CASE PublishReturns
      BY <3>2 DEF PublishReturns, Ends, IInv, Types
    <3>3. CASE Crash
      BY <3>3 DEF Crash, NoJob
    <3> QED BY <1>4, <3>1, <3>2, <3>3
  <2> QED BY <2>1, <2>2, SameGrows
<1>5. CASE Expire
  <2>1. UNCHANGED <<gh, edits>> /\ (pub' = pub \/ Failed(App))
    BY <1>5 DEF Expire
  <2> DEFINE N == [Idle EXCEPT !.pc = "failed", !.build = pub[App].build]
  <2>2. N.build = pub[App].build
    BY DEF Idle
  <2>3. pub' = pub \/ pub' = [pub EXCEPT ![App] = N]
    BY <2>1
  <2> HIDE DEF N
  <2> QED BY <1>0, <2>1, <2>2, <2>3, SameGrows
<1>6. CASE OperatorResumes
  BY <1>0, <1>6, SameGrows DEF OperatorResumes, PublicationStarts
<1>7. CASE \E e \in Events : StartAttempt(e)
  BY <1>3, <1>7 DEF StartAttempt
<1>8. CASE MintToken \/ CreateCheckRun \/ CreateCheckRunFails \/ Clone \/ VerifySource \/ PushAnswerLost
             \/ PushTimesOut \/ StepFails \/ CompleteCheckRun \/ ExpireAtEnd
  BY <1>3, <1>8 DEF MintToken, CreateCheckRun, CreateCheckRunFails, Clone, VerifySource, PushAnswerLost,
                    PushTimesOut, StepFails, CompleteCheckRun, ExpireAtEnd
<1>9. CASE LatePush \/ OthersPush
  BY <1>3, <1>9 DEF LatePush, OthersPush
<1>10. CASE VerifierStep
  BY <1>3, <1>10 DEF VerifierStep, Verify, ReadInventory, DownloadSums, DownloadPayload, Attest, VerifierReadFails
<1> QED BY <1>1, <1>2, <1>3, <1>4, <1>5, <1>6, <1>7, <1>8, <1>9, <1>10 DEF Next, JobStep

LEMMA BranchKeeps == IInv /\ [Next]_vars => Range(branch) \subseteq Range(branch')
<1> SUFFICES ASSUME IInv, [Next]_vars, NEW i \in DOMAIN branch PROVE branch[i] \in Range(branch')
  BY DEF Range
<1>1. i \in DOMAIN branch' /\ branch'[i] = branch[i]
  BY BranchGrows
<1> QED BY <1>1 DEF Range

\* What is published stays published.
LEMMA PublishedStays ==
  ASSUME IInv, PubInv, [Next]_vars
  PROVE  \A c : PublishedIn(c, branch, gh, edits) => PublishedIn(c, branch', gh', edits')
<1> SUFFICES ASSUME NEW c, PublishedIn(c, branch, gh, edits) PROVE PublishedIn(c, branch', gh', edits')
  OBVIOUS
<1>1. ReleaseOf(c.src) \in Range(branch')
  BY BranchKeeps DEF PublishedIn
<1>2. ASSUME edits' = 0 PROVE \A k \in DOMAIN Plan : WholeIn(gh', Plan[k], Checkout)
  <2>1. edits = 0 /\ Grows(gh, gh')
    BY <1>2, GitHubKeeps
  <2>2. \A k \in DOMAIN Plan : WholeIn(gh, Plan[k], Checkout) /\ Plan[k] \in DOMAIN AssetsOf
    BY <2>1, PlanTags DEF PublishedIn
  <2> QED BY <2>1, <2>2, GrowsWhole
<1> QED BY <1>1, <1>2 DEF PublishedIn

\* Only three steps change what GitHub's check runs say.
LEMMA ChecksStep ==
  [Next]_vars => checks' = checks \/ CreateCheckRun \/ CreateCheckRunFails \/ CompleteCheckRun
<1> SUFFICES ASSUME [Next]_vars, ~CreateCheckRun, ~CreateCheckRunFails, ~CompleteCheckRun PROVE checks' = checks
  OBVIOUS
<1>1. CASE \E e \in Events : StartAttempt(e)
  BY <1>1 DEF StartAttempt
<1>2. CASE MintToken \/ Clone \/ VerifySource \/ PushTimesOut \/ StepFails
  BY <1>2 DEF MintToken, Clone, VerifySource, PushTimesOut, StepFails
<1>3. CASE Push \/ PushAnswerLost \/ PublishReturns
  BY <1>3 DEF Push, PushAnswerLost, PublishReturns
<1>4. CASE Expire \/ ExpireAtEnd \/ Crash \/ LatePush \/ OthersPush \/ OperatorResumes
  BY <1>4 DEF Expire, ExpireAtEnd, Crash, LatePush, OthersPush, OperatorResumes
<1> QED BY <1>1, <1>2, <1>3, <1>4 DEF Next, JobStep

LEMMA JobKeepsCheck ==
  IInv /\ [Next]_vars =>
    \/ job'.pc = "idle"
    \/ job.pc # "idle" /\ job'.sha = job.sha /\ job'.check = job.check
    \/ job.pc # "idle" /\ job'.sha = job.sha /\ CreateCheckRun
    \/ job'.check = 0
<1> SUFFICES ASSUME IInv, [Next]_vars, ~CreateCheckRun
             PROVE  \/ job'.pc = "idle" \/ job'.check = 0
                    \/ job.pc # "idle" /\ job'.sha = job.sha /\ job'.check = job.check
  <2>1. CreateCheckRun => job.pc # "idle" /\ job'.sha = job.sha
    BY DEF CreateCheckRun, IInv, Types
  <2> QED BY <2>1
<1> USE DEF IInv, Types
<1>1. CASE MintToken \/ CreateCheckRunFails \/ Clone \/ VerifySource \/ PushTimesOut
  BY <1>1 DEF MintToken, CreateCheckRunFails, Clone, VerifySource, PushTimesOut, Ends
<1>2. CASE Push
  BY <1>2 DEF Push, Ends
<1>3. CASE PushAnswerLost \/ PublishReturns
  BY <1>3 DEF PushAnswerLost, PublishReturns, Ends
<1>4. CASE StepFails
  BY <1>4 DEF StepFails, Ends, NoJob
<1>5. CASE CompleteCheckRun
  BY <1>5 DEF CompleteCheckRun, NoJob
<1>6. CASE Expire \/ ExpireAtEnd \/ Crash
  BY <1>6 DEF Expire, ExpireAtEnd, Crash, NoJob
<1>7. CASE \E e \in Events : StartAttempt(e)
  <2>1. PICK e \in Events : StartAttempt(e)
    BY <1>7
  <2>2. job' = job \/ job' = JobOf(e)
    BY <2>1 DEF StartAttempt
  <2>3. JobOf(e).check = 0
    BY DEF JobOf, NoJob
  <2>4. job.pc = "idle"
    BY <2>1 DEF StartAttempt
  <2> QED BY <2>2, <2>3, <2>4
<1>8. CASE job' = job
  BY <1>8
<1> QED BY <1>1, <1>2, <1>3, <1>4, <1>5, <1>6, <1>7, <1>8 DEF Next, JobStep, LatePush, OthersPush, OperatorResumes

LEMMA CheckOfJobStep == IInv /\ CheckOfJob /\ [Next]_vars => CheckOfJob'
<1> SUFFICES ASSUME IInv, CheckOfJob, [Next]_vars, job'.pc # "idle", job'.check # 0
             PROVE  job'.check \in DOMAIN checks' /\ checks'[job'.check].commit = job'.sha
  BY DEF CheckOfJob
<1> DEFINE new == InProgress(job.sha)
<1>t. checks \in Seq([commit : Commits, conclusion : Conclusions]) /\ new.commit = job.sha
  BY DEF IInv, Types, InProgress
<1>1. CASE CreateCheckRun
  <2>1. checks' = Append(checks, new) /\ job'.check = Len(checks) + 1 /\ job'.sha = job.sha
    BY <1>1 DEF CreateCheckRun, IInv, Types
  <2> HIDE DEF new
  <2> QED BY <1>t, <2>1, Appended
<1>2. CASE ~CreateCheckRun
  <2>1. job'.sha = job.sha /\ job'.check \in DOMAIN checks /\ checks[job'.check].commit = job.sha
    BY <1>2, JobKeepsCheck DEF CheckOfJob
  <2>2. CASE checks' = checks
    BY <2>1, <2>2
  <2>3. CASE CreateCheckRunFails
    <3>1. checks' = checks \/ checks' = Append(checks, new)
      BY <2>3 DEF CreateCheckRunFails
    <3> HIDE DEF new
    <3> QED BY <1>t, <2>1, <3>1, Appended
  <2>4. CASE CompleteCheckRun
    BY <2>4 DEF CompleteCheckRun, NoJob
  <2> QED BY <1>2, <2>2, <2>3, <2>4, ChecksStep
<1> QED BY <1>1, <1>2

\* A job reaches its publication by its push, which leaves the release on the branch.
LEMMA ReleasePushed ==
  IInv /\ job.pc = "push" /\ PushAccepted => ReleaseOf(job.sha.src) \in Range(Pushed)
<1> SUFFICES ASSUME IInv, job.pc = "push", PushAccepted PROVE ReleaseOf(job.sha.src) \in Range(Pushed)
  OBVIOUS
<1>0. branch \in Seq(Commits) /\ Len(branch) \in DOMAIN branch /\ job.sha \in Commits /\ job.clone \in Commits
  BY DEF IInv, Types
<1>1. CASE Tip.release
  <2>1. job.clone.release /\ job.clone.src = job.sha.src
    BY <1>1 DEF PushAccepted, IInv, JobInv, CloneResumes, JobTested
  <2>2. job.clone = ReleaseOf(job.sha.src)
    BY <1>0, <2>1 DEF Commits, ReleaseOf
  <2>3. Tip \in Range(branch)
    BY <1>0 DEF Tip, Last, Range
  <2> QED BY <1>1, <2>2, <2>3 DEF Pushed, PushAccepted
<1>2. CASE ~Tip.release
  <2> DEFINE r == ReleaseOf(job.sha.src)
  <2>1. Pushed = Append(branch, r)
    BY <1>2 DEF Pushed
  <2> HIDE DEF r
  <2>2. Len(branch) + 1 \in DOMAIN Pushed /\ Pushed[Len(branch) + 1] = r
    BY <1>0, <2>1, Appended
  <2> QED BY <2>2 DEF Range, r
<1> QED BY <1>1, <1>2

\* Where a job's publication and its outcome come from.
LEMMA JobArrives ==
  IInv /\ [Next]_vars =>
    /\ job'.pc = "publish" => (job.pc = "publish" /\ job'.sha = job.sha) \/ (Push /\ PushAccepted)
    /\ job'.pc = "complete" /\ job'.outcome = "published" =>
         \/ job.pc = "complete" /\ job.outcome = "published" /\ job'.sha = job.sha
         \/ PublishReturns
<1> SUFFICES ASSUME IInv, [Next]_vars
    PROVE /\ job'.pc = "publish" => (job.pc = "publish" /\ job'.sha = job.sha) \/ (Push /\ PushAccepted)
          /\ job'.pc = "complete" /\ job'.outcome = "published" =>
               \/ job.pc = "complete" /\ job.outcome = "published" /\ job'.sha = job.sha
               \/ PublishReturns
  OBVIOUS
<1> USE DEF IInv, Types
<1>1. CASE MintToken \/ CreateCheckRun \/ CreateCheckRunFails \/ Clone \/ VerifySource \/ PushTimesOut
  BY <1>1 DEF MintToken, CreateCheckRun, CreateCheckRunFails, Clone, VerifySource, PushTimesOut, Ends
<1>2. CASE Push
  BY <1>2 DEF Push, Ends
<1>3. CASE PushAnswerLost
  BY <1>3 DEF PushAnswerLost, Ends
<1>4. CASE StepFails
  BY <1>4 DEF StepFails, Ends, NoJob
<1>5. CASE CompleteCheckRun
  BY <1>5 DEF CompleteCheckRun, NoJob
<1>6. CASE Expire \/ ExpireAtEnd \/ Crash
  BY <1>6 DEF Expire, ExpireAtEnd, Crash, NoJob
<1>7. CASE \E e \in Events : StartAttempt(e)
  BY <1>7, NoJobType DEF StartAttempt, JobOf
<1>8. CASE job' = job
  BY <1>8
<1>9. CASE PublishReturns
  BY <1>9 DEF PublishReturns, Ends
<1> QED BY <1>1, <1>2, <1>3, <1>4, <1>5, <1>6, <1>7, <1>8, <1>9
        DEF Next, JobStep, LatePush, OthersPush, OperatorResumes

LEMMA PublishesReleaseStep == IInv /\ PubInv /\ PublishesRelease /\ [Next]_vars => PublishesRelease'
<1> SUFFICES ASSUME IInv, PubInv, PublishesRelease, [Next]_vars, job'.pc = "publish"
             PROVE  ReleaseOf(job'.sha.src) \in Range(branch') /\ (edits' = 0 => pub'[App].build = Checkout)
  BY DEF PublishesRelease, ReleaseOf
<1>1. CASE job.pc = "publish" /\ job'.sha = job.sha
  BY <1>1, BranchKeeps, GitHubKeeps DEF PublishesRelease
<1>2. CASE Push /\ PushAccepted
  <2>1. branch' = Pushed /\ job.pc = "push" /\ job'.sha = job.sha
    BY <1>2 DEF Push, IInv, Types
  <2>2. pub'[App].build = Checkout
    <3> DEFINE N == [Idle EXCEPT !.pc = "lookup", !.build = Checkout]
    <3>1. pub' = [pub EXCEPT ![App] = N] /\ App \in DOMAIN pub
      BY <1>2, JobAssumption DEF Push, PublicationStarts, IInv, Types
    <3>2. N.build = Checkout
      BY DEF Idle
    <3> HIDE DEF N
    <3> QED BY <3>1, <3>2
  <2> QED BY <1>2, <2>1, <2>2, ReleasePushed
<1> QED BY <1>1, <1>2, JobArrives

LEMMA PublishedOutcomeStep == ReportInv /\ [Next]_vars => PublishedOutcome'
<1> SUFFICES ASSUME ReportInv, [Next]_vars, job'.pc = "complete", job'.outcome = "published"
             PROVE  PublishedIn(job'.sha, branch', gh', edits')
  BY DEF PublishedOutcome, PublishedIn, WholeIn, Stored, ReleaseOf
<1> USE DEF ReportInv
<1>1. CASE job.pc = "complete" /\ job.outcome = "published" /\ job'.sha = job.sha
  BY <1>1, PublishedStays DEF PublishedOutcome
<1>2. CASE PublishReturns
  <2>1. /\ job.pc = "publish" /\ job'.sha = job.sha /\ pub[App].pc = "done"
        /\ branch' = branch /\ gh' = gh /\ edits' = edits
    BY <1>2 DEF PublishReturns, Ends, IInv, Types
  <2>2. ReleaseOf(job.sha.src) \in Range(branch)
    BY <2>1 DEF PublishesRelease
  <2>3. edits = 0 => \A k \in DOMAIN Plan : WholeIn(gh, Plan[k], Checkout)
    BY <2>1, JobAssumption DEF PublishesRelease, PubInv, Sound
  <2>4. PublishedIn(job.sha, branch, gh, edits)
    BY <2>2, <2>3 DEF PublishedIn
  <2> QED BY <2>1, <2>4
<1> QED BY <1>1, <1>2, JobArrives

LEMMA SuccessStep == ReportInv /\ [Next]_vars => SuccessSound'
<1> SUFFICES ASSUME ReportInv, [Next]_vars, NEW i \in DOMAIN checks', checks'[i].conclusion = "success"
             PROVE  PublishedIn(checks'[i].commit, branch', gh', edits')
  BY DEF SuccessSound, PublishedIn, WholeIn, Stored, ReleaseOf
<1> USE DEF ReportInv
<1>t. checks \in Seq([commit : Commits, conclusion : Conclusions])
  BY DEF IInv, Types
<1>1. ASSUME i \in DOMAIN checks, checks[i].conclusion = "success", checks'[i].commit = checks[i].commit
      PROVE  PublishedIn(checks'[i].commit, branch', gh', edits')
  BY <1>1, PublishedStays DEF SuccessSound
<1>2. CASE checks' = checks
  BY <1>1, <1>2
<1>3. CASE CreateCheckRun \/ CreateCheckRunFails
  <2> DEFINE new == InProgress(job.sha)
  <2>1. checks' = checks \/ checks' = Append(checks, new)
    BY <1>3 DEF CreateCheckRun, CreateCheckRunFails
  <2>2. new.conclusion # "success"
    BY DEF InProgress
  <2> HIDE DEF new
  <2>3. i \in DOMAIN checks /\ checks'[i] = checks[i]
    BY <1>t, <2>1, <2>2, Appended
  <2> QED BY <1>1, <2>3
<1>4. CASE CompleteCheckRun
  <2>1. /\ job.pc = "complete"
        /\ \/ checks' = checks
           \/ job.check # 0 /\ checks' = [checks EXCEPT ![job.check].conclusion = Conclusion(job.outcome)]
    BY <1>4 DEF CompleteCheckRun, Completed
  <2>2. CASE i # job.check \/ checks' = checks
    <3>1. i \in DOMAIN checks /\ checks'[i] = checks[i]
      BY <2>1, <2>2
    <3> QED BY <1>1, <3>1
  <2>3. CASE i = job.check /\ checks' # checks
    <3>1. i \in DOMAIN checks /\ checks[i].commit = job.sha
      BY <2>1, <2>3 DEF CheckOfJob
    <3>2. checks[i] \in [commit : Commits, conclusion : Conclusions]
      <4> DEFINE R == [commit : Commits, conclusion : Conclusions]
      <4>1. checks \in Seq(R)
        BY <1>t
      <4> HIDE DEF R
      <4>2. checks[i] \in R
        BY <3>1, <4>1
      <4> QED BY <4>2 DEF R
    <3> DEFINE c == Conclusion(job.outcome)
    <3>3. checks' = [checks EXCEPT ![i].conclusion = c]
      BY <2>1, <2>3
    <3> HIDE DEF c
    <3>4. checks'[i].commit = job.sha /\ checks'[i].conclusion = c
      BY <3>1, <3>2, <3>3
    <3>5. job.outcome = "published"
      <4>1. Conclusion(job.outcome) = "success"
        BY <3>4 DEF c
      <4>2. job.outcome \in Outcomes
        BY DEF IInv, Types
      <4> QED BY <4>1, <4>2 DEF Conclusion, Outcomes
    <3>6. PublishedIn(job.sha, branch, gh, edits)
      BY <2>1, <3>5 DEF PublishedOutcome
    <3> QED BY <3>4, <3>6, PublishedStays
  <2> QED BY <2>2, <2>3
<1> QED BY <1>2, <1>3, <1>4, ChecksStep

\* A check run that says "success" is of the commit that was released, and its releases are whole
\* and public, whatever failed, expired, crashed or was replayed before, unless somebody
\* edited one (completeReleaseCheckRun).
THEOREM SuccessMeansPublished == Spec => []SuccessIsPublished
<1>1. Init => ReportInv
  <2> SUFFICES ASSUME Init PROVE ReportInv
    OBVIOUS
  <2>1. IInv /\ PubInv
    BY InitIInv, PublicationInitInv DEF Init
  <2>2. checks = <<>> /\ job.pc = "idle"
    BY DEF Init, NoJob
  <2> QED BY <2>1, <2>2 DEF ReportInv, CheckOfJob, PublishesRelease, PublishedOutcome, SuccessSound
<1>2. ReportInv /\ [Next]_vars => ReportInv'
  BY StepIInv, PubInvStep, CheckOfJobStep, PublishesReleaseStep, PublishedOutcomeStep, SuccessStep DEF ReportInv
<1>3. ReportInv => SuccessIsPublished
  BY DEF ReportInv, SuccessSound, SuccessIsPublished, PublishedIn, WholeIn, Whole, Stored
<1> QED BY <1>1, <1>2, <1>3, PTL DEF Spec

-----------------------------------------------------------------------------
(* What the verifier has read. *)

Shaped ==
  /\ ver = [pc |-> ver.pc, policy |-> ver.policy, tag |-> ver.tag, listed |-> ver.listed,
            sums |-> ver.sums, todo |-> ver.todo]
  /\ ver.pc \in {"idle", "list", "sums", "payloads", "passed"}
  /\ ver.pc # "idle" => ver.tag \in DOMAIN AssetsOf

\* The verifier V downloaded asset n and it is of the build of the checksum asset; GitHub, in state
\* g and after e edits, still serves it.
Held(V, g, e, n) ==
  /\ Named(V.listed, n).build = V.sums
  /\ e = 0 => Named(V.listed, n) \in Range(g[V.tag].assets)

SumsRead == ver.pc \in {"sums", "payloads", "passed"} => Sums \in Names(ver.listed)
PayloadsRead ==
  ver.pc \in {"payloads", "passed"} =>
    /\ Payloads(ver.listed) = Entries(ver.tag)
    /\ \A n \in {Sums} \cup (Payloads(ver.listed) \ ver.todo) : Held(ver, gh, edits, n)
PolicyMet ==
  ver.pc = "passed" =>
    /\ ver.todo = {}
    /\ "attestations" \in ver.policy => ver.sums \in Attested
    /\ "signatures" \in ver.policy =>
         \A n \in Payloads(ver.listed) \cup {Sums} :
           Bundles[n] \in Names(ver.listed) /\ Held(ver, gh, edits, Bundles[n])

ReadInv == Shaped /\ SumsRead /\ PayloadsRead /\ PolicyMet
VerInv == ReadInv /\ (edits = 0 => NamesUnique(gh))

LEMMA NoneRead == ver = NotRunning => ReadInv
BY DEF ReadInv, Shaped, SumsRead, PayloadsRead, PolicyMet, NotRunning

\* The steps of the verifier, which only reads.
LEMMA VerifierReads ==
  ASSUME ReadInv, VerifierStep, UNCHANGED <<gh, edits>>
  PROVE  ReadInv'
<1> USE DEF ReadInv
<1>0. CASE ver' = NotRunning
  BY <1>0 DEF Shaped, SumsRead, PayloadsRead, PolicyMet, NotRunning
<1>1. CASE \E t \in DOMAIN AssetsOf : Verify(t)
  <2>1. ver' = NotRunning
        \/ \E t \in DOMAIN AssetsOf, policy \in Policies :
             ver' = [NotRunning EXCEPT !.pc = "list", !.policy = policy, !.tag = t]
    BY <1>1 DEF Verify, VerificationFails
  <2> QED BY <1>0, <2>1 DEF NotRunning, Shaped, SumsRead, PayloadsRead, PolicyMet
<1>2. CASE ReadInventory
  <2> DEFINE inventory == ver.listed \o PageOf(gh[ver.tag], Len(ver.listed) \div PageSize + 1)
  <2>1. /\ ver.pc = "list"
        /\ \/ ver' = NotRunning
           \/ ver' = [ver EXCEPT !.listed = inventory]
           \/ Sums \in Names(inventory) /\ ver' = [ver EXCEPT !.pc = "sums", !.listed = inventory]
    BY <1>2, Zenon DEF ReadInventory, VerificationFails
  <2> HIDE DEF inventory
  <2>2. CASE ver' = [ver EXCEPT !.listed = inventory]
    BY <2>1, <2>2 DEF Shaped, SumsRead, PayloadsRead, PolicyMet
  <2>3. CASE Sums \in Names(inventory) /\ ver' = [ver EXCEPT !.pc = "sums", !.listed = inventory]
    BY <2>1, <2>3 DEF Shaped, SumsRead, PayloadsRead, PolicyMet
  <2> QED BY <1>0, <2>1, <2>2, <2>3
<1>3. CASE DownloadSums
  <2> DEFINE s == Named(ver.listed, Sums).build
  <2>1. CASE /\ ver.pc = "sums" /\ Downloadable(Sums) /\ SameSet(Payloads(ver.listed), Entries(ver.tag))
             /\ ver' = [ver EXCEPT !.pc = "payloads", !.sums = s, !.todo = Payloads(ver.listed)]
    <3> HIDE DEF s
    <3>1. /\ ver'.pc = "payloads" /\ ver'.sums = s /\ ver'.todo = Payloads(ver.listed)
          /\ ver'.listed = ver.listed /\ ver'.tag = ver.tag /\ ver'.policy = ver.policy
          /\ ver' = [pc |-> "payloads", policy |-> ver.policy, tag |-> ver.tag, listed |-> ver.listed,
                     sums |-> s, todo |-> Payloads(ver.listed)]
      BY <2>1 DEF Shaped
    <3>2. Shaped' /\ SumsRead' /\ PolicyMet'
      BY <2>1, <3>1 DEF Shaped, SumsRead, PolicyMet
    <3>3. Payloads(ver'.listed) = Entries(ver'.tag)
      BY <2>1, <3>1 DEF SameSet
    <3>4. Held(ver', gh', edits', Sums)
      BY <2>1, <3>1 DEF Held, Downloadable, s
    <3>5. PayloadsRead'
      BY <3>1, <3>3, <3>4 DEF PayloadsRead
    <3> QED BY <3>2, <3>5
  <2> QED BY <1>0, <1>3, <2>1 DEF DownloadSums, VerificationFails
<1>4. CASE DownloadPayload
  <2>1. CASE \E n \in ver.todo : /\ ver.pc = "payloads" /\ MatchesSums(n)
                                 /\ ver' = [ver EXCEPT !.todo = @ \ {n}]
    <3>1. PICK n \in ver.todo : MatchesSums(n) /\ ver' = [ver EXCEPT !.todo = ver.todo \ {n}]
      BY <2>1
    <3> DEFINE rest == ver.todo \ {n}
    <3>2. /\ ver'.pc = "payloads" /\ ver'.sums = ver.sums /\ ver'.todo = rest
          /\ ver'.listed = ver.listed /\ ver'.tag = ver.tag /\ ver'.policy = ver.policy
          /\ ver' = [pc |-> "payloads", policy |-> ver.policy, tag |-> ver.tag, listed |-> ver.listed,
                     sums |-> ver.sums, todo |-> rest]
      BY <2>1, <3>1 DEF Shaped
    <3>3. Shaped' /\ SumsRead' /\ PolicyMet'
      BY <2>1, <3>2 DEF Shaped, SumsRead, PolicyMet
    <3>4. Held(ver, gh, edits, n)
      BY <3>1 DEF Held, MatchesSums, Downloadable
    <3>5. Payloads(ver.listed) = Entries(ver.tag)
          /\ \A m \in {Sums} \cup (Payloads(ver.listed) \ rest) : Held(ver, gh, edits, m)
      BY <2>1, <3>4 DEF PayloadsRead
    <3>6. \A m : Held(ver, gh, edits, m) => Held(ver', gh', edits', m)
      BY <3>2 DEF Held
    <3> HIDE DEF rest
    <3>7. PayloadsRead'
      BY <3>2, <3>5, <3>6 DEF PayloadsRead
    <3> QED BY <3>3, <3>7
  <2>2. ver.pc = "payloads" /\ ver.todo # {}
    BY <1>4 DEF DownloadPayload
  <2>3. (CHOOSE m \in ver.todo : TRUE) \in ver.todo
    BY <2>2
  <2> QED BY <1>0, <1>4, <2>1, <2>3 DEF DownloadPayload, VerificationFails
<1>5. CASE Attest
  <2>1. CASE /\ ver.pc = "payloads" /\ ver.todo = {} /\ SignaturesHold /\ AttestationsHold
             /\ ver' = [ver EXCEPT !.pc = "passed"]
    <3>1. /\ ver'.pc = "passed" /\ ver'.sums = ver.sums /\ ver'.todo = {}
          /\ ver'.listed = ver.listed /\ ver'.tag = ver.tag /\ ver'.policy = ver.policy
          /\ ver' = [pc |-> "passed", policy |-> ver.policy, tag |-> ver.tag, listed |-> ver.listed,
                     sums |-> ver.sums, todo |-> ver.todo]
      BY <2>1 DEF Shaped
    <3>2. \A m : Held(ver, gh, edits, m) <=> Held(ver', gh', edits', m)
      BY <3>1 DEF Held
    <3>3. Shaped' /\ SumsRead'
      BY <2>1, <3>1 DEF Shaped, SumsRead
    <3>4. PayloadsRead'
      BY <2>1, <3>1, <3>2 DEF PayloadsRead
    <3>5. "signatures" \in ver.policy =>
            \A n \in Payloads(ver.listed) \cup {Sums} :
              Bundles[n] \in Names(ver.listed) /\ Held(ver, gh, edits, Bundles[n])
      BY <2>1 DEF SignaturesHold, Downloadable, Held
    <3>6. PolicyMet'
      BY <2>1, <3>1, <3>2, <3>5 DEF PolicyMet, AttestationsHold
    <3> QED BY <3>3, <3>4, <3>6
  <2> QED BY <1>0, <1>5, <2>1 DEF Attest, VerificationFails
<1>6. CASE VerifierReadFails
  BY <1>0, <1>6 DEF VerifierReadFails, VerificationFails
<1> QED BY <1>1, <1>2, <1>3, <1>4, <1>5, <1>6 DEF VerifierStep

\* What the verifier holds stays while nobody edits the release.
LEMMA HeldStays ==
  ASSUME ReadInv, UNCHANGED ver,
         edits' = 0 => edits = 0 /\ GitHubTypes(gh) /\ Grows(gh, gh')
  PROVE  ReadInv'
<1>1. ASSUME NEW n, ver.pc # "idle", Held(ver, gh, edits, n) PROVE Held(ver, gh', edits', n)
  <2> SUFFICES ASSUME edits' = 0 PROVE Named(ver.listed, n) \in Range(gh'[ver.tag].assets)
    BY <1>1 DEF Held
  <2>1. ver.tag \in DOMAIN AssetsOf /\ Named(ver.listed, n) \in Range(gh[ver.tag].assets)
    BY <1>1 DEF ReadInv, Shaped, Held
  <2>2. gh[ver.tag] # Absent
    BY <2>1 DEF Absent, Range
  <2>3. gh[ver.tag].meta = "planned"
    BY <2>1, <2>2 DEF GitHubTypes, GitHubReleases
  <2> QED BY <2>1, <2>3 DEF Grows
<1>2. PayloadsRead'
  BY <1>1 DEF ReadInv, PayloadsRead, Payloads, Entries, Material, Names
<1>3. PolicyMet'
  BY <1>1 DEF ReadInv, PolicyMet, Payloads, Material, Names
<1> QED BY <1>2, <1>3 DEF ReadInv, Shaped, SumsRead, Names

\* While nobody edits a release, its assets change only by a publisher's requests.
LEMMA GitHubChanges ==
  [Next]_vars /\ edits' = 0 /\ edits \in Nat =>
    gh' = gh \/ (\E p \in Publishers : PublisherStep(p)) \/ LateRequest
<1> SUFFICES ASSUME [Next]_vars, edits' = 0, edits \in Nat, gh' # gh
             PROVE  (\E p \in Publishers : PublisherStep(p)) \/ LateRequest
  OBVIOUS
<1>1. ~OthersStep
  BY DEF OthersStep, Edited
<1>2. ~(\E e \in Events : StartAttempt(e))
  BY DEF StartAttempt
<1>3. ~(MintToken \/ CreateCheckRun \/ CreateCheckRunFails \/ Clone \/ VerifySource \/ PushAnswerLost
             \/ PushTimesOut \/ StepFails \/ CompleteCheckRun \/ ExpireAtEnd)
  BY DEF MintToken, CreateCheckRun, CreateCheckRunFails, Clone, VerifySource, PushAnswerLost,
         PushTimesOut, StepFails, CompleteCheckRun, ExpireAtEnd
<1>4. ~(Push \/ PublishReturns \/ Crash \/ Expire \/ OperatorResumes \/ LatePush \/ OthersPush)
  BY DEF Push, PublishReturns, Crash, Expire, OperatorResumes, LatePush, OthersPush
<1>5. ~VerifierStep
  BY DEF VerifierStep, Verify, ReadInventory, DownloadSums, DownloadPayload, Attest, VerifierReadFails
<1> QED BY <1>1, <1>2, <1>3, <1>4, <1>5 DEF Next, JobStep

LEMMA VerifierRuns ==
  [Next]_vars => ver' = ver \/ (VerifierStep /\ UNCHANGED <<gh, edits>>)
<1> SUFFICES ASSUME [Next]_vars PROVE ver' = ver \/ (VerifierStep /\ UNCHANGED <<gh, edits>>)
  OBVIOUS
<1>1. CASE \E e \in Events : StartAttempt(e)
  BY <1>1 DEF StartAttempt
<1>2. CASE MintToken \/ CreateCheckRun \/ CreateCheckRunFails \/ Clone \/ VerifySource \/ PushAnswerLost
             \/ PushTimesOut \/ StepFails \/ CompleteCheckRun \/ ExpireAtEnd
  BY <1>2 DEF MintToken, CreateCheckRun, CreateCheckRunFails, Clone, VerifySource, PushAnswerLost,
              PushTimesOut, StepFails, CompleteCheckRun, ExpireAtEnd
<1>3. CASE Push \/ PublishReturns \/ Crash \/ Expire \/ OperatorResumes \/ LatePush \/ OthersPush
  BY <1>3 DEF Push, PublishReturns, Crash, Expire, OperatorResumes, LatePush, OthersPush
<1>4. CASE VerifierStep
  BY <1>4 DEF VerifierStep, Verify, ReadInventory, DownloadSums, DownloadPayload, Attest, VerifierReadFails
<1>5. CASE UNCHANGED ver
  BY <1>5
<1> QED BY <1>1, <1>2, <1>3, <1>4, <1>5 DEF Next, JobStep

LEMMA VerInvStep == IInv /\ PubInv /\ VerInv /\ [Next]_vars => VerInv'
<1> SUFFICES ASSUME IInv, PubInv, VerInv, [Next]_vars PROVE VerInv'
  OBVIOUS
<1>1. edits' = 0 => edits = 0 /\ GitHubTypes(gh) /\ Grows(gh, gh')
  BY GitHubKeeps DEF PubInv
<1>2. ReadInv'
  BY <1>1, HeldStays, VerifierReads, VerifierRuns DEF VerInv
<1>3. ASSUME edits' = 0 PROVE NamesUnique(gh')
  <2>1. edits = 0 /\ NamesUnique(gh)
    BY <1>1, <1>3 DEF VerInv
  <2> QED BY <1>3, <2>1, GitHubChanges, PublisherUnique
<1>4. NamesUnique(gh)' = NamesUnique(gh')
  BY DEF NamesUnique
<1> QED BY <1>2, <1>3, <1>4 DEF VerInv

\* What is still there is what was read: a release has no two assets of one name.
LEMMA StillServed ==
  ASSUME NEW n \in Names(ver.listed), VerInv, edits = 0, ver.pc # "idle", Held(ver, gh, edits, n)
  PROVE  Named(gh[ver.tag].assets, n).build = ver.sums
<1> DEFINE a == Named(ver.listed, n)
           x == Named(gh[ver.tag].assets, n)
<1>1. a.name = n /\ a.build = ver.sums /\ a \in Range(gh[ver.tag].assets)
  <2>1. \E i \in Range(ver.listed) : i.name = n
    BY DEF Names, Range
  <2> QED BY <2>1 DEF Named, Held
<1>2. x.name = n /\ x \in Range(gh[ver.tag].assets)
  BY <1>1 DEF Named
<1>3. ver.tag \in DOMAIN AssetsOf
  BY DEF VerInv, ReadInv, Shaped
<1> HIDE DEF a, x
<1>4. x = a
  BY <1>1, <1>2, <1>3 DEF VerInv, NamesUnique
<1> QED BY <1>1, <1>4 DEF x

LEMMA VerInvPassed == VerInv => PassedIsWhole
<1> SUFFICES ASSUME VerInv, ver.pc = "passed" PROVE PassedIsWhole
  BY DEF PassedIsWhole
<1> DEFINE covered == Payloads(ver.listed) \cup {Sums}
           demanded == covered \cup IF "signatures" \in ver.policy THEN {Bundles[n] : n \in covered} ELSE {}
<1>1. covered = {Sums} \cup Entries(ver.tag)
  BY DEF VerInv, ReadInv, PayloadsRead
<1>2. "attestations" \in ver.policy => ver.sums \in Attested
  BY DEF VerInv, ReadInv, PolicyMet
<1>3. \A n \in covered : n \in Names(ver.listed) /\ Held(ver, gh, edits, n)
  BY DEF VerInv, ReadInv, SumsRead, PayloadsRead, PolicyMet, Payloads
<1>4. "signatures" \in ver.policy =>
         \A n \in covered : Bundles[n] \in Names(ver.listed) /\ Held(ver, gh, edits, Bundles[n])
  BY DEF VerInv, ReadInv, PolicyMet
<1>5. \A n \in demanded : n \in Names(ver.listed) /\ Held(ver, gh, edits, n)
  <2> HIDE DEF covered
  <2> QED BY <1>3, <1>4
<1>6. \A n \in demanded : Named(ver.listed, n).build = ver.sums
  <2> HIDE DEF demanded
  <2> QED BY <1>5 DEF Held
<1>7. edits = 0 => \A n \in demanded : Named(gh[ver.tag].assets, n).build = ver.sums
  <2> HIDE DEF demanded
  <2> QED BY <1>5, StillServed
<1> QED BY <1>1, <1>2, <1>6, <1>7 DEF PassedIsWhole

\* A statement that says PASSED covers the whole of one build, and while nobody else edits the
\* release that is also what GitHub still serves (Verify), whichever publishers and late requests
\* worked on the release while its inventory was read and its assets were downloaded.
THEOREM PassedMeansWhole == Spec => []PassedIsWhole
<1>1. Init => IInv /\ PubInv /\ VerInv
  <2> SUFFICES ASSUME Init PROVE IInv /\ PubInv /\ VerInv
    OBVIOUS
  <2>1. ReadInv
    BY NoneRead DEF Init, VerifierInit
  <2>2. NamesUnique(gh)
    BY DEF Init, PublicationInit, NamesUnique, Absent, Range
  <2> QED BY <2>1, <2>2, InitIInv, PublicationInitInv DEF Init, VerInv
<1>2. IInv /\ PubInv /\ VerInv /\ [Next]_vars => (IInv /\ PubInv /\ VerInv)'
  BY StepIInv, PubInvStep, VerInvStep
<1>3. VerInv => PassedIsWhole
  BY VerInvPassed
<1> QED BY <1>1, <1>2, <1>3, PTL DEF Spec
=============================================================================

----------------------------- MODULE ReleaseJob ------------------------------
(***************************************************************************)
(* One repository of the GitHub App from the webhook to the published      *)
(* release: the filter (src/internal/app/filter.go), the job               *)
(* (src/internal/app/runner.go), the check run it reports with, the branch *)
(* on the remote, and the GitHub Releases of GitHubPublication, verified   *)
(* by ReleaseVerifier.                                                     *)
(*                                                                         *)
(* The queue runs the jobs of one repository one at a time                 *)
(* (ReleaseTaskQueue: GatesAgree), and replays a job that failed or that a *)
(* crash cut off (WebhookSpool), so a job is a sequence of attempts for an *)
(* event, each from a fresh clone.  Beside it people push commits, and an  *)
(* operator may resume the release commit by hand with asset files of the  *)
(* operator's own.  One package is released, and one release is due, in    *)
(* the first of Sources.                                                   *)
(***************************************************************************)
EXTENDS ReleaseVerifier

CONSTANTS
  Sources,          \* the commits people push, in order
  Payload,          \* the workflow_run deliveries GitHub may make, by name
  Configured,       \* the workflow names, release branches and repositories of the configuration
  App, Operator,    \* the two publishers
  Checkout,         \* the build whose files are in the repository
  MaxAttempts,      \* bound: attempts for one event
  MaxResumes        \* bound: runs of the operator

ASSUME JobAssumption ==
  /\ Publishers = {App, Operator} /\ App # Operator /\ Checkout \in Builds
  /\ Sources \in Seq(Range(Sources)) /\ Len(Sources) > 0 /\ IsInjective(Sources)
  /\ MaxAttempts \in Nat /\ MaxResumes \in Nat

VARIABLES
  branch,     \* the release branch on the remote: source and release commits
  job,        \* the attempt in progress
  checks,     \* the check runs GitHub has
  attempts,   \* attempts so far, by event and for the operator
  latePush    \* the pushes a job gave up that the remote may still perform, by source

jobVars == <<branch, job, checks, attempts, latePush>>
vars == <<pubVars, ver, jobVars>>

Events == DOMAIN Payload

Source(c) == [src |-> c, release |-> FALSE]
ReleaseOf(c) == [src |-> c, release |-> TRUE]
Tip == Last(branch)

\* The tags of the release exist on the remote: they arrive with the release commit.
TagsOnRemote == \E i \in DOMAIN branch : branch[i].release

NoJob == [pc |-> "idle", sha |-> Source(Head(Sources)), clone |-> Source(Head(Sources)),
          check |-> 0, outcome |-> "none", expired |-> FALSE]

-----------------------------------------------------------------------------
(* The filter. *)

\* validateCloneMetadata: the address to clone is the repository's own, on a trusted host.
CloneTrusted(e) == e.clone = "own"

\* DecodeWorkflowRunPayload: every field the job will use is there.
WellFormed(e) == e.complete /\ CloneTrusted(e)

IsReleaseCommit(e) == e.commit.release

\* ShouldHandleWorkflowRun.  A delivery that names no head repository is not taken for a fork's.
ShouldHandle(e) ==
  /\ WellFormed(e)
  /\ e.action = "completed"
  /\ e.conclusion = "success"
  /\ e.event = "push"
  /\ e.workflow \in Configured
  /\ e.branch \in Configured
  /\ e.head \in {"own", "absent"}
  /\ e.repository \in Configured
  /\ ~IsReleaseCommit(e)

-----------------------------------------------------------------------------
(* One attempt. *)

\* buildJobSpec: the job is for the commit of the event.
JobOf(e) == [NoJob EXCEPT !.pc = "mint", !.sha = Payload[e].commit]

\* GitHub delivers a run of a commit that is on the branch; an ignored event leaves nothing behind.
StartAttempt(e) ==
  /\ job.pc = "idle" /\ attempts[e] < MaxAttempts
  /\ Payload[e].commit \in Range(branch)
  /\ IF ShouldHandle(Payload[e])
     THEN /\ attempts' = [attempts EXCEPT ![e] = @ + 1]
          /\ job' = JobOf(e)
     ELSE UNCHANGED <<attempts, job>>
  /\ UNCHANGED <<pubVars, ver, branch, checks, latePush>>

MintToken ==
  /\ job.pc = "mint" /\ ~job.expired
  /\ job' = [job EXCEPT !.pc = "check"]
  /\ UNCHANGED <<pubVars, ver, branch, checks, attempts, latePush>>

InProgress(sha) == [commit |-> sha, conclusion |-> "in progress"]

CreateCheckRun ==
  /\ job.pc = "check" /\ ~job.expired
  /\ checks' = Append(checks, InProgress(job.sha))
  /\ job' = [job EXCEPT !.pc = "clone", !.check = Len(checks) + 1]
  /\ UNCHANGED <<pubVars, ver, branch, attempts, latePush>>

\* Not being able to create the check run, or to read the answer, is a warning only.
CreateCheckRunFails ==
  /\ job.pc = "check"
  /\ IF job.expired THEN UNCHANGED <<faults, checks>>
     ELSE Fault /\ checks' \in {checks, Append(checks, InProgress(job.sha))}
  /\ job' = [job EXCEPT !.pc = "clone"]
  /\ UNCHANGED <<gh, late, pub, edits, ver, branch, attempts, latePush>>

Ends(outcome) == [job EXCEPT !.pc = "complete", !.outcome = outcome]

\* DeriveResumable, as the runner uses it: only that exact source's release commit is resumed.
Resumes(tip, sha) == tip.release /\ tip.src = sha.src

\* The clone's tip decides: the commit of the event, the release commit made from it, or another
\* commit, which makes the event stale.
Clone ==
  /\ job.pc = "clone" /\ ~job.expired
  /\ job' = IF Tip = job.sha \/ Resumes(Tip, job.sha) THEN [job EXCEPT !.pc = "verify", !.clone = Tip]
            ELSE Ends("stale")
  /\ UNCHANGED <<pubVars, ver, branch, checks, attempts, latePush>>

\* verifySource, verifyResumableRemote: the remote branch is still where the clone is.  A plan
\* with no release ends here; the release is due until its tags exist.
VerifySource ==
  /\ job.pc = "verify" /\ ~job.expired
  /\ job' = IF Tip # job.clone THEN Ends("failed")
            ELSE IF ~job.clone.release /\ TagsOnRemote THEN Ends("no_release")
            ELSE [job EXCEPT !.pc = "push"]
  /\ UNCHANGED <<pubVars, ver, branch, checks, attempts, latePush>>

\* git push --atomic: the branch moves from the clone's tip and the tags appear with it, or
\* nothing happens.
Pushed == IF Tip.release THEN branch ELSE Append(branch, ReleaseOf(job.sha.src))
PushUnchecked == TRUE
PushAccepted == Tip = job.clone

PushIgnoringRejection ==
  /\ job.pc = "push" /\ ~job.expired
  /\ branch' = IF PushAccepted THEN Pushed ELSE branch
  /\ job' = [job EXCEPT !.pc = "publish"]
  /\ PublicationStarts(App, Checkout)
  /\ UNCHANGED <<gh, late, faults, edits, ver, checks, attempts, latePush>>

Push ==
  /\ job.pc = "push" /\ ~job.expired
  /\ IF PushAccepted
     THEN /\ branch' = Pushed
          /\ job' = [job EXCEPT !.pc = "publish"]
          /\ PublicationStarts(App, Checkout)
     ELSE /\ job' = Ends("failed")
          /\ UNCHANGED <<branch, pub>>
  /\ UNCHANGED <<gh, late, faults, edits, ver, checks, attempts, latePush>>

\* The remote performs the push and the answer is lost.
PushAnswerLost ==
  /\ job.pc = "push" /\ PushAccepted
  /\ Fault
  /\ branch' = Pushed
  /\ job' = Ends("failed")
  /\ UNCHANGED <<gh, late, pub, edits, ver, checks, attempts, latePush>>

\* The command is killed at its deadline; the remote may perform the push afterwards, if the
\* branch is then still where the clone was.
PushTimesOut ==
  /\ job.pc = "push" /\ ~job.clone.release
  /\ Fault
  /\ latePush' = latePush \cup {job.sha.src}
  /\ job' = Ends("failed")
  /\ UNCHANGED <<gh, late, pub, edits, ver, branch, checks, attempts>>

LatePush ==
  \E c \in latePush :
    /\ latePush' = latePush \ {c}
    /\ branch' = IF Tip = Source(c) THEN Append(branch, ReleaseOf(c)) ELSE branch
    /\ UNCHANGED <<pubVars, ver, job, checks, attempts>>

\* publishGitHubReleases has ended.
PublishReturnsAnyhow ==
  /\ job.pc = "publish" /\ pub[App].pc \in {"done", "failed"}
  /\ job' = Ends("published")
  /\ pub' = [pub EXCEPT ![App] = Idle]
  /\ UNCHANGED <<gh, late, faults, edits, ver, branch, checks, attempts, latePush>>

PublishReturns ==
  /\ job.pc = "publish" /\ pub[App].pc \in {"done", "failed"}
  /\ job' = Ends(IF pub[App].pc = "done" THEN "published" ELSE "failed")
  /\ pub' = [pub EXCEPT ![App] = Idle]
  /\ UNCHANGED <<gh, late, faults, edits, ver, branch, checks, attempts, latePush>>

\* Any other request or command of the attempt fails.  Without a token there is nothing to report
\* with; otherwise the attempt is reported as a failure.
StepFails ==
  /\ job.pc \in {"mint", "clone", "verify", "push"}
  /\ IF job.expired THEN UNCHANGED faults ELSE Fault
  /\ job' = IF job.pc = "mint" THEN NoJob ELSE Ends("failed")
  /\ UNCHANGED <<gh, late, pub, edits, ver, branch, checks, attempts, latePush>>

Conclusion(outcome) ==
  CASE outcome = "published" -> "success"
    [] outcome = "failed" -> "failure"
    [] OTHER -> "neutral"

\* CompleteCheckRun of the client.
Completed(i, conclusion) == [checks EXCEPT ![i].conclusion = conclusion]

\* completeReleaseCheckRun.  The PATCH uses the job's own context, so after the deadline, as when
\* the request fails, the check run stays in progress, which is a warning only.
CompleteCheckRun ==
  /\ job.pc = "complete"
  /\ \/ /\ checks' = IF job.check = 0 \/ job.expired THEN checks
                     ELSE Completed(job.check, Conclusion(job.outcome))
        /\ UNCHANGED faults
     \/ job.check # 0 /\ ~job.expired /\ Fault /\ UNCHANGED checks
  /\ job' = NoJob
  /\ UNCHANGED <<gh, late, pub, edits, ver, branch, attempts, latePush>>

\* The job's deadline passes: every later step fails, and so does the publication in progress.
Expire ==
  /\ job.pc \notin {"idle", "complete"} /\ ~job.expired
  /\ Fault
  /\ job' = [job EXCEPT !.expired = TRUE]
  /\ IF job.pc = "publish" /\ pub[App].pc \notin {"done", "failed"} THEN Failed(App) ELSE UNCHANGED pub
  /\ UNCHANGED <<gh, late, edits, ver, branch, checks, attempts, latePush>>

\* The deadline passes after the publication and before the report.
ExpireAtEnd ==
  /\ job.pc = "complete" /\ ~job.expired
  /\ Fault
  /\ job' = [job EXCEPT !.expired = TRUE]
  /\ UNCHANGED <<gh, late, pub, edits, ver, branch, checks, attempts, latePush>>

\* The service dies.  The event is replayed after the restart.
Crash ==
  /\ job.pc # "idle"
  /\ Fault
  /\ job' = NoJob
  /\ pub' = [pub EXCEPT ![App] = Idle]
  /\ UNCHANGED <<gh, late, edits, ver, branch, checks, attempts, latePush>>

-----------------------------------------------------------------------------
(* Other people. *)

OthersPush ==
  LET pushed == Cardinality({i \in DOMAIN branch : ~branch[i].release})
  IN /\ pushed < Len(Sources)
     /\ branch' = Append(branch, Source(Sources[pushed + 1]))
     /\ UNCHANGED <<pubVars, ver, job, checks, attempts, latePush>>

\* An operator resumes the release commit at the tip of the branch by hand.
OperatorResumes ==
  /\ Tip.release /\ attempts[Operator] < MaxResumes
  /\ \E b \in Builds : PublicationStarts(Operator, b)
  /\ attempts' = [attempts EXCEPT ![Operator] = @ + 1]
  /\ UNCHANGED <<gh, late, faults, edits, ver, branch, job, checks, latePush>>

-----------------------------------------------------------------------------
Init ==
  /\ PublicationInit /\ VerifierInit
  /\ branch = <<Source(Head(Sources))>>
  /\ job = NoJob
  /\ checks = <<>>
  /\ latePush = {}
  /\ attempts = [e \in Events \cup {Operator} |-> 0]

JobStep ==
  \/ \E e \in Events : StartAttempt(e)
  \/ MintToken \/ CreateCheckRun \/ CreateCheckRunFails \/ Clone \/ VerifySource
  \/ Push \/ PushAnswerLost \/ PushTimesOut \/ PublishReturns \/ StepFails \/ CompleteCheckRun
  \/ Expire \/ ExpireAtEnd \/ Crash

Next ==
  \/ JobStep
  \/ (\E p \in Publishers : PublisherStep(p)) /\ UNCHANGED <<ver, jobVars>>
  \/ (LateRequest \/ OthersStep) /\ UNCHANGED <<ver, jobVars>>
  \/ VerifierStep /\ UNCHANGED jobVars
  \/ LatePush \/ OthersPush \/ OperatorResumes

Spec == Init /\ [][Next]_vars

-----------------------------------------------------------------------------
(* Properties. *)

\* However often an event is replayed and whenever a push given up arrives, the branch gets one
\* release commit; it stands directly on the commit whose CI run asked for it, and that run had
\* succeeded: nothing a person pushed in between is released unseen, and nothing untested
\* (ShouldHandleWorkflowRun, verifySource, git push --atomic).
OnlyTestedReleased ==
  \A i \in DOMAIN branch : branch[i].release =>
    /\ i > 1 /\ branch[i - 1] = Source(branch[i].src)
    /\ \A k \in DOMAIN branch : branch[k].release => k = i
    /\ \E e \in Events :
         Payload[e].commit = branch[i - 1] /\ Payload[e].conclusion = "success" /\ attempts[e] > 0

\* A GitHub Release is created only for tags that are on the remote.  GitHub would otherwise make
\* the missing tag itself, on whatever commit the default branch then has.
ReleasesHaveTags == \A t \in DOMAIN gh : gh[t] # Absent => TagsOnRemote

\* A check run that says "success" is of the commit that was released, and its releases are whole
\* and public, whatever failed, expired, crashed or was replayed before, unless somebody edited
\* one (edits = 0): success is never reported for another commit's release or for one whose assets
\* are still missing.
SuccessIsPublished ==
  \A i \in DOMAIN checks : checks[i].conclusion = "success" =>
    /\ ReleaseOf(checks[i].commit.src) \in Range(branch)
    /\ edits = 0 => \A k \in DOMAIN Plan : Whole(Plan[k], Checkout)
=============================================================================

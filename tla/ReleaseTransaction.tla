--------------------------- MODULE ReleaseTransaction ---------------------------
(***************************************************************************)
(* One release of a checkout: Execute of internal/release/release.go, the  *)
(* journal of transaction.go, the resumption of resume.go, and the Git     *)
(* commands they run.  A run journals its phase before each kind of        *)
(* change.  Until the phase is "external" a failure, or the next run after *)
(* a crash, rolls the checkout back; from then on something may have       *)
(* reached the remote, and the next run resumes instead.                   *)
(*                                                                         *)
(* A commit is an identity; log says which commits its history holds and   *)
(* whether its tree has the file that a hook may create.  Branches are     *)
(* linear.  The root is the only change that calls for a release, which is *)
(* one version with a tag for each package.                                *)
(* The lock on Git's common directory admits one run at a time.  A step is *)
(* one effect on the checkout, the journal or the remote, so that a        *)
(* command that fails after its effect fails before the next step.         *)
(*                                                                         *)
(* Left out: dry runs, a missing remote, a checkout that was moved,        *)
(* reconfigured or switched to another branch (load and rollback refuse    *)
(* it), the limits on the size of snapshots, and power losses (every       *)
(* replacement of the journal is synced before its effect is used).        *)
(*                                                                         *)
(* An action's variants are the same step with a plausible defect; each    *)
(* breaks a property, and none is part of Next.                            *)
(***************************************************************************)
EXTENDS Integers, FiniteSets

CONSTANTS
    Root,          \* the commit the branch starts with
    Elsewhere,     \* a commit of another branch
    Releases,      \* identities of release commits
    Changes,       \* identities of other commits
    Tags,          \* the tags of the planned releases
    Modes,         \* the options a run may have: [push, github]
    Others,        \* what else happens around the runs
    MaxFaults,     \* bound on failing commands, lost requests and crashes
    MaxOthers,     \* bound on what others do to the checkout and to origin
    None

Commits == {Root, Elsewhere} \cup Releases \cup Changes

ASSUME CommitsAssumption ==
    /\ Root # Elsewhere /\ {Root, Elsewhere} \cap (Releases \cup Changes) = {}
    /\ Releases \cap Changes = {}
    /\ None \notin Commits /\ "added" \notin Commits
ASSUME TagsAssumption == Tags # {} /\ IsFiniteSet(Tags)
ASSUME ModesAssumption == Modes \subseteq [push : BOOLEAN, github : BOOLEAN]
ASSUME OthersAssumption ==
    Others \subseteq {"hook file", "hook commit", "commit", "reset", "tag", "push", "remote tag",
                      "merge", "pull", "clone"}
ASSUME BoundsAssumption == MaxFaults \in Nat /\ MaxOthers \in Nat

VARIABLES
    log,           \* the commits made so far
    head,          \* HEAD of the checkout
    tags,          \* its tags
    index,         \* the commit its Git index agrees with, or "added"
    files,         \* its files
    journal,       \* hooversion-transaction.json
    pc,            \* where the run is
    mode,          \* the run's options
    plan,          \* effective: the plan's SourceSha, and whether it has releases
    resuming,      \* existing && !recovered
    resumable,
    aborting,      \* the rollback was started by abort and not by recover
    txn,           \* t.state
    target,        \* the head that rollback read
    accepted,      \* origin's answer to the push
    pending,       \* the tags or files that a loop has yet to visit
    remote,        \* origin's branch and tags
    inflight,      \* pushes that origin may still receive
    github,        \* the source of the GitHub release of each tag
    faults,        \* how many faults there were
    others,        \* how often others did something
    undone,        \* history: commits that a rollback took off the branch
    overtaken,     \* history: commits made between a rollback's two looks at HEAD
    overlooked,    \* history: commits made in a rollback after both of them
    stranded,      \* history: the last rollback found a hook's file in the index only
    attempted,     \* history: commits that a push sent
    done           \* history: the release commits of the finished runs with each option

checkout == <<head, tags, index, files>>
options  == <<mode, resuming, resumable, aborting>>
locals   == <<options, plan, txn, target, accepted, pending>>
origin   == <<remote, inflight, github>>
history  == <<undone, overtaken, overlooked, stranded, attempted, done>>
vars     == <<log, checkout, journal, pc, locals, origin, faults, others, history>>

Phases   == {"prepared", "mutating", "committing", "tagging", "external", "published"}
External == {"external", "published"}
Trees    == [manifest : {"old", "new"}, created : BOOLEAN, output : {"none", "empty", "notes", "new"}]
Refs     == [Tags -> Commits \cup {None}]

Transactions ==
    [phase : Phases, source : Commits, release : BOOLEAN, releaseHead : Commits \cup {None},
     tags : Refs, files : Trees, index : Commits \cup {"added"}]

ASSUME JournalAssumption == None \notin Transactions

\* Program counters: before the deferred abort, in a rollback, and after.
Early     == {"load", "recover", "derive", "verify", "snapshot"}
Restoring == {"rollback", "readTarget", "untag", "removeCreated", "restore", "resetRef", "restoreIndex", "forget"}
Body      == {"clear", "writeEmpty", "finishEmpty", "mutating", "beforeHooks", "update",
              "afterHooks", "committing", "add", "commit", "readHead", "tag", "pushing", "push",
              "pushed", "remoteTags", "publishing", "publish", "write", "published",
              "afterRelease", "finish"}
PCs       == {"idle"} \cup Early \cup Restoring \cup Body

TypeOK ==
    /\ log \in [Commits -> [on : SUBSET Commits, created : BOOLEAN]]
    /\ head \in Commits
    /\ tags \in Refs
    /\ index \in Commits \cup {"added"}
    /\ files \in Trees
    /\ journal \in Transactions \cup {None}
    /\ pc \in PCs
    /\ mode \in Modes \cup {None}
    /\ plan \in [source : Commits, release : BOOLEAN] \cup {None}
    /\ {resuming, resumable, aborting, accepted} \subseteq BOOLEAN
    /\ txn \in Transactions \cup {None}
    /\ target \in Commits \cup {None}
    /\ pending \subseteq Tags \cup {"manifest", "output"}
    /\ remote \in [branch : Commits, tags : Refs]
    /\ inflight \subseteq [commit : Commits, tags : Refs, late : BOOLEAN]
    /\ github \in Refs
    /\ faults \in 0..MaxFaults
    /\ others \in 0..MaxOthers
    /\ undone \subseteq Commits
    /\ overtaken \subseteq Changes /\ overlooked \subseteq Changes
    /\ stranded \in BOOLEAN
    /\ attempted \subseteq Commits
    /\ done \in [push : SUBSET Commits, github : SUBSET Commits]

NoTags == [t \in Tags |-> None]

Init ==
    /\ log = [c \in Commits |->
                 [on |-> IF c \in {Root, Elsewhere} THEN {Root, c} ELSE {}, created |-> FALSE]]
    /\ head = Root
    /\ tags = NoTags
    /\ index = Root
    /\ files = [manifest |-> "old", created |-> FALSE, output |-> "none"]
    /\ journal = None
    /\ pc = "idle"
    /\ mode = None
    /\ plan = None
    /\ resuming = FALSE /\ resumable = FALSE /\ aborting = FALSE
    /\ txn = None
    /\ target = None /\ accepted = FALSE
    /\ pending = {}
    /\ remote = [branch |-> Root, tags |-> NoTags]
    /\ inflight = {}
    /\ github = NoTags
    /\ faults = 0 /\ others = 0
    /\ undone = {} /\ overtaken = {} /\ overlooked = {} /\ stranded = FALSE /\ attempted = {}
    /\ done = [push |-> {}, github |-> {}]

-------------------------------------------------------------------------------
(* Commits. *)

Fresh(c)      == log[c].on = {}
Released(c)   == log[c].on \cap Releases # {}
IsChild(c, s) == c \notin log[s].on /\ log[c].on = log[s].on \cup {c}
Contains(c, b) == log[b].on \subseteq log[c].on

\* A commit on top of b, with the message of a release if it is one of Releases.
Make(c, b, created) ==
    /\ Fresh(c)
    /\ log' = [log EXCEPT ![c] = [on |-> log[b].on \cup {c}, created |-> created]]

\* The message of a commit is the expected one, squash-merge suffix or not.
IsReleaseOf(c, source) == c \in Releases /\ IsChild(c, source)

\* What git status compares, but for the managed outputs.
TreeMatches(c) ==
    /\ files.manifest = IF Released(c) THEN "new" ELSE "old"
    /\ files.created = log[c].created
Clean == TreeMatches(head) /\ index = head

\* CreatePlan: releases for the changes since the last reachable tags.  On an
\* untagged release commit the code plans the next version, but DeriveResumable
\* replaces this plan; on top of one no change is made (AllTagged).
PlanAt(c)        == [source |-> c, release |-> \E t \in Tags : tags[t] \notin log[c].on]
AllTagged(c, ts) == Released(c) => \A t \in Tags : ts[t] \in log[c].on

-------------------------------------------------------------------------------
(* The end of a run, and its errors. *)

Goto(label) == pc' = label

\* Execute returns; what it kept in memory is gone.
Return ==
    /\ Goto("idle")
    /\ txn' = None /\ target' = None /\ pending' = {} /\ resuming' = FALSE
    /\ resumable' = FALSE /\ aborting' = FALSE /\ accepted' = FALSE
    /\ mode' = None /\ plan' = None

\* An error.  The deferred abort leaves an external phase to be resumed, and
\* rolls back otherwise; an error before it, or of a rollback, just returns.
GiveUp ==
    IF pc \in Body /\ txn.phase \notin External
      THEN Goto("rollback") /\ aborting' = TRUE
           /\ UNCHANGED <<mode, resuming, resumable, plan, txn, target, accepted, pending>>
      ELSE Return

\* advance: the phase is set in memory and then saved.
Save(phase) ==
    /\ txn' = [txn EXCEPT !.phase = phase]
    /\ journal' = txn'

Unaffected == UNCHANGED <<log, checkout, journal, origin, faults, history>>

-------------------------------------------------------------------------------
(* The start of a run. *)

\* The command creates its plan and calls Execute.
Start ==
    /\ pc = "idle"
    /\ Goto("load")
    /\ mode' \in Modes
    /\ plan' = PlanAt(head)
    /\ UNCHANGED <<resuming, resumable, aborting, txn, target, accepted, pending>>
    /\ Unaffected

Load ==
    /\ pc = "load"
    /\ txn' = journal
    /\ Goto(IF journal = None THEN "derive" ELSE "recover")
    /\ UNCHANGED <<options, plan, target, accepted, pending>>
    /\ Unaffected

\* releaseHead accepts the source or its exact release commit.
HeadAccepted ==
    \/ head = txn.source
    \/ IsReleaseOf(head, txn.source) /\ txn.releaseHead \in {None, head}
FoundHead == IF head = txn.source THEN txn.releaseHead ELSE head

\* recover of an external phase: the recorded release commit must be HEAD.
Resume ==
    /\ pc = "recover" /\ txn.phase \in External
    /\ IF HeadAccepted /\ FoundHead = head
         THEN /\ Goto("derive")
              /\ txn' = [txn EXCEPT !.releaseHead = head]
              /\ plan' = [source |-> txn.source, release |-> txn.release]
              /\ resuming' = TRUE
              /\ UNCHANGED <<mode, resumable, aborting, target, accepted, pending>>
         ELSE Return
    /\ Unaffected

RecoverLocally ==
    /\ pc = "recover" /\ txn.phase \notin External
    /\ Goto("rollback")
    /\ UNCHANGED locals
    /\ Unaffected

\* DeriveResumable: HEAD is a release commit with no tag elsewhere; then whether
\* the effective plan is resumable.
TagsAgree == \A t \in Tags : tags[t] \in {None, head}

DeriveNothing ==
    /\ pc = "derive"
    /\ resumable' = (plan.release /\ IsReleaseOf(head, plan.source) /\ TagsAgree)
    /\ Goto("verify")
    /\ UNCHANGED <<mode, plan, resuming, aborting, txn, target, accepted, pending>>
    /\ Unaffected

Derive ==
    /\ pc = "derive"
    /\ IF ~resuming /\ head \in Releases /\ ~TagsAgree
         THEN Return
         ELSE /\ IF ~resuming /\ head \in Releases
                   THEN \E s \in Commits :
                          IsChild(head, s) /\ plan' = [source |-> s, release |-> TRUE]
                   ELSE UNCHANGED plan
              /\ resumable' = (plan'.release /\ IsReleaseOf(head, plan'.source) /\ TagsAgree)
              /\ Goto("verify")
              /\ UNCHANGED <<mode, resuming, aborting, txn, target, accepted, pending>>
    /\ Unaffected

\* verifyResumableRemote or verifySource, Validate, and the clean-tree gate, which
\* exempts only the notes that outputs.json names.
Verified ==
    /\ Clean /\ files.output # "notes"
    /\ IF resumable
         THEN remote.branch \in {head, plan.source}
         ELSE /\ head = plan.source /\ remote.branch = plan.source
              /\ plan.release => tags = NoTags

Verify ==
    /\ pc = "verify"
    /\ IF Verified
         THEN Goto(IF resuming THEN "clear" ELSE "snapshot") /\ UNCHANGED locals
         ELSE Return
    /\ Unaffected

\* A commit that was there before this run is never rolled back.
Recorded ==
    [phase |-> IF head = plan.source THEN "prepared" ELSE "external",
     source |-> plan.source, release |-> plan.release,
     releaseHead |-> IF head = plan.source THEN None ELSE head,
     tags |-> tags, files |-> files, index |-> index]

Snapshot ==
    /\ pc = "snapshot"
    /\ txn' = Recorded /\ journal' = txn'
    /\ stranded' = FALSE
    /\ Goto("clear")
    /\ UNCHANGED <<log, checkout, options, plan, target, accepted, pending, origin, faults,
                   undone, overtaken, overlooked, attempted, done>>

-------------------------------------------------------------------------------
(* The body of a run. *)

\* Steps that only touch files, or the journal.
SetFile(file, content) == files' = [files EXCEPT ![file] = content]
FileStep    == UNCHANGED <<log, head, tags, index, journal, options, plan, txn, target, accepted, origin,
                           faults, history>>
JournalStep == UNCHANGED <<log, checkout, options, plan, target, accepted, origin, faults, history>>

\* store.Clear removes the payload and the notes it names, in the order of a Go map.
Clear ==
    /\ pc = "clear"
    /\ \/ /\ files.output = "new"
          /\ SetFile("output", "notes")
          /\ UNCHANGED <<pc, pending>>
       \/ /\ SetFile("output", "none")
          /\ Goto(IF ~plan.release THEN "writeEmpty" ELSE IF resumable THEN "tag" ELSE "mutating")
          /\ pending' = Tags
    /\ FileStep

WriteEmpty ==
    /\ pc = "writeEmpty"
    /\ SetFile("output", "empty")
    /\ Goto("finishEmpty")
    /\ FileStep /\ UNCHANGED pending

FinishEmpty ==
    /\ pc = "finishEmpty"
    /\ journal' = None
    /\ Return
    /\ UNCHANGED <<log, checkout, origin, faults, history>>

Mutating ==
    /\ pc = "mutating"
    /\ Save("mutating")
    /\ Goto("beforeHooks")
    /\ JournalStep /\ UNCHANGED pending

\* runHooks: a hook may write files, or make a commit although it should not.
RunHooks ==
    /\ \/ pc = "beforeHooks" /\ Goto("update")
       \/ pc = "afterHooks" /\ Goto("committing")
    /\ \/ UNCHANGED <<log, head, index, files>>
       \/ /\ "hook file" \in Others
          /\ SetFile("created", TRUE)
          /\ UNCHANGED <<log, head, index>>
       \/ /\ "hook commit" \in Others /\ index = head
          /\ \E c \in Changes : Make(c, head, log[head].created) /\ head' = c /\ index' = c
          /\ UNCHANGED files
    /\ UNCHANGED <<tags, journal, locals, origin, faults, history>>

\* verifyLocalSource after the hooks, then the manifests and changelogs.
Update ==
    /\ pc = "update"
    /\ IF head = plan.source
         THEN /\ SetFile("manifest", "new")
              /\ Goto("afterHooks")
              /\ UNCHANGED locals
         ELSE GiveUp /\ UNCHANGED files
    /\ UNCHANGED <<log, head, tags, index, journal, origin, faults, history>>

Committing ==
    /\ pc = "committing"
    /\ IF head = plan.source
         THEN /\ Save("committing")
              /\ Goto("add")
              /\ UNCHANGED <<options, plan, target, accepted, pending>>
         ELSE GiveUp /\ UNCHANGED journal
    /\ UNCHANGED <<log, checkout, origin, faults, history>>

\* CreateReleaseCommit: git add --all, then git commit.
Add ==
    /\ pc = "add"
    /\ index' = "added"
    /\ Goto("commit")
    /\ UNCHANGED <<log, head, tags, files, journal, locals, origin, faults, history>>

\* Git status always has the new manifests to show, so that there is a commit.  When
\* the identities are used up, which bounds the model, git commit fails.
Commit ==
    /\ pc = "commit"
    /\ \/ /\ \E c \in Releases : Make(c, head, files.created) /\ head' = c /\ index' = c
          /\ Goto("readHead")
          /\ UNCHANGED locals
       \/ /\ ~\E c \in Releases : Fresh(c)
          /\ GiveUp
          /\ UNCHANGED <<log, head, index>>
    /\ UNCHANGED <<tags, files, journal, origin, faults, history>>

ReadHead ==
    /\ pc = "readHead"
    /\ IF HeadAccepted
         THEN /\ txn' = [txn EXCEPT !.releaseHead = FoundHead, !.phase = "tagging"]
              /\ journal' = txn'
              /\ Goto("tag")
              /\ pending' = Tags
              /\ UNCHANGED <<options, plan, target, accepted>>
         ELSE GiveUp /\ UNCHANGED journal
    /\ UNCHANGED <<log, checkout, origin, faults, history>>

TagUnpushed(t) ==
    /\ pc = "tag" /\ t \in pending
    /\ IF tags[t] # None /\ ~resumable
         THEN GiveUp /\ UNCHANGED tags
         ELSE /\ tags' = [tags EXCEPT ![t] = IF @ = None THEN head ELSE @]
              /\ pending' = pending \ {t}
              /\ Goto(IF pending' # {} THEN "tag" ELSE IF resumable THEN "remoteTags" ELSE "pushing")
              /\ UNCHANGED <<options, plan, txn, target, accepted>>
    /\ UNCHANGED <<log, head, index, files, journal, origin, faults, history>>

\* git tag -a, which refuses an existing tag; a resumed release keeps its tags.
Tag(t) ==
    /\ pc = "tag" /\ t \in pending
    /\ IF tags[t] # None /\ ~resumable
         THEN GiveUp /\ UNCHANGED tags
         ELSE /\ tags' = [tags EXCEPT ![t] = IF @ = None THEN head ELSE @]
              /\ pending' = pending \ {t}
              /\ Goto(IF pending' = {} THEN "pushing" ELSE "tag")
              /\ UNCHANGED <<options, plan, txn, target, accepted>>
    /\ UNCHANGED <<log, head, index, files, journal, origin, faults, history>>

\* The phase is durable before the first request leaves.
Pushing ==
    /\ pc = "pushing"
    /\ IF mode.push
         THEN Save("external") /\ Goto("push")
         ELSE Goto("remoteTags") /\ UNCHANGED <<txn, journal>>
    /\ JournalStep /\ UNCHANGED pending

Push ==
    /\ pc = "push"
    /\ inflight' = {[p EXCEPT !.late = TRUE] : p \in inflight}
                      \cup {[commit |-> head, tags |-> tags, late |-> FALSE]}
    /\ attempted' = attempted \cup log[head].on
    /\ Goto("pushed")
    /\ UNCHANGED <<log, checkout, journal, locals, remote, github, faults,
                   undone, overtaken, overlooked, stranded, done>>

\* Origin has answered, or the command has waited for its answer in vain.
PushReturns ==
    /\ pc = "pushed"
    /\ \A p \in inflight : p.late
    /\ IF accepted
         THEN Goto("remoteTags") /\ UNCHANGED locals
         ELSE GiveUp
    /\ Unaffected

\* Publication without a push needs the tags on origin.
RemoteTags ==
    /\ pc = "remoteTags"
    /\ IF mode.github /\ ~mode.push /\ \E t \in Tags : remote.tags[t] # head
         THEN GiveUp
         ELSE /\ Goto(IF mode.github THEN "publishing" ELSE "write")
              /\ UNCHANGED locals
    /\ Unaffected

PublishingUnknown ==
    /\ pc = "publishing"
    /\ Save("publishing")
    /\ Goto("publish")
    /\ pending' = Tags
    /\ JournalStep

Publishing ==
    /\ pc = "publishing"
    /\ Save("external")
    /\ Goto("publish")
    /\ pending' = Tags
    /\ JournalStep

\* publishGitHubReleases: an existing release must be the same one.
Publish(t) ==
    /\ pc = "publish" /\ t \in pending
    /\ IF github[t] \in {None, plan.source}
         THEN /\ github' = [github EXCEPT ![t] = plan.source]
              /\ pending' = pending \ {t}
              /\ Goto(IF pending' = {} THEN "write" ELSE "publish")
              /\ UNCHANGED <<options, plan, txn, target, accepted>>
         ELSE GiveUp /\ UNCHANGED github
    /\ UNCHANGED <<log, checkout, journal, remote, inflight, faults, history>>

\* store.Write: the notes of the release first, then the payload that names them.
WriteNotes ==
    /\ pc = "write" /\ files.output # "notes"
    /\ SetFile("output", "notes")
    /\ UNCHANGED <<pc, pending>>
    /\ FileStep

Write ==
    /\ pc = "write" /\ files.output = "notes"
    /\ SetFile("output", "new")
    /\ Goto("published")
    /\ FileStep /\ UNCHANGED pending

Published ==
    /\ pc = "published"
    /\ Save("published")
    /\ Goto("afterRelease")
    /\ JournalStep /\ UNCHANGED pending

AfterRelease ==
    /\ pc = "afterRelease"
    /\ Goto("finish")
    /\ UNCHANGED locals
    /\ Unaffected

Finish ==
    /\ pc = "finish"
    /\ journal' = None
    /\ done' = [option \in {"push", "github"} |->
                   done[option] \cup IF mode[option] THEN {txn.releaseHead} ELSE {}]
    /\ Return
    /\ UNCHANGED <<log, checkout, origin, faults, undone, overtaken, overlooked, stranded, attempted>>

-------------------------------------------------------------------------------
(* rollback, whose every step may be repeated by a later run. *)

Rollback ==
    /\ pc = "rollback"
    /\ IF HeadAccepted
         THEN /\ txn' = [txn EXCEPT !.releaseHead = FoundHead]
              /\ target' = head
              /\ Goto("readTarget")
              /\ UNCHANGED <<options, plan, accepted, pending>>
         ELSE Return
    /\ Unaffected

\* HEAD is read again, unchecked, and this is what the rollback goes by.
ReadTarget ==
    /\ pc = "readTarget"
    /\ target' = head
    /\ pending' = Tags
    /\ Goto("untag")
    /\ UNCHANGED <<options, plan, txn, accepted>>
    /\ Unaffected

\* A new tag is deleted if it is on the release commit; any other is refused.  (Its
\* commit and its object are read one after the other, here in one step.)
Ours(t) == txn.tags[t] = None /\ tags[t] = target /\ txn.releaseHead # None

UntagMissing(t) ==
    /\ pc = "untag" /\ t \in pending
    /\ IF (tags[t] # None /\ tags[t] = txn.tags[t]) \/ Ours(t)
         THEN /\ tags' = [tags EXCEPT ![t] = txn.tags[t]]
              /\ pending' = pending \ {t}
              /\ Goto(IF pending' = {} THEN "removeCreated" ELSE "untag")
              /\ UNCHANGED <<options, plan, txn, target, accepted>>
         ELSE Return /\ UNCHANGED tags
    /\ UNCHANGED <<log, head, index, files, journal, origin, faults, history>>

Untag(t) ==
    /\ pc = "untag" /\ t \in pending
    /\ IF tags[t] = txn.tags[t] \/ Ours(t)
         THEN /\ tags' = [tags EXCEPT ![t] = txn.tags[t]]
              /\ pending' = pending \ {t}
              /\ Goto(IF pending' = {} THEN "removeCreated" ELSE "untag")
              /\ UNCHANGED <<options, plan, txn, target, accepted>>
         ELSE Return /\ UNCHANGED tags
    /\ UNCHANGED <<log, head, index, files, journal, origin, faults, history>>

\* Untracked files and those of the release commit, but for the snapshot's.
Untracked == files.created /\ index \in Commits /\ ~log[index].created
Committed == log[target].created # log[txn.source].created

RemoveCreated ==
    /\ pc = "removeCreated"
    /\ IF (Untracked \/ Committed) /\ ~txn.files.created
         THEN SetFile("created", FALSE)
         ELSE UNCHANGED files
    /\ stranded' = (index = "added")
    /\ pending' = {"manifest", "output"}
    /\ Goto("restore")
    /\ UNCHANGED <<log, head, tags, index, journal, options, plan, txn, target, accepted, origin, faults,
                   undone, overtaken, overlooked, attempted, done>>

Restore(file) ==
    /\ pc = "restore" /\ file \in pending
    /\ SetFile(file, txn.files[file])
    /\ pending' = pending \ {file}
    /\ Goto(IF pending' = {} THEN "resetRef" ELSE "restore")
    /\ FileStep

OffBranch == log[head].on \ log[txn.source].on
ResetRefUnchecked ==
    /\ pc = "resetRef"
    /\ head' = txn.source
    /\ undone' = undone \cup OffBranch
    /\ Goto("restoreIndex")
    /\ UNCHANGED locals
    /\ UNCHANGED <<log, tags, index, files, journal, origin, faults, overtaken, overlooked, stranded,
                   attempted, done>>

\* update-ref compares with the head that was read.
ResetRef ==
    /\ pc = "resetRef"
    /\ IF target = txn.source
         THEN Goto("restoreIndex") /\ UNCHANGED <<head, undone, locals>>
       ELSE IF head = target
         THEN /\ head' = txn.source
              /\ undone' = undone \cup OffBranch
              /\ Goto("restoreIndex")
              /\ UNCHANGED locals
         ELSE Return /\ UNCHANGED <<head, undone>>
    /\ UNCHANGED <<log, tags, index, files, journal, origin, faults, overtaken, overlooked, stranded,
                   attempted, done>>

RestoreIndexSkipped ==
    /\ pc = "restoreIndex"
    /\ Goto("forget")
    /\ UNCHANGED <<log, checkout, journal, locals, origin, faults, history>>

RestoreIndex ==
    /\ pc = "restoreIndex"
    /\ index' = txn.index
    /\ Goto("forget")
    /\ UNCHANGED <<log, head, tags, files, journal, locals, origin, faults, history>>

\* finish; a recovery goes on with a new plan.
Forget ==
    /\ pc = "forget"
    /\ journal' = None
    /\ IF aborting
         THEN Return
         ELSE /\ Goto("derive")
              /\ plan' = PlanAt(head)
              /\ UNCHANGED <<options, txn, target, accepted, pending>>
    /\ UNCHANGED <<log, checkout, origin, faults, history>>

-------------------------------------------------------------------------------
(* Faults: a command fails, a phase is set that could not be saved (an error *)
(* of the save after the rename is one of the next step), the process is     *)
(* killed, a request is lost.                                                *)

Fault == faults < MaxFaults /\ faults' = faults + 1

CommandFails ==
    /\ pc # "idle" /\ Fault
    /\ GiveUp
    /\ UNCHANGED <<log, checkout, journal, origin, history>>

SaveFails ==
    /\ pc \in {"snapshot", "publishing", "published"} \/ (pc = "pushing" /\ mode.push)
    /\ Fault
    /\ journal' = IF pc = "snapshot" THEN Recorded ELSE journal
    /\ Return
    /\ UNCHANGED <<log, checkout, origin, history>>

Crash ==
    /\ pc # "idle" /\ Fault
    /\ Return
    /\ UNCHANGED <<log, checkout, journal, origin, history>>

Lose(p) ==
    /\ p \in inflight /\ Fault
    /\ inflight' = inflight \ {p}
    /\ UNCHANGED <<log, checkout, journal, pc, locals, remote, github, history>>

-------------------------------------------------------------------------------
(* Origin receives a push atomically: all its refs or none. *)

Acceptable(p) ==
    /\ Contains(p.commit, remote.branch)
    /\ \A t \in Tags : remote.tags[t] \in {None, p.tags[t]}

Receive(p) ==
    /\ p \in inflight
    /\ inflight' = inflight \ {p}
    /\ remote' = IF Acceptable(p) THEN [branch |-> p.commit, tags |-> p.tags] ELSE remote
    /\ accepted' = IF pc = "pushed" /\ ~p.late THEN Acceptable(p) ELSE accepted
    /\ UNCHANGED <<log, checkout, journal, pc, options, plan, txn, target, pending, github,
                   faults, history>>

-------------------------------------------------------------------------------
(* Others: people and programs that the lock does not keep away. *)

Idle == pc = "idle"
OtherThanCheckout == UNCHANGED <<journal, pc, locals, origin, faults, history>>
OtherThanOrigin   == UNCHANGED <<checkout, journal, pc, locals, inflight, github, faults, history>>

CheckOut(c) ==
    /\ head' = c /\ index' = c
    /\ files' = [files EXCEPT !.manifest = IF Released(c) THEN "new" ELSE "old",
                              !.created = log[c].created]

\* Someone commits what the index holds, but not from the last look at HEAD to the push,
\* where commands name HEAD: the documented limits leave that to the user.
CommitChange ==
    /\ "commit" \in Others /\ index = head
    /\ ~resumable /\ pc \notin Body \cup {"snapshot"}
    /\ journal = None => AllTagged(head, tags)
    /\ \E c \in Changes :
          /\ Make(c, head, log[head].created) /\ head' = c /\ index' = c
          /\ overtaken' = overtaken \cup IF pc = "readTarget" THEN {c} ELSE {}
          /\ overlooked' = overlooked \cup IF pc \in Restoring \ {"rollback", "readTarget"} THEN {c} ELSE {}
    /\ UNCHANGED <<tags, files, journal, pc, locals, origin, faults, undone, stranded, attempted, done>>

\* git reset --hard to an earlier commit, between two runs.
Reset ==
    /\ "reset" \in Others /\ Idle
    /\ \E c \in log[head].on : CheckOut(c)
    /\ UNCHANGED <<log, tags>>
    /\ OtherThanCheckout

\* Someone makes the tag on another branch, or moves it to the source of a journal.
\* Not between the last look at the tag (git tag, or isResumable) and the push.
SetTag(t) ==
    /\ "tag" \in Others
    /\ \/ /\ tags[t] = None /\ ~resumable
          /\ tags' = [tags EXCEPT ![t] = Elsewhere]
       \/ /\ Idle /\ journal # None
          /\ tags' = [tags EXCEPT ![t] = journal.source]
    /\ UNCHANGED <<log, head, index, files>>
    /\ OtherThanCheckout

\* git pull between two runs, but not before a rollback, which would take a pulled
\* release commit for its own: the documented limits leave that to the user, too.
Pull ==
    /\ "pull" \in Others /\ Idle /\ Clean
    /\ journal # None => journal.phase \in External
    /\ remote.branch # head /\ Contains(remote.branch, head)
    /\ CheckOut(remote.branch)
    /\ tags' = [t \in Tags |-> IF tags[t] = None THEN remote.tags[t] ELSE tags[t]]
    /\ UNCHANGED log
    /\ OtherThanCheckout

\* The next run works in a new clone and the old checkout is gone.
Clone ==
    /\ "clone" \in Others /\ Idle
    /\ head' = remote.branch /\ index' = head'
    /\ tags' = remote.tags
    /\ files' = [manifest |-> IF Released(head') THEN "new" ELSE "old",
                 created |-> log[head'].created, output |-> "none"]
    /\ journal' = None
    /\ UNCHANGED <<log, pc, locals, origin, faults, history>>

\* Someone pushes a change, or merges a pull request with the release commit.
PushChange ==
    /\ "push" \in Others /\ AllTagged(remote.branch, remote.tags)
    /\ \E c \in Changes :
          /\ Make(c, remote.branch, log[remote.branch].created)
          /\ remote' = [remote EXCEPT !.branch = c]
    /\ OtherThanOrigin

MergeRelease ==
    /\ "merge" \in Others /\ ~Released(remote.branch)
    /\ \E c \in Releases : Make(c, remote.branch, FALSE) /\ remote' = [remote EXCEPT !.branch = c]
    /\ OtherThanOrigin

PushTag(t) ==
    /\ "remote tag" \in Others /\ remote.tags[t] = None
    /\ remote' = [remote EXCEPT !.tags[t] = Elsewhere]
    /\ UNCHANGED log
    /\ OtherThanOrigin

-------------------------------------------------------------------------------
Execute ==
    \/ Load \/ Resume \/ RecoverLocally \/ Derive \/ Verify \/ Snapshot
    \/ Clear \/ WriteEmpty \/ FinishEmpty \/ Mutating \/ RunHooks \/ Update
    \/ Committing \/ Add \/ Commit \/ ReadHead \/ (\E t \in Tags : Tag(t))
    \/ Pushing \/ Push \/ PushReturns \/ RemoteTags
    \/ Publishing \/ (\E t \in Tags : Publish(t)) \/ WriteNotes \/ Write \/ Published
    \/ AfterRelease \/ Finish
    \/ Rollback \/ ReadTarget \/ (\E t \in Tags : Untag(t)) \/ RemoveCreated
    \/ (\E file \in {"manifest", "output"} : Restore(file))
    \/ ResetRef \/ RestoreIndex \/ Forget

Faulty == CommandFails \/ SaveFails \/ Crash \/ (\E p \in inflight : Lose(p))

Intervene ==
    /\ others < MaxOthers /\ others' = others + 1
    /\ \/ CommitChange \/ Reset \/ Pull \/ Clone \/ PushChange \/ MergeRelease
       \/ \E t \in Tags : SetTag(t) \/ PushTag(t)

Arrive == \E p \in inflight : Receive(p)

Next ==
    \/ UNCHANGED others /\ (Start \/ Execute \/ Faulty \/ Arrive)
    \/ Intervene

Spec == Init /\ [][Next]_vars

\* Someone runs the command again, a run goes on, and origin gets to a request.
FairSpec ==
    /\ Spec
    /\ WF_vars(Start /\ UNCHANGED others)
    /\ WF_vars(Execute /\ UNCHANGED others)
    /\ WF_vars(Arrive /\ UNCHANGED others)

-------------------------------------------------------------------------------
\* A commit that this program sent to origin is never taken off the branch by a
\* rollback, whatever the push answered and whenever it arrives.
SentNeverUndone == undone \cap attempted = {}

\* A rollback takes no commit off the branch that a hook or someone else made, not
\* even one made between its reading HEAD and its update of the branch, but for one
\* made between its check of HEAD (transaction.go:319) and that reading (:322).
OthersCommitsKept == undone \cap Changes \subseteq overtaken

\* A rollback takes only commits off the branch that this program made and never
\* sent, and those made between its two looks at HEAD.
RollbackSpares == SentNeverUndone /\ OthersCommitsKept

\* Between two runs a checkout without a journal is whole: its files and index
\* agree with HEAD, no tag is left on a commit that was rolled back, and there are
\* no release notes without the payload that names them (output.go:238).  There are
\* two exceptions: a hook's file stays when a rollback finds it in the index that git
\* add left, neither untracked nor committed (transaction.go:353, :359); and a commit
\* that someone makes during a rollback, after its last look at HEAD, gets the index
\* of its parent if there is nothing to reset (:419, :429).
RestoredOrJournaled ==
    pc = "idle" /\ journal = None =>
        /\ files.manifest = (IF Released(head) THEN "new" ELSE "old")
        /\ files.created = log[head].created \/ stranded
        /\ index = head \/ head \in overlooked
        /\ \A t \in Tags : tags[t] \notin undone
        /\ files.output # "notes"

\* On origin the tags of a release appear together, on a commit of the branch.
PublishedTogether ==
    \A t \in Tags : remote.tags[t] \in Releases =>
        remote.tags[t] \in log[remote.branch].on /\ \A u \in Tags : remote.tags[u] = remote.tags[t]

\* The branch on origin gets one release commit for the version, over any number
\* of failed, resumed and repeated runs, clones and late pushes.
OneRelease == Cardinality(log[remote.branch].on \cap Releases) <= 1

\* A GitHub release exists only for a tag that origin has on a release commit.
GitHubFollowsTags == \A t \in Tags : github[t] # None => remote.tags[t] \in Releases

\* What others see on origin and on GitHub is nothing of the release, or one release.
OneWholeRelease == PublishedTogether /\ OneRelease /\ GitHubFollowsTags

\* A run that reports a published release has published all of it.
FinishedIsComplete ==
    /\ done.push \subseteq log[remote.branch].on
    /\ \A c \in done.push \cup done.github, t \in Tags : remote.tags[t] = c
    /\ done.github # {} => \A t \in Tags : github[t] # None

\* A run that resumes a publication stopped between the notes of a release and the
\* payload that names them: the clean-tree gate refuses such notes from then on.
NotesInTheWay == files.output = "notes" /\ journal # None /\ journal.phase \in External

\* After finitely many faults a repeated release is published and nothing is left
\* to recover, unless notes without their payload are in the way for ever.
ReleaseCompletes ==
    \/ /\ <>(\A t \in Tags : remote.tags[t] \in Releases /\ github[t] # None)
       /\ []<>(pc = "idle" /\ journal = None)
    \/ <>[]NotesInTheWay
===============================================================================

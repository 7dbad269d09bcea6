# Formal models of hooversion

hooversion plans and publishes releases of Git repositories. It has two front
ends. The command line (`cmd/hooversion`) plans, writes and pushes a release of
the checkout it runs in. The App server (`cmd/versionhoo-app`) receives GitHub
`workflow_run` webhooks, keeps each one in a durable backlog on disk, and runs a
release for it in a fresh clone. This directory holds TLA+ models of the parts
in which order, failure and concurrency decide whether the program is right, the
instances TLC checks, and proofs checked by TLAPS.

Paths below are relative to `src/`; `app/` stands for `internal/app/`.

## 1. The system

### Components

| Component | State it keeps | Operations | What makes it correct |
|---|---|---|---|
| Release task queue, `app/queue.go` | chains of tasks per branch, a gate per repository, slots, `pending`, a wait group | `Enqueue`, `drain`, `runForRepository`, `runWithRetry`, `Cancel`, `Wait` | FIFO per branch; one release per repository; at most *MaxConcurrent* at once; nothing leaks or is lost on errors, retries and cancellation |
| Webhook spool, `app/spool.go` | record and marker files, counters, claims | `NewWebhookSpool` (reconcile, recount), `Admit`, `claimNext`, `unclaim`, `AckTerminal`, `Discard`, `Start`, `Stop`, `Close` | an answered webhook survives any stop; a finished one does not come back; order of admission |
| Webhook server and consumer, `app/server.go` | handlers, claimed records' closures, retry timers | HTTP handler, consumer closures, `scheduleAckRetry`, `serveApp`, `RunContext` | deduplication over the life of a record; replay of what a signal stopped; nothing touches the spool after its close |
| Deduper, `app/dedupe.go` | reserved and succeeded keys with a time to live | `Reserve`, `Succeed`, `Release`, pruning | a key is reserved while its record lives |
| Spool directory and lock, `app/spool_root_*.go`, `spool_lock_*.go` | an OS lock and directory handle | open, lock | one owner at a time |
| Webhook filter, `app/filter.go` | none | decode, validate, derive keys | starts jobs only for tested pushes of configured branches and never for release commits |
| Release runner, `app/runner.go`, `github.go`, `auth.go` | a temporary clone, a check run | run one job | releases only the tested commit; reports success only for a published release |
| Release transaction, `release/transaction.go`, `release/release.go` | a journal with a phase, a snapshot, Git refs, files | load, recover, snapshot, advance, rollback, finish, `Execute` | local changes are undone as a whole; what may have reached the remote is never undone |
| Release resumption, `release/resume.go` | none | derive a plan from commit and tags | resumes exactly the interrupted release |
| GitHub client, `githubapi/` | releases, assets and check runs on GitHub | create, list, upload, verify | a publication that ends without an error is whole, whatever was lost, late or repeated |
| Release plan, `plan/`, `routing/`, `semver/`, `commit/` | none | windows, dependency fixpoint, routing, bumps | every change released once for every package it touches, versions grow |
| Output store, `output/` | managed artefacts | `Clear`, `Write` | no mixture of two releases |
| Safe file system, `safefs/` | none of its own | atomic replacement, restore, lock | all or nothing |
| Manifests, `manifest/`, `tomledit/`, `changelog/` | files of the checkout | rewrite versions and requirements | manifests agree with each other; only declared files are written |
| Configuration, `config/` | none | detect, normalize, migrate | refuses cycles, shared manifests and unknown dependencies |
| Release verification, `verifyrelease/` | none | look up, list, download, attest | PASSED means one whole build |
| Git wrapper `git/`, CLI `cli/` | none | subprocesses, arguments | see *Not modelled* |

### How the App's parts interact

```
 HTTP handler --Reserve--> deduper          signal context
      |                       ^                  | cancels
      +--Admit--> spool       | Release/Succeed  v
                    |         |              release task queue
                 drainer --claimNext/Enqueue-->  worker per branch
                    ^                            |   runs the closure of a record:
                    +------unclaim / AckTerminal-+   ReleaseFromWorkflowRunContext,
                          (retried on a timer)       then AckTerminal, then the deduper
```

A handler reserves the delivery id and then the workflow run, admits the record
and answers 202. The drainer claims the oldest record and hands its closures to
the queue. A worker runs the release and acknowledges the record with a terminal
marker; a failing acknowledgement is retried from a timer through the queue
again. On a signal the queue's context is done at once, the drainer stops, the
listener closes, the queue is waited for, and the spool is closed, which passes
its ownership on.

### How a release's parts interact

```
 Execute --load/recover--> journal (in Git's directory)     origin: branch, tags
    |                         ^                                 ^        |
    +--snapshot, advance------+                                 | push   | ls-remote
    +--hooks, manifests--> files --git add/commit/tag--> refs --+        v
    +--on an error: abort --> rollback (local phases)       DeriveResumable,
    |                         or keep the journal (external) verifyResumableRemote
    +--publishGitHubReleases--> GitHub      +--Clear, Write--> outputs
```

A run first recovers what an earlier run left behind. It journals its phase
before each kind of change. Until the phase is `external` an error, or the next
run after a crash, rolls the checkout back; from then on something may have
reached the remote, and the next run resumes instead. In the App the next run
works in a fresh clone without a journal, and resumes from commits and tags alone.

### How an App job's parts interact

```
 webhook --ShouldHandle--> job: token, check run, clone, verifySource
                             |
                             +--git push --atomic--> origin     <-- people push
                             +--publishGitHubReleases--> GitHub <-- an operator publishes,
                             +--completeCheckRun                    people edit
                                                           verifyrelease reads
```

The queue runs a repository's jobs one at a time and the spool replays what failed
or was cut off, so several attempts for one event follow each other, each in a
fresh clone; what an earlier attempt sent may still arrive during a later one.

### What is hard about it

* *Interleaving*: a worker retires its chain while a task is added to it; the
  last user of a gate drops it from the map while another branch arrives; two
  handlers hold half of their reservations; a retry timer fires during shutdown.
* *Recovery*: a release, or its rollback, stops between any two effects on files,
  index, branch, tags and journal, and the next run repeats it on what it finds;
  a push may arrive although it failed, or long after.
* *Failure*: every file operation of the spool may fail and the process or the
  machine may stop between any two; an acknowledgement may fail after the
  release has happened, before or after its marker is durable.
* *Ordering*: a claimed record is put back when the queue is full; sequence
  numbers are computed afresh at every start.
* *Stale reads*: a plan is made before the lock is taken; an inventory is read page
  by page while others upload; a tag names HEAD and not the release commit.
* *Timeouts and retries*: attempts with a delay that holds the gate and a slot;
  reservations that expire while their record lives.

`PROJECT.json` lists each hazard with its line and the properties that cover it.

## 2. The modules

| Module | Models | Relation |
|---|---|---|
| `RepositoryExecutor` | what a task queue promises its callers | abstract |
| `ReleaseTaskQueue` | `app/queue.go` | implements `RepositoryExecutor` |
| `ReleaseTaskQueue_proofs` | | theorems about `ReleaseTaskQueue` |
| `DurableBacklog` | what the spool promises the service | abstract |
| `WebhookSpool` | `app/spool.go` | implements `DurableBacklog` |
| `WebhookSpool_proofs` | | theorems about `WebhookSpool` |
| `WebhookSpool_refinement` | | extends `WebhookSpool_proofs`: the implementation of `DurableBacklog` |
| `WebhookService` | `app/server.go`, `app/dedupe.go` | built on the actions of `DurableBacklog` |
| `WebhookService_proofs` | | theorems about `WebhookService` |
| `ReleaseTransaction` | `release/transaction.go`, `release.go`, `resume.go`, and the commands of `git/git.go` that change something | |
| `ReleaseTransaction_proofs` | | theorems about `ReleaseTransaction` |
| `PackageConfig` | `config/config.go` (`Normalize`), `routing/` | constant operators |
| `Manifests` | `manifest/` | extends `PackageConfig` |
| `ReleasePlan` | `plan/plan.go`, `semver/`, the checks of `Execute`, the release lock | extends `Manifests` |
| `ReleasePlan_proofs` | | theorems about `ReleasePlan` |
| `GitHubPublication` | `publishGitHubReleases` (`release/release.go:460`), `githubapi/` | |
| `GitHubPublication_proofs` | | lemmas about the steps of `GitHubPublication` |
| `ReleaseVerifier` | `verifyrelease/verify.go` | extends `GitHubPublication`, reads its state |
| `ReleaseJob` | `app/filter.go`, `app/runner.go`, `app/github.go` | extends `ReleaseVerifier`, composes all three |
| `ReleaseJob_proofs` | | theorems about `ReleaseJob` |
| `MC*` | instances for TLC | |

Some actions are preceded by *variants*: the same step with a plausible defect
(a dropped guard, a failed sync that goes unnoticed, the newest instead of the
oldest). They belong to no `Next`. Each is there because it breaks one of the
module's properties; `PROJECT.json` pairs them. The commented *mutants* of
`Manifests` and `ReleasePlan` are the same.

### ReleaseTaskQueue

A step is one critical section of `q.mu`, one channel operation, or one call
into a task. A chain exists exactly while its worker goroutine does, so the
worker is named by its key and `pc[k]` is where `drain` and the functions it
calls have got to:

| `pc` | code |
|---|---|
| `take` | top of `drain`'s loop, before the first critical section |
| `enter`, `gate`, `slot` | `runForRepository`: before registering on the gate, at the gate's select, at the slot's select |
| `start`, `running`, `delay` | `runWithRetry`: before an attempt, in the task, in the retry delay |
| `releaseSlot`, `releaseGate`, `leave` | the three deferred functions, in the order they run |
| `settle`, `report`, `done` | `drain`'s second critical section, its callbacks, `wg.Done()` |

A gate object is named by the task that allocated it, since the map drops a gate
with its last user and a later task allocates another for the same repository:
that two live objects never serve one repository is a result and not built in. A
channel used as a semaphore is the set of workers whose token it holds. Keys are
records of a repository name and a branch; `queueRepository` folds the case of
the name, as the code does.

The instance `Executor` at the end of the module maps the queue to
`RepositoryExecutor`, by where each worker is: a task waits while it is in a chain or
its worker has not got past the gate and the slot, runs while its worker holds a
slot, and ends in the critical section of `Settle`.

### WebhookSpool

The directory is modelled twice. `cache` is what the running process reads.
`disk` maps each name to the *set* of contents it may show after a power loss: a
rename or a removal adds its result to the set, a successful directory sync
makes the cache's content the only one. `PowerLoss` picks any combination. `op`
is the operation that holds `s.mu` and where it is, so that a failure or a stop
can come between any two of its file operations; `Exit` ends the process at any
time. `AckTerminal` and the reconciliation at startup share the steps of the code
they share. The ghost variables `fate`, `offered`, `decided` and `terminal`
record what happened to each admission.

`Discard` renames a record to a name no scan reads. The rename may fail, or find no
free name, and nobody is told (`quarantineLocked`, `spool.go:531`), while the count is
lowered all the same (`:920`). `uncounted` holds the names of the records that are
there and not counted, since the process started: those, and the refused records that
an admission could not take back. A record is discarded at most once in a process,
since only the scan at startup calls it.

A power loss requires `process = "down"`, which `Exit` reaches from any state
with the directory untouched, so a machine that stops while an operation is
under way is `Exit` followed by `PowerLoss`.

The mapping to `DurableBacklog`, `BacklogState`, looks at one admission at a time: what
its consumer holds and has decided, whether its record can be read, and, once an
outcome was acknowledged, whether a power loss can still bring the record back
without a marker.

### DurableBacklog and WebhookService

`DurableBacklog` has no files: an entry is absent, uncertain, pending, claimed,
being acknowledged or done, and a restart makes every unfinished promise pending
again. `WebhookService` extends it and uses its actions as conjuncts of its own:
`AdmitSucceeds` contains `Promise`, `EnqueueClaimed` contains `Unclaim` on its
rejecting path, and so on. The service is therefore checked against the
promise, and the spool is checked to keep that promise.

`stage[e]` is where the closures of a claimed record are between two steps that
another goroutine may come between: the task, `onFinalFailure`, the
acknowledgement, the two releases of its keys, the retry timer. `phase` is the
life of the process as `serveApp` and `RunContext` order it.

There are four ways for a workflow run to lose the protection of its reservation
(`Lapse`): a key expires; a refused record stays visible; a duplicate found at start
cannot be quarantined and is drained beside the original (`DiscardFails`); or the
scan at start fails, which is logged, and the service runs with nothing reserved
while its drainer finds the records later (`ServeUnscanned`, `server.go:370`).
`unguarded` are the workflow runs this has happened to since the process started.

### ReleaseTransaction

A step is one effect of a run on the checkout, the journal, origin or GitHub, so
that a command that fails after its effect is one that fails before the next
step. `pc` names the place in `Execute`, in the deferred `abort`, or in
`rollback`. `txn` is the transaction in memory and `journal` the one on disk;
`plan` is the effective plan. The checkout is `head`, `tags`, `index` (the commit
whose tree it holds, or `added` between `git add` and `git commit`) and `files`:
the manifests, a file that a hook may create, and the managed outputs. A commit
is an identity with a history (`log`), and one version with a tag for each
package is to be released.

`GiveUp` is every error of the body: the deferred `abort` starts a rollback in a
local phase and leaves the journal in an external one. `Crash` stops the run
anywhere, `CommandFails` makes any command fail, and `SaveFails` is a phase that
was set in memory and could not be saved. A push is a message: `Receive` may
deliver it after the run gave up on it, and `Lose` drops it.

Others act between and during runs, as far as the lock permits: hooks that create
a file or make a commit, commits, `reset --hard`, tags, pulls, a fresh clone (the
App's next job, `runner.go:314`), and on origin pushed changes, tags and merged
release pull requests. The documented limits
(`docs/architecture-hardening-2026-10-03.md:55`) exclude other Git processes where
the program names HEAD or a tag instead of an identity; accordingly nobody commits
or moves a tag between the last look at it and the push, and nobody pulls onto a
checkout whose journal calls for a rollback, which would take a pulled release
commit for its own.

`rollback` looks at HEAD twice: `releaseHead` checks it (`transaction.go:319`, action
`Rollback`), and `:322` reads it again unchecked (`ReadTarget`). The second value,
`target`, is what its tags, files and `update-ref` go by.

`undone`, `attempted` and `done` are history: the commits a rollback took off the
branch, those a push has sent, and what finished runs reported. So are `overtaken`, the
commits others made between the two looks, `overlooked`, those made in a rollback after
them, and `stranded`: the last rollback found the index that `git add` left, in which a
hook's file is neither untracked nor committed.

### PackageConfig, Manifests and ReleasePlan

`Normalize` and its refusals are operators of a configuration as it is written:
names default to the manifest's, dependencies are resolved by canonical name, and
cycles, shared manifests and reserved paths are refused. A behaviour of
`ReleasePlan` begins with any accepted configuration of `RawConfigs`.

A file is a set of sections (`package`, `workspace`, `lock`), each a version and
the versions it asks of others; Cargo.lock names its crates by their titles, which
need not be the configured names. `UpdateManifests` is the two passes of a release
over the packages (`UpdateVersions`, then `UpdateRequirements`), `Agree` what the
manifests should say after them, and `ManifestsAfter` the manifests of a commit: the
first ones, with what each commit released. `VersionUpdatesValid` and `ManagedPaths` are the checks made
without it, in other functions, which is why they can disagree with it.

Planners are processes in one checkout. `pc[w]` is where one of them is:

| `pc` | code |
|---|---|
| `idle` | no plan |
| `history` | HEAD was read (`plan.go:57`); each package's window is read next |
| `scan` | the fixpoint over the packages, one package a step (`plan.go:191`) |
| `build` | the versions and notes are derived, or the plan waits for `Execute` |
| `mutate`, `commit`, `tag` | `Execute` holds the lock: manifests, release commit, tags one by one |

People commit at any moment, and a second planner may be anywhere: a plan is
*made* without the lock, and `Begin` checks it again under the lock (`Verified`:
the source is still HEAD; `TagsFree`; `Resumable`). A release commit that is at HEAD
without being tagged is resumed and not planned again. `UpdateFails` and `GiveUp`
give manifests and lock back; a process that dies in between is
`ReleaseTransaction`'s subject. History is linear, and the versions in a release
commit's own message are what `resume.go` reads back.

### GitHubPublication, ReleaseVerifier and ReleaseJob

`gh[t]` is the GitHub release of a tag with its assets in order; an asset has a
name, a state (`uploaded`, or `starter` for an upload that broke off) and the
`build` whose bytes it has. A publisher walks through its plan: `lookup`, `list`
page by page, `create`, `upload`. Every request may be refused, half performed
(`BrokenOff`), performed without an answer (`AnswerLost`), or given up and
performed later, even after the run (`late`, `LateRequest`). Two publishers may work
on the same releases with different builds, as two machines with different files
do. Other people may edit a release, make it a draft, remove or add an asset.

`ReleaseVerifier` is `Verify` as its requests: between any two of them the release
may change. A download is by asset id, so an asset that was removed is not found.
What is true of one asset's bytes (an SBOM that is none, an archive without
LICENSE) is the constant `Defective`; which builds have attestations is `Attested`.

`ReleaseJob` adds the events, the attempts and the branch on the remote. An event
has the fields the filter looks at; lengths and types of JSON values are one field,
`complete`. One release is due, in the first commit. A push is atomic: it moves the
branch from the clone's tip with its tags, or does nothing; it may be given up at
the deadline and performed afterwards (`PushTimesOut`, `LatePush`). `Expire` is the
job's deadline, after which every request fails at once, the one that completes
the check run included, because it uses the job's context (`app/github.go`).

## 3. The runs

`tlc -workers 2 -config <cfg> <module>`; each ends within about three minutes on
two workers.

| Run | Configuration | Shows |
|---|---|---|
| `queue` | `MCReleaseTaskQueue.cfg` | exclusion, order, budgets, exact counters and reports, and refinement of `RepositoryExecutor` |
| `queue_hung` | `MCReleaseTaskQueueHung.cfg` | a hung repository does not stop another, and a cancellation drains the queue |
| `spool` | `MCWebhookSpool.cfg` | promises survive, terminal stays terminal, the bookkeeping is exact up to failed removals, refinement of `DurableBacklog`, with failing syncs, removals and quarantines |
| `spool_order` | `MCWebhookSpoolOrder.cfg` | sequence numbers keep the order of admission over restarts |
| `spool_retries` | `MCWebhookSpoolRetries.cfg` | with failing removals too: a retried acknowledgement ends with record and marker gone |
| `service` | `MCWebhookService.cfg` | no duplicate, no overtaking, no lost job, quiet after close, with one lapse: an expired reservation, a refused record or a duplicate that stays, or a failed scan at start |
| `service_progress` | `MCWebhookServiceLive.cfg` | an accepted webhook is resolved |
| `release` | `MCReleaseTransaction.cfg` | what was sent is never undone, rollback restores everything, one release on origin, all of it together |
| `release_progress` | `MCReleaseTransactionLive.cfg` | a command that is run again completes the release |
| `publication` | `MCReleaseJob.cfg` | what is released was tested, what is reported as released, published or verified is so |
| `plan` | `MCReleasePlan.cfg` | every change is released once, versions grow, manifests agree, only declared files are written |
| `plan_tag_race` | `MCReleasePlanTag.cfg` | *expected violation*, see section 6 |

### Bounds

* *Queue.* Four tasks: two on `lib:main`, one on `Lib:next` (another branch and
  spelling of the same repository), one on `app:main`. That is the least with a
  chain of two, a gate that two workers share, and a bystander. `MaxPending` is 2
  so that admission is refused and slots come back; the run with retries and
  liveness uses three tasks, two slots and two attempts. The proofs of section 5
  do not depend on these numbers.
* *Spool.* Two records, a record limit of two, all faults, and any number of
  restarts, which reuse the sequence numbers that `MaxSeq` bounds, as the code
  does; three without faults for the order of admission, where a third matters (a
  gap between two), and one record for the retries.
* *Service.* The first webhook, its redelivery (same delivery id) and a later run
  of the same branch, with `MaxPending` 2 and one restart; for liveness the first
  and another delivery of its workflow run, with two restarts. `MaxRestarts`
  bounds process ends, and `MaxLapses` the lapses of all four kinds together, by one:
  it may come at any moment. The liveness run has none; with one, `AcceptedResolved`
  holds as well, which takes all of five minutes and is left out. The first webhook
  and its redelivery are interchangeable (`Symmetry`).
* *Release.* Any number of runs with every combination of options;
  two release commits, so that a second release would be seen, two tags, so that
  half of one would be, and a commit of someone else. When the release commits are
  used up `git commit` fails. `MaxFaults` bounds crashes, failing commands and lost
  requests together: two are a fault in the recovery from a fault. `MaxOthers`
  bounds what others do by two: an intervention in the recovery from another.
  Release identities and tags are interchangeable (`Symmetry`).
* *Publication.* The App and an operator, two builds, a plan of two tags, one with
  four assets and one without any: with `PageSize` 2 the inventory of the first
  has an exactly full page, a last empty page and a page that shifts when an asset
  is removed. Two commits (the second makes an event of the first stale), five
  deliveries (handled, failed, a release commit's own, a fork's, a foreign clone
  address), two attempts for each event, one run of the operator. `MaxFaults` is one
  fault of a request, a push, a job or the service, or one change by somebody else
  (`MaxEdits`), at any moment; a late request or push may then come at any later
  moment. Two faults made no new kind of state and are out of reach here.
* *Plan.* Two planners and two changes at any moment; three kinds of change (a
  feature, a fix that touches one or two packages, an ignored breaking one); ten
  configurations, of which three are refused: a chain of three packages in the wrong
  order, so that the fixpoint takes three passes; one package at the root; two packages
  whose tags do not name them; a workspace with one version and one with two; crates
  configured under other names, one of them the name of the other crate; a requirement that cannot be rewritten. `MaxComponent` 2 lets the bump at the largest
  component come up with two changes. Planners are interchangeable.

`CHECK_DEADLOCK FALSE` is set for the queue, the service and the publication, where
a behaviour really ends: the finite set of tasks, webhooks or attempts is used up.
The other runs check deadlock.

### Fairness

* Queue: goroutines are scheduled and a channel hands its tokens to blocked
  senders in turn (`WF` of every step of a worker, the two acquisitions apart).
  A task returns because it has a deadline (`runner.go` derives one per job). In
  `queue_hung` the tasks of one repository return only once cancelled.
* Spool: `RetriesConverge` assumes the retry is called again and that each sync
  it needs does not fail *for ever* (`SF` of the succeeding step).
* Service: handlers and closures run; a release returns; a retried
  acknowledgement does not fail for ever (`SF`); and the drainer, whose `select`
  chooses at random among ready channels, does not overlook for ever that it was
  stopped (`SF_vars(Advance)`). Nothing makes a signal or a crash happen, and
  nothing makes a webhook arrive.
* Plan and publication: safety only, so none.
* Release: a run goes on (`WF_vars(Execute)`), origin gets to a request that was
  not lost, and someone runs the command again (`WF_vars(Start)`), which is the
  premise of the property and no promise of the code. Faults are finitely many.

## 4. What the properties say

*Queue.* `RepositoryExclusion`: two tasks of one repository never execute
together, retry delays included, whatever spelling their keys use. `GatesAgree`:
the map, the reference count, the channel and the workers agree about each gate.
`ExecutionBudget`: the slots taken belong to workers that will return them.
`FIFOPerKey`: what was accepted for a key is what settled, what is in hand and
what waits, in this order. `CountersExact`: `pending` and `wg` count what they
should on all paths (`AdmissionExact`), when `Wait` returns nothing runs and no gate
or slot is held (`WaitCoversEverything`), and a failed task is reported once however
often it was tried (`FailureReportedOnce`). `OthersSettle`, `CancellationDrains`:
liveness.

*Spool.* `PromiseKept`: a webhook that was answered is in the directory after
any power loss until its outcome is acknowledged. `TerminalStays`: once a marker
is durable its record is never handed out again. `AdmissionOrder`: names follow
admission over restarts. `BookkeepingExact`: a name whose closures are in use is not
claimable (`OneConsumer`), and the count that bounds admission is never above the
number of records, and below it by at most one for each refused record that could not
be removed and each discarded one that could not be quarantined (`RecordsExact`).
`RetriesConverge`: a retried acknowledgement ends.

*Service.* `LiveRecordsReserved`: while the service is up, two records of one
workflow run are never both unfinished (`OneLiveRecord`), and an unfinished record's
keys stay reserved (`ReservationCoversRecord`). `CompletedOnce`: one process completes a workflow run once
(across processes a release may run again and must resume, which is the release
transaction's part). `InterruptedReplayable`: a job that a signal stopped is not
acknowledged as failed. `NoOvertaking`: a release never runs while an older
accepted record of its branch could still run. `QuietAfterClose`: nothing touches
the backlog after the spool is closed. `AcceptedResolved`: an accepted webhook is
executed to a recorded outcome or discarded in favour of an older record.

*Release.* `RollbackSpares`: a rollback never takes a commit off the branch that a
push has sent, whatever the push answered (`SentNeverUndone`), nor one that a hook
or a person made, but for one made between the rollback's two looks at HEAD
(`OthersCommitsKept`). `RestoredOrJournaled`: between runs, a
checkout without a journal is whole, the file a hook may create and the outputs included. `OneWholeRelease`: on
origin all tags of a release appear together on one release commit, over any number
of runs, clones and late pushes (`PublishedTogether`, `OneRelease`), and a GitHub
release exists only for a tag that origin has (`GitHubFollowsTags`). `FinishedIsComplete`: what a run reports as published is there.
`ReleaseCompletes`: a repeated command ends with everything published and no
journal, unless a run stopped between the notes of a release and their payload.

The exceptions in these properties are what the code does, and each is a small window:
`overtaken` in `OthersCommitsKept` and `NotesInTheWay` in `ReleaseCompletes`, which
section 6 describes; in `RestoredOrJournaled`, `stranded` (section 6, too) and
`overlooked`, the index of a commit that someone makes while a rollback with nothing to
reset is under way: HEAD was read at `transaction.go:322`, no `update-ref` compares it
again (`:419`), and the index is replaced (`:429`). Without any one of them TLC finds the
property violated.

`LiveRecordsReserved` and `CompletedOnce` except the workflow runs in `unguarded`: after
24 hours, say, a redelivery may be admitted beside its unfinished original. All other
workflow runs stay protected, and so does that one again from the next start that
scans the spool. Order, replay and the quiet close hold all the same.

*Publication.* `DoneIsWhole`: a publisher that ends without an error has every
release public with the planned metadata and every asset byte for byte its own,
whoever uploaded it. `PassedIsWhole`: a statement that says PASSED covers every
configured payload and no other, all of one build, with the signatures and
attestations demanded. `OnlyTestedReleased`: the branch gets one release commit,
directly on the commit whose successful CI run asked for it. `ReleasesHaveTags`: no
GitHub release is made before its tags, which GitHub would otherwise create by
itself. `SuccessIsPublished`: a check run that says success is of the released commit,
and its releases are whole, unless somebody edited one. `DoneIsWhole`, and the parts of the others that speak of
what GitHub serves, hold until somebody else edits a release (`edits = 0`).

*Plan.* `LeastClosure`: what is planned is the least set with the packages that have
commits of their own and all that depend on one of it. `ExactlyOnce`: a change is
released at most once for each package it touches, for no other, and once a release
commit follows it, it has been released. `VersionsGrow`: versions of a package grow,
do not wrap, and no two releases use one tag. `ManifestsAgree`: while no release is
under way every manifest and requirement states what was last released, and so does
 the lock entry of a crate that is configured under its own name (section 6).
`WritesManaged`: a release rewrites only files its transaction can restore.

## 5. Proofs

### ReleaseTaskQueue_proofs

Seven theorems hold for all sets of keys and
tasks and all limits, from the assumptions `ReleaseTaskQueue` names (`KeyOf` is
a function to keys, `None` is none of the other values, the limits are the
clamped ones of `NewReleaseTaskQueue`):

* `TypeCorrect`: `Spec => []TypeOK`. It is not only a typing: `attempt` stays
  within `MaxAttempts`, for which `RetriesLeft` (a worker in its retry delay has
  an attempt left) is part of the induction.
* `GatesAlwaysAgree`: `Spec => []GatesAgree`.
* `Exclusion`: `Spec => []RepositoryExclusion`.
* `Budget`: `Spec => []ExecutionBudget`.
* `FIFO`: `Spec => []FIFOPerKey`.
* `CountersAgree`: `Spec => []CountersExact`.
* `ExecutorImplemented`: `Spec => ImplementsExecutor`, the refinement of
  `RepositoryExecutor`.

`RepositoryExclusion` is not inductive: from a state in which the map has lost a
gate that a worker still uses, a second worker would allocate another and both
would run. The inductive invariant is `TypeOK /\ GatesAgree /\ RetriesLeft`, and
`GatesAgree` has four parts: a busy worker has a task; the gate a registered
worker remembers is the map's gate for its repository; a gate's users and token
holders are exactly the workers whose `pc` says so; and two workers past the
same gate are one. The step that matters is `LeaveGate`: the map's entry is
dropped only if the user set is empty, and the exact user set says that nobody
is then registered. Exclusion follows because two workers of one repository that
both execute have the same map entry, hence the same gate, hence are one worker.
`Budget` is an induction of its own over `slots = {k : pc[k] \in HoldsSlot}` and
the capacity, with the finiteness of the slots for the cardinalities.

`FIFOPerKey` is inductive with `IInv`. `CountersExact` compares integers with
cardinalities of sets of tasks, so each step's effect on those sets is needed, and
that needs more than the order: no task is accepted twice (`UniqueTasks`), so a task
is settled, in a worker's hand or in its chain, and in one of the three only
(`Partition`); a failure is reported by the worker that settled its task, once
(`Recorded`); and the map keeps a gate only while a worker uses it (`GateUsed`),
without which `Wait` could return with a gate left. `Counted` is finite sets
although `Tasks` need not be finite.

For the refinement each action has its abstract step: `Enqueue` is `Accept`,
`AcquireSlot` is `Start`, an `Interrupt` before the slot is `Abandon`, `ReleaseSlot` is
`Finish`, `Settle` is `End`, and the rest stutters. `Start` demands that no other task
of the repository runs, which is the gate, and that fewer than `MaxConcurrent` run,
which is the budget: the running tasks are the image of the slots.

### WebhookSpool_proofs and WebhookSpool_refinement

* `TypeCorrect`: `Spec => []TypeOK`.
* `AdmittedSurvive`: `Spec => []PromiseKept`.
* `TerminalNotReplayed`: `Spec => []TerminalStays`.
* `NumbersFollowAdmission`: `Spec => []AdmissionOrder`.
* `OneConsumerHolds`: `Spec => []OneConsumer`.
* `BookkeepingHolds`: `Spec => []BookkeepingExact`, with removals and quarantines that
  fail.
* `BacklogImplemented`: `Spec => ImplementsBacklog`, the refinement of `DurableBacklog`.

They hold for any admissions, any bound on names and records, and whichever syncs and
removals fail. What a power loss may do depends on every possibility in `disk`, so
the inductive invariant `IInv` speaks of what *may* be there and not of what is:

* `Hidden`: a promised record that a power loss could bring back has its marker in
  the way. Without it `Recount`, which runs when no marker is left, could give the
  number of such a record to another admission;
* `Ordered`: names follow admission for every record that may come back;
* `MarkerDurable`: once an entry is terminal, no possibility has its record and no marker;
* `Admitting`, `Acknowledging`: what holds between any two file operations of the
  operation under way. The number `Admit` gives has no record and no marker; a marker is
  taken away only when the directory has been synced without the record; the marker
  of a failed acknowledgement is taken back only when nothing terminal and no other
  promised record is beneath it;
* `Unused`, `Handed`, `Numbered`: nothing is at or above `s.next`, what is held is
  below it and claimed as long as its record is there.

A file operation has one of a few effects on the directory (nothing changes, one record or
marker is put or removed, everything is synced), and the lemmas of the first part
(`ShrinkKeeps`, `RecordGoneKeeps`, `MarkerSetKeeps`, `MarkerGoneKeeps`, `AdmittedKeeps`,
`PromisedKeeps`, `TerminalKeeps`) say once what each does to the invariant.

The refinement adds `JInv`, which ties the consumer's memory to the history: who
holds an entry (`Sole`: under one name, and nothing else that matters can come back
under that name), that an outcome is only of a decided entry (`Pursued`), that only a
consumer with an outcome has a marker (`Signed`), and that a decided record which
could come back has its marker in the way (`DecidedHidden`). The lemma of an action
shows that the mapping changes for one entry at most: `Admit` is `Offer`, `AdmitSync` is
`Promise`, a removal that fails in the rollback is `Surface`, `ClaimNext` is `Claim` (of
the oldest, by `Ordered`), the first `AckTerminal` of an entry is `Decide` whether or
not it fails afterwards, and `MarkerSync`, `MarkerCleanSync` or a repeated `AckTerminal`
is `Finish`. Three steps are about several entries at once: a sync at startup is
`Reconcile`, and `Exit` and `PowerLoss` are `Restart`.

### WebhookService_proofs

* `TypeCorrect`: `Spec => []TypeOK`.
* `DeduplicationHolds`: `Spec => []LiveRecordsReserved`.
* `AtMostOneCompletion`: `Spec => []CompletedOnce`.
* `InterruptedJobsSurvive`: `Spec => []InterruptedReplayable`.
* `AdmissionOrderKept`: `Spec => []NoOvertaking`.
* `ClosedMeansQuiet`: `Spec => QuietAfterClose`, an action property.

The inductive invariant has five parts. `Basic` says where a record may be in the
backlog for each stage of its handler and closures, in each phase (`StagedAt`,
`Phased`). `QueueExact` ties the queue, a sequence, to the stages, a function. `Held` is
the heart of deduplication: while the service is up, each reserved key of a workflow
run that is not `unguarded` has one owner, and `Owns` says who that is in each stage, down to the one step
between the release of the delivery key and that of the workflow key. `Once` then
follows because a record that runs owns its workflow run. `Ordered` says of two accepted
records of one branch that the older one is finished, or ahead in the queue, or a
signal has come: the third case is what a claim that the queue rejected and a record
pending again after a signal have in common.

The service is proved against `DurableBacklog`, of whose actions it is made, and the
spool is proved to implement `DurableBacklog`.

### ReleaseTransaction_proofs

* `TypeCorrect`: `Spec => []TypeOK`.
* `RollbackIsSafe`: `Spec => []RollbackSpares`.
* `OneReleaseIsWhole`: `Spec => []OneWholeRelease`.
* `ReportedIsPublished`: `Spec => []FinishedIsComplete`.
* `RecoveryIsWhole`: `Spec => []RestoredOrJournaled`.

They hold for any identities, tags, modes and bounds and whatever fails or interferes;
`JournalAssumption` only says that a journal is not the value that stands for none.

`RollbackSpares` needs `IInv`. Its core is `Unsent`: while the journal is not external,
HEAD has nothing beyond the journal's source that a push has sent or that origin
has. It holds because the journal is saved as external before the first request leaves
(`Course`), and a commit of an earlier run that is still there makes the run
start as external. `Targeted` says that a rollback goes on only from the source or from
the source's own release commit, which is what `releaseHead` accepts, with what others
put on top of it between that check and the second reading. From there on `update-ref`
compares, so what it takes off is what was read. `Gone` keeps what was taken off
away: it is nowhere, and since identities are not reused it stays nowhere. `Histories`
(what a history holds exists and brings its own history along) is what makes "nowhere"
the same for a branch, a push under way and a record.

`OneWholeRelease` and `FinishedIsComplete` need `RInv`, a second invariant on top. The
chain runs backwards from what others see. A push is whole (`Whole`) because from the
last tag on all tags are at HEAD (`Reached`) and HEAD is a release commit. Origin
takes a push only if no tag is elsewhere, and a tag that is set stays, so tags
appear together and what was reported stays true (`Reported`). That no history ever
holds two releases (`OneEach`) rests on the window of the plan: a release commit is made
only where `Verify` has seen no tags, and a history that goes on after a release has
its tags (`Past`), in the checkout, on origin and in the journal (`TagsKept`). That
last clause is why a rollback must restore the tags it recorded and not merely delete.
`Gated`, `Ahead` and `Back` carry what `Verify` has seen to the commit, through hooks
that commit although they should not and through rollbacks that end on a source
someone has built upon.

`RestoredOrJournaled` needs `KInv`, a third one. The checkout agrees with HEAD while
there is no journal or an external one, and in the parts of a run that end without
rollback (`Settled`). Elsewhere it need not, but then the journal has a checkout of its
source to go back to: files, index, and tags that are none of a release commit made since
(`Recording`). That last part rests on what `Verify` demands of the tags and on the
window of a plan without releases (`Looked`). `Untagged` and `Restored` then say what is
back in place after each step of a rollback, while someone may commit or tag: the tags
first, so that none is on the commit that `update-ref` takes off, then the files and
the index, so that nothing is missing when the journal goes.

For the file that a hook creates there is `CInv`, a fourth. `Inherited`: only a
release commits the file, and a history keeps it from there on. `Held`:
the checkout has it as HEAD has, outside of the phases that end in a rollback. `Removable`:
inside of them a file that is there is untracked, or in the index that `git add` left, or
in a commit made since the journal's source. So a rollback finds it in one of the two lists
it makes, or notes that it is `stranded`; `Removing` carries what it found to the end.

### ReleasePlan_proofs

* `TypeCorrect`: `Spec => []TypeOK`, for every set of planners, configurations and
  changes and all bounds, from `PlanAssumption`.
* `PlanIsLeast`: `Spec => []LeastClosure`.
* `ReleasedOnce`: `Spec => []ExactlyOnce`.
* `VersionsRise`: `Spec => []VersionsGrow`.
* `ManifestsInStep`: `Spec => []ManifestsAgree`, with `SectionsAssumption`: a repository is
  adopted with manifests that agree, and a section is one of a file.
* `OnlyManagedWritten`: `Spec => WritesManaged`, an action property.

The inductive invariant is `IInv == TypeOK /\ ConfigOK /\ BranchOK /\ \A w : PlanOK(w)`.
`ConfigOK` says that a configuration is a sequence of packages, `BranchOK` that the
branch is a sequence whose tags point into it. `PlanOK(w)` has three parts:

* `Grounded`: whatever set holds the packages with commits of their own and is closed
  under dependents holds everything planned so far. It gives that the result is *least*;
* `Scanned`: in a pass that has planned nothing yet, every package the scan is past is
  planned or depends on nothing planned. It gives that the last pass *closes* the set;
* `Complete`: once the scan is over, the set is closed.

The delicate step is `Trigger`, which plans a package in the middle of a pass: it
breaks what `Scanned` says of the packages before it, and is sound only because it
sets `changed`, which makes another pass. That others commit meanwhile does not
disturb a plan (`DirectStable`): its window ends at its source. The highest and lowest
elements the windows are made of exist by well-founded induction on a measure,
`NatLessThanWellFounded` with `WFMin` of the library.

`ExactlyOnce` needs a second invariant, `EInv`, on top of `IInv`. Its core is
`WindowOK`: while a plan is current, the branch being where it was read, every window
begins at the *last* tagged release of its package. For that every release must be
tagged before anybody reads or releases again. `Tagged` says that an untagged release is
that of the process in its tag steps; that process has the lock, so whoever commits a
release finds all earlier ones tagged (`AllTagged`). `Began` gives that the commit a
release is put on is no release itself, so it is not tagged a second time. A
release that `CommitRelease` appends then notes what came after the last release of each
planned package and nothing before: `NotedOnce`, at most once, because the window is after
every earlier release; `NoneMissed`, at least once, because what is before the window
was noted by induction and what is in it has planned its package (`NotesCall`, by
`LeastClosure`'s parts of `IInv`); `NotesSound`, nothing but commits that call for it.
`WindowOK`, `NotedOnce` and `NoneMissed` are promised only while no change has come
between a release commit and its tags (`Timely`). Without that the property is
false: it is the race of `plan_tag_race` in §6.

The other three rest on `VInv`, a third one, which needs both. `FilesOK` says what is on
disk: what the last commit has, or, while a process is between its update and its
commit, what its release makes of that; and what is committed agrees on `LastVersions`.
`VersionsOK` says of a plan that may still be released that it goes up from the last
releases: the version in a manifest is never below the last release, also when `Build`
reads it from files another release has rewritten and not committed (`CurrentAbove`),
and a checked bump is above what it bumps (`BumpAbove`). That is why a plan derived
in the middle of another's release is harmless: if that release is given up the
plan skips a version, and if it is committed the plan's source is no longer HEAD. No two
releases claim one tag because all earlier releases are tagged when one is committed
(`AllTagged`) and `Validate` saw no such tag.

What a release makes of the manifests is a fold, over packages whose number is not
bounded, inside a fold over commits. The library's induction takes the claim as a
parameter, so induction is done here once for *sets* of numbers (`SegmentInduction`, from
the existence of smallest elements), and a fold is unrolled once into the sequence
of its intermediate values (`FoldRuns`; `VersionFold`, `RequirementFold` and `CommitFold` for
the three folds). `AllVersioned` and `AllRequired` are then proved by stepping along that
sequence. Of the two passes they say which section ends up with which version (`Versioned`):
a section that several packages write, the version of a workspace, has the version
of one of them. `UpdateAgrees` is where `ValidateVersionUpdates` matters: those packages
are all released, to one version, so it does not matter which was written last.
`UpdateNothing` says that a commit without releases leaves the manifests alone, and
`UpdateManaged` that whatever is rewritten, or restored, is declared.

### GitHubPublication_proofs and ReleaseJob_proofs

* `OnlyTested`: `Spec => []OnlyTestedReleased`.
* `TagsBeforeReleases`: `Spec => []ReleasesHaveTags`.
* `PublicationComplete`: `Spec => []DoneIsWhole`.
* `SuccessMeansPublished`: `Spec => []SuccessIsPublished`.
* `PassedMeansWhole`: `Spec => []PassedIsWhole`.

All hold for any commits, deliveries, assets, builds and bounds, from the assumptions
the modules name; `JobAssumption` says that people do not push one commit twice.
`OnlyTestedReleased` is not inductive, because what a push relies on was checked
earlier. The strengthening says what stays true of it while others push: `Clean(c)`,
source commit `c` is on the branch and nothing at or before it is a release. A job
that comes to its push (`PushClean`) and a push that was given up (`LateClean`) are
for a clean commit that a handled event asked for. `SourcesOnce` then gives the step
that matters, `CleanTip`: if the remote accepts the push, the tip *is* that commit, so
it is the last of the branch, so nothing has been released. It is where the argument
uses that the push is refused unless the branch is where the clone was.
`TagsBeforeReleases` rests on `GitHubAfterTags`: a started publisher, a request still
under way and a release on GitHub all imply the tags; before the tags no step at GitHub
is possible (`GitHubWaits`).

`PublicationComplete` rests on `PubInv`. While nobody edits a release, GitHub only
*grows* (`Grows`): a release that has the planned metadata keeps it and keeps its
assets, whichever request is performed, in whole, in part, or late (`PerformedGrows`).
So a publisher may rely on what it has seen. `Sound` says what that is: every release
before the one at hand is whole; the inventory listed so far is part of the release;
and of the release at hand, every asset whose position is not in `todo` is stored from
the publisher's own files. The last part is why half an upload under a final name must
end the publication: `ListPage` takes a position off `todo` only for an asset that
`MatchesLocal`. `Together` is the induction step, with one lemma per action that shows
`Grows` and the soundness of the publisher that moved. The module has no specification
of its own, so its lemmas are put together in `ReleaseJob_proofs`, where publishers are
also started and forgotten (`PublisherReset`).

`SuccessMeansPublished` adds where a report comes from (`ReportInv`): the check run of an
attempt is for its commit (`CheckOfJob`); a job reaches its publication only by an
accepted push, or by a resumption of exactly its own release commit, so that commit is
on the branch, and it publishes from its own checkout (`PublishesRelease`); the outcome
*published* comes only from a publisher that is done (`PublishedOutcome`), and what is
published stays so (`PublishedStays`).

`PassedMeansWhole` needs `VerInv`: what a verifier has downloaded is of the build of the
checksum asset it read, and is still in the release while nobody edits it (`Held`,
`HeldStays`, by the same `Grows`). That every payload was downloaded and nothing else was
follows from the comparison of the two sets when the checksum asset is read
(`PayloadsRead`); what the policy adds, when it passes (`PolicyMet`). The last clause of
the property speaks of the asset GitHub *now* serves under a name, so it also needs that a
release never has two assets of one name (`NamesUnique`): GitHub refuses the second, also
when a late request brings it.

### Model-checked only

Liveness under fairness and ENABLED are out of the prover's reach: `OthersSettle`,
`CancellationDrains`, `RetriesConverge`, `AcceptedResolved` and `ReleaseCompletes` are checked
by TLC only. Every invariant and every action property of a run is proved.

## 6. Disagreements with comments and docs

### Checked

`plan_tag_race` checks `docs/architecture-hardening-2026-10-03.md:60`: "foreign
source/index-lock changes fail closed." `git tag -a` has no commit argument
(`git/git.go:695`), so it tags HEAD, and nothing compares HEAD with the release
commit between the commit (`release.go:200`) and the tags (`:209`). TLC's
counterexample: a release commit is made, another Git process commits a change, and
the tags land on that change. Later windows begin at the tag, so the change is in no
release and never will be. The window of a plan fails closed in the other direction
(`Verified` refuses a plan whose source is not HEAD), which is why the run needs the
commit in exactly that place.

### Seen while modelling

These are shown by the models but have no run of their own.

* `spool.go:670` says "A rename without a durable directory entry must not become a
  visible record after a crash." After a failed sync `Admit` removes the record and
  syncs again, and ignores the result of that second sync (`:674`). If both fail and
  the power is lost, a webhook that was refused may be claimed by the next process.
  `DurableBacklog` allows for it (`Surface`, and `Restart` from `uncertain`), so every
  other result stands with it; deduplication makes it mild.
* If the removal in that rollback fails (`spool.go:672`), the record of a refused
  admission stays readable, is drained like any other, and is in neither `s.records` nor
  `s.storedBytes` until the next start. A record found at start that does not decode or
  is a duplicate, and that `quarantineLocked` cannot rename (`:531`), stays as well, and
  `Discard` lowers the count all the same (`:920`). The limit on records may be passed by
  as many (`RecordsExact`).
* Such a duplicate is drained beside the original, and so is any redelivery after a start
  whose `spool.Pending()` failed (`server.go:372`): that is logged, nothing is reserved, and
  the drainer finds the records a moment later. Both may release the same workflow run
  twice in one process (`DiscardFails`, `ServeUnscanned`).
* `docs/architecture-hardening-2026-10-03.md:60` says "Ref restoration uses
  compare-and-swap, and foreign source/index-lock changes fail closed", line 51 that
  "Recovery refuses unrelated HEAD/branch changes". `rollback` checks HEAD
  (`transaction.go:319`) and then reads it again (`:322`); the value `update-ref` compares
  with (`:420`) is the second, unchecked one. A commit that another Git process makes
  between the two is taken off the branch, and its files with it (`overtaken`).
* Lines 45 to 47 say that after a publication was attempted a retry "completes missing
  publication/output work". The clean-tree gate of that retry (`release.go:117`) exempts only
  the outputs that `outputs.json` names (`output.go:48`). `Write` makes the notes first
  (`output.go:258`) and names them last (`:275`), so a run that stops in between leaves notes
  that every later run refuses, with the journal kept, until somebody removes them
  (`NotesInTheWay`). A `Clear` that stops after it has removed `outputs.json` and before the
  notes does the same.
* `docs/manifest-policy.md:24` says "Cargo.lock local entries are updated". The entry is
  looked up by the configured name of the package (`manifest.go:111`, `toml.go:377`), and a
  package may be configured under another name than its crate has (`config.go:324`). Then the
  entry of its crate keeps the old version without an error, and an entry of that other
  name, if there is one, gets the new one. `Agree` excepts such packages (`Eponymous`).
* `CreateReleaseCommit` makes no commit and no error if `git status` is empty
  (`git.go:688`), as when an `afterVersion` hook puts the manifests back. The tags are then
  made on the source commit (`release.go:209`) and pushed. The model has no such hook.
* `docs/architecture-hardening-2026-10-03.md:41` says "New nonignored files created
  during the clean-tree transaction are removed." If `git commit` fails after
  `git add --all`, a file that a release hook created is staged and neither untracked
  (`transaction.go:353`) nor in a release commit (`:359`). It stays, and the next run
  refuses the unclean tree (`stranded`).
* Line 51 of that document says "Recovery refuses unrelated HEAD/branch changes, moved
  tags". A rollback deletes a new tag that is at HEAD (`transaction.go:346`); when an
  earlier rollback stopped after it had reset the branch, HEAD is the source, and a tag
  that someone put there meanwhile is deleted as the run's own.
* `docs/github-app.md:190` says that the app completes the check run "as success,
  neutral, or failure". The request that does so uses the job's context, so after
  the job's deadline (`runner.go:543`) the check run stays in progress
  (`CompleteCheckRun` of `ReleaseJob`).
* A comment in `resume.go` says "Callers only invoke it for fresh plans with zero
  releases", but `Execute` calls it for every plan (`release.go:89`). It is harmless: a
  release commit at HEAD and a plan with releases exclude each other.
* When someone pushes on top of a release commit whose GitHub releases are still
  missing, later attempts are stale (`runner.go:352`) and nothing creates them.
* A plan reads the current version from a manifest before the lock is taken. It may
  read another release's half-written version and skip one, which `VersionsGrow`
  allows.
* `pythonTarget` treats `-`, `_` and `.` alike, as Python does; names of the
  configuration are compared without that.

## 7. Not modelled

* *Spool*: byte accounting beside the record count, a damaged file's own quarantine,
  temporary files, directory permissions and the ownership lock.
* *Service*: rejections before the first reservation, records that do not
  decode, a listener that fails by itself, time itself (expiry may happen at any
  moment instead), HTTP bodies.
* *Queue*: `lastFailure` and the logging callback.
* *Release transaction*: dry runs, a missing remote, a checkout that was moved,
  reconfigured or switched to another branch, the limits on snapshots, a locked
  index, power losses, a hook that puts the manifests back, a tag that moves between
  a rollback's two reads of it (`transaction.go:328`, `:338`: its commit and then its object,
  one step here), and how a version is inferred from text. Its GitHub release
  is one step; `GitHubPublication` has the requests.
* *Plan*: the grammar of commit messages and versions, merges in the history,
  prereleases (there are none), and a remote that others push to.
* *Manifests*: syntax, comments and formatting, changelog text, workspace globs,
  and files that people edit by hand between releases.
* *Configuration*: detection, migration and writing of configuration files.
* *Publication*: encodings, redirects, limits on sizes, rate limits; the clock inside
  tokens. *Verification*: how one asset's bytes are inspected (`Defective`).
* *Runner*: the child's environment, credential helpers, and the refusal of hooks
  and install commands, which are a step that may fail (`StepFails`).
* *Command line, doctor, workflow templates*: no state and no concurrency. *Spool
  directory and lock, path confinement*: the operating system's; the models assume
  one owner and atomic renames.

## 8. Plan

In this order:

1. `AtomicRelease`, which `ReleaseTransaction` implements: either everything is
   published or the checkout is as it was. Its step lemmas are those of
   `ReleaseTransaction_proofs`.
2. `WebhookDeduper` with time; byte accounting and quarantine of the spool.
3. A remote others push to in `ReleasePlan`, which needs fetches and merges.

----------------------------- MODULE ReleasePlan -----------------------------
(***************************************************************************)
(* What is released, and at which version: plan.CreatePlanWithEnv          *)
(* (src/internal/plan/plan.go), the checks of release.Execute on the plan, *)
(* and what Execute makes of it in the checkout (release.go).              *)
(*                                                                         *)
(* Several hooversion processes (Planners) and people who commit share one *)
(* checkout, whose branch is log: a commit is a change or a release.  A    *)
(* plan is made WITHOUT the repository lock, in several reads of the       *)
(* history and the manifests; Execute takes the lock, which excludes       *)
(* other releases but not other commits, and checks the plan again.        *)
(*                                                                         *)
(* That the steps of Execute are undone when one of them fails, or the     *)
(* process dies, is the subject of ReleaseTransaction; here a release that *)
(* fails before its commit gives the manifests back and the lock up.  The  *)
(* remote repository is left out too: plans are for a branch no one else   *)
(* pushes to.  MaxChanges bounds the changes in a history.                 *)
(***************************************************************************)
EXTENDS Manifests

CONSTANTS
  Planners,       \* the processes
  RawConfigs,     \* the configurations a repository may have
  Sections,       \* the manifest sections of a configuration's files, with their first content
  Changes,        \* what people commit
  ReleaseRules,   \* the release a commit of a type calls for (feat, fix, perf)
  InitVersion,    \* the version of every package before its first release
  MaxComponent,   \* the largest version component: 2^63 - 1
  MaxChanges,     \* bound: changes in a history
  None            \* no planner

\* Release types, the highest last.
NoRelease == 0
Patch     == 1
Minor     == 2
Major     == 3

\* The configurations that are accepted.
Configurations == {Normalize(c) : c \in {d \in RawConfigs : Accepted(d)}}

Versions == [major : 0..MaxComponent, minor : 0..MaxComponent, patch : 0..MaxComponent]

ASSUME PlanAssumption ==
  /\ Changes # {}
  /\ \A c \in RawConfigs : /\ c \in [packages : Seq(Range(c.packages)), named : BOOLEAN]
                           /\ \A p \in Range(c.packages) : {"name", "manifest", "deps"} \subseteq DOMAIN p
  /\ ReleaseRules \in [{c.type : c \in Changes} -> NoRelease..Major]
  /\ MaxComponent \in Nat \ {0} /\ MaxChanges \in Nat
  /\ InitVersion \in Versions
  /\ None \notin Planners

\* The names a file may have a version for.
Written(c) == PackageNames(c) \cup {p.title : p \in Range(c.packages)}

\* A repository is adopted with manifests that agree, and a section is one of a file.
ASSUME SectionsAssumption ==
  \A c \in Configurations :
    /\ Sections[c] \in [DOMAIN Sections[c] ->
            [version : Versions, refs : UNION {[D -> Versions] : D \in SUBSET Written(c)}]]
    /\ \A s \in DOMAIN Sections[c] : s[1] # NoRoot
    /\ Agree(Sections[c], c, [n \in PackageNames(c) |-> InitVersion])

VARIABLES
  config,     \* the normalized configuration
  log,        \* the commits of the branch, the oldest first
  tags,       \* <<release commit, package>> -> the commit its tag is on
  files,      \* the manifest sections of the working tree
  lock,       \* the process that holds hooversion-release.lock, or None
  pc,         \* what a process is doing
  source,     \* the commit a plan is for: the length of the log then
  at,         \* the package a scan is at
  since,      \* where a package's window begins: its latest release
  types,      \* the planned release type of each package
  changed,    \* did this pass over the packages plan another one?
  releases    \* the releases of a plan: [package -> its release]

vars == <<config, log, tags, files, lock, pc, source, at, since, types, changed, releases>>
plan == <<source, at, since, types, changed, releases>>

Names    == PackageNames(config)
Count    == Len(config.packages)
PkgAt(w) == PackageAt(config, at[w])

NoReleases == [n \in {} |-> 0]
NoTags     == [t \in {} |-> 0]
NoChange   == CHOOSE c \in Changes : TRUE
IsRelease(k) == DOMAIN log[k].releases # {}
Change(k) == log[k].change
VersionsIn(commit) == [n \in DOMAIN commit.releases |-> commit.releases[n].version]

-----------------------------------------------------------------------------
(* src/internal/semver *)

\* Go's integers wrap: the successor of the largest one is negative.
Wrap(n) == IF n > MaxComponent THEN -1 - MaxComponent ELSE n

Bump(v, t) ==
    CASE t = Major -> [major |-> Wrap(v.major + 1), minor |-> 0, patch |-> 0]
      [] t = Minor -> [v EXCEPT !.minor = Wrap(@ + 1), !.patch = 0]
      [] OTHER     -> [v EXCEPT !.patch = Wrap(@ + 1)]

\* Mutant: the sum is not looked at.
UncheckedBump(v, t) == TRUE

\* May this version be bumped?
CheckedBump(v, t) == v \in Versions /\ Bump(v, t) \in Versions

Highest(S) == IF S = {} THEN NoRelease ELSE Max(S)

-----------------------------------------------------------------------------
(* src/internal/git: tags and windows *)

\* A tag names its package only if the format does.
SameTags(n, m) == n = m \/ (~config.named /\ Count > 1)

\* The nearest commit with a tag that matches the package's pattern.
LatestTag(n) ==
    Max({0} \cup {tags[t] : t \in {u \in DOMAIN tags : SameTags(n, u[2])}})

TagExists(n, v) ==
    \E t \in DOMAIN tags : SameTags(n, t[2]) /\ log[t[1]].releases[t[2]].version = v

\* Release commits have an ignored subject, as merges and reverts do.
Ignored(k) == IsRelease(k) \/ Change(k).ignored

Commits(from, to) == {k \in 1..to : from < k /\ ~Ignored(k)}

ReleaseTypeOf(k) == IF Change(k).breaking THEN Major ELSE ReleaseRules[Change(k).type]

Worthy(S) == {k \in S : ReleaseTypeOf(k) # NoRelease}

-----------------------------------------------------------------------------
(* The planning functions. *)

\* The commits in some package's window.
Candidates(w) == UNION {Commits(since[w][n], source[w]) : n \in Names}

\* A commit in its own window that reaches the package.
Eligible(w, n, k) == k \in Commits(since[w][n], source[w])

DirectCommits(w, n) ==
    {k \in Worthy(Candidates(w)) : Affects(config, Change(k), n) /\ Eligible(w, n, k)}

Unmatched(w) ==
    {k \in Worthy(Candidates(w)) : \A n \in Names : ~Affects(config, Change(k), n)}

\* The commits of a release: of a repository with one package, all of them.
NotesOf(w, n) ==
    IF Count = 1 THEN Commits(since[w][n], source[w]) ELSE DirectCommits(w, n)

DirectTypes(w) == [n \in Names |-> Highest({ReleaseTypeOf(k) : k \in NotesOf(w, n)})]

\* The packages with commits of their own that call for a release.
Direct(w) == {n \in Names : DirectTypes(w)[n] # NoRelease}

Planned(w) == {n \in Names : types[w][n] # NoRelease}

-----------------------------------------------------------------------------
Init ==
    /\ config \in Configurations
    /\ log = <<>>
    /\ tags = NoTags
    /\ files = Sections[config]
    /\ lock = None
    /\ pc = [w \in Planners |-> "idle"]
    /\ source = [w \in Planners |-> 0]
    /\ at = [w \in Planners |-> 1]
    /\ since = [w \in Planners |-> [n \in Names |-> 0]]
    /\ types = [w \in Planners |-> [n \in Names |-> NoRelease]]
    /\ changed = [w \in Planners |-> FALSE]
    /\ releases = [w \in Planners |-> NoReleases]

Goto(w, label) == pc' = [pc EXCEPT ![w] = label]

\* The run ends, with or without an error; the plan is forgotten.
Stop(w) ==
    /\ Goto(w, "idle")
    /\ source' = [source EXCEPT ![w] = 0]
    /\ at' = [at EXCEPT ![w] = 1]
    /\ since' = [since EXCEPT ![w] = [n \in Names |-> 0]]
    /\ types' = [types EXCEPT ![w] = [n \in Names |-> NoRelease]]
    /\ changed' = [changed EXCEPT ![w] = FALSE]
    /\ releases' = [releases EXCEPT ![w] = NoReleases]

-----------------------------------------------------------------------------
\* Someone commits, whatever the processes are doing.
Commit(c) ==
    /\ Cardinality({k \in DOMAIN log : ~IsRelease(k)}) < MaxChanges
    /\ log' = Append(log, [change |-> c, releases |-> NoReleases])
    /\ UNCHANGED <<config, tags, files, lock, pc, plan>>

\* HeadSha: the plan is for the commit that is checked out now.
ReadHead(w) ==
    /\ pc[w] = "idle"
    /\ Goto(w, "history")
    /\ source' = [source EXCEPT ![w] = Len(log)]
    /\ UNCHANGED <<config, log, tags, files, lock, at, since, types, changed, releases>>

\* The latest tag of one package and the commits since it.
ReadHistory(w) ==
    /\ pc[w] = "history" /\ at[w] <= Count
    /\ since' = [since EXCEPT ![w][PkgAt(w).name] = LatestTag(PkgAt(w).name)]
    /\ at' = [at EXCEPT ![w] = @ + 1]
    /\ UNCHANGED <<config, log, tags, files, lock, pc, source, types, changed, releases>>

\* A plan with commits no package owns is refused when it is validated.
Refuse(w) ==
    /\ pc[w] = "history" /\ at[w] > Count
    /\ Count > 1 /\ Unmatched(w) # {}
    /\ Stop(w)
    /\ UNCHANGED <<config, log, tags, files, lock>>

Route(w) ==
    /\ pc[w] = "history" /\ at[w] > Count
    /\ Count = 1 \/ Unmatched(w) = {}
    /\ types' = [types EXCEPT ![w] = DirectTypes(w)]
    /\ Goto(w, "scan")
    /\ at' = [at EXCEPT ![w] = 1]
    /\ changed' = [changed EXCEPT ![w] = FALSE]
    /\ UNCHANGED <<config, log, tags, files, lock, source, since, releases>>

\* A package that is not planned but depends on one that is gets a patch.
Triggered(w) ==
    /\ PkgAt(w).name \notin Planned(w)
    /\ Range(PkgAt(w).deps) \cap Planned(w) # {}

Trigger(w) ==
    /\ pc[w] = "scan" /\ at[w] <= Count /\ Triggered(w)
    /\ types' = [types EXCEPT ![w][PkgAt(w).name] = Patch]
    /\ changed' = [changed EXCEPT ![w] = TRUE]
    /\ at' = [at EXCEPT ![w] = @ + 1]
    /\ UNCHANGED <<config, log, tags, files, lock, pc, source, since, releases>>

Pass(w) ==
    /\ pc[w] = "scan" /\ at[w] <= Count /\ ~Triggered(w)
    /\ at' = [at EXCEPT ![w] = @ + 1]
    /\ UNCHANGED <<config, log, tags, files, lock, pc, source, since, types, changed, releases>>

\* Mutant: one pass only.
EndOnlyPass(w) ==
    /\ pc[w] = "scan" /\ at[w] > Count
    /\ at' = [at EXCEPT ![w] = 1]
    /\ changed' = [changed EXCEPT ![w] = FALSE]
    /\ Goto(w, "build")
    /\ UNCHANGED <<config, log, tags, files, lock, source, since, types, releases>>

\* The packages are scanned again until a pass plans nothing new.
EndPass(w) ==
    /\ pc[w] = "scan" /\ at[w] > Count
    /\ at' = [at EXCEPT ![w] = 1]
    /\ changed' = [changed EXCEPT ![w] = FALSE]
    /\ Goto(w, IF changed[w] THEN "scan" ELSE "build")
    /\ UNCHANGED <<config, log, tags, files, lock, source, since, types, releases>>

\* buildRelease: the next version follows the one in the manifest.
Build(w) ==
    LET p == PkgAt(w)
        current == CurrentVersion(files, p)
        t == types[w][p.name]
        release == [version |-> Bump(current, t), commits |-> NotesOf(w, p.name)]
    IN  /\ pc[w] = "build" /\ at[w] <= Count
        /\ t # NoRelease => CheckedBump(current, t)
        /\ releases' = IF t = NoRelease THEN releases
                       ELSE [releases EXCEPT ![w] =
                                [n \in DOMAIN @ \cup {p.name} |-> IF n = p.name THEN release ELSE @[n]]]
        /\ at' = [at EXCEPT ![w] = @ + 1]
        /\ UNCHANGED <<config, log, tags, files, lock, pc, source, since, types, changed>>

BuildFails(w) ==
    /\ pc[w] = "build" /\ at[w] <= Count
    /\ types[w][PkgAt(w).name] # NoRelease
    /\ ~CheckedBump(CurrentVersion(files, PkgAt(w)), types[w][PkgAt(w).name])
    /\ Stop(w)
    /\ UNCHANGED <<config, log, tags, files, lock>>

-----------------------------------------------------------------------------
(* release.Execute *)

\* Mutant: a release commit is planned over again.
NeverResumable == FALSE

\* DeriveResumable: a branch that ends with a release is resumed, not released again.
Resumable == log # <<>> /\ IsRelease(Len(log))

\* Validate: no tag twice in a plan, and none that exists.
TagsFree(w) ==
    /\ \A n, m \in DOMAIN releases[w] :
           SameTags(n, m) /\ releases[w][n].version = releases[w][m].version => n = m
    /\ \A n \in DOMAIN releases[w] : ~TagExists(n, releases[w][n].version)

NextVersions(w) == [n \in DOMAIN releases[w] |-> releases[w][n].version]

\* verifySource, Validate and ValidateVersionUpdates.
Verified(w) ==
    /\ Len(log) = source[w]
    /\ TagsFree(w)
    /\ VersionUpdatesValid(config, NextVersions(w))

Releasable(w) == ~Resumable /\ Verified(w) /\ releases[w] # NoReleases

\* Mutant: the lock does not exclude.
BeginShared(w) ==
    /\ pc[w] = "build" /\ at[w] > Count
    /\ Releasable(w)
    /\ lock' = w
    /\ Goto(w, "mutate")
    /\ UNCHANGED <<config, log, tags, files, plan>>

\* The lock is tried once: a second release is refused, not queued.
Begin(w) ==
    /\ pc[w] = "build" /\ at[w] > Count
    /\ lock = None /\ Releasable(w)
    /\ lock' = w
    /\ Goto(w, "mutate")
    /\ UNCHANGED <<config, log, tags, files, plan>>

\* Nothing to release, a release to resume, or a plan that no longer holds.
Leave(w) ==
    /\ pc[w] = "build" /\ at[w] > Count
    /\ lock # None \/ ~Releasable(w)
    /\ Stop(w)
    /\ UNCHANGED <<config, log, tags, files, lock>>

\* beforeRelease hooks may have run meanwhile: the source is compared again.
Update(w) ==
    /\ pc[w] = "mutate"
    /\ Len(log) = source[w]
    /\ \A p \in Range(config.packages) : ~DependencyError(p, NextVersions(w))
    /\ files' = UpdateManifests(files, config, NextVersions(w))
    /\ Goto(w, "commit")
    /\ UNCHANGED <<config, log, tags, lock, plan>>

UpdateFails(w) ==
    /\ pc[w] = "mutate"
    /\ \/ Len(log) # source[w]
       \/ \E p \in Range(config.packages) : DependencyError(p, NextVersions(w))
    /\ lock' = None
    /\ Stop(w)
    /\ UNCHANGED <<config, log, tags, files>>

\* The manifests after a history, and as the last commit has them.
ManifestsAfter(c, commits) ==
    FoldLeft(LAMBDA f, k : UpdateManifests(f, c, VersionsIn(k)), Sections[c], commits)
Committed == ManifestsAfter(config, log)

\* A commit on any other parent than the source is given up again.
CommitRelease(w) ==
    /\ pc[w] = "commit"
    /\ Len(log) = source[w]
    /\ log' = Append(log, [change |-> NoChange, releases |-> releases[w]])
    /\ Goto(w, "tag")
    /\ UNCHANGED <<config, tags, files, lock, plan>>

\* A hook fails, or the commit does, or the source has moved: all is restored.
GiveUp(w) ==
    /\ pc[w] = "commit"
    /\ files' = Committed
    /\ lock' = None
    /\ Stop(w)
    /\ UNCHANGED <<config, log, tags>>

\* The first package of the release commit that has no tag yet.
Untagged(w) == {n \in DOMAIN releases[w] : <<source[w] + 1, n>> \notin DOMAIN tags}

NextUntagged(w) ==
    config.packages[Min({i \in 1..Count : config.packages[i].name \in Untagged(w)})].name

\* git tag tags what is checked out, be it the release commit or a later one.
Tag(w) ==
    /\ pc[w] = "tag" /\ Untagged(w) # {}
    /\ tags' = [t \in DOMAIN tags \cup {<<source[w] + 1, NextUntagged(w)>>} |->
                    IF t \in DOMAIN tags THEN tags[t] ELSE Len(log)]
    /\ UNCHANGED <<config, log, files, lock, pc, plan>>

Finish(w) ==
    /\ pc[w] = "tag" /\ Untagged(w) = {}
    /\ lock' = None
    /\ Stop(w)
    /\ UNCHANGED <<config, log, tags, files>>

-----------------------------------------------------------------------------
CreatePlan(w) ==
    \/ ReadHead(w) \/ ReadHistory(w) \/ Refuse(w) \/ Route(w)
    \/ Trigger(w) \/ Pass(w) \/ EndPass(w) \/ Build(w) \/ BuildFails(w)

Execute(w) ==
    \/ Begin(w) \/ Leave(w) \/ Update(w) \/ UpdateFails(w)
    \/ CommitRelease(w) \/ GiveUp(w) \/ Tag(w) \/ Finish(w)

Next ==
    \/ \E c \in Changes : Commit(c)
    \/ \E w \in Planners : CreatePlan(w) \/ Execute(w)

Spec == Init /\ [][Next]_vars

-----------------------------------------------------------------------------
(* What a reader of the releases relies on. *)

PCs == {"idle", "history", "scan", "build", "mutate", "commit", "tag"}

\* The types of the variables, and the lock's owner is in Execute.
TypeOK ==
    /\ pc \in [Planners -> PCs]
    /\ lock \in Planners \cup {None}
    /\ source \in [Planners -> Nat]
    /\ at \in [Planners -> 1..Count + 1]
    /\ since \in [Planners -> [Names -> Nat]]
    /\ types \in [Planners -> [Names -> NoRelease..Major]]
    /\ changed \in [Planners -> BOOLEAN]
    /\ \A w \in Planners : lock = w <=> pc[w] \in {"mutate", "commit", "tag"}

\* Every package with a dependency in S is in S.
Closed(S) ==
    \A i \in 1..Count : Range(config.packages[i].deps) \cap S # {} => config.packages[i].name \in S

\* plan.go's fixpoint: what is planned is the least set of packages that holds
\* those with commits of their own and every package that depends on one of it.
LeastClosure ==
    \A w \in Planners : pc[w] \in {"build", "mutate", "commit", "tag"} =>
        /\ Direct(w) \subseteq Planned(w)
        /\ Closed(Planned(w))
        /\ \A S \in SUBSET Names : Direct(w) \subseteq S /\ Closed(S) => Planned(w) \subseteq S

\* The releases whose notes have commit k for package n.
NotedIn(k, n) ==
    {r \in DOMAIN log : n \in DOMAIN log[r].releases /\ k \in log[r].releases[n].commits}

\* A change, not ignored, that calls for a release of package n.
CallsFor(k, n) ==
    /\ ~Ignored(k) /\ ReleaseTypeOf(k) # NoRelease
    /\ Count = 1 \/ Affects(config, Change(k), n)

\* A change that came between a release commit and one of its tags.
Overtaken(k) == \E t \in DOMAIN tags : t[1] < k /\ k <= tags[t]

\* Every change is released at most once for every package it touches, and not
\* for another; and once a release commit follows it, it has been released,
\* however plans, releases and commits interleave, but for a commit that comes
\* between a release commit and its tags (see NothingLost).
ExactlyOnce ==
    (\A k \in DOMAIN log : ~Overtaken(k)) =>
        \A n \in Names, k \in DOMAIN log :
            /\ Cardinality(NotedIn(k, n)) <= 1
            /\ \A r \in NotedIn(k, n) : k < r /\ (Count = 1 \/ CallsFor(k, n))
            /\ CallsFor(k, n) /\ (\E r \in k..Len(log) : IsRelease(r)) => NotedIn(k, n) # {}

\* Versions in the order of semantic versioning.
Below(v, u) ==
    \/ v.major < u.major
    \/ v.major = u.major /\ v.minor < u.minor
    \/ v.major = u.major /\ v.minor = u.minor /\ v.patch < u.patch

\* Every version of a package is a version and above the one before; no tag
\* is used by two releases, also where tags do not name their package.
VersionsGrow ==
    \A j, k \in DOMAIN log : \A n \in DOMAIN log[j].releases, m \in DOMAIN log[k].releases :
        LET v == log[j].releases[n].version
            u == log[k].releases[m].version
        IN  /\ v \in Versions
            /\ n = m /\ j < k => Below(v, u)
            /\ SameTags(n, m) /\ v = u => j = k /\ n = m

LastVersion(n) ==
    LET rs == {k \in DOMAIN log : n \in DOMAIN log[k].releases}
    IN  IF rs = {} THEN InitVersion ELSE log[Max(rs)].releases[n].version

\* While no release is under way, every manifest states the version that was
\* last released, also one that inherits it from its workspace, and every
\* requirement for a local dependency states that one's version.  So does every
\* lock entry of a package that is configured under the name of its crate; the
\* entry of another is not found (manifest.go:111, toml.go:377).
ManifestsAgree == lock = None => Agree(files, config, [n \in Names |-> LastVersion(n)])

\* A release writes only files that it has declared to its transaction, which
\* could not restore any other.
WritesManaged ==
    [][Rewritten(files, files') \subseteq ManagedPaths(config)]_files

\* A change that was committed before a release was tagged is in some release:
\* "foreign source changes fail closed".
NothingLost ==
    \A n \in Names, k \in DOMAIN log :
        CallsFor(k, n) /\ k <= LatestTag(n) => NotedIn(k, n) # {}
=============================================================================

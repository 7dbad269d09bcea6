------------------------------ MODULE Manifests ------------------------------
(***************************************************************************)
(* The files a release rewrites: src/internal/manifest.                    *)
(*                                                                         *)
(* files maps a section of a file to the version it states and the         *)
(* versions it asks of other packages:                                     *)
(*   <<m, "package">>     the manifest m of a package                      *)
(*   <<r, "workspace">>   [workspace] of the Cargo.toml r                  *)
(*   <<r, "lock">>        the Cargo.lock beside r, when there is one: the  *)
(*                        versions of its crates, by their own names       *)
(* The syntax of JSON, TOML and requirements is left out: a requirement    *)
(* that is rewritten names the new version whatever its operator was.      *)
(***************************************************************************)
EXTENDS PackageConfig

CONSTANT Unconfigured   \* workspace roots with an inheriting member that is in no configuration

Own(p)    == <<p.manifest, "package">>
Shared(p) == <<p.root, "workspace">>
LockOf(p) == <<IF p.root = NoRoot THEN p.manifest ELSE p.root, "lock">>

Inherits(p) == p.kind = "rust" /\ p.inherits

\* The section that states the version of a package.
VersionSection(p) == IF Inherits(p) THEN Shared(p) ELSE Own(p)

CurrentVersion(files, p) == files[VersionSection(p)].version

\* Does p's manifest, or its workspace's, record the version of d?
Recorded(p, d) ==
    \/ p.kind # "file" /\ p.forms[d] = "pinned"
    \/ p.kind = "rust" /\ p.forms[d] = "inherited"

\* The section with the version a package asks of a local dependency.
RequirementSection(p, d) == IF p.forms[d] = "pinned" THEN Own(p) ELSE Shared(p)

\* Section s asks for version v of package n.
Asks(files, s, n, v) ==
    s \in DOMAIN files /\ n \in DOMAIN files[s].refs /\ files[s].refs[n] = v

\* Is p configured under the name of its crate?
Eponymous(p) == Key[p.title] = Key[p.name]

\* The manifests of c agree on the version of every package: its own manifest,
\* or that of its workspace, the requirements on it, and its lock entry, unless
\* it is configured under another name than the crate has.
Agree(files, c, version) ==
    \A p \in Range(c.packages) :
        /\ VersionSection(p) \in DOMAIN files /\ CurrentVersion(files, p) = version[p.name]
        /\ \A d \in Range(p.deps) :
              Recorded(p, d) => Asks(files, RequirementSection(p, d), d, version[d])
        /\ LockOf(p) \in DOMAIN files /\ p.kind = "rust" /\ Eponymous(p) =>
              Asks(files, LockOf(p), p.title, version[p.name])

-----------------------------------------------------------------------------
SetVersion(files, s, v) == [files EXCEPT ![s].version = v]

\* findReleasedName: the released packages that a name in a file stands for.
ReleasedAs(n, released) == {m \in DOMAIN released : Key[m] = Key[n]}

\* The requirements, or lock entries, in section s on the released packages.
SetRefs(files, s, released) ==
    IF s \notin DOMAIN files THEN files
    ELSE [files EXCEPT ![s].refs =
             [d \in DOMAIN @ |-> IF ReleasedAs(d, released) = {} THEN @[d]
                                 ELSE released[CHOOSE m \in ReleasedAs(d, released) : TRUE]]]

\* The entry of Cargo.lock with the package's name, its crate's or not, follows.
UpdateVersion(files, p, v) ==
    LET versioned == SetVersion(files, VersionSection(p), v)
    IN  IF p.kind = "rust" THEN SetRefs(versioned, LockOf(p), [n \in {p.name} |-> v])
        ELSE versioned

\* Only a package that is released gets a new version.
UpdateReleased(files, p, released) ==
    IF p.name \in DOMAIN released THEN UpdateVersion(files, p, released[p.name]) ELSE files

\* The released packages p is configured to depend on.
LocalVersions(p, released) ==
    [d \in Range(p.deps) \cap DOMAIN released |-> released[d]]

\* A dependency that is not in the manifest under its name, or in a form nothing
\* is known about.
DependencyError(p, released) ==
    /\ p.kind # "file"
    /\ \E d \in DOMAIN LocalVersions(p, released) : p.forms[d] \in {"unsupported", "missing"}

\* The requirements a manifest states itself, not through its workspace.
UpdateOwnRequirements(files, p, local) ==
    SetRefs(files, Own(p), [d \in {e \in DOMAIN local : p.forms[e] = "pinned"} |-> local[d]])

UpdateLocalDependencies(files, p, released) ==
    LET local == LocalVersions(p, released)
        owned == UpdateOwnRequirements(files, p, local)
    IN  IF DOMAIN local = {} \/ p.kind = "file" THEN files
        ELSE IF p.kind # "rust" THEN owned
        ELSE SetRefs(SetRefs(owned, Shared(p), local), LockOf(p), local)

UpdateVersions(files, packages, released) ==
    FoldLeft(LAMBDA f, p : UpdateReleased(f, p, released), files, packages)

UpdateRequirements(files, packages, released) ==
    FoldLeft(LAMBDA f, p : UpdateLocalDependencies(f, p, released), files, packages)

\* All versions of a release, then all requirements.
UpdateManifests(files, c, released) ==
    UpdateRequirements(UpdateVersions(files, c.packages, released), c.packages, released)

-----------------------------------------------------------------------------
InheritingFrom(c, r) == {p \in Range(c.packages) : Inherits(p) /\ p.root = r}

\* The versions that the packages inheriting the one of workspace r would give it.
Targets(c, r, released) ==
    {released[p.name] : p \in {q \in InheritingFrom(c, r) : q.name \in DOMAIN released}}

\* Mutant: conflicting versions are refused, but not a package left behind.
VersionUpdatesDistinct(c, released) ==
    \A p \in Range(c.packages) : Inherits(p) => Cardinality(Targets(c, p.root, released)) <= 1

\* The packages that inherit one workspace version are released together, to
\* one version, and no package outside the configuration inherits it.
VersionUpdatesValid(c, released) ==
    \A p \in Range(c.packages) :
        Inherits(p) /\ Targets(c, p.root, released) # {} =>
            /\ \A v, u \in Targets(c, p.root, released) : v = u
            /\ p.name \in DOMAIN released
            /\ p.root \notin Unconfigured

-----------------------------------------------------------------------------
\* A section's file: a Cargo.lock is a file of its own.
FileOf(s) == <<s[1], s[2] = "lock">>

\* Mutant: the lock file is forgotten.
ManagedManifests(c) ==
    UNION {{FileOf(Own(p))} \cup
           (IF p.kind # "rust" THEN {} ELSE {<<LockOf(p)[1], FALSE>>}) : p \in Range(c.packages)}

\* The files a release declares to its transaction, which can restore only those.
ManagedPaths(c) ==
    UNION {{FileOf(Own(p))} \cup
           (IF p.kind # "rust" THEN {}
            ELSE {FileOf(LockOf(p)), <<LockOf(p)[1], FALSE>>}) : p \in Range(c.packages)}

Rewritten(before, after) == {FileOf(s) : s \in {t \in DOMAIN before : before[t] # after[t]}}
=============================================================================

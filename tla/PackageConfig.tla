---------------------------- MODULE PackageConfig ----------------------------
(***************************************************************************)
(* The configuration of a repository: what Normalize                       *)
(* (src/internal/config/config.go) accepts, and what it makes of it.       *)
(*                                                                         *)
(* A configuration is a record                                             *)
(*   packages   a sequence of packages, in the order of the file           *)
(*   named      do the tags of several packages carry ${name}?             *)
(* and a package, as it is written, a record                               *)
(*   name, path, kind, manifest, changelog, scopes, deps (a sequence)      *)
(* with what its manifest says:                                            *)
(*   title      the package name in the manifest                           *)
(*   root       the manifest of its Cargo workspace, or NoRoot             *)
(*   inherits   its version is the workspace's                             *)
(*   forms      how it refers to each local dependency, by the name that   *)
(*              package is configured under                                *)
(* Formats of versions, tags and branches are not modelled, and paths are  *)
(* single values: Reserved holds those of the output directory and of Git. *)
(***************************************************************************)
EXTENDS Naturals, FiniteSets, SequencesExt

CONSTANTS
  Key,        \* the canonical (trimmed, lower-case) form of a written name
  NoName,     \* a package without a configured name
  NoRoot,     \* a manifest outside any Cargo workspace
  Dot,        \* the path of the repository itself
  Reserved    \* paths no manifest or changelog may have

Kinds == {"node", "python", "rust", "file"}
Forms == {"pinned", "inherited", "unsupported", "missing"}

PackageAt(c, i) == c.packages[i]
Package(c, n)   == CHOOSE p \in Range(c.packages) : p.name = n
PackageNames(c) == {c.packages[i].name : i \in DOMAIN c.packages}

-----------------------------------------------------------------------------
\* The configured name, or else the one in the manifest.
NameOf(p) == IF p.name = NoName THEN p.title ELSE p.name

\* A package is always its own scope.
ScopesOf(p) == {NameOf(p)} \cup p.scopes

\* A dependency is written in any form and resolved to the configured name.
Target(c, d) == NameOf(CHOOSE p \in Range(c.packages) : Key[NameOf(p)] = Key[d])

NormalizePackage(c, p) ==
    [p EXCEPT !.name = NameOf(p), !.scopes = ScopesOf(p),
              !.deps = [i \in DOMAIN p.deps |-> Target(c, p.deps[i])]]

Normalize(c) == [c EXCEPT !.packages = [i \in DOMAIN @ |-> NormalizePackage(c, @[i])]]

-----------------------------------------------------------------------------
(* What is refused. *)

DistinctNames(c) ==
    \A i, j \in DOMAIN c.packages : Key[NameOf(c.packages[i])] = Key[NameOf(c.packages[j])] => i = j

DependenciesKnown(c) ==
    \A p \in Range(c.packages) : \A d \in Range(p.deps) :
        /\ Key[d] # Key[NameOf(p)]
        /\ \E q \in Range(c.packages) : Key[NameOf(q)] = Key[d]

\* No set of packages in which each one depends on another of them.
Acyclic(c) ==
    \A S \in SUBSET Range(c.packages) \ {{}} :
        \E p \in S : \A d \in Range(p.deps) : \A q \in S : Key[NameOf(q)] # Key[d]

\* Manifests and changelogs are files of one package each.
ManagedPathsDisjoint(c) ==
    LET owned == {<<i, r>> : i \in DOMAIN c.packages, r \in {"manifest", "changelog"}}
        path(o) == c.packages[o[1]][o[2]]
    IN  /\ \A o \in owned : path(o) \notin Reserved
        /\ \A o, u \in owned : path(o) = path(u) => o = u

Accepted(c) ==
    /\ c.packages # <<>>
    /\ \A p \in Range(c.packages) : p.kind \in Kinds
    /\ DistinctNames(c)
    /\ DependenciesKnown(c)
    /\ Acyclic(c)
    /\ ManagedPathsDisjoint(c)

-----------------------------------------------------------------------------
(* Which package a commit belongs to: src/internal/routing/routing.go.     *)
(* A commit has the parts of its scope and, of each file it touches, the   *)
(* package paths the file lies in.                                         *)

\* The root package owns the files that lie in no other package's path.
FileBelongsTo(c, within, p) ==
    IF p.path = Dot
    THEN within \cap ({q.path : q \in Range(c.packages)} \ {Dot}) = {}
    ELSE p.path \in within

Affects(c, change, n) ==
    LET p == Package(c, n)
    IN  \/ change.scopes \cap (p.scopes \cup {n}) # {}
        \/ \E within \in change.files : FileBelongsTo(c, within, p)
=============================================================================

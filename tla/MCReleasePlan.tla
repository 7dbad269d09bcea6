---------------------------- MODULE MCReleasePlan ----------------------------
EXTENDS ReleasePlan, TLC

\* Names as they are written, and their canonical form.
MCKey == "core" :> "core" @@ "Core" :> "core" @@ "cli" :> "cli" @@ "web" :> "web"
         @@ "app" :> "app" @@ "zed" :> "zed" @@ "" :> ""

Node(n, deps) ==
    [name |-> n, title |-> n, path |-> n, kind |-> "node", manifest |-> n, changelog |-> "log of " \o n,
     scopes |-> {}, deps |-> deps, root |-> "none", inherits |-> FALSE, forms |-> [d \in Range(deps) |-> "pinned"]]

\* A crate of the workspace "ws".
Crate(n, inherits, deps, form) ==
    [Node(n, deps) EXCEPT !.kind = "rust", !.root = "ws", !.inherits = inherits,
                          !.forms = [d \in Range(deps) |-> form]]

\* Written with another case, and named by its manifest.
Upper(p) == [p EXCEPT !.deps = <<"Core">>, !.forms = [d \in {"Core", "core"} |-> "pinned"]]
Untitled(p) == [p EXCEPT !.name = ""]

Configs(packages) == [packages |-> packages, named |-> TRUE]

\* A dependent before its dependency, twice: the scan needs several passes.
Chain == <<Node("web", <<"cli">>), Untitled(Upper(Node("cli", <<>>))), Node("core", <<>>)>>

MCRawConfigs ==
    { Configs(Chain),
      Configs(<<[Node("app", <<>>) EXCEPT !.path = ".", !.scopes = {"x"}]>>),
      \* two packages whose tags do not name them
      [Configs(<<Node("web", <<"core">>), Node("core", <<>>)>>) EXCEPT !.named = FALSE],
      \* a workspace: one version for all its members, or one each
      Configs(<<Crate("cli", TRUE, <<"core">>, "inherited"), Crate("core", TRUE, <<>>, "inherited")>>),
      Configs(<<Crate("cli", FALSE, <<"core">>, "pinned"), [Crate("core", FALSE, <<>>, "pinned") EXCEPT !.path = "."]>>),
      \* crates that are configured under other names, one of them another crate's
      Configs(<<[Crate("cli", FALSE, <<>>, "pinned") EXCEPT !.title = "core"],
                [Crate("core", FALSE, <<>>, "pinned") EXCEPT !.title = "zed"]>>),
      \* a requirement nothing is known about
      Configs(<<[Node("web", <<"core">>) EXCEPT !.forms = [d \in {"core"} |-> "unsupported"]], Node("core", <<>>)>>),
      \* refused: a shared manifest, a cycle, an unknown dependency
      Configs(<<Node("web", <<>>), [Node("core", <<>>) EXCEPT !.manifest = "web"]>>),
      Configs(<<Node("web", <<"core">>), Node("core", <<"web">>)>>),
      Configs(<<Node("web", <<"zed">>), Node("core", <<>>)>>) }

SectionsOf(c) ==
    LET ps == Range(c.packages)
        refs(ds) == [d \in ds |-> InitVersion]
        rust == {p \in ps : p.kind = "rust"}
        own == {Own(p) : p \in ps}
        content(s) ==
            [version |-> InitVersion,
             refs |-> IF s[2] = "package"
                      THEN refs(UNION {{d \in Range(p.deps) : p.forms[d] = "pinned"} : p \in {q \in ps : Own(q) = s}})
                      ELSE refs({p.title : p \in rust})]
    IN  [s \in own \cup {Shared(p) : p \in rust} \cup {LockOf(p) : p \in rust} |-> content(s)]

MCSections == [c \in {Normalize(d) : d \in {e \in MCRawConfigs : Accepted(e)}} |-> SectionsOf(c)]

Edit(type, touched) == [type |-> type, breaking |-> FALSE, ignored |-> FALSE, scopes |-> {}, files |-> touched]

MCChanges ==
    { Edit("feat", {{"core"}}),
      [Edit("fix", {{"web"}, {"cli"}}) EXCEPT !.scopes = {"x"}],
      [Edit("docs", {{}}) EXCEPT !.breaking = TRUE] }

MCReleaseRules == "feat" :> Minor @@ "fix" :> Patch @@ "docs" :> NoRelease

MCInitVersion == [major |-> 0, minor |-> 1, patch |-> 0]

Symmetric == Permutations(Planners)
=============================================================================

-------------------------- MODULE ReleasePlan_proofs --------------------------
(***************************************************************************)
(* Proofs about ReleasePlan for every configuration, history and number of *)
(* processes: its type invariant, that the fixpoint of plan.go plans the   *)
(* least set of packages that is closed under dependents, that every       *)
(* change is in the notes of one release, that versions only go up, and    *)
(* that the manifests agree on them.                                       *)
(***************************************************************************)
EXTENDS ReleasePlan, WellFoundedInduction, FiniteSetTheorems, TLAPS

-----------------------------------------------------------------------------
(* Greatest elements. *)

LEMMA SmallestExists ==
    ASSUME NEW T \in SUBSET Nat, T # {}
    PROVE  \E m \in T : \A n \in T : m <= n
<1>1. PICK m \in T : \A n \in T : ~(<<n, m>> \in OpToRel(<, Nat))
  BY NatLessThanWellFounded, WFMin
<1>2. \A n \in T : n < m => <<n, m>> \in OpToRel(<, Nat)
  BY SMT DEF OpToRel
<1>3. ASSUME NEW n \in T PROVE m <= n
  <2>1. m \in Nat /\ n \in Nat /\ ~(n < m)
    BY <1>1, <1>2
  <2> QED BY <2>1
<1> QED BY <1>3

\* A bounded set of natural numbers has a greatest element.
LEMMA GreatestExists ==
    ASSUME NEW B \in Nat, NEW S \in SUBSET (0..B), S # {}
    PROVE  Max(S) \in S /\ \A y \in S : y <= Max(S)
<1> DEFINE Co == {B - x : x \in S}
<1>1. Co \in SUBSET Nat
  OBVIOUS
<1>2. Co # {}
  OBVIOUS
<1>3. PICK m \in Co : \A n \in Co : m <= n
  <2> HIDE DEF Co
  <2> QED BY <1>1, <1>2, SmallestExists
<1>4. PICK x \in S : m = B - x
  BY <1>3
<1>5. \A y \in S : x >= y
  BY <1>3, <1>4
<1>6. Max(S) \in S /\ \A y \in S : Max(S) >= y
  BY <1>4, <1>5 DEF Max
<1> QED BY <1>6

LEMMA HighestInRange ==
    ASSUME NEW S \in SUBSET (NoRelease..Major)
    PROVE  Highest(S) \in NoRelease..Major
<1>1. CASE S = {}
  BY <1>1 DEF Highest, NoRelease, Major
<1>2. CASE S # {}
  <2>1. S \in SUBSET (0..3)
    BY DEF NoRelease, Major
  <2>2. Max(S) \in S
    BY <1>2, <2>1, GreatestExists
  <2> QED BY <1>2, <2>2 DEF Highest
<1> QED BY <1>1, <1>2

-----------------------------------------------------------------------------
(* The inductive invariant. *)

ConfigOK ==
    /\ Count \in Nat
    /\ DOMAIN config.packages = 1..Count

\* A branch is a sequence of commits; tags and plans are for commits of it.
BranchOK ==
    /\ log \in Seq(Range(log))
    /\ \A k \in DOMAIN log : log[k].change \in Changes
    /\ \A t \in DOMAIN tags : tags[t] \in 0..Len(log)
    /\ \A w \in Planners : source[w] <= Len(log)

\* From the routing of the commits on, what is planned is due to them.
Grounded(w) ==
    pc[w] \in {"scan", "build", "mutate", "commit", "tag"} =>
        /\ Direct(w) \subseteq Planned(w)
        /\ \A S \in SUBSET Names : Direct(w) \subseteq S /\ Closed(S) => Planned(w) \subseteq S

\* While a pass has planned nothing new, no package before at[w] is triggered.
Scanned(w) ==
    pc[w] = "scan" /\ ~changed[w] =>
        \A i \in 1..at[w] - 1 :
            Range(config.packages[i].deps) \cap Planned(w) # {} => config.packages[i].name \in Planned(w)

\* A finished plan is closed.
Complete(w) == pc[w] \in {"build", "mutate", "commit", "tag"} => Closed(Planned(w))

PlanOK(w) == Grounded(w) /\ Scanned(w) /\ Complete(w)

IInv == TypeOK /\ ConfigOK /\ BranchOK /\ (\A w \in Planners : PlanOK(w))

LEMMA NameInNames ==
    ASSUME ConfigOK, NEW i \in 1..Count
    PROVE  config.packages[i].name \in Names
BY DEF ConfigOK, Names, PackageNames

LEMMA ReleaseTypes ==
    ASSUME BranchOK, NEW k \in DOMAIN log
    PROVE  ReleaseTypeOf(k) \in NoRelease..Major
<1>1. log[k].change \in Changes
  BY DEF BranchOK
<1>2. ReleaseRules[log[k].change.type] \in NoRelease..Major
  BY <1>1, PlanAssumption
<1>3. Major \in NoRelease..Major
  BY DEF NoRelease, Major
<1> QED BY <1>2, <1>3 DEF ReleaseTypeOf, Change

\* The commits a plan looks at are commits of the branch.
LEMMA WindowInLog ==
    ASSUME TypeOK, BranchOK, NEW w \in Planners, NEW n \in Names
    PROVE  NotesOf(w, n) \subseteq 1..source[w] /\ 1..source[w] \subseteq DOMAIN log
<1>1. source[w] \in Nat /\ source[w] <= Len(log)
  BY DEF TypeOK, BranchOK
<1>2. Len(log) \in Nat /\ DOMAIN log = 1..Len(log)
  BY DEF BranchOK
<1>3. 1..source[w] \subseteq DOMAIN log
  BY <1>1, <1>2
<1>4. NotesOf(w, n) \subseteq 1..source[w]
  BY DEF NotesOf, DirectCommits, Worthy, Candidates, Commits
<1> QED BY <1>3, <1>4

LEMMA DirectTypesOK ==
    ASSUME TypeOK, BranchOK, NEW w \in Planners
    PROVE  DirectTypes(w) \in [Names -> NoRelease..Major]
<1>1. ASSUME NEW n \in Names
      PROVE  Highest({ReleaseTypeOf(k) : k \in NotesOf(w, n)}) \in NoRelease..Major
  <2>1. NotesOf(w, n) \subseteq DOMAIN log
    BY WindowInLog
  <2>2. {ReleaseTypeOf(k) : k \in NotesOf(w, n)} \subseteq NoRelease..Major
    BY <2>1, ReleaseTypes
  <2> QED BY <2>2, HighestInRange
<1> QED BY <1>1 DEF DirectTypes

\* A branch grows at its end only.
Grown == log' = log \/ \E c : log' = Append(log, c)

LEMMA GrownKeeps ==
    ASSUME BranchOK, Grown
    PROVE  /\ Len(log') \in Nat /\ Len(log') >= Len(log)
           /\ DOMAIN log' = 1..Len(log')
           /\ DOMAIN log = 1..Len(log) /\ Len(log) \in Nat
           /\ \A k \in DOMAIN log : k \in DOMAIN log' /\ log'[k] = log[k]
BY DEF BranchOK, Grown

\* What a plan was routed on stays as it is while others commit.
LEMMA DirectStable ==
    ASSUME TypeOK, BranchOK, Grown, config' = config, NEW w \in Planners,
           source'[w] = source[w], since'[w] = since[w]
    PROVE  Direct(w)' = Direct(w) /\ \A n \in Names : NotesOf(w, n)' = NotesOf(w, n)
<1> DEFINE W == 1..source[w]
<1>1. W \subseteq DOMAIN log
  BY DEF TypeOK, BranchOK
<1>2. \A k \in W : log'[k] = log[k]
  BY <1>1, GrownKeeps
<1>3. \A k \in W : /\ Change(k)' = Change(k)
                   /\ Ignored(k)' <=> Ignored(k)
                   /\ ReleaseTypeOf(k)' = ReleaseTypeOf(k)
  BY <1>2 DEF Change, Ignored, IsRelease, ReleaseTypeOf
<1>4. Names' = Names /\ Count' = Count
  BY DEF Names, PackageNames, Count
<1>5. \A n \in Names : Commits(since[w][n], source[w])' = Commits(since[w][n], source[w])
  BY <1>3 DEF Commits
<1>6. Candidates(w)' = Candidates(w) /\ Candidates(w) \subseteq W
  <2>1. Candidates(w)' = UNION {Commits(since[w][n], source[w])' : n \in Names}
    BY <1>4 DEF Candidates
  <2>2. Candidates(w)' = Candidates(w)
    BY <1>5, <2>1 DEF Candidates
  <2>3. Candidates(w) \subseteq W
    BY DEF Candidates, Commits
  <2> QED BY <2>2, <2>3
<1>7. Worthy(Candidates(w))' = Worthy(Candidates(w)) /\ Worthy(Candidates(w)) \subseteq W
  BY <1>3, <1>6 DEF Worthy
<1>8. ASSUME NEW n \in Names PROVE NotesOf(w, n)' = NotesOf(w, n)
  <2>1. \A k \in W : Affects(config, Change(k), n)' <=> Affects(config, Change(k), n)
    BY <1>3 DEF Affects, Package, FileBelongsTo
  <2>2. \A k : Eligible(w, n, k)' <=> Eligible(w, n, k)
    BY <1>5 DEF Eligible
  <2>3. DirectCommits(w, n)' = DirectCommits(w, n)
    BY <1>7, <2>1, <2>2 DEF DirectCommits
  <2> QED BY <1>4, <1>5, <2>3 DEF NotesOf
<1>9. \A n \in Names : NotesOf(w, n) \subseteq W
  BY DEF NotesOf, DirectCommits, Worthy, Candidates, Commits
<1>10. \A n \in Names : {ReleaseTypeOf(k) : k \in NotesOf(w, n)}' = {ReleaseTypeOf(k) : k \in NotesOf(w, n)}
  BY <1>3, <1>8, <1>9
<1>11. DirectTypes(w)' = DirectTypes(w)
  BY <1>4, <1>10 DEF DirectTypes
<1> QED BY <1>4, <1>8, <1>11 DEF Direct

-----------------------------------------------------------------------------
(* The initial states. *)

\* A normalized configuration is a sequence of packages.
LEMMA InitConfig == Init => ConfigOK
<1> SUFFICES ASSUME Init PROVE ConfigOK
  OBVIOUS
<1>1. PICK c \in RawConfigs : config = Normalize(c)
  BY DEF Init, Configurations
<1>2. c \in [packages : Seq(Range(c.packages)), named : BOOLEAN]
  BY PlanAssumption
<1> DEFINE n == Len(c.packages)
<1>3. n \in Nat /\ DOMAIN c.packages = 1..n
  BY <1>2
<1>4. config.packages = [i \in DOMAIN c.packages |-> NormalizePackage(c, c.packages[i])]
  BY <1>1, <1>2 DEF Normalize
<1>5. Len(config.packages) = n /\ DOMAIN config.packages = 1..n
  <2> HIDE DEF n
  <2> QED BY <1>3, <1>4
<1> QED BY <1>3, <1>5 DEF ConfigOK, Count

LEMMA InitIInv == Init => IInv
<1> SUFFICES ASSUME Init PROVE IInv
  OBVIOUS
<1>1. ConfigOK
  BY InitConfig
<1>2. TypeOK
  <2>1. pc \in [Planners -> PCs] /\ lock \in Planners \cup {None}
    BY DEF Init, PCs
  <2>2. source \in [Planners -> Nat] /\ at \in [Planners -> 1..Count + 1]
    BY <1>1 DEF Init, ConfigOK
  <2>3. since \in [Planners -> [Names -> Nat]] /\ types \in [Planners -> [Names -> NoRelease..Major]]
    BY DEF Init, NoRelease, Major
  <2>4. changed \in [Planners -> BOOLEAN]
    BY Zenon DEF Init
  <2>5. \A w \in Planners : lock = w <=> pc[w] \in {"mutate", "commit", "tag"}
    BY PlanAssumption DEF Init
  <2> QED BY <2>1, <2>2, <2>3, <2>4, <2>5 DEF TypeOK
<1>3. BranchOK
  <2>1. log \in Seq(Range(log)) /\ Len(log) = 0 /\ DOMAIN log = {}
    BY DEF Init
  <2> QED BY <2>1 DEF Init, BranchOK, NoTags
<1>4. \A w \in Planners : PlanOK(w)
  BY DEF Init, PlanOK, Grounded, Scanned, Complete
<1> QED BY <1>1, <1>2, <1>3, <1>4 DEF IInv

-----------------------------------------------------------------------------
(* The steps: types. *)

LEMMA ConfigStep == ConfigOK /\ [Next]_vars => ConfigOK' /\ config' = config /\ Names' = Names /\ Count' = Count
<1> SUFFICES ASSUME ConfigOK, [Next]_vars PROVE config' = config
  BY DEF ConfigOK, Names, PackageNames, Count
<1> QED
  BY DEF Next, CreatePlan, Execute, vars, Commit, ReadHead, ReadHistory, Refuse, Route, Trigger, Pass,
         EndPass, Build, BuildFails, Begin, Leave, Update, UpdateFails, CommitRelease, GiveUp, Tag, Finish

LEMMA GrownStep == [Next]_vars => Grown
BY DEF Grown, Next, CreatePlan, Execute, vars, Commit, ReadHead, ReadHistory, Refuse, Route, Trigger, Pass,
       EndPass, Build, BuildFails, Begin, Leave, Update, UpdateFails, CommitRelease, GiveUp, Tag, Finish

\* The scanned package has a name.
LEMMA PkgAtOK ==
    ASSUME TypeOK, ConfigOK, NEW w \in Planners, at[w] <= Count
    PROVE  /\ at[w] \in 1..Count
           /\ PkgAt(w) = config.packages[at[w]]
           /\ PkgAt(w).name \in Names
<1>1. at[w] \in 1..Count
  BY DEF TypeOK, ConfigOK
<1> QED BY <1>1, NameInNames DEF PkgAt, PackageAt

LEMMA LatestTagOK ==
    ASSUME BranchOK, NEW n \in Names
    PROVE  LatestTag(n) \in Nat
<1> DEFINE S == {0} \cup {tags[t] : t \in {u \in DOMAIN tags : SameTags(n, u[2])}}
<1>1. Len(log) \in Nat
  BY DEF BranchOK
<1>2. S \in SUBSET (0..Len(log)) /\ S # {}
  BY <1>1 DEF BranchOK
<1>3. Max(S) \in S
  <2> HIDE DEF S
  <2> QED BY <1>1, <1>2, GreatestExists
<1> QED BY <1>1, <1>2, <1>3 DEF LatestTag

\* The plan of a process that stops is that of one that has not begun.
LEMMA StopTypes ==
    ASSUME TypeOK, ConfigOK, Names' = Names, Count' = Count, NEW w \in Planners, Stop(w)
    PROVE  /\ pc' \in [Planners -> PCs] /\ source' \in [Planners -> Nat]
           /\ at' \in [Planners -> 1..Count + 1] /\ changed' \in [Planners -> BOOLEAN]
           /\ since' \in [Planners -> [Names -> Nat]]
           /\ types' \in [Planners -> [Names -> NoRelease..Major]]
           /\ pc' = [pc EXCEPT ![w] = "idle"]
<1> USE DEF TypeOK, Stop, Goto
<1>1. pc' \in [Planners -> PCs] /\ source' \in [Planners -> Nat]
  BY DEF PCs
<1>2. at' \in [Planners -> 1..Count + 1]
  BY DEF ConfigOK
<1>3. changed' \in [Planners -> BOOLEAN]
  BY Zenon
<1>4. since' \in [Planners -> [Names -> Nat]]
  BY Z3
<1>5. types' \in [Planners -> [Names -> NoRelease..Major]]
  BY Z3 DEF NoRelease, Major
<1> QED BY <1>1, <1>2, <1>3, <1>4, <1>5

\* A step of the processes and of those who commit preserves the types.
LEMMA TypeStep == IInv /\ [Next]_vars => TypeOK'
<1> SUFFICES ASSUME IInv, [Next]_vars PROVE TypeOK'
  OBVIOUS
<1>0. TypeOK /\ ConfigOK /\ BranchOK /\ Names' = Names /\ Count' = Count
  BY ConfigStep DEF IInv
<1> USE <1>0 DEF TypeOK
<1>1. ASSUME NEW c \in Changes, Commit(c) PROVE TypeOK'
  BY <1>1 DEF Commit, plan
<1>2. ASSUME NEW w \in Planners, ReadHead(w) PROVE TypeOK'
  <2>1. Len(log) \in Nat
    BY DEF BranchOK
  <2> QED BY <1>2, <2>1 DEF ReadHead, Goto, PCs
<1>3. ASSUME NEW w \in Planners, ReadHistory(w) PROVE TypeOK'
  <2>1. PkgAt(w).name \in Names /\ at[w] \in 1..Count
    BY <1>3, PkgAtOK DEF ReadHistory
  <2>2. LatestTag(PkgAt(w).name) \in Nat
    BY <2>1, LatestTagOK
  <2>3. since' \in [Planners -> [Names -> Nat]]
    BY <1>3, <2>1, <2>2 DEF ReadHistory
  <2>4. at' \in [Planners -> 1..Count + 1]
    BY <1>3, <2>1 DEF ReadHistory, ConfigOK
  <2> QED BY <1>3, <2>3, <2>4 DEF ReadHistory
<1>4. ASSUME NEW w \in Planners, Refuse(w) \/ BuildFails(w) \/ Leave(w) PROVE TypeOK'
  <2>1. Stop(w) /\ lock' = lock /\ pc[w] \in {"history", "build"}
    BY <1>4 DEF Refuse, BuildFails, Leave
  <2> QED BY <2>1, StopTypes
<1>5. ASSUME NEW w \in Planners, Route(w) PROVE TypeOK'
  <2>1. types' \in [Planners -> [Names -> NoRelease..Major]]
    BY <1>5, DirectTypesOK DEF Route
  <2>2. pc' \in [Planners -> PCs] /\ at' \in [Planners -> 1..Count + 1]
    BY <1>5 DEF Route, Goto, PCs, ConfigOK
  <2>3. changed' \in [Planners -> BOOLEAN]
    BY <1>5, Zenon DEF Route
  <2>4. lock' = lock /\ source' = source /\ since' = since /\ pc' = [pc EXCEPT ![w] = "scan"] /\ pc[w] = "history"
    BY <1>5 DEF Route, Goto
  <2> QED BY <2>1, <2>2, <2>3, <2>4
<1>6. ASSUME NEW w \in Planners, Trigger(w) PROVE TypeOK'
  <2>1. PkgAt(w).name \in Names /\ at[w] \in 1..Count
    BY <1>6, PkgAtOK DEF Trigger
  <2>2. types' \in [Planners -> [Names -> NoRelease..Major]]
    BY <1>6, <2>1 DEF Trigger, Patch, NoRelease, Major
  <2>3. at' \in [Planners -> 1..Count + 1]
    BY <1>6, <2>1 DEF Trigger, ConfigOK
  <2>4. changed' \in [Planners -> BOOLEAN]
    BY <1>6, Zenon DEF Trigger
  <2> QED BY <1>6, <2>2, <2>3, <2>4 DEF Trigger
<1>7. ASSUME NEW w \in Planners, Pass(w) \/ Build(w) PROVE TypeOK'
  <2>1. at[w] \in 1..Count
    BY <1>7, PkgAtOK DEF Pass, Build
  <2>2. at' \in [Planners -> 1..Count + 1]
    BY <1>7, <2>1 DEF Pass, Build, ConfigOK
  <2> QED BY <1>7, <2>2 DEF Pass, Build
<1>8. ASSUME NEW w \in Planners, EndPass(w) PROVE TypeOK'
  <2>1. pc' \in [Planners -> PCs] /\ at' \in [Planners -> 1..Count + 1]
    BY <1>8 DEF EndPass, Goto, PCs, ConfigOK
  <2>2. changed' \in [Planners -> BOOLEAN]
    BY <1>8, Zenon DEF EndPass
  <2> QED BY <1>8, <2>1, <2>2 DEF EndPass, Goto
<1>9. ASSUME NEW w \in Planners, Begin(w) PROVE TypeOK'
  BY <1>9, PlanAssumption DEF Begin, Goto, PCs, plan
<1>10. ASSUME NEW w \in Planners, Update(w) \/ CommitRelease(w) PROVE TypeOK'
  BY <1>10 DEF Update, CommitRelease, Goto, PCs, plan
<1>11. ASSUME NEW w \in Planners, UpdateFails(w) \/ GiveUp(w) \/ Finish(w) PROVE TypeOK'
  <2>1. Stop(w) /\ lock' = None /\ lock = w
    BY <1>11 DEF UpdateFails, GiveUp, Finish
  <2>2. pc' = [pc EXCEPT ![w] = "idle"]
    BY <2>1, StopTypes
  <2>3. \A v \in Planners : lock' = v <=> pc'[v] \in {"mutate", "commit", "tag"}
    BY <2>1, <2>2, PlanAssumption
  <2> QED BY <2>1, <2>3, StopTypes
<1>12. ASSUME NEW w \in Planners, Tag(w) PROVE TypeOK'
  BY <1>12 DEF Tag, plan
<1>13. ASSUME UNCHANGED vars PROVE TypeOK'
  BY <1>13 DEF vars
<1> QED
  BY <1>1, <1>2, <1>3, <1>4, <1>5, <1>6, <1>7, <1>8, <1>9, <1>10, <1>11, <1>12, <1>13
  DEF Next, CreatePlan, Execute

-----------------------------------------------------------------------------
(* The steps: the branch. *)

LEMMA AppendChange ==
    ASSUME BranchOK, NEW e, e.change \in Changes, log' = Append(log, e)
    PROVE  log' \in Seq(Range(log')) /\ \A k \in DOMAIN log' : log'[k].change \in Changes
<1>1. log' \in Seq(Range(log) \cup {e})
  BY DEF BranchOK
<1>2. Len(log') = Len(log) + 1 /\ Len(log) \in Nat /\ DOMAIN log = 1..Len(log) /\ DOMAIN log' = 1..Len(log) + 1
  BY DEF BranchOK
<1>3. \A k \in 1..Len(log) : log'[k] = log[k]
  BY DEF BranchOK
<1>4. log'[Len(log) + 1] = e
  BY DEF BranchOK
<1>5. Range(log') = Range(log) \cup {e}
  <2>1. \A x \in Range(log') : x \in Range(log) \cup {e}
    BY <1>2, <1>3, <1>4 DEF Range
  <2>2. \A x \in Range(log) : x \in Range(log')
    BY <1>2, <1>3 DEF Range
  <2>3. e \in Range(log')
    BY <1>2, <1>4 DEF Range
  <2> QED BY <2>1, <2>2, <2>3
<1> QED BY <1>1, <1>2, <1>3, <1>4, <1>5 DEF BranchOK

LEMMA BranchStep == IInv /\ [Next]_vars => BranchOK'
<1> SUFFICES ASSUME IInv, [Next]_vars PROVE BranchOK'
  OBVIOUS
<1>0. TypeOK /\ BranchOK /\ Grown /\ Len(log) \in Nat /\ Len(log') \in Nat /\ Len(log') >= Len(log)
  BY GrownStep, GrownKeeps DEF IInv
<1>1. log' \in Seq(Range(log')) /\ \A k \in DOMAIN log' : log'[k].change \in Changes
  <2>1. CASE log' = log
    BY <1>0, <2>1 DEF BranchOK
  <2>2. ASSUME NEW c \in Changes, Commit(c) 
        PROVE  log' \in Seq(Range(log')) /\ \A k \in DOMAIN log' : log'[k].change \in Changes
    BY <1>0, <2>2, AppendChange DEF Commit
  <2>3. ASSUME NEW w \in Planners, CommitRelease(w) 
        PROVE  log' \in Seq(Range(log')) /\ \A k \in DOMAIN log' : log'[k].change \in Changes
    <3>1. NoChange \in Changes
      BY PlanAssumption DEF NoChange
    <3> QED BY <1>0, <2>3, <3>1, AppendChange DEF CommitRelease
  <2>4. \/ log' = log
        \/ \E c \in Changes : Commit(c)
        \/ \E w \in Planners : CommitRelease(w)
    BY DEF Next, CreatePlan, Execute, vars, ReadHead, ReadHistory, Refuse, Route, Trigger, Pass,
           EndPass, Build, BuildFails, Begin, Leave, Update, UpdateFails, GiveUp, Tag, Finish
  <2> QED BY <2>1, <2>2, <2>3, <2>4
<1>2. \A t \in DOMAIN tags' : tags'[t] \in 0..Len(log')
  <2>1. CASE tags' = tags
    BY <1>0, <2>1 DEF BranchOK
  <2>2. ASSUME NEW w \in Planners, Tag(w) 
        PROVE  \A t \in DOMAIN tags' : tags'[t] \in 0..Len(log')
    <3> DEFINE new == <<source[w] + 1, NextUntagged(w)>>
    <3>1. tags' = [t \in DOMAIN tags \cup {new} |-> IF t \in DOMAIN tags THEN tags[t] ELSE Len(log)] /\ log' = log
      BY <2>2 DEF Tag
    <3>2. \A t \in DOMAIN tags' : tags'[t] \in {Len(log)} \cup {tags[u] : u \in DOMAIN tags}
      <4> HIDE DEF new
      <4> QED BY <3>1
    <3> QED BY <1>0, <3>1, <3>2 DEF BranchOK
  <2>3. tags' = tags \/ \E w \in Planners : Tag(w)
    BY DEF Next, CreatePlan, Execute, vars, Commit, ReadHead, ReadHistory, Refuse, Route, Trigger, Pass,
           EndPass, Build, BuildFails, Begin, Leave, Update, UpdateFails, CommitRelease, GiveUp, Finish
  <2> QED BY <2>1, <2>2, <2>3
<1>3. \A w \in Planners : source'[w] <= Len(log')
  <2>1. CASE source' = source
    BY <1>0, <2>1 DEF BranchOK, TypeOK
  <2>2. ASSUME NEW w \in Planners, source' = [source EXCEPT ![w] = Len(log)] \/ source' = [source EXCEPT ![w] = 0]
        PROVE \A v \in Planners : source'[v] <= Len(log')
    <3>1. \A v \in Planners : source[v] \in Nat /\ source[v] <= Len(log)
      BY <1>0 DEF BranchOK, TypeOK
    <3>2. \A v \in Planners : source'[v] \in {source[v], Len(log), 0}
      BY <1>0, <2>2 DEF TypeOK
    <3> QED BY <1>0, <3>1, <3>2
  <2>3. \/ source' = source
        \/ \E w \in Planners : \/ source' = [source EXCEPT ![w] = Len(log)]
                               \/ source' = [source EXCEPT ![w] = 0]
    BY DEF Next, CreatePlan, Execute, vars, plan, Stop, Commit, ReadHead, ReadHistory, Refuse, Route, Trigger, Pass,
           EndPass, Build, BuildFails, Begin, Leave, Update, UpdateFails, CommitRelease, GiveUp, Tag, Finish
  <2> QED BY <2>1, <2>2, <2>3
<1> QED BY <1>1, <1>2, <1>3 DEF BranchOK

-----------------------------------------------------------------------------
(* The steps: the plans. *)

\* A process changes no plan but its own, and one who commits changes none.
Untouched(v) ==
    /\ pc'[v] = pc[v] /\ source'[v] = source[v] /\ at'[v] = at[v]
    /\ since'[v] = since[v] /\ types'[v] = types[v] /\ changed'[v] = changed[v]

LEMMA OthersUntouched ==
    ASSUME TypeOK, NEW w \in Planners, CreatePlan(w) \/ Execute(w), NEW v \in Planners, v # w
    PROVE  Untouched(v)
BY DEF TypeOK, Untouched, CreatePlan, Execute, Stop, Goto, plan, ReadHead, ReadHistory, Refuse, Route, Trigger, Pass,
       EndPass, Build, BuildFails, Begin, Leave, Update, UpdateFails, CommitRelease, GiveUp, Tag, Finish

\* What was planned is still grounded as long as the plan itself is the same.
LEMMA SamePlan ==
    ASSUME TypeOK, ConfigOK, BranchOK, Grown, config' = config, NEW w \in Planners,
           source'[w] = source[w], since'[w] = since[w], types'[w] = types[w]
    PROVE  /\ Names' = Names /\ Count' = Count
           /\ Direct(w)' = Direct(w) /\ Planned(w)' = Planned(w)
           /\ \A S : Closed(S)' <=> Closed(S)
<1>1. Names' = Names /\ Count' = Count
  BY DEF Names, PackageNames, Count
<1>2. Direct(w)' = Direct(w)
  BY DirectStable
<1>3. Planned(w)' = Planned(w)
  BY <1>1 DEF Planned
<1>4. \A S : Closed(S)' <=> Closed(S)
  BY <1>1 DEF Closed
<1> QED BY <1>1, <1>2, <1>3, <1>4

LEMMA UntouchedPlan ==
    ASSUME TypeOK, ConfigOK, BranchOK, Grown, config' = config, NEW w \in Planners, PlanOK(w), Untouched(w)
    PROVE  PlanOK(w)'
<1>1. /\ Names' = Names /\ Direct(w)' = Direct(w) /\ Planned(w)' = Planned(w)
      /\ \A S : Closed(S)' <=> Closed(S)
  BY SamePlan DEF Untouched
<1> QED BY <1>1 DEF Untouched, PlanOK, Grounded, Scanned, Complete

Built == {"build", "mutate", "commit", "tag"}

\* A finished plan moves on as it is.
LEMMA BuiltPlan ==
    ASSUME TypeOK, ConfigOK, BranchOK, Grown, config' = config, NEW w \in Planners, PlanOK(w),
           pc[w] \in Built, pc'[w] \in Built,
           source'[w] = source[w], since'[w] = since[w], types'[w] = types[w]
    PROVE  PlanOK(w)'
<1>1. /\ Names' = Names /\ Direct(w)' = Direct(w) /\ Planned(w)' = Planned(w)
      /\ \A S : Closed(S)' <=> Closed(S)
  BY SamePlan
<1> QED BY <1>1 DEF Built, PlanOK, Grounded, Scanned, Complete

LEMMA RoutePlan ==
    ASSUME TypeOK, ConfigOK, BranchOK, Grown, config' = config, NEW w \in Planners, Route(w)
    PROVE  PlanOK(w)'
<1>1. source'[w] = source[w] /\ since'[w] = since[w] /\ pc'[w] = "scan" /\ at'[w] = 1 /\ types'[w] = DirectTypes(w)
  BY DEF Route, Goto, TypeOK
<1>2. Names' = Names /\ Count' = Count
  BY DEF Names, PackageNames, Count
<1>3. Direct(w)' = Direct(w)
  BY <1>1, DirectStable
<1>4. Planned(w)' = Direct(w)
  BY <1>1, <1>2 DEF Planned, Direct
<1> QED BY <1>1, <1>2, <1>3, <1>4 DEF PlanOK, Grounded, Scanned, Complete

\* A package that depends on a planned one is in every closed set the plan is in.
LEMMA TriggerPlan ==
    ASSUME TypeOK, ConfigOK, BranchOK, Grown, config' = config, NEW w \in Planners, PlanOK(w), Trigger(w)
    PROVE  PlanOK(w)'
<1> DEFINE p == PkgAt(w)
<1>1. at[w] \in 1..Count /\ p = config.packages[at[w]] /\ p.name \in Names
  BY PkgAtOK DEF Trigger
<1>2. /\ source'[w] = source[w] /\ since'[w] = since[w] /\ pc[w] = "scan" /\ pc'[w] = "scan" /\ changed'[w]
      /\ types'[w] = [types[w] EXCEPT ![p.name] = Patch]
      /\ Range(p.deps) \cap Planned(w) # {}
  BY DEF Trigger, Triggered, TypeOK
<1>3. Names' = Names /\ Count' = Count
  BY DEF Names, PackageNames, Count
<1>4. Direct(w)' = Direct(w)
  BY <1>2, DirectStable
<1>5. \A S : Closed(S)' <=> Closed(S)
  BY <1>3 DEF Closed
<1>6. Planned(w)' = Planned(w) \cup {p.name}
  <2>1. types[w] \in [Names -> NoRelease..Major]
    BY DEF TypeOK
  <2> HIDE DEF p
  <2> QED BY <1>1, <1>2, <1>3, <2>1 DEF Planned, Patch, NoRelease
<1>7. ASSUME NEW S \in SUBSET Names, Direct(w) \subseteq S, Closed(S)
      PROVE  Planned(w)' \subseteq S
  <2>1. Planned(w) \subseteq S
    BY <1>2, <1>7 DEF PlanOK, Grounded
  <2>2. p.name \in S
    BY <1>1, <1>2, <1>7, <2>1 DEF Closed
  <2> QED BY <1>6, <2>1, <2>2
<1>8. Grounded(w)'
  <2>1. Direct(w)' \subseteq Planned(w)'
    BY <1>2, <1>4, <1>6 DEF PlanOK, Grounded
  <2> QED BY <1>3, <1>4, <1>5, <1>7, <2>1 DEF Grounded
<1> QED BY <1>2, <1>8 DEF PlanOK, Scanned, Complete

LEMMA PassPlan ==
    ASSUME TypeOK, ConfigOK, BranchOK, Grown, config' = config, NEW w \in Planners, PlanOK(w), Pass(w)
    PROVE  PlanOK(w)'
<1>1. at[w] \in 1..Count /\ PkgAt(w) = config.packages[at[w]]
  BY PkgAtOK DEF Pass
<1>2. /\ source'[w] = source[w] /\ since'[w] = since[w] /\ types'[w] = types[w] /\ changed'[w] = changed[w]
      /\ pc[w] = "scan" /\ pc'[w] = "scan" /\ at'[w] = at[w] + 1
  BY DEF Pass, TypeOK
<1>3. /\ Names' = Names /\ Direct(w)' = Direct(w) /\ Planned(w)' = Planned(w)
      /\ \A S : Closed(S)' <=> Closed(S)
  BY <1>2, SamePlan
<1>4. Range(config.packages[at[w]].deps) \cap Planned(w) # {} => config.packages[at[w]].name \in Planned(w)
  BY <1>1 DEF Pass, Triggered
<1>5. Scanned(w)'
  <2>1. \A i \in 1..at'[w] - 1 : i \in 1..at[w] - 1 \/ i = at[w]
    BY <1>1, <1>2 DEF ConfigOK
  <2> QED BY <1>2, <1>3, <1>4, <2>1 DEF PlanOK, Scanned
<1> QED BY <1>2, <1>3, <1>5 DEF PlanOK, Grounded, Complete

LEMMA EndPassPlan ==
    ASSUME TypeOK, ConfigOK, BranchOK, Grown, config' = config, NEW w \in Planners, PlanOK(w), EndPass(w)
    PROVE  PlanOK(w)'
<1>1. /\ source'[w] = source[w] /\ since'[w] = since[w] /\ types'[w] = types[w] /\ pc[w] = "scan"
      /\ at'[w] = 1 /\ pc'[w] = IF changed[w] THEN "scan" ELSE "build"
  BY DEF EndPass, Goto, TypeOK
<1>2. /\ Names' = Names /\ Direct(w)' = Direct(w) /\ Planned(w)' = Planned(w)
      /\ \A S : Closed(S)' <=> Closed(S)
  BY <1>1, SamePlan
<1>3. at[w] - 1 = Count
  <2>1. Count \in Nat /\ at[w] \in 1..Count + 1 /\ at[w] > Count
    BY DEF EndPass, TypeOK, ConfigOK
  <2> HIDE DEF Count
  <2> QED BY <2>1
<1>4. ~changed[w] => Closed(Planned(w))
  BY <1>1, <1>3 DEF PlanOK, Scanned, Closed
<1> QED BY <1>1, <1>2, <1>4 DEF PlanOK, Grounded, Scanned, Complete

LEMMA PlanStep == IInv /\ [Next]_vars => \A v \in Planners : PlanOK(v)'
<1> SUFFICES ASSUME IInv, [Next]_vars, NEW v \in Planners PROVE PlanOK(v)'
  OBVIOUS
<1>0. TypeOK /\ ConfigOK /\ BranchOK /\ Grown /\ config' = config /\ PlanOK(v)
  BY ConfigStep, GrownStep DEF IInv
<1>1. CASE Untouched(v)
  BY <1>0, <1>1, UntouchedPlan
<1>2. ASSUME ReadHead(v) \/ ReadHistory(v) \/ Stop(v) PROVE PlanOK(v)'
  <2>1. pc'[v] \in {"idle", "history"}
    BY <1>0, <1>2 DEF ReadHead, ReadHistory, Stop, Goto, TypeOK
  <2> QED BY <2>1 DEF PlanOK, Grounded, Scanned, Complete
<1>3. ASSUME Build(v) \/ Begin(v) \/ Update(v) \/ CommitRelease(v) \/ Tag(v) PROVE PlanOK(v)'
  <2>1. pc[v] \in Built /\ pc'[v] \in Built
    BY <1>0, <1>3 DEF Build, Begin, Update, CommitRelease, Tag, Goto, TypeOK, Built
  <2>2. source'[v] = source[v] /\ since'[v] = since[v] /\ types'[v] = types[v]
    BY <1>3 DEF Build, Begin, Update, CommitRelease, Tag, plan
  <2> QED BY <1>0, <2>1, <2>2, BuiltPlan
<1>4. ASSUME CreatePlan(v) \/ Execute(v) PROVE PlanOK(v)'
  <2>1. \/ ReadHead(v) \/ ReadHistory(v) \/ Stop(v)
        \/ Build(v) \/ Begin(v) \/ Update(v) \/ CommitRelease(v) \/ Tag(v)
        \/ Route(v) \/ Trigger(v) \/ Pass(v) \/ EndPass(v)
    BY <1>4 DEF CreatePlan, Execute, Refuse, BuildFails, Leave, UpdateFails, GiveUp, Finish
  <2> QED BY <1>0, <1>2, <1>3, <2>1, RoutePlan, TriggerPlan, PassPlan, EndPassPlan
<1>5. ASSUME NEW w \in Planners, CreatePlan(w) \/ Execute(w), w # v PROVE PlanOK(v)'
  BY <1>0, <1>1, <1>5, OthersUntouched
<1>6. ASSUME NEW c \in Changes, Commit(c) PROVE Untouched(v)
  BY <1>6 DEF Commit, plan, Untouched
<1>7. ASSUME UNCHANGED vars PROVE Untouched(v)
  BY <1>7 DEF vars, Untouched
<1> QED BY <1>1, <1>4, <1>5, <1>6, <1>7 DEF Next

LEMMA StepIInv == IInv /\ [Next]_vars => IInv'
BY TypeStep, ConfigStep, BranchStep, PlanStep DEF IInv

-----------------------------------------------------------------------------
(* Every change is released once. *)

\* The packages a scan is past, and those whose history a plan has read.
Seen(w) == {config.packages[i].name : i \in 1..at[w] - 1}
Read(w) ==
    CASE pc[w] = "idle"    -> {}
      [] pc[w] = "history" -> Seen(w)
      [] OTHER             -> Names

\* No change came between a release commit and one of its tags.
Timely == \A k \in DOMAIN log : ~Overtaken(k)

\* A tag is for a release commit, and on it or on a later one.
TagsFollow == \A t \in DOMAIN tags : t[1] \in DOMAIN log /\ IsRelease(t[1]) /\ t[1] <= tags[t]

\* The process that made a release has the lock until all is tagged.
Tagging(w) == pc[w] = "tag" => source[w] + 1 \in DOMAIN log /\ log[source[w] + 1].releases = releases[w]
Tagged ==
    \A r \in DOMAIN log : \A n \in DOMAIN log[r].releases :
        \/ <<r, n>> \in DOMAIN tags
        \/ \E w \in Planners : pc[w] = "tag" /\ source[w] + 1 = r /\ n \in DOMAIN releases[w]

\* The releases of a plan are those of the planned packages, with all their commits.
BuiltOK(w) ==
    /\ pc[w] = "idle" => at[w] = 1
    /\ pc[w] \in {"idle", "history", "scan"} => DOMAIN releases[w] = {}
    /\ pc[w] \in {"mutate", "commit", "tag"} => at[w] = Count + 1
    /\ pc[w] \in Built =>
         /\ DOMAIN releases[w] = Seen(w) \cap Planned(w)
         /\ \A n \in DOMAIN releases[w] : releases[w][n].commits = NotesOf(w, n)

\* The branch is still where the plan has read it, and what it ends with is no release.
Current(w) == Len(log) = source[w] /\ ~Resumable
Began(w) == pc[w] \in {"mutate", "commit"} /\ Len(log) = source[w] => ~Resumable

\* A window begins at a release, and at the last one of the package if the plan is current.
WindowOK(w) ==
    Timely => \A n \in Read(w) :
        /\ since[w][n] = 0 \/ (since[w][n] \in DOMAIN log /\ IsRelease(since[w][n]))
        /\ Current(w) =>
             \A r \in DOMAIN log :
                 n \in DOMAIN log[r].releases /\ <<r, n>> \in DOMAIN tags => r <= since[w][n]

\* What the releases of the branch have in their notes.
NotesSound ==
    \A r \in DOMAIN log : \A n \in DOMAIN log[r].releases : \A k \in log[r].releases[n].commits :
        k \in 1..r - 1 /\ (Count = 1 \/ CallsFor(k, n))
NotedOnce == Timely => \A n \in Names, k \in DOMAIN log : \A r, q \in NotedIn(k, n) : r = q
NoneMissed ==
    Timely => \A n \in Names, k \in DOMAIN log :
        CallsFor(k, n) /\ (\E r \in k..Len(log) : IsRelease(r)) => NotedIn(k, n) # {}

\* The inductive invariant of the releases: of the branch, and of each process.
HistoryOK == TagsFollow /\ Tagged /\ NotesSound /\ NotedOnce /\ NoneMissed
RunOK(w) == Tagging(w) /\ BuiltOK(w) /\ Began(w) /\ WindowOK(w)
EInv == DOMAIN releases = Planners /\ HistoryOK /\ \A w \in Planners : RunOK(w)

\* A process that does not move keeps its releases too.
Waits(v) == Untouched(v) /\ releases'[v] = releases[v]

LEMMA OthersWait ==
    ASSUME TypeOK, DOMAIN releases = Planners, NEW w \in Planners, CreatePlan(w) \/ Execute(w),
           NEW v \in Planners, v # w
    PROVE  Waits(v)
<1>1. releases'[v] = releases[v]
  BY DEF CreatePlan, Execute, Stop, plan, ReadHead, ReadHistory, Refuse, Route, Trigger, Pass,
         EndPass, Build, BuildFails, Begin, Leave, Update, UpdateFails, CommitRelease, GiveUp, Tag, Finish
<1> QED BY <1>1, OthersUntouched DEF Waits

\* Only two steps lengthen the branch, and only one sets a tag.
LEMMA LogStep ==
    [Next]_vars => \/ log' = log
                   \/ (\E c \in Changes : Commit(c)) \/ (\E w \in Planners : CommitRelease(w))
BY DEF Next, CreatePlan, Execute, vars, ReadHead, ReadHistory, Refuse, Route, Trigger, Pass,
       EndPass, Build, BuildFails, Begin, Leave, Update, UpdateFails, GiveUp, Tag, Finish

LEMMA TagStep == [Next]_vars => tags' = tags \/ \E w \in Planners : Tag(w)
BY DEF Next, CreatePlan, Execute, vars, Commit, ReadHead, ReadHistory, Refuse, Route, Trigger, Pass,
       EndPass, Build, BuildFails, Begin, Leave, Update, UpdateFails, CommitRelease, GiveUp, Finish

LEMMA TagSets ==
    ASSUME NEW w \in Planners, Tag(w)
    PROVE  LET t == <<source[w] + 1, NextUntagged(w)>>
           IN  /\ log' = log /\ DOMAIN tags' = DOMAIN tags \cup {t}
               /\ \A u \in DOMAIN tags : tags'[u] = tags[u]
               /\ t \notin DOMAIN tags => tags'[t] = Len(log)
BY DEF Tag

LEMMA TagsKept == [Next]_vars => \A t \in DOMAIN tags : t \in DOMAIN tags' /\ tags'[t] = tags[t]
<1> SUFFICES ASSUME NEW w \in Planners, Tag(w)
             PROVE  \A t \in DOMAIN tags : t \in DOMAIN tags' /\ tags'[t] = tags[t]
  BY TagStep
<1> QED BY TagSets

\* What a commit of the branch is does not change.
LEMMA CommitsStay ==
    ASSUME BranchOK, Grown, config' = config, NEW k \in DOMAIN log
    PROVE  /\ k \in DOMAIN log' /\ log'[k] = log[k] /\ IsRelease(k)' = IsRelease(k)
           /\ \A n : CallsFor(k, n)' = CallsFor(k, n)
<1>1. k \in DOMAIN log' /\ log'[k] = log[k]
  BY GrownKeeps
<1>2. IsRelease(k)' = IsRelease(k) /\ Change(k)' = Change(k)
  BY <1>1 DEF IsRelease, Change
<1>3. Ignored(k)' = Ignored(k) /\ ReleaseTypeOf(k)' = ReleaseTypeOf(k)
  BY <1>2 DEF Ignored, ReleaseTypeOf
<1>4. Count' = Count /\ \A n : Affects(config, Change(k), n)' = Affects(config, Change(k), n)
  BY <1>2 DEF Count, Affects, Package, FileBelongsTo
<1> QED BY <1>1, <1>2, <1>3, <1>4 DEF CallsFor

\* Once a change has come in between, it has for ever.
LEMMA TimelyBefore ==
    ASSUME IInv, [Next]_vars, Timely'
    PROVE  Timely
<1> SUFFICES ASSUME NEW k \in DOMAIN log, NEW t \in DOMAIN tags, t[1] < k, k <= tags[t] PROVE FALSE
  BY DEF Timely, Overtaken
<1>1. k \in DOMAIN log'
  BY GrownStep, GrownKeeps DEF IInv
<1>2. t \in DOMAIN tags' /\ tags'[t] = tags[t]
  BY TagsKept
<1> QED BY <1>1, <1>2 DEF Timely, Overtaken

LEMMA TimelyTags ==
    ASSUME BranchOK, TagsFollow, Timely, NEW t \in DOMAIN tags
    PROVE  tags[t] = t[1]
<1>1. /\ Len(log) \in Nat /\ DOMAIN log = 1..Len(log)
      /\ tags[t] \in 0..Len(log) /\ t[1] \in DOMAIN log /\ t[1] <= tags[t]
  BY DEF BranchOK, TagsFollow
<1>2. tags[t] \in DOMAIN log
  BY <1>1
<1>3. ~(t[1] < tags[t])
  BY <1>1, <1>2 DEF Timely, Overtaken
<1> QED BY <1>1, <1>3

LEMMA NextIsUntagged ==
    ASSUME ConfigOK, NEW w \in Planners, Untagged(w) # {}, Untagged(w) \subseteq Names
    PROVE  NextUntagged(w) \in Untagged(w)
<1> DEFINE S == {i \in 1..Count : config.packages[i].name \in Untagged(w)}
<1>1. S \subseteq Nat /\ S # {}
  BY DEF ConfigOK, Names, PackageNames
<1>2. Min(S) \in S
  <2> HIDE DEF S
  <2>1. PICK m \in S : \A n \in S : m <= n
    BY <1>1, SmallestExists
  <2> QED BY <2>1 DEF Min
<1> QED BY <1>2 DEF NextUntagged

\* What a run releases are packages of the configuration.
LEMMA ReleasesNamed ==
    ASSUME NEW w \in Planners, BuiltOK(w), TypeOK, ConfigOK
    PROVE  /\ DOMAIN releases[w] \subseteq Planned(w) /\ DOMAIN releases[w] \subseteq Names
           /\ pc[w] \in {"mutate", "commit", "tag"} => DOMAIN releases[w] = Names \cap Planned(w)
<1>1. Planned(w) \subseteq Names
  BY DEF Planned
<1>2. pc[w] \in Built \/ DOMAIN releases[w] = {}
  BY DEF BuiltOK, Built, TypeOK, PCs
<1>3. ASSUME pc[w] \in {"mutate", "commit", "tag"} PROVE Planned(w) \subseteq Seen(w)
  <2>1. at[w] = Count + 1
    BY <1>3 DEF BuiltOK
  <2>2. Seen(w) = Names
    BY <2>1 DEF Seen, ConfigOK, Names, PackageNames
  <2> QED BY <1>1, <2>2
<1> QED BY <1>1, <1>2, <1>3 DEF BuiltOK, Built

\* A tag that is set in time is set at the tip, which is the release commit.
LEMMA NewTag ==
    ASSUME IInv, EInv, [Next]_vars, NEW t \in DOMAIN tags' \ DOMAIN tags
    PROVE  /\ t[1] \in DOMAIN log /\ IsRelease(t[1]) /\ t[1] <= tags'[t]
           /\ Timely' => t[1] = Len(log) /\ Resumable
<1>0. ConfigOK /\ BranchOK /\ TypeOK /\ Len(log) \in Nat /\ DOMAIN log = 1..Len(log)
  BY DEF IInv, BranchOK
<1>1. PICK w \in Planners : Tag(w)
  BY TagStep
<1> DEFINE n == NextUntagged(w)
<1>2. /\ t = <<source[w] + 1, n>> /\ tags'[t] = Len(log) /\ log' = log
  BY <1>1, TagSets
<1>3. /\ pc[w] = "tag" /\ source[w] + 1 \in DOMAIN log /\ log[source[w] + 1].releases = releases[w]
      /\ Untagged(w) # {} /\ Untagged(w) \subseteq DOMAIN releases[w]
  BY <1>1 DEF Tag, EInv, RunOK, Tagging, Untagged
<1>4. t[1] = source[w] + 1
  BY <1>2
<1> HIDE DEF n
<1>5. t[1] \in DOMAIN log /\ IsRelease(t[1]) /\ t[1] <= tags'[t]
  BY <1>0, <1>2, <1>3, <1>4 DEF IsRelease
<1>6. ASSUME Timely' PROVE t[1] = Len(log)
  <2>1. Len(log) \in DOMAIN log'
    BY <1>0, <1>2, <1>5
  <2>2. ~(t[1] < Len(log))
    BY <1>0, <1>2, <1>6, <2>1 DEF Timely, Overtaken
  <2> QED BY <1>0, <1>5, <2>2
<1>7. t[1] = Len(log) => Resumable
  BY <1>0, <1>5 DEF Resumable
<1> QED BY <1>5, <1>6, <1>7

LEMMA TagsFollowStep == IInv /\ EInv /\ [Next]_vars => TagsFollow'
<1> SUFFICES ASSUME IInv, EInv, [Next]_vars, NEW t \in DOMAIN tags'
             PROVE  t[1] \in DOMAIN log' /\ IsRelease(t[1])' /\ t[1] <= tags'[t]
  BY DEF TagsFollow, IsRelease
<1>1. t[1] \in DOMAIN log /\ IsRelease(t[1]) /\ t[1] <= tags'[t]
  <2>1. CASE t \in DOMAIN tags
    BY <2>1, TagsKept DEF EInv, HistoryOK, TagsFollow
  <2>2. CASE t \notin DOMAIN tags
    BY <2>2, NewTag
  <2> QED BY <2>1, <2>2
<1> QED BY <1>1, CommitsStay, ConfigStep, GrownStep DEF IInv

-----------------------------------------------------------------------------
(* The steps: what a run has read. *)

\* A window stays what it is while the plan does.
LEMMA WindowKeeps ==
    ASSUME IInv, EInv, [Next]_vars, NEW v \in Planners,
           source'[v] = source[v], since'[v] = since[v], Read(v)' \subseteq Read(v)
    PROVE  WindowOK(v)'
<1> SUFFICES ASSUME Timely', NEW n \in Read(v)
             PROVE  /\ since[v][n] = 0 \/ (since[v][n] \in DOMAIN log' /\ IsRelease(since[v][n])')
                    /\ Current(v)' => \A r \in DOMAIN log' :
                          n \in DOMAIN log'[r].releases /\ <<r, n>> \in DOMAIN tags' => r <= since[v][n]
  BY DEF WindowOK, IsRelease
<1>0. BranchOK /\ TypeOK /\ Grown /\ config' = config /\ Timely
  BY ConfigStep, GrownStep, TimelyBefore DEF IInv
<1>1. /\ since[v][n] = 0 \/ (since[v][n] \in DOMAIN log /\ IsRelease(since[v][n]))
      /\ Current(v) => \A r \in DOMAIN log :
            n \in DOMAIN log[r].releases /\ <<r, n>> \in DOMAIN tags => r <= since[v][n]
  BY <1>0 DEF EInv, RunOK, WindowOK
<1>2. since[v][n] = 0 \/ (since[v][n] \in DOMAIN log' /\ IsRelease(since[v][n])')
  BY <1>0, <1>1, CommitsStay
<1>3. ASSUME Current(v)', NEW r \in DOMAIN log', n \in DOMAIN log'[r].releases, <<r, n>> \in DOMAIN tags'
      PROVE  r <= since[v][n]
  <2>1. Len(log) \in Nat /\ source[v] <= Len(log) /\ Len(log') = source[v]
    BY <1>0, <1>3 DEF BranchOK, Current
  <2>2. log' = log
    BY <1>0, <2>1 DEF Grown, BranchOK
  <2>3. Current(v)
    BY <1>3, <2>1, <2>2 DEF Current, Resumable, IsRelease
  <2>4. <<r, n>> \in DOMAIN tags
    BY <2>3, NewTag, <1>3 DEF Current
  <2> QED BY <1>1, <1>3, <2>2, <2>3, <2>4
<1> QED BY <1>2, <1>3

LEMMA LatestTagFacts ==
    ASSUME BranchOK, NEW n \in Names
    PROVE  /\ LatestTag(n) = 0 \/ \E t \in DOMAIN tags : LatestTag(n) = tags[t]
           /\ \A r : <<r, n>> \in DOMAIN tags => tags[<<r, n>>] <= LatestTag(n)
<1> DEFINE S == {0} \cup {tags[t] : t \in {u \in DOMAIN tags : SameTags(n, u[2])}}
<1>1. Len(log) \in Nat
  BY DEF BranchOK
<1>2. S \in SUBSET (0..Len(log)) /\ S # {}
  BY <1>1 DEF BranchOK
<1>3. Max(S) \in S /\ \A y \in S : y <= Max(S)
  <2> HIDE DEF S
  <2> QED BY <1>1, <1>2, GreatestExists
<1>4. \A r : <<r, n>> \in DOMAIN tags => tags[<<r, n>>] \in S
  <2> SUFFICES ASSUME NEW r, <<r, n>> \in DOMAIN tags PROVE tags[<<r, n>>] \in S
    OBVIOUS
  <2>1. SameTags(n, (<<r, n>>)[2])
    BY DEF SameTags
  <2> QED BY <2>1
<1>5. LatestTag(n) = Max(S)
  BY DEF LatestTag
<1>6. \A y \in S : y = 0 \/ \E t \in DOMAIN tags : y = tags[t]
  OBVIOUS
<1> HIDE DEF S
<1> QED BY <1>3, <1>4, <1>5, <1>6

LEMMA ReadHistoryWindow ==
    ASSUME IInv, EInv, [Next]_vars, NEW v \in Planners, ReadHistory(v)
    PROVE  WindowOK(v)'
<1> DEFINE m == PkgAt(v).name
<1>0. TypeOK /\ ConfigOK /\ BranchOK /\ Names' = Names /\ config' = config /\ at[v] \in 1..Count /\ m \in Names
      /\ m = config.packages[at[v]].name /\ Count \in Nat /\ TagsFollow
  BY ConfigStep, PkgAtOK DEF IInv, ReadHistory, ConfigOK, EInv, HistoryOK
<1>1. /\ pc' = pc /\ pc[v] = "history" /\ at'[v] = at[v] + 1 /\ source' = source /\ log' = log /\ tags' = tags
      /\ since'[v] = [since[v] EXCEPT ![m] = LatestTag(m)] /\ since[v] \in [Names -> Nat]
  BY <1>0 DEF ReadHistory, TypeOK
<1>2. Timely' <=> Timely
  BY <1>1 DEF Timely, Overtaken
<1>3. Current(v)' <=> Current(v)
  BY <1>1 DEF Current, Resumable, IsRelease
<1>4. \A n \in Read(v)' : n \in Read(v) \/ n = m
  <2>1. Read(v)' = {config.packages[i].name : i \in 1..at[v]}
    BY <1>0, <1>1 DEF Read, Seen
  <2>2. Read(v) = {config.packages[i].name : i \in 1..at[v] - 1}
    BY <1>1 DEF Read, Seen
  <2> HIDE DEF m
  <2> QED BY <1>0, <2>1, <2>2
<1> HIDE DEF m
<1>5. ASSUME Timely, NEW n \in Names, n = m \/ n \in Read(v)
      PROVE  /\ since'[v][n] = 0 \/ (since'[v][n] \in DOMAIN log /\ IsRelease(since'[v][n]))
             /\ Current(v) => \A r \in DOMAIN log :
                   n \in DOMAIN log[r].releases /\ <<r, n>> \in DOMAIN tags => r <= since'[v][n]
  <2>1. CASE n # m
    <3>1. since'[v][n] = since[v][n]
      BY <1>1, <2>1
    <3> QED BY <1>5, <2>1, <3>1 DEF EInv, RunOK, WindowOK
  <2>2. CASE n = m
    <3>1. since'[v][n] = LatestTag(n)
      BY <1>0, <1>1, <2>2
    <3>2. \A t \in DOMAIN tags : tags[t] = t[1] /\ t[1] \in DOMAIN log /\ IsRelease(t[1])
      BY <1>0, <1>5, TimelyTags DEF TagsFollow
    <3>3. LatestTag(n) = 0 \/ \E t \in DOMAIN tags : LatestTag(n) = tags[t]
      BY <1>0, LatestTagFacts
    <3>4. LatestTag(n) = 0 \/ (LatestTag(n) \in DOMAIN log /\ IsRelease(LatestTag(n)))
      BY <3>2, <3>3
    <3>5. ASSUME NEW r, <<r, n>> \in DOMAIN tags PROVE r <= LatestTag(n)
      <4>1. tags[<<r, n>>] = r
        BY <3>2, <3>5
      <4>2. tags[<<r, n>>] <= LatestTag(n)
        BY <1>0, <3>5, LatestTagFacts
      <4> QED BY <4>1, <4>2
    <3> QED BY <3>1, <3>4, <3>5
  <2> QED BY <2>1, <2>2
<1>6. \A n \in Read(v)' : n \in Names
  <2>1. \A n \in Read(v) : n \in Names
    BY <1>0, <1>1 DEF Read, Seen, Names, PackageNames, ConfigOK, TypeOK
  <2> QED BY <1>0, <1>4, <2>1
<1> QED BY <1>1, <1>2, <1>3, <1>4, <1>5, <1>6 DEF WindowOK, IsRelease

\* A run that stops or begins has read nothing.
LEMMA NothingRead ==
    ASSUME TypeOK, ConfigOK, NEW v \in Planners, Stop(v)
    PROVE  Read(v)' = {}
BY DEF Read, Stop, Goto, TypeOK

LEMMA WindowStep == IInv /\ EInv /\ [Next]_vars => \A v \in Planners : WindowOK(v)'
<1> SUFFICES ASSUME IInv, EInv, [Next]_vars, NEW v \in Planners PROVE WindowOK(v)'
  OBVIOUS
<1>0. TypeOK /\ ConfigOK /\ BranchOK /\ Names' = Names /\ config' = config /\ Count' = Count
  BY ConfigStep DEF IInv
<1>1. CASE Waits(v)
  <2>1. Read(v)' = Read(v)
    BY <1>0, <1>1 DEF Waits, Untouched, Read, Seen
  <2> QED BY <1>1, <2>1, WindowKeeps DEF Waits, Untouched
<1>2. CASE Stop(v)
  BY <1>0, <1>2, NothingRead DEF WindowOK
<1>3. CASE ReadHead(v)
  <2>1. at[v] = 1 /\ at' = at /\ pc'[v] = "history"
    BY <1>0, <1>3 DEF ReadHead, Goto, TypeOK, EInv, RunOK, BuiltOK
  <2>2. Read(v)' = {}
    BY <2>1 DEF Read, Seen
  <2> QED BY <2>2 DEF WindowOK
<1>4. CASE ReadHistory(v)
  BY <1>4, ReadHistoryWindow
<1>5. CASE Route(v)
  <2>1. Read(v) = Names
    <3>1. pc[v] = "history" /\ at[v] \in 1..Count + 1 /\ at[v] > Count /\ Count \in Nat
      BY <1>0, <1>5 DEF Route, TypeOK, ConfigOK
    <3>2. at[v] - 1 = Count
      <4> HIDE DEF Count
      <4> QED BY <3>1
    <3> QED BY <1>0, <3>1, <3>2 DEF Read, Seen, Names, PackageNames, ConfigOK
  <2>2. Read(v)' = Names
    BY <1>0, <1>5 DEF Read, Route, Goto, TypeOK
  <2> QED BY <1>5, <2>1, <2>2, WindowKeeps DEF Route
<1>6. CASE Trigger(v) \/ Pass(v) \/ EndPass(v) \/ Build(v) \/ Begin(v) \/ Update(v) \/ CommitRelease(v) \/ Tag(v)
  <2>1. pc[v] \notin {"idle", "history"} /\ pc'[v] \notin {"idle", "history"}
    BY <1>0, <1>6 DEF Trigger, Pass, EndPass, Build, Begin, Update, CommitRelease, Tag, Goto, TypeOK
  <2>2. Read(v)' = Read(v)
    BY <1>0, <2>1 DEF Read
  <2>3. source'[v] = source[v] /\ since'[v] = since[v]
    BY <1>6 DEF Trigger, Pass, EndPass, Build, Begin, Update, CommitRelease, Tag, plan
  <2> QED BY <2>2, <2>3, WindowKeeps
<1>7. ASSUME CreatePlan(v) \/ Execute(v) PROVE WindowOK(v)'
  BY <1>2, <1>3, <1>4, <1>5, <1>6, <1>7
  DEF CreatePlan, Execute, Refuse, BuildFails, Leave, UpdateFails, GiveUp, Finish
<1>8. ASSUME NEW w \in Planners, CreatePlan(w) \/ Execute(w), w # v PROVE WindowOK(v)'
  BY <1>0, <1>1, <1>8, OthersWait DEF EInv
<1>9. ASSUME NEW c \in Changes, Commit(c) PROVE Waits(v)
  BY <1>9 DEF Commit, plan, Untouched, Waits
<1>10. ASSUME UNCHANGED vars PROVE Waits(v)
  BY <1>10 DEF vars, Untouched, Waits
<1> QED BY <1>1, <1>7, <1>8, <1>9, <1>10 DEF Next

-----------------------------------------------------------------------------
(* The steps: what a run releases. *)

LEMMA BeganStep == IInv /\ EInv /\ [Next]_vars => \A v \in Planners : Began(v)'
<1> SUFFICES ASSUME IInv, EInv, [Next]_vars, NEW v \in Planners,
                    pc'[v] \in {"mutate", "commit"}, Len(log') = source'[v]
             PROVE  ~Resumable'
  BY DEF Began, Resumable, IsRelease
<1>0. TypeOK /\ BranchOK /\ Grown /\ source[v] \in Nat /\ Len(log) \in Nat /\ source[v] <= Len(log)
  BY GrownStep DEF IInv, BranchOK, TypeOK
<1>1. ASSUME source'[v] = source[v], ~Resumable \/ pc[v] \in {"mutate", "commit"} PROVE ~Resumable'
  <2>1. Len(log) = source[v] /\ log' = log
    BY <1>0, <1>1 DEF Grown, BranchOK
  <2>2. ~Resumable
    BY <1>1, <2>1 DEF EInv, RunOK, Began
  <2> QED BY <2>1, <2>2 DEF Resumable, IsRelease
<1>2. CASE Waits(v)
  BY <1>1, <1>2 DEF Waits, Untouched
<1>3. ASSUME CreatePlan(v) \/ Execute(v) PROVE ~Resumable'
  <2>1. Begin(v) \/ Update(v)
    BY <1>0, <1>3 DEF CreatePlan, Execute, ReadHead, ReadHistory, Refuse, Route, Trigger, Pass, EndPass, Build,
       BuildFails, Leave, UpdateFails, CommitRelease, GiveUp, Tag, Finish, Stop, Goto, TypeOK
  <2>2. source'[v] = source[v]
    BY <2>1 DEF Begin, Update, plan
  <2>3. Begin(v) => ~Resumable
    BY DEF Begin, Releasable
  <2>4. Update(v) => pc[v] \in {"mutate", "commit"}
    BY DEF Update
  <2> QED BY <1>1, <2>1, <2>2, <2>3, <2>4
<1>4. ASSUME NEW w \in Planners, CreatePlan(w) \/ Execute(w), w # v PROVE Waits(v)
  BY <1>0, <1>4, OthersWait DEF EInv
<1>5. ASSUME NEW c \in Changes, Commit(c) PROVE Waits(v)
  BY <1>5 DEF Commit, plan, Untouched, Waits
<1>6. ASSUME UNCHANGED vars PROVE Waits(v)
  BY <1>6 DEF vars, Untouched, Waits
<1> QED BY <1>2, <1>3, <1>4, <1>5, <1>6 DEF Next

\* The last commit of a branch that grew.
LEMMA AppendedCommit ==
    ASSUME BranchOK, NEW e, log' = Append(log, e)
    PROVE  /\ Len(log) \in Nat /\ DOMAIN log = 1..Len(log) /\ Len(log') = Len(log) + 1
           /\ DOMAIN log' = DOMAIN log \cup {Len(log) + 1} /\ log'[Len(log) + 1] = e
BY DEF BranchOK

LEMMA TaggingStep == IInv /\ EInv /\ [Next]_vars => \A v \in Planners : Tagging(v)'
<1> SUFFICES ASSUME IInv, EInv, [Next]_vars, NEW v \in Planners, pc'[v] = "tag"
             PROVE  source'[v] + 1 \in DOMAIN log' /\ log'[source'[v] + 1].releases = releases'[v]
  BY DEF Tagging
<1>0. TypeOK /\ BranchOK /\ Grown
  BY GrownStep DEF IInv
<1>1. ASSUME source'[v] = source[v], releases'[v] = releases[v], pc[v] = "tag"
      PROVE  source'[v] + 1 \in DOMAIN log' /\ log'[source'[v] + 1].releases = releases'[v]
  <2>1. source[v] + 1 \in DOMAIN log /\ log[source[v] + 1].releases = releases[v]
    BY <1>1 DEF EInv, RunOK, Tagging
  <2> QED BY <1>0, <1>1, <2>1, GrownKeeps
<1>2. CASE Waits(v)
  BY <1>1, <1>2 DEF Waits, Untouched
<1>3. CASE Tag(v)
  BY <1>1, <1>3 DEF Tag, plan
<1>4. CASE CommitRelease(v)
  <2> DEFINE e == [change |-> NoChange, releases |-> releases[v]]
  <2>1. log' = Append(log, e) /\ source[v] = Len(log) /\ source' = source /\ releases' = releases
    BY <1>4 DEF CommitRelease, plan
  <2>2. e.releases = releases[v]
    OBVIOUS
  <2> HIDE DEF e
  <2> QED BY <1>0, <2>1, <2>2, AppendedCommit
<1>5. ASSUME CreatePlan(v) \/ Execute(v) PROVE Tag(v) \/ CommitRelease(v)
  BY <1>0, <1>5 DEF CreatePlan, Execute, ReadHead, ReadHistory, Refuse, Route, Trigger, Pass, EndPass, Build,
     BuildFails, Begin, Leave, Update, UpdateFails, GiveUp, Finish, Stop, Goto, TypeOK
<1>6. ASSUME NEW w \in Planners, CreatePlan(w) \/ Execute(w), w # v PROVE Waits(v)
  BY <1>0, <1>6, OthersWait DEF EInv
<1>7. ASSUME NEW c \in Changes, Commit(c) PROVE Waits(v)
  BY <1>7 DEF Commit, plan, Untouched, Waits
<1>8. ASSUME UNCHANGED vars PROVE Waits(v)
  BY <1>8 DEF vars, Untouched, Waits
<1> QED BY <1>2, <1>3, <1>4, <1>5, <1>6, <1>7, <1>8 DEF Next

\* A plan that is the same releases the same.
LEMMA SameBuilt ==
    ASSUME IInv, EInv, [Next]_vars, NEW v \in Planners,
           source'[v] = source[v], since'[v] = since[v], types'[v] = types[v]
    PROVE  /\ Count' = Count /\ Planned(v)' = Planned(v) /\ Planned(v) \subseteq Names
           /\ \A n \in Names : NotesOf(v, n)' = NotesOf(v, n)
<1>0. TypeOK /\ ConfigOK /\ BranchOK /\ Grown /\ config' = config
  BY ConfigStep, GrownStep DEF IInv
<1> QED BY <1>0, SamePlan, DirectStable DEF Planned

LEMMA BuildStep ==
    ASSUME IInv, EInv, [Next]_vars, NEW v \in Planners, Build(v)
    PROVE  BuiltOK(v)'
<1> DEFINE p == PkgAt(v)
<1>0. /\ TypeOK /\ ConfigOK /\ at[v] \in 1..Count /\ p.name \in Names /\ p = config.packages[at[v]]
      /\ Names' = Names /\ config' = config
  BY ConfigStep, PkgAtOK DEF IInv, Build
<1>1. /\ pc' = pc /\ pc[v] = "build" /\ source' = source /\ since' = since /\ types' = types
      /\ at'[v] = at[v] + 1
  BY <1>0 DEF Build, TypeOK
<1>2. Count' = Count /\ Planned(v)' = Planned(v) /\ \A n \in Names : NotesOf(v, n)' = NotesOf(v, n)
  BY <1>1, SameBuilt
<1>3. DOMAIN releases[v] = Seen(v) \cap Planned(v) /\ \A n \in DOMAIN releases[v] : releases[v][n].commits = NotesOf(v, n)
  BY <1>1 DEF EInv, RunOK, BuiltOK, Built
<1>4. Seen(v)' = Seen(v) \cup {p.name}
  <2>1. Seen(v)' = {config.packages[i].name : i \in 1..at[v]}
    BY <1>0, <1>1 DEF Seen, ConfigOK
  <2>2. Seen(v) = {config.packages[i].name : i \in 1..at[v] - 1} /\ at[v] \in Nat /\ at[v] >= 1 
    BY <1>0 DEF Seen, ConfigOK
  <2> QED BY <1>0, <2>1, <2>2
<1>5. Planned(v) \subseteq Names
  BY DEF Planned
<1>6. CASE types[v][p.name] = NoRelease
  <2>1. releases' = releases /\ p.name \notin Planned(v)
    BY <1>6 DEF Build, Planned
  <2> HIDE DEF p
  <2> QED BY <1>1, <1>2, <1>3, <1>4, <1>5, <2>1 DEF BuiltOK, Built
<1>7. CASE types[v][p.name] # NoRelease
  <2> DEFINE r == [version |-> Bump(CurrentVersion(files, p), types[v][p.name]), commits |-> NotesOf(v, p.name)]
             R == [n \in DOMAIN releases[v] \cup {p.name} |-> IF n = p.name THEN r ELSE releases[v][n]]
  <2>1. releases' = [releases EXCEPT ![v] = R] /\ DOMAIN releases = Planners
    BY <1>7 DEF Build, EInv
  <2>2. r.commits = NotesOf(v, p.name)
    OBVIOUS
  <2>3. p.name \in Planned(v)
    BY <1>0, <1>7 DEF Planned
  <2> HIDE DEF r, p
  <2>4. DOMAIN R = DOMAIN releases[v] \cup {p.name} /\ \A n \in DOMAIN R : R[n].commits = NotesOf(v, n)
    BY <1>3, <2>2
  <2> HIDE DEF R
  <2>5. releases'[v] = R
    BY <2>1
  <2>6. DOMAIN R = Seen(v)' \cap Planned(v)
    BY <1>3, <1>4, <2>3, <2>4
  <2> QED BY <1>1, <1>2, <1>5, <2>4, <2>5, <2>6 DEF BuiltOK, Built
<1> QED BY <1>6, <1>7

LEMMA BuiltStep == IInv /\ EInv /\ [Next]_vars => \A v \in Planners : BuiltOK(v)'
<1> SUFFICES ASSUME IInv, EInv, [Next]_vars, NEW v \in Planners PROVE BuiltOK(v)'
  OBVIOUS
<1>0. /\ TypeOK /\ ConfigOK /\ Names' = Names /\ config' = config /\ Count' = Count
      /\ DOMAIN releases = Planners /\ BuiltOK(v)
  BY ConfigStep DEF IInv, EInv, RunOK
<1>1. ASSUME source'[v] = source[v], since'[v] = since[v], types'[v] = types[v], releases'[v] = releases[v],
             at'[v] = at[v], pc'[v] = pc[v] \/ (pc[v] \in Built /\ pc'[v] \in Built /\ at[v] = Count + 1)
      PROVE  BuiltOK(v)'
  <2>1. Planned(v)' = Planned(v) /\ Planned(v) \subseteq Names /\ \A n \in Names : NotesOf(v, n)' = NotesOf(v, n)
    BY <1>1, SameBuilt
  <2>2. Seen(v)' = Seen(v)
    BY <1>0, <1>1 DEF Seen
  <2>3. DOMAIN releases[v] \subseteq Names \/ pc[v] \notin Built
    BY <1>0, <2>1 DEF BuiltOK
  <2> QED BY <1>0, <1>1, <2>1, <2>2, <2>3 DEF BuiltOK, Built
<1>2. CASE Waits(v)
  BY <1>1, <1>2 DEF Waits, Untouched
<1>3. CASE Stop(v)
  <2>1. pc'[v] = "idle" /\ at'[v] = 1 /\ releases'[v] = NoReleases
    BY <1>0, <1>3 DEF Stop, Goto, TypeOK
  <2> QED BY <2>1 DEF BuiltOK, Built, NoReleases
<1>4. CASE ReadHead(v) \/ ReadHistory(v) \/ Route(v) \/ Trigger(v) \/ Pass(v)
  <2>1. releases' = releases /\ pc[v] \in {"idle", "history", "scan"} /\ pc'[v] \in {"history", "scan"}
    BY <1>0, <1>4 DEF ReadHead, ReadHistory, Route, Trigger, Pass, Goto, TypeOK
  <2> QED BY <1>0, <2>1 DEF BuiltOK, Built
<1>5. CASE EndPass(v)
  <2>1. releases' = releases /\ pc[v] = "scan" /\ pc'[v] \in {"scan", "build"} /\ at'[v] = 1
    BY <1>0, <1>5 DEF EndPass, Goto, TypeOK
  <2>2. Seen(v)' = {}
    BY <2>1 DEF Seen
  <2> QED BY <1>0, <2>1, <2>2 DEF BuiltOK, Built
<1>6. CASE Build(v)
  BY <1>6, BuildStep
<1>7. CASE Begin(v)
  <2>1. at[v] \in 1..Count + 1 /\ at[v] > Count /\ Count \in Nat
    BY <1>0, <1>7 DEF Begin, TypeOK, ConfigOK
  <2>2. at[v] = Count + 1
    <3> HIDE DEF Count
    <3> QED BY <2>1
  <2> QED BY <1>0, <1>1, <1>7, <2>2 DEF Begin, Goto, TypeOK, Built, plan
<1>8. CASE Update(v) \/ CommitRelease(v) \/ Tag(v)
  <2>1. pc[v] \in {"mutate", "commit", "tag"} /\ pc'[v] \in Built
    BY <1>0, <1>8 DEF Update, CommitRelease, Tag, Goto, TypeOK, Built
  <2>2. at[v] = Count + 1 /\ pc[v] \in Built
    BY <1>0, <2>1 DEF BuiltOK, Built
  <2> QED BY <1>1, <1>8, <2>1, <2>2 DEF Update, CommitRelease, Tag, plan
<1>9. ASSUME CreatePlan(v) \/ Execute(v) PROVE BuiltOK(v)'
  BY <1>3, <1>4, <1>5, <1>6, <1>7, <1>8, <1>9
  DEF CreatePlan, Execute, Refuse, BuildFails, Leave, UpdateFails, GiveUp, Finish
<1>10. ASSUME NEW w \in Planners, CreatePlan(w) \/ Execute(w), w # v PROVE Waits(v)
  BY <1>0, <1>10, OthersWait DEF EInv
<1>11. ASSUME NEW c \in Changes, Commit(c) PROVE Waits(v)
  BY <1>11 DEF Commit, plan, Untouched, Waits
<1>12. ASSUME UNCHANGED vars PROVE Waits(v)
  BY <1>12 DEF vars, Untouched, Waits
<1> QED BY <1>2, <1>9, <1>10, <1>11, <1>12 DEF Next

LEMMA ReleasesDomain == DOMAIN releases = Planners /\ [Next]_vars => DOMAIN releases' = Planners
BY DEF Next, CreatePlan, Execute, vars, plan, Commit, ReadHead, ReadHistory, Refuse, Route, Trigger, Pass, Stop,
       EndPass, Build, BuildFails, Begin, Leave, Update, UpdateFails, CommitRelease, GiveUp, Tag, Finish

-----------------------------------------------------------------------------
(* The steps: what the branch says. *)

\* Only the process that makes a release holds the lock, so all others are tagged.
LEMMA AllTagged ==
    ASSUME IInv, EInv, NEW w \in Planners, pc[w] = "commit"
    PROVE  \A r \in DOMAIN log : \A n \in DOMAIN log[r].releases : <<r, n>> \in DOMAIN tags
<1>1. \A v \in Planners : pc[v] # "tag"
  <2>1. lock = w
    BY DEF IInv, TypeOK
  <2>2. ASSUME NEW v \in Planners, pc[v] = "tag" PROVE FALSE
    <3>1. lock = v
      BY <2>2 DEF IInv, TypeOK
    <3> QED BY <2>1, <2>2, <3>1
  <2> QED BY <2>2
<1> QED BY <1>1 DEF EInv, HistoryOK, Tagged

LEMMA TaggedStep == IInv /\ EInv /\ [Next]_vars => Tagged'
<1> SUFFICES ASSUME IInv, EInv, [Next]_vars, NEW r \in DOMAIN log', NEW n \in DOMAIN log'[r].releases
             PROVE  \/ <<r, n>> \in DOMAIN tags'
                    \/ \E w \in Planners : pc'[w] = "tag" /\ source'[w] + 1 = r /\ n \in DOMAIN releases'[w]
  BY DEF Tagged
<1>0. TypeOK /\ BranchOK /\ Grown /\ DOMAIN releases = Planners
  BY GrownStep DEF IInv, EInv
<1>1. ASSUME r \in DOMAIN log, n \in DOMAIN log[r].releases
      PROVE  \/ <<r, n>> \in DOMAIN tags'
             \/ \E w \in Planners : pc'[w] = "tag" /\ source'[w] + 1 = r /\ n \in DOMAIN releases'[w]
  <2>1. CASE <<r, n>> \in DOMAIN tags
    BY <2>1, TagsKept
  <2>2. ASSUME NEW w \in Planners, pc[w] = "tag", source[w] + 1 = r, n \in DOMAIN releases[w], <<r, n>> \notin DOMAIN tags
        PROVE  pc'[w] = "tag" /\ source'[w] + 1 = r /\ n \in DOMAIN releases'[w]
    <3>1. CASE Waits(w)
      BY <2>2, <3>1 DEF Waits, Untouched
    <3>2. ASSUME CreatePlan(w) \/ Execute(w) PROVE Tag(w)
      <4>1. ~Finish(w)
        BY <2>2 DEF Finish, Untagged
      <4> QED BY <2>2, <3>2, <4>1 DEF CreatePlan, Execute, ReadHead, ReadHistory, Refuse, Route, Trigger, Pass,
            EndPass, Build, BuildFails, Begin, Leave, Update, UpdateFails, CommitRelease, GiveUp
    <3>3. CASE Tag(w)
      BY <2>2, <3>3 DEF Tag, plan
    <3>4. ASSUME NEW v \in Planners, CreatePlan(v) \/ Execute(v), v # w PROVE Waits(w)
      BY <1>0, <3>4, OthersWait
    <3>5. ASSUME NEW c \in Changes, Commit(c) PROVE Waits(w)
      BY <3>5 DEF Commit, plan, Untouched, Waits
    <3>6. ASSUME UNCHANGED vars PROVE Waits(w)
      BY <3>6 DEF vars, Untouched, Waits
    <3> QED BY <3>1, <3>2, <3>3, <3>4, <3>5, <3>6 DEF Next
  <2> QED BY <1>1, <2>1, <2>2 DEF EInv, HistoryOK, Tagged
<1>2. CASE log' = log
  BY <1>1, <1>2
<1>3. ASSUME NEW c \in Changes, Commit(c) PROVE r \in DOMAIN log /\ n \in DOMAIN log[r].releases
  <2> DEFINE e == [change |-> c, releases |-> NoReleases]
  <2>1. log' = Append(log, e) /\ DOMAIN e.releases = {}
    BY <1>3 DEF Commit, NoReleases
  <2> HIDE DEF e
  <2>2. r # Len(log) + 1 /\ r \in DOMAIN log
    BY <1>0, <2>1, AppendedCommit
  <2> QED BY <1>0, <2>2, GrownKeeps
<1>4. ASSUME NEW w \in Planners, CommitRelease(w), ~(r \in DOMAIN log /\ n \in DOMAIN log[r].releases)
      PROVE  pc'[w] = "tag" /\ source'[w] + 1 = r /\ n \in DOMAIN releases'[w]
  <2> DEFINE e == [change |-> NoChange, releases |-> releases[w]]
  <2>1. /\ log' = Append(log, e) /\ source[w] = Len(log) /\ source' = source /\ releases' = releases
        /\ pc'[w] = "tag"
    BY <1>0, <1>4 DEF CommitRelease, Goto, plan, TypeOK
  <2>2. e.releases = releases[w]
    OBVIOUS
  <2> HIDE DEF e
  <2>3. r = Len(log) + 1
    BY <1>0, <1>4, <2>1, AppendedCommit, GrownKeeps
  <2>4. log'[r] = e
    BY <1>0, <2>1, <2>3, AppendedCommit
  <2> QED BY <2>1, <2>2, <2>3, <2>4
<1> QED BY <1>1, <1>2, <1>3, <1>4, LogStep

\* What the notes of a plan have calls for a release.
LEMMA NotesCall ==
    ASSUME TypeOK, BranchOK, NEW w \in Planners, NEW n \in Names
    PROVE  /\ \A k \in NotesOf(w, n) : k \in 1..source[w] /\ k > since[w][n] /\ (Count = 1 \/ CallsFor(k, n))
           /\ \A k \in 1..source[w] : k > since[w][n] /\ CallsFor(k, n) => k \in NotesOf(w, n) /\ n \in Direct(w)
<1>1. source[w] \in Nat /\ since[w][n] \in Nat
  BY DEF TypeOK
<1>2. \A k \in Commits(since[w][n], source[w]) : k \in 1..source[w] /\ k > since[w][n] /\ ~Ignored(k)
  BY <1>1 DEF Commits
<1>3. ASSUME NEW k \in NotesOf(w, n)
      PROVE  k \in 1..source[w] /\ k > since[w][n] /\ (Count = 1 \/ CallsFor(k, n))
  <2>1. CASE Count = 1
    BY <1>2, <1>3, <2>1 DEF NotesOf
  <2>2. CASE Count # 1
    <3>1. k \in Worthy(Candidates(w)) /\ Affects(config, Change(k), n) /\ k \in Commits(since[w][n], source[w])
      BY <1>3, <2>2 DEF NotesOf, DirectCommits, Eligible
    <3> QED BY <1>2, <3>1 DEF CallsFor, Worthy
  <2> QED BY <2>1, <2>2
<1>4. ASSUME NEW k \in 1..source[w], k > since[w][n], CallsFor(k, n)
      PROVE  k \in NotesOf(w, n) /\ n \in Direct(w)
  <2>1. k \in Commits(since[w][n], source[w])
    BY <1>1, <1>4 DEF Commits, CallsFor
  <2>2. k \in NotesOf(w, n)
    <3>1. CASE Count = 1
      BY <2>1, <3>1 DEF NotesOf
    <3>2. CASE Count # 1
      <4>1. k \in Candidates(w)
        BY <2>1 DEF Candidates
      <4>2. k \in Worthy(Candidates(w)) /\ Affects(config, Change(k), n)
        BY <1>4, <3>2, <4>1 DEF Worthy, CallsFor
      <4> QED BY <2>1, <3>2, <4>2 DEF NotesOf, DirectCommits, Eligible
    <3> QED BY <3>1, <3>2
  <2> DEFINE S == {ReleaseTypeOf(j) : j \in NotesOf(w, n)}
  <2>3. S \in SUBSET (0..3) /\ ReleaseTypeOf(k) \in S
    <3>1. NotesOf(w, n) \subseteq DOMAIN log
      BY WindowInLog
    <3>2. S \subseteq NoRelease..Major
      BY <3>1, ReleaseTypes
    <3> QED BY <2>2, <3>2 DEF NoRelease, Major
  <2>4. ReleaseTypeOf(k) # 0
    BY <1>4 DEF CallsFor, NoRelease
  <2> HIDE DEF S
  <2>5. Max(S) \in S /\ ReleaseTypeOf(k) <= Max(S)
    BY <2>3, GreatestExists
  <2>6. Highest(S) # NoRelease
    <3>1. \A i \in 0..3, j \in 0..3 : i <= j /\ i # 0 => j # 0
      OBVIOUS
    <3>2. S # {} /\ Max(S) \in 0..3 /\ ReleaseTypeOf(k) \in 0..3
      BY <2>3, <2>5
    <3>3. Max(S) # 0
      BY <2>4, <2>5, <3>1, <3>2
    <3>4. Highest(S) = Max(S)
      BY <3>2, Zenon DEF Highest
    <3> QED BY <3>3, <3>4 DEF NoRelease
  <2>7. DirectTypes(w)[n] = Highest(S)
    BY DEF DirectTypes, S
  <2> QED BY <2>2, <2>6, <2>7 DEF Direct
<1> QED BY <1>3, <1>4

\* What a release commit adds to the branch.
LEMMA CommitAdds ==
    ASSUME IInv, EInv, NEW w \in Planners, CommitRelease(w)
    PROVE  /\ Len(log) \in Nat /\ source[w] = Len(log) /\ DOMAIN log = 1..Len(log)
           /\ DOMAIN log' = DOMAIN log \cup {Len(log) + 1} /\ Len(log') = Len(log) + 1
           /\ log'[Len(log) + 1].releases = releases[w]
           /\ DOMAIN releases[w] = Names \cap Planned(w)
           /\ \A n \in DOMAIN releases[w] : releases[w][n].commits = NotesOf(w, n)
           /\ Current(w) /\ Read(w) = Names
<1>0. TypeOK /\ BranchOK /\ ConfigOK
  BY DEF IInv
<1> DEFINE e == [change |-> NoChange, releases |-> releases[w]]
<1>1. log' = Append(log, e) /\ source[w] = Len(log) /\ pc[w] = "commit"
  BY DEF CommitRelease
<1>2. e.releases = releases[w]
  OBVIOUS
<1> HIDE DEF e
<1>3. BuiltOK(w) /\ Began(w)
  BY DEF EInv, RunOK
<1>4. DOMAIN releases[w] = Names \cap Planned(w)
  BY <1>0, <1>1, <1>3, ReleasesNamed
<1>5. \A n \in DOMAIN releases[w] : releases[w][n].commits = NotesOf(w, n)
  BY <1>1, <1>3 DEF BuiltOK, Built
<1>6. Current(w) /\ Read(w) = Names
  BY <1>1, <1>3 DEF Began, Current, Read
<1> QED BY <1>0, <1>1, <1>2, <1>4, <1>5, <1>6, AppendedCommit

LEMMA NotesSoundStep == IInv /\ EInv /\ [Next]_vars => NotesSound'
<1> SUFFICES ASSUME IInv, EInv, [Next]_vars,
                    NEW r \in DOMAIN log', NEW n \in DOMAIN log'[r].releases, NEW k \in log'[r].releases[n].commits
             PROVE  k \in 1..r - 1 /\ (Count' = 1 \/ CallsFor(k, n)')
  BY DEF NotesSound, CallsFor, Ignored, IsRelease, Change, ReleaseTypeOf, Affects, Package, FileBelongsTo, Count
<1>0. TypeOK /\ BranchOK /\ Grown /\ config' = config /\ Count' = Count /\ DOMAIN log = 1..Len(log) /\ Len(log) \in Nat
  BY GrownStep, ConfigStep DEF IInv, BranchOK
<1>1. CASE r \in DOMAIN log
  <2>1. log'[r] = log[r]
    BY <1>0, <1>1, GrownKeeps
  <2>2. k \in 1..r - 1 /\ (Count = 1 \/ CallsFor(k, n))
    BY <1>1, <2>1 DEF EInv, HistoryOK, NotesSound
  <2>3. k \in DOMAIN log
    BY <1>0, <1>1, <2>2
  <2> QED BY <1>0, <2>2, <2>3, CommitsStay
<1>2. CASE r \notin DOMAIN log
  <2>1. ASSUME NEW c \in Changes, Commit(c) PROVE FALSE
    <3> DEFINE e == [change |-> c, releases |-> NoReleases]
    <3>1. log' = Append(log, e) /\ DOMAIN e.releases = {}
      BY <2>1 DEF Commit, NoReleases
    <3> HIDE DEF e
    <3> QED BY <1>0, <1>2, <3>1, AppendedCommit
  <2>2. PICK w \in Planners : CommitRelease(w)
    BY <1>2, <2>1, LogStep
  <2>3. r = Len(log) + 1 /\ n \in Names /\ k \in NotesOf(w, n) /\ source[w] = Len(log)
    BY <1>2, <2>2, CommitAdds
  <2>4. k \in 1..source[w] /\ (Count = 1 \/ CallsFor(k, n))
    BY <1>0, <2>3, NotesCall
  <2>5. k \in DOMAIN log /\ k \in 1..r - 1
    BY <1>0, <2>3, <2>4
  <2> QED BY <1>0, <2>4, <2>5, CommitsStay
<1> QED BY <1>1, <1>2

\* The releases that note a commit.
LEMMA NotedBefore ==
    ASSUME BranchOK, Grown, NEW k, NEW n
    PROVE  /\ NotedIn(k, n) \subseteq NotedIn(k, n)'
           /\ \A r \in NotedIn(k, n)' : r \in DOMAIN log => r \in NotedIn(k, n)
BY GrownKeeps DEF NotedIn

LEMMA NotedOnceStep == IInv /\ EInv /\ [Next]_vars => NotedOnce'
<1> SUFFICES ASSUME IInv, EInv, [Next]_vars, Timely', NEW n \in Names, NEW k \in DOMAIN log',
                    NEW r \in NotedIn(k, n)', NEW q \in NotedIn(k, n)', r # q
             PROVE  FALSE
  BY ConfigStep DEF IInv, NotedOnce, NotedIn
<1>0. TypeOK /\ BranchOK /\ Grown /\ Timely /\ DOMAIN log = 1..Len(log) /\ Len(log) \in Nat
  BY GrownStep, TimelyBefore DEF IInv, BranchOK
<1>1. \A s \in NotedIn(k, n)' : s \in DOMAIN log' /\ k \in 1..s - 1
  BY NotesSoundStep DEF NotesSound, NotedIn
<1>2. ASSUME NEW w \in Planners, CommitRelease(w),
             NEW s \in NotedIn(k, n)', s = Len(log) + 1, NEW o \in NotedIn(k, n)', o # s
      PROVE  FALSE
  <2>1. n \in DOMAIN releases[w] /\ k \in NotesOf(w, n) /\ o \in DOMAIN log /\ Current(w) /\ n \in Read(w)
        /\ pc[w] = "commit"
    BY <1>1, <1>2, CommitAdds DEF NotedIn, CommitRelease
  <2>2. o \in NotedIn(k, n)
    BY <1>0, <2>1, NotedBefore
  <2>3. n \in DOMAIN log[o].releases /\ <<o, n>> \in DOMAIN tags
    BY <2>1, <2>2, AllTagged DEF NotedIn
  <2>4. o <= since[w][n]
    BY <1>0, <2>1, <2>3 DEF EInv, RunOK, WindowOK
  <2>5. k > since[w][n] /\ since[w][n] \in Nat
    BY <1>0, <2>1, NotesCall DEF TypeOK
  <2>6. k \in 1..o - 1 /\ o \in Nat
    BY <1>0, <1>1, <2>1
  <2> QED BY <2>4, <2>5, <2>6
<1>3. CASE r \in DOMAIN log /\ q \in DOMAIN log
  <2>1. r \in NotedIn(k, n) /\ q \in NotedIn(k, n)
    BY <1>0, <1>3, NotedBefore
  <2>2. k \in DOMAIN log
    BY <1>0, <1>1, <1>3
  <2> QED BY <1>0, <2>1, <2>2 DEF EInv, HistoryOK, NotedOnce
<1>4. CASE ~(r \in DOMAIN log /\ q \in DOMAIN log)
  <2>1. ASSUME NEW c \in Changes, Commit(c) PROVE FALSE
    <3> DEFINE e == [change |-> c, releases |-> NoReleases]
    <3>1. log' = Append(log, e) /\ DOMAIN e.releases = {}
      BY <2>1 DEF Commit, NoReleases
    <3> HIDE DEF e
    <3>2. \A s \in NotedIn(k, n)' : s \in DOMAIN log
      BY <1>0, <3>1, AppendedCommit DEF NotedIn
    <3> QED BY <1>4, <3>2
  <2>2. PICK w \in Planners : CommitRelease(w)
    BY <1>1, <1>4, <2>1, LogStep
  <2>3. r = Len(log) + 1 \/ q = Len(log) + 1
    BY <1>1, <1>4, <2>2, CommitAdds
  <2> QED BY <1>2, <2>2, <2>3
<1> QED BY <1>3, <1>4

LEMMA NoneMissedStep == IInv /\ EInv /\ [Next]_vars => NoneMissed'
<1> SUFFICES ASSUME IInv, EInv, [Next]_vars PROVE NoneMissed'
  OBVIOUS
<1>a. Names' = Names
  BY ConfigStep DEF IInv
<1> SUFFICES ASSUME Timely', NEW n \in Names, NEW k \in DOMAIN log', CallsFor(k, n)',
                    NEW r \in k..Len(log'), IsRelease(r)'
             PROVE  NotedIn(k, n)' # {}
  BY <1>a DEF NoneMissed, CallsFor, IsRelease, Ignored, Change, ReleaseTypeOf, Affects, Package,
              FileBelongsTo, Count, NotedIn
<1>0. /\ TypeOK /\ BranchOK /\ Grown /\ Timely /\ DOMAIN log = 1..Len(log) /\ Len(log) \in Nat /\ config' = config
      /\ PlanAssumption /\ \A w \in Planners : PlanOK(w)
  BY GrownStep, TimelyBefore, ConfigStep, PlanAssumption DEF IInv, BranchOK
<1>1. ASSUME NEW s \in DOMAIN log, IsRelease(s), k \in DOMAIN log, k <= s PROVE NotedIn(k, n)' # {}
  <2>1. CallsFor(k, n)
    BY <1>0, <1>1, CommitsStay
  <2>2. s \in k..Len(log)
    BY <1>0, <1>1
  <2>3. NotedIn(k, n) # {}
    BY <1>0, <1>1, <2>1, <2>2 DEF EInv, HistoryOK, NoneMissed
  <2> QED BY <1>0, <2>3, NotedBefore
<1>2. ~IsRelease(k)'
  BY DEF CallsFor, Ignored
<1>3. CASE r \in DOMAIN log
  <2>1. IsRelease(r) /\ k \in DOMAIN log /\ k <= r
    <3>1. k \in 1..Len(log') /\ Len(log') \in Nat
      BY <1>0, GrownKeeps
    <3>2. k \in DOMAIN log /\ k <= r
      BY <1>0, <1>3, <3>1
    <3> QED BY <1>0, <1>3, <3>2, CommitsStay
  <2> QED BY <1>1, <1>3, <2>1
<1>4. CASE r \notin DOMAIN log
  <2>1. Len(log') = Len(log) + 1 /\ r = Len(log) + 1 /\ k \in DOMAIN log
    <3>1. k \in 1..Len(log') /\ Len(log') \in Nat /\ r \in DOMAIN log' /\ r # k
      BY <1>0, <1>2, GrownKeeps
    <3>2. Len(log') = Len(log) + 1
      BY <1>0, <1>4, <3>1 DEF Grown
    <3>3. r \in 1..Len(log) + 1
      BY <1>0, <3>1, <3>2
    <3> QED BY <1>0, <1>4, <3>1, <3>2, <3>3
  <2>2. ASSUME NEW c \in Changes, Commit(c) PROVE FALSE
    <3> DEFINE e == [change |-> c, releases |-> NoReleases]
    <3>1. log' = Append(log, e) /\ DOMAIN e.releases = {}
      BY <2>2 DEF Commit, NoReleases
    <3> HIDE DEF e
    <3>2. log'[r] = e
      BY <1>0, <2>1, <3>1, AppendedCommit
    <3> QED BY <3>1, <3>2 DEF IsRelease
  <2>3. PICK w \in Planners : CommitRelease(w)
    BY <2>1, <2>2, LogStep
  <2>4. Read(w) = Names /\ source[w] = Len(log) /\ DOMAIN releases[w] = Names \cap Planned(w)
        /\ log'[r].releases = releases[w] /\ \A m \in DOMAIN releases[w] : releases[w][m].commits = NotesOf(w, m)
    BY <2>1, <2>3, CommitAdds
  <2>5. since[w][n] = 0 \/ (since[w][n] \in DOMAIN log /\ IsRelease(since[w][n]))
    BY <1>0, <2>4 DEF EInv, RunOK, WindowOK
  <2>6. since[w][n] \in Nat
    BY <1>0 DEF TypeOK
  <2>7. CASE k <= since[w][n]
    <3>1. since[w][n] # 0
      BY <1>0, <2>1, <2>6, <2>7
    <3> QED BY <1>1, <2>1, <2>5, <2>7, <3>1
  <2>8. CASE k > since[w][n]
    <3>1. CallsFor(k, n) /\ k \in 1..source[w]
      BY <1>0, <2>1, <2>4, CommitsStay
    <3>2. k \in NotesOf(w, n) /\ n \in Direct(w)
      BY <1>0, <2>8, <3>1, NotesCall
    <3>3. n \in Planned(w)
      BY <1>0, <2>3, <3>2 DEF PlanOK, Grounded, CommitRelease
    <3>4. n \in DOMAIN log'[r].releases /\ k \in log'[r].releases[n].commits /\ r \in DOMAIN log'
      BY <2>1, <2>3, <2>4, <3>2, <3>3, CommitAdds
    <3> QED BY <3>4 DEF NotedIn
  <2>9. k \in Nat
    BY <1>0, <2>1
  <2> QED BY <2>6, <2>7, <2>8, <2>9
<1> QED BY <1>3, <1>4

LEMMA InitEInv == Init => EInv
<1> SUFFICES ASSUME Init PROVE EInv
  OBVIOUS
<1>1. log = <<>> /\ DOMAIN log = {} /\ tags = NoTags /\ DOMAIN tags = {}
  BY DEF Init, NoTags
<1>2. HistoryOK
  BY <1>1 DEF HistoryOK, TagsFollow, Tagged, NotesSound, NotedOnce, NoneMissed
<1>3. ASSUME NEW w \in Planners PROVE RunOK(w)
  <2>1. pc[w] = "idle" /\ at[w] = 1 /\ releases[w] = NoReleases
    BY DEF Init
  <2> QED BY <2>1 DEF RunOK, Tagging, BuiltOK, Built, Began, WindowOK, Read, NoReleases
<1> QED BY <1>2, <1>3 DEF EInv, Init

LEMMA StepEInv == IInv /\ EInv /\ [Next]_vars => EInv'
<1> SUFFICES ASSUME IInv, EInv, [Next]_vars PROVE EInv'
  OBVIOUS
<1>1. HistoryOK'
  BY TagsFollowStep, TaggedStep, NotesSoundStep, NotedOnceStep, NoneMissedStep DEF HistoryOK
<1>2. \A w \in Planners : RunOK(w)'
  BY TaggingStep, BuiltStep, BeganStep, WindowStep DEF RunOK
<1>3. DOMAIN releases' = Planners
  BY ReleasesDomain DEF EInv
<1> QED BY <1>1, <1>2, <1>3 DEF EInv

\* A set whose members are all the same has at most one.
LEMMA AtMostOne ==
    ASSUME NEW S, \A r, q \in S : r = q
    PROVE  Cardinality(S) <= 1
<1>1. CASE S = {}
  <2>1. Cardinality(S) = 0
    BY <1>1, FS_EmptySet, Zenon
  <2> QED BY <2>1
<1>2. CASE S # {}
  <2>1. PICK r \in S : TRUE
    BY <1>2
  <2>2. S = {r}
    BY <2>1
  <2>3. Cardinality({r}) = 1
    BY FS_Singleton, Zenon
  <2>4. Cardinality(S) = 1
    BY <2>2, <2>3, Zenon
  <2> QED BY <2>4
<1> QED BY <1>1, <1>2

LEMMA EInvOnce == IInv /\ EInv => ExactlyOnce
<1> SUFFICES ASSUME IInv, EInv, Timely, NEW n \in Names, NEW k \in DOMAIN log
             PROVE  /\ Cardinality(NotedIn(k, n)) <= 1
                    /\ \A r \in NotedIn(k, n) : k < r /\ (Count = 1 \/ CallsFor(k, n))
                    /\ CallsFor(k, n) /\ (\E r \in k..Len(log) : IsRelease(r)) => NotedIn(k, n) # {}
  BY DEF ExactlyOnce, Timely
<1>1. Cardinality(NotedIn(k, n)) <= 1
  <2>1. \A r, q \in NotedIn(k, n) : r = q
    BY DEF EInv, HistoryOK, NotedOnce
  <2> QED BY <2>1, AtMostOne
<1>2. \A r \in NotedIn(k, n) : k < r /\ (Count = 1 \/ CallsFor(k, n))
  <2>1. DOMAIN log = 1..Len(log) /\ Len(log) \in Nat
    BY DEF IInv, BranchOK
  <2>2. \A r \in NotedIn(k, n) : k \in 1..r - 1 /\ r \in 1..Len(log) /\ (Count = 1 \/ CallsFor(k, n))
    BY <2>1 DEF EInv, HistoryOK, NotesSound, NotedIn
  <2> QED BY <2>1, <2>2
<1> QED BY <1>1, <1>2 DEF EInv, HistoryOK, NoneMissed

-----------------------------------------------------------------------------
(* Versions and manifests. *)

\* What the sections of the files may contain: the versions change, not what has one.
Contents(c) ==
    {f \in [DOMAIN Sections[c] ->
               [version : Versions, refs : UNION {[D -> Versions] : D \in SUBSET Written(c)}]] :
        \A s \in DOMAIN Sections[c] : DOMAIN f[s].refs = DOMAIN Sections[c][s].refs}

LastVersions == [n \in Names |-> LastVersion(n)]

\* What is committed states the versions of the last releases, and what is in
\* the working tree is that or, until the commit, what the release makes of it.
FilesOK ==
    /\ Committed \in Contents(config)
    /\ Agree(Committed, config, LastVersions)
    /\ (\A w \in Planners : pc[w] # "commit") => files = Committed
    /\ \A w \in Planners :
         pc[w] = "commit" => files = UpdateManifests(Committed, config, NextVersions(w))

\* A plan that may still be released goes up from the last releases, and one
\* that is under way has passed Validate and ValidateVersionUpdates.
VersionsOK(w) ==
    /\ pc[w] \in Built => \A n \in DOMAIN releases[w] : releases[w][n].version \in Versions
    /\ (pc[w] = "build" /\ Len(log) = source[w]) \/ pc[w] \in {"mutate", "commit"} =>
         \A n \in DOMAIN releases[w] : Below(LastVersion(n), releases[w][n].version)
    /\ pc[w] \in {"mutate", "commit"} => TagsFree(w) /\ VersionUpdatesValid(config, NextVersions(w))

\* What is planned and released are packages of the configuration.
NamesOK ==
    /\ \A w \in Planners : DOMAIN releases[w] \subseteq Names
    /\ \A k \in DOMAIN log : DOMAIN log[k].releases \subseteq Names

VInv ==
    config \in Configurations /\ NamesOK /\ FilesOK /\ VersionsGrow /\ \A w \in Planners : VersionsOK(w)

-----------------------------------------------------------------------------
(* Folds over sequences. *)

LEMMA SegmentInduction ==
    ASSUME NEW n \in Nat, NEW S, 0 \in S, \A i \in 1..n : i - 1 \in S => i \in S
    PROVE  \A i \in 0..n : i \in S
<1> DEFINE T == (0..n) \ S
<1>1. ASSUME T # {} PROVE FALSE
  <2>1. PICK m \in T : \A i \in T : m <= i
    <3>1. T \in SUBSET Nat
      OBVIOUS
    <3> HIDE DEF T
    <3> QED BY <1>1, <3>1, SmallestExists
  <2>2. m \in 1..n /\ m - 1 \in 0..n /\ m - 1 < m /\ m \notin S
    BY <2>1
  <2>3. m - 1 \in S
    BY <2>1, <2>2
  <2> QED BY <2>2, <2>3
<1> QED BY <1>1

\* The last of an initial segment.
LEMMA SegmentMax ==
    ASSUME NEW n \in Nat, NEW i \in 1..n
    PROVE  1..i \in SUBSET (1..n) /\ 1..i # {} /\ Max(1..i) = i /\ (1..i) \ {i} = 1..i - 1
<1>1. 1..i \in SUBSET (0..n) /\ 1..i # {} /\ i \in 1..i
  OBVIOUS
<1>2. Max(1..i) \in 1..i /\ i <= Max(1..i)
  BY <1>1, GreatestExists
<1> QED BY <1>2

LEMMA SetMax ==
    ASSUME NEW n \in Nat, NEW s \in SUBSET (1..n), s # {}
    PROVE  Max(s) \in s /\ Max(s) \in 1..n /\ s \ {Max(s)} \in SUBSET (1..Max(s) - 1)
<1>1. s \in SUBSET (0..n)
  OBVIOUS
<1>2. Max(s) \in s /\ \A y \in s : y <= Max(s)
  BY <1>1, GreatestExists
<1>3. ASSUME NEW y \in s, y # Max(s) PROVE y \in 1..Max(s) - 1
  <2>1. y \in 1..n /\ Max(s) \in 1..n /\ y <= Max(s)
    BY <1>2
  <2> QED BY <1>3, <2>1
<1> QED BY <1>2, <1>3

\* A function that applies G to the members of a set of positions, the greatest last.
Applies(it, n, F, base, G) ==
    /\ it \in [SUBSET (1..n) -> F]
    /\ \A s \in SUBSET (1..n) :
         it[s] = IF s = {} THEN base ELSE G[<<it[s \ {Max(s)}], Max(s)>>]

LEMMA FoldExists ==
    ASSUME NEW n \in Nat, NEW F, NEW base \in F, NEW G \in [F \X (1..n) -> F]
    PROVE  \E it : Applies(it, n, F, base, G)
<1> DEFINE S == {m \in 0..n : \E it : Applies(it, m, F, base, G)}
<1>1. 0 \in S
  <2>1. SUBSET (1..0) = {{}}
    OBVIOUS
  <2> DEFINE it == [s \in SUBSET (1..0) |-> base]
  <2>2. Applies(it, 0, F, base, G)
    BY <2>1 DEF Applies
  <2> QED BY <2>2
<1>2. ASSUME NEW m \in 1..n, m - 1 \in S PROVE m \in S
  <2>1. PICK old : Applies(old, m - 1, F, base, G)
    BY <1>2
  <2> DEFINE it == [s \in SUBSET (1..m) |-> IF s = {} THEN base ELSE G[<<old[s \ {Max(s)}], Max(s)>>]]
  <2>2. ASSUME NEW s \in SUBSET (1..m), s # {}
        PROVE  Max(s) \in 1..n /\ s \ {Max(s)} \in SUBSET (1..m - 1)
    <3>1. Max(s) \in 1..m /\ s \ {Max(s)} \in SUBSET (1..Max(s) - 1)
      BY <2>2, SetMax
    <3>2. Max(s) \in 1..n /\ 1..Max(s) - 1 \subseteq 1..m - 1
      BY <3>1
    <3> QED BY <3>1, <3>2
  <2>3. \A s \in SUBSET (1..m) : s # {} => old[s \ {Max(s)}] \in F
    BY <2>1, <2>2 DEF Applies
  <2>4. it \in [SUBSET (1..m) -> F]
    BY <2>2, <2>3
  <2>5. ASSUME NEW t \in SUBSET (1..m - 1) PROVE it[t] = old[t]
    <3>1. t \in SUBSET (1..m)
      OBVIOUS
    <3> QED BY <2>1, <3>1 DEF Applies
  <2>6. \A s \in SUBSET (1..m) : it[s] = IF s = {} THEN base ELSE G[<<it[s \ {Max(s)}], Max(s)>>]
    BY <2>2, <2>5
  <2>7. Applies(it, m, F, base, G)
    <3> HIDE DEF it
    <3> QED BY <2>4, <2>6 DEF Applies
  <2> QED BY <2>7
<1>3. n \in S
  <2> HIDE DEF S
  <2> QED BY <1>1, <1>2, SegmentInduction
<1> QED BY <1>3

\* A fold goes through the values after each of the positions.
Runs(d, n, F, base, G) ==
    d \in [0..n -> F] /\ d[0] = base /\ \A i \in 1..n : d[i] = G[<<d[i - 1], i>>]

\* As far as h stays in F, it applies G.
Unfolds(h, n, F, base, G) ==
    /\ h[{}] = base
    /\ \A s \in SUBSET (1..n) :
         s # {} /\ h[s \ {Max(s)}] \in F => h[s] = G[<<h[s \ {Max(s)}], Max(s)>>]

RunsTo(x, n, F, base, G) == \E d : Runs(d, n, F, base, G) /\ x = d[n]

LEMMA FoldRuns ==
    ASSUME NEW n \in Nat, NEW F, NEW base \in F, NEW G \in [F \X (1..n) -> F],
           NEW h, Unfolds(h, n, F, base, G)
    PROVE  RunsTo(h[1..n], n, F, base, G)
<1> DEFINE d == [i \in 0..n |-> h[1..i]]
<1>1. d[0] = base
  BY DEF Unfolds
<1>2. ASSUME NEW i \in 1..n, d[i - 1] \in F PROVE d[i] = G[<<d[i - 1], i>>]
  <2>1. 1..i \in SUBSET (1..n) /\ 1..i # {} /\ Max(1..i) = i /\ (1..i) \ {Max(1..i)} = 1..i - 1
    BY SegmentMax
  <2>2. i - 1 \in 0..n /\ d[i - 1] = h[1..i - 1] /\ d[i] = h[1..i]
    OBVIOUS
  <2>3. h[(1..i) \ {Max(1..i)}] \in F
    BY <1>2, <2>1, <2>2
  <2>4. h[1..i] = G[<<h[(1..i) \ {Max(1..i)}], Max(1..i)>>]
    BY <2>1, <2>3 DEF Unfolds
  <2> QED BY <2>1, <2>2, <2>4
<1> HIDE DEF d
<1>3. \A i \in 0..n : d[i] \in F
  <2> DEFINE S == {i \in 0..n : d[i] \in F}
  <2>1. 0 \in S
    BY <1>1
  <2>2. ASSUME NEW i \in 1..n, i - 1 \in S PROVE i \in S
    <3>1. d[i] = G[<<d[i - 1], i>>] /\ d[i - 1] \in F
      BY <1>2, <2>2
    <3> QED BY <3>1
  <2> HIDE DEF S
  <2>3. \A i \in 0..n : i \in S
    BY <2>1, <2>2, SegmentInduction
  <2> QED BY <2>3 DEF S
<1>4. d \in [0..n -> F] /\ h[1..n] = d[n]
  BY <1>3 DEF d
<1>5. \A i \in 1..n : d[i] = G[<<d[i - 1], i>>]
  BY <1>2, <1>3
<1> QED BY <1>1, <1>4, <1>5 DEF Runs, RunsTo

LEMMA VersionFold ==
    ASSUME NEW n \in Nat, NEW ps, DOMAIN ps = 1..n, NEW released, NEW F, NEW base \in F,
           NEW G \in [F \X (1..n) -> F], \A f \in F, i \in 1..n : G[<<f, i>>] = UpdateReleased(f, ps[i], released)
    PROVE  RunsTo(UpdateVersions(base, ps, released), n, F, base, G)
<1> DEFINE Op(f, i) == UpdateReleased(f, ps[i], released)
           eq(h) == h = [s \in SUBSET (1..n) |-> IF s = {} THEN base ELSE Op(h[s \ {Max(s)}], Max(s))]
           it == CHOOSE h : eq(h)
<1>1. UpdateVersions(base, ps, released) = it[1..n]
  BY DEF FoldLeft, MapThenFoldSet, UpdateVersions
<1>2. \A f \in F, i \in 1..n : G[<<f, i>>] = Op(f, i)
  OBVIOUS
<1>3. \A s \in SUBSET (1..n) : s # {} => Max(s) \in 1..n
  BY SetMax
<1> HIDE DEF Op
<1>4. \E h : eq(h)
  <2>1. PICK h : Applies(h, n, F, base, G)
    BY FoldExists
  <2>2. ASSUME NEW s \in SUBSET (1..n), s # {} PROVE h[s] = Op(h[s \ {Max(s)}], Max(s))
    BY <1>2, <1>3, <2>1, <2>2 DEF Applies
  <2>3. eq(h)
    BY <2>1, <2>2 DEF Applies
  <2> QED BY <2>3
<1>5. eq(it)
  BY <1>4, Zenon
<1> HIDE DEF it
<1>6. it[{}] = base
  BY <1>5
<1>7. Unfolds(it, n, F, base, G)
  BY <1>2, <1>3, <1>5, <1>6 DEF Unfolds
<1>8. RunsTo(it[1..n], n, F, base, G)
  BY <1>7, FoldRuns
<1> QED BY <1>1, <1>8

LEMMA RequirementFold ==
    ASSUME NEW n \in Nat, NEW ps, DOMAIN ps = 1..n, NEW released, NEW F, NEW base \in F,
           NEW G \in [F \X (1..n) -> F], \A f \in F, i \in 1..n : G[<<f, i>>] = UpdateLocalDependencies(f, ps[i], released)
    PROVE  RunsTo(UpdateRequirements(base, ps, released), n, F, base, G)
<1> DEFINE Op(f, i) == UpdateLocalDependencies(f, ps[i], released)
           eq(h) == h = [s \in SUBSET (1..n) |-> IF s = {} THEN base ELSE Op(h[s \ {Max(s)}], Max(s))]
           it == CHOOSE h : eq(h)
<1>1. UpdateRequirements(base, ps, released) = it[1..n]
  BY DEF FoldLeft, MapThenFoldSet, UpdateRequirements
<1>2. \A f \in F, i \in 1..n : G[<<f, i>>] = Op(f, i)
  OBVIOUS
<1>3. \A s \in SUBSET (1..n) : s # {} => Max(s) \in 1..n
  BY SetMax
<1> HIDE DEF Op
<1>4. \E h : eq(h)
  <2>1. PICK h : Applies(h, n, F, base, G)
    BY FoldExists
  <2>2. ASSUME NEW s \in SUBSET (1..n), s # {} PROVE h[s] = Op(h[s \ {Max(s)}], Max(s))
    BY <1>2, <1>3, <2>1, <2>2 DEF Applies
  <2>3. eq(h)
    BY <2>1, <2>2 DEF Applies
  <2> QED BY <2>3
<1>5. eq(it)
  BY <1>4, Zenon
<1> HIDE DEF it
<1>6. it[{}] = base
  BY <1>5
<1>7. Unfolds(it, n, F, base, G)
  BY <1>2, <1>3, <1>5, <1>6 DEF Unfolds
<1>8. RunsTo(it[1..n], n, F, base, G)
  BY <1>7, FoldRuns
<1> QED BY <1>1, <1>8

LEMMA CommitFold ==
    ASSUME NEW n \in Nat, NEW ps, DOMAIN ps = 1..n, NEW c, NEW F, NEW base \in F, base = Sections[c],
           NEW G \in [F \X (1..n) -> F], \A f \in F, i \in 1..n : G[<<f, i>>] = UpdateManifests(f, c, VersionsIn(ps[i]))
    PROVE  RunsTo(ManifestsAfter(c, ps), n, F, base, G)
<1> DEFINE Op(f, i) == UpdateManifests(f, c, VersionsIn(ps[i]))
           eq(h) == h = [s \in SUBSET (1..n) |-> IF s = {} THEN base ELSE Op(h[s \ {Max(s)}], Max(s))]
           it == CHOOSE h : eq(h)
<1>1. ManifestsAfter(c, ps) = it[1..n]
  BY DEF FoldLeft, MapThenFoldSet, ManifestsAfter
<1>2. \A f \in F, i \in 1..n : G[<<f, i>>] = Op(f, i)
  OBVIOUS
<1>3. \A s \in SUBSET (1..n) : s # {} => Max(s) \in 1..n
  BY SetMax
<1> HIDE DEF Op
<1>4. \E h : eq(h)
  <2>1. PICK h : Applies(h, n, F, base, G)
    BY FoldExists
  <2>2. ASSUME NEW s \in SUBSET (1..n), s # {} PROVE h[s] = Op(h[s \ {Max(s)}], Max(s))
    BY <1>2, <1>3, <2>1, <2>2 DEF Applies
  <2>3. eq(h)
    BY <2>1, <2>2 DEF Applies
  <2> QED BY <2>3
<1>5. eq(it)
  BY <1>4, Zenon
<1> HIDE DEF it
<1>6. it[{}] = base
  BY <1>5
<1>7. Unfolds(it, n, F, base, G)
  BY <1>2, <1>3, <1>5, <1>6 DEF Unfolds
<1>8. RunsTo(it[1..n], n, F, base, G)
  BY <1>7, FoldRuns
<1> QED BY <1>1, <1>8

-----------------------------------------------------------------------------
(* The names of packages. *)

\* The packages of an accepted configuration, as they were written.
LEMMA PackagesWritten ==
    ASSUME NEW c \in Configurations
    PROVE  \E w \in RawConfigs :
              /\ Accepted(w)
              /\ DOMAIN c.packages = DOMAIN w.packages
              /\ \A i \in DOMAIN w.packages :
                    /\ c.packages[i] = NormalizePackage(w, w.packages[i])
                    /\ c.packages[i].name = NameOf(w.packages[i])
                    /\ Range(c.packages[i].deps) = {Target(w, d) : d \in Range(w.packages[i].deps)}
<1>1. PICK w \in RawConfigs : Accepted(w) /\ c = Normalize(w)
  BY DEF Configurations
<1>2. /\ w \in [packages : Seq(Range(w.packages)), named : BOOLEAN]
      /\ \A p \in Range(w.packages) : {"name", "manifest", "deps"} \subseteq DOMAIN p
  BY PlanAssumption
<1>3. c.packages = [i \in DOMAIN w.packages |-> NormalizePackage(w, w.packages[i])]
  BY <1>1, <1>2 DEF Normalize
<1>4. ASSUME NEW i \in DOMAIN w.packages
      PROVE  /\ c.packages[i] = NormalizePackage(w, w.packages[i])
             /\ c.packages[i].name = NameOf(w.packages[i])
             /\ Range(c.packages[i].deps) = {Target(w, d) : d \in Range(w.packages[i].deps)}
  <2> DEFINE p == w.packages[i]
  <2>1. c.packages[i] = NormalizePackage(w, p)
    BY <1>3
  <2>2. "name" \in DOMAIN p /\ "deps" \in DOMAIN p
    BY <1>2 DEF Range
  <2> HIDE DEF p
  <2>3. /\ NormalizePackage(w, p).name = NameOf(p)
        /\ NormalizePackage(w, p).deps = [k \in DOMAIN p.deps |-> Target(w, p.deps[k])]
    BY <2>2 DEF NormalizePackage
  <2>4. Range([k \in DOMAIN p.deps |-> Target(w, p.deps[k])]) = {Target(w, d) : d \in Range(p.deps)}
    BY DEF Range
  <2> QED BY <2>1, <2>3, <2>4 DEF p
<1> QED BY <1>1, <1>3, <1>4

\* No two packages have one name (validatePackages).
LEMMA NamesDistinct ==
    ASSUME NEW c \in Configurations
    PROVE  \A n, m \in PackageNames(c) : Key[n] = Key[m] => n = m
<1>1. PICK w \in RawConfigs :
         /\ Accepted(w) /\ DOMAIN c.packages = DOMAIN w.packages
         /\ \A i \in DOMAIN w.packages : c.packages[i].name = NameOf(w.packages[i])
  BY PackagesWritten
<1>2. \A i, j \in DOMAIN w.packages : Key[NameOf(w.packages[i])] = Key[NameOf(w.packages[j])] => i = j
  BY <1>1 DEF Accepted, DistinctNames
<1> QED BY <1>1, <1>2 DEF PackageNames

\* Dependencies are on packages of the configuration (validateDependencies).
LEMMA DependenciesNamed ==
    ASSUME NEW c \in Configurations, NEW p \in Range(c.packages), NEW d \in Range(p.deps)
    PROVE  d \in PackageNames(c)
<1>1. PICK w \in RawConfigs :
         /\ Accepted(w) /\ DOMAIN c.packages = DOMAIN w.packages
         /\ \A i \in DOMAIN w.packages :
               /\ c.packages[i].name = NameOf(w.packages[i])
               /\ Range(c.packages[i].deps) = {Target(w, x) : x \in Range(w.packages[i].deps)}
  BY PackagesWritten
<1>2. PICK i \in DOMAIN w.packages : p = c.packages[i]
  BY <1>1 DEF Range
<1>3. PICK x \in Range(w.packages[i].deps) : d = Target(w, x)
  BY <1>1, <1>2
<1>4. \E q \in Range(w.packages) : Key[NameOf(q)] = Key[x]
  <2>1. w.packages[i] \in Range(w.packages)
    BY DEF Range
  <2> QED BY <1>1, <1>3, <2>1 DEF Accepted, DependenciesKnown
<1>5. PICK q \in Range(w.packages) : d = NameOf(q)
  BY <1>3, <1>4 DEF Target
<1> QED BY <1>1, <1>5 DEF Range, PackageNames

-----------------------------------------------------------------------------
(* What a release does to the sections. *)

Entries(c, s) == DOMAIN Sections[c][s].refs

LEMMA ContentsFacts ==
    ASSUME NEW c \in Configurations, NEW f \in Contents(c)
    PROVE  /\ DOMAIN f = DOMAIN Sections[c]
           /\ \A s \in DOMAIN Sections[c] :
                /\ f[s].version \in Versions /\ DOMAIN f[s].refs = Entries(c, s)
                /\ f[s] \in [version : Versions, refs : UNION {[D -> Versions] : D \in SUBSET Written(c)}]
                /\ f[s].refs \in [Entries(c, s) -> Versions] /\ Entries(c, s) \subseteq Written(c)
BY DEF Contents, Entries

LEMMA Replaced ==
    ASSUME NEW c \in Configurations, NEW f \in Contents(c), NEW s \in DOMAIN Sections[c],
           NEW v \in Versions, NEW r \in [Entries(c, s) -> Versions],
           NEW g, g = [f EXCEPT ![s] = [version |-> v, refs |-> r]]
    PROVE  g \in Contents(c)
<1>1. Entries(c, s) \in SUBSET Written(c)
  BY ContentsFacts
<1>2. r \in UNION {[D -> Versions] : D \in SUBSET Written(c)} /\ DOMAIN r = Entries(c, s)
  BY <1>1
<1> DEFINE T == [version : Versions, refs : UNION {[D -> Versions] : D \in SUBSET Written(c)}]
<1>3. [version |-> v, refs |-> r] \in T
  BY <1>2
<1>4. f \in [DOMAIN Sections[c] -> T] /\ \A t \in DOMAIN Sections[c] : DOMAIN f[t].refs = Entries(c, t)
  BY DEF Contents, Entries
<1> HIDE DEF T
<1>5. g \in [DOMAIN Sections[c] -> T]
  BY <1>3, <1>4
<1>6. \A t \in DOMAIN Sections[c] : DOMAIN g[t].refs = Entries(c, t)
  BY <1>2, <1>4
<1> QED BY <1>5, <1>6 DEF Contents, Entries, T

\* A release assigns versions, to packages of the configuration.
Chosen(c, released) ==
    DOMAIN released \subseteq PackageNames(c) /\ \A n \in DOMAIN released : released[n] \in Versions

\* A name in a file stands for at most one of them.
LEMMA OneNamed ==
    ASSUME NEW c \in Configurations, NEW released, Chosen(c, released), NEW d
    PROVE  /\ \A n \in DOMAIN released : Key[n] = Key[d] => ReleasedAs(d, released) = {n}
           /\ d \in PackageNames(c) =>
                 ReleasedAs(d, released) = IF d \in DOMAIN released THEN {d} ELSE {}
BY NamesDistinct DEF ReleasedAs, Chosen

\* What becomes of a version v that is recorded for the name d.
Follows(next, v, concerned, d, released) ==
    /\ \A n \in DOMAIN released : concerned /\ Key[n] = Key[d] => next = released[n]
    /\ next = v \/ \E n \in DOMAIN released : Key[n] = Key[d] /\ next = released[n]
    /\ ~concerned => next = v

LEMMA SetRefsDoes ==
    ASSUME NEW c \in Configurations, NEW f \in Contents(c), NEW s, NEW released, Chosen(c, released),
           NEW g, g = SetRefs(f, s, released)
    PROVE  /\ g \in Contents(c)
           /\ \A t \in DOMAIN Sections[c] :
                /\ g[t].version = f[t].version
                /\ t # s => g[t] = f[t]
                /\ \A d \in Entries(c, t) : Follows(g[t].refs[d], f[t].refs[d], t = s, d, released)
<1>0. /\ DOMAIN f = DOMAIN Sections[c]
      /\ \A t \in DOMAIN Sections[c] :
           f[t].version \in Versions /\ DOMAIN f[t].refs = Entries(c, t) /\ f[t].refs \in [Entries(c, t) -> Versions]
  BY ContentsFacts
<1>1. CASE s \notin DOMAIN f
  BY <1>0, <1>1 DEF SetRefs, Follows
<1>2. CASE s \in DOMAIN f
  <2> DEFINE r == [d \in Entries(c, s) |-> IF ReleasedAs(d, released) = {} THEN f[s].refs[d]
                                          ELSE released[CHOOSE m \in ReleasedAs(d, released) : TRUE]]
  <2>1. g = [f EXCEPT ![s] = [version |-> f[s].version, refs |-> r]]
    <3>1. f[s] = [version |-> f[s].version, refs |-> f[s].refs]
      BY <1>0, <1>2, ContentsFacts
    <3>2. [f[s] EXCEPT !.refs = r] = [version |-> f[s].version, refs |-> r]
      BY <3>1
    <3>3. g = [f EXCEPT ![s] = [f[s] EXCEPT !.refs = r]]
      BY <1>0, <1>2 DEF SetRefs
    <3> QED BY <3>2, <3>3
  <2>2. r \in [Entries(c, s) -> Versions] /\ \A d \in Entries(c, s) : Follows(r[d], f[s].refs[d], TRUE, d, released)
    <3>1. ASSUME NEW d \in Entries(c, s), ReleasedAs(d, released) # {}
          PROVE  \E n \in DOMAIN released : Key[n] = Key[d] /\ ReleasedAs(d, released) = {n} /\ r[d] = released[n]
      <4>1. PICK n \in DOMAIN released : Key[n] = Key[d]
        BY <3>1 DEF ReleasedAs
      <4>2. ReleasedAs(d, released) = {n}
        BY <4>1, OneNamed
      <4> QED BY <4>1, <4>2
    <3>2. ASSUME NEW d \in Entries(c, s)
          PROVE  r[d] \in Versions /\ Follows(r[d], f[s].refs[d], TRUE, d, released)
      <4>1. CASE ReleasedAs(d, released) = {}
        BY <1>0, <1>2, <4>1 DEF Follows, ReleasedAs
      <4>2. CASE ReleasedAs(d, released) # {}
        <5>1. PICK n \in DOMAIN released : Key[n] = Key[d] /\ ReleasedAs(d, released) = {n} /\ r[d] = released[n]
          BY <3>1, <4>2
        <5> HIDE DEF r
        <5>2. \A m \in DOMAIN released : Key[m] = Key[d] => m = n
          BY <5>1 DEF ReleasedAs
        <5> QED BY <5>1, <5>2 DEF Chosen, Follows
      <4> QED BY <4>1, <4>2
    <3> QED BY <3>2
  <2>3. g \in Contents(c)
    <3>1. s \in DOMAIN Sections[c] /\ f[s].version \in Versions /\ r \in [Entries(c, s) -> Versions]
      BY <1>0, <1>2, <2>2
    <3> HIDE DEF r
    <3> QED BY <2>1, <3>1, Replaced
  <2>4. g[s].version = f[s].version /\ g[s].refs = r /\ \A t \in DOMAIN f : t # s => g[t] = f[t]
    <3> HIDE DEF r
    <3> QED BY <1>2, <2>1
  <2>5. \A d \in Entries(c, s) : Follows(r[d], f[s].refs[d], TRUE, d, released)
    BY <2>2
  <2> HIDE DEF r
  <2>6. ASSUME NEW t \in DOMAIN Sections[c], NEW d \in Entries(c, t)
        PROVE  Follows(g[t].refs[d], f[t].refs[d], t = s, d, released)
    <3>1. CASE t = s
      BY <2>4, <2>5, <2>6, <3>1
    <3>2. CASE t # s
      BY <1>0, <2>4, <2>6, <3>2 DEF Follows
    <3> QED BY <3>1, <3>2
  <2> QED BY <1>0, <2>3, <2>4, <2>6
<1> QED BY <1>1, <1>2

LEMMA SetVersionDoes ==
    ASSUME NEW c \in Configurations, NEW f \in Contents(c), NEW s, NEW v \in Versions,
           NEW g, g = SetVersion(f, s, v)
    PROVE  /\ g \in Contents(c)
           /\ \A t \in DOMAIN Sections[c] :
                /\ g[t].version = IF t = s THEN v ELSE f[t].version
                /\ g[t].refs = f[t].refs
                /\ t # s => g[t] = f[t]
<1>0. /\ DOMAIN f = DOMAIN Sections[c]
      /\ \A t \in DOMAIN Sections[c] : f[t].refs \in [Entries(c, t) -> Versions]
  BY ContentsFacts
<1>1. CASE s \notin DOMAIN f
  <2>1. g = f
    BY <1>0, <1>1 DEF SetVersion, Contents
  <2> QED BY <1>0, <1>1, <2>1
<1>2. CASE s \in DOMAIN f
  <2>1. g = [f EXCEPT ![s] = [version |-> v, refs |-> f[s].refs]]
    <3>1. f[s] = [version |-> f[s].version, refs |-> f[s].refs]
      BY <1>0, <1>2, ContentsFacts
    <3>2. [f[s] EXCEPT !.version = v] = [version |-> v, refs |-> f[s].refs]
      BY <3>1
    <3>3. g = [f EXCEPT ![s] = [f[s] EXCEPT !.version = v]]
      BY <1>0, <1>2 DEF SetVersion
    <3> QED BY <3>2, <3>3
  <2>2. g \in Contents(c)
    <3>1. s \in DOMAIN Sections[c] /\ f[s].refs \in [Entries(c, s) -> Versions]
      BY <1>0, <1>2
    <3> QED BY <2>1, <3>1, Replaced
  <2> QED BY <1>0, <1>2, <2>1, <2>2
<1> QED BY <1>1, <1>2

\* A release touches files it has declared, and its requirements are on what it releases.
Moves(f, g, c, released) ==
    /\ g \in Contents(c)
    /\ \A s \in DOMAIN Sections[c] :
         /\ g[s] # f[s] => FileOf(s) \in ManagedPaths(c)
         /\ \A d \in Entries(c, s) :
              \/ g[s].refs[d] = f[s].refs[d]
              \/ \E n \in DOMAIN released : Key[n] = Key[d] /\ g[s].refs[d] = released[n]

\* A version that a package was given stays the one it was given.
LEMMA FollowedStays ==
    ASSUME NEW c \in Configurations, NEW released, Chosen(c, released), NEW f, NEW g, Moves(f, g, c, released),
           NEW s \in DOMAIN Sections[c], NEW d \in Entries(c, s),
           NEW n \in DOMAIN released, Key[n] = Key[d], f[s].refs[d] = released[n]
    PROVE  g[s].refs[d] = released[n]
<1>1. g[s].refs[d] = f[s].refs[d] \/ \E m \in DOMAIN released : Key[m] = Key[d] /\ g[s].refs[d] = released[m]
  BY DEF Moves
<1>2. \A m \in DOMAIN released : Key[m] = Key[d] => m = n
  BY NamesDistinct DEF Chosen
<1> QED BY <1>1, <1>2

LEMMA MovesOn ==
    ASSUME NEW c, NEW f, NEW g, NEW h, NEW released, Moves(f, g, c, released), Moves(g, h, c, released)
    PROVE  Moves(f, h, c, released)
BY DEF Moves

LEMMA OwnIsManaged ==
    ASSUME NEW c \in Configurations, NEW p \in Range(c.packages)
    PROVE  /\ FileOf(Own(p)) \in ManagedPaths(c)
           /\ p.kind = "rust" => /\ FileOf(LockOf(p)) \in ManagedPaths(c)
                                 /\ Shared(p) \in DOMAIN Sections[c] => FileOf(Shared(p)) \in ManagedPaths(c)
<1>1. /\ FileOf(Own(p)) \in ManagedPaths(c)
      /\ p.kind = "rust" => FileOf(LockOf(p)) \in ManagedPaths(c) /\ <<LockOf(p)[1], FALSE>> \in ManagedPaths(c)
  <2> DEFINE paths(q) == {FileOf(Own(q))} \cup
                         (IF q.kind # "rust" THEN {} ELSE {FileOf(LockOf(q)), <<LockOf(q)[1], FALSE>>})
  <2>1. ManagedPaths(c) = UNION {paths(q) : q \in Range(c.packages)}
    BY DEF ManagedPaths
  <2>2. paths(p) \subseteq ManagedPaths(c)
    <3> HIDE DEF paths
    <3> QED BY <2>1
  <2>3. FileOf(Own(p)) \in paths(p)
    OBVIOUS
  <2>4. p.kind = "rust" => FileOf(LockOf(p)) \in paths(p) /\ <<LockOf(p)[1], FALSE>> \in paths(p)
    OBVIOUS
  <2> QED BY <2>2, <2>3, <2>4
<1>2. ASSUME Shared(p) \in DOMAIN Sections[c] PROVE FileOf(Shared(p)) = <<LockOf(p)[1], FALSE>>
  <2>1. p.root # NoRoot
    BY <1>2, SectionsAssumption DEF Shared
  <2> QED BY <2>1 DEF FileOf, Shared, LockOf
<1> QED BY <1>1, <1>2

\* What UpdateVersionWithFS does for a package.
LEMMA VersionMoves ==
    ASSUME NEW c \in Configurations, NEW f \in Contents(c), NEW p \in Range(c.packages),
           NEW released, Chosen(c, released), NEW g, g = UpdateReleased(f, p, released)
    PROVE  /\ Moves(f, g, c, released)
           /\ \A s \in DOMAIN Sections[c] :
                g[s].version = IF p.name \in DOMAIN released /\ s = VersionSection(p)
                               THEN released[p.name] ELSE f[s].version
           /\ p.name \in DOMAIN released /\ p.kind = "rust" /\ LockOf(p) \in DOMAIN Sections[c]
              /\ Eponymous(p) /\ p.title \in Entries(c, LockOf(p)) => g[LockOf(p)].refs[p.title] = released[p.name]
<1>1. CASE p.name \notin DOMAIN released
  BY <1>1 DEF UpdateReleased, Moves
<1>2. CASE p.name \in DOMAIN released
  <2> DEFINE v == released[p.name]
             h == SetVersion(f, VersionSection(p), v)
             own == [n \in {p.name} |-> v]
  <2>1. v \in Versions /\ Chosen(c, own) /\ DOMAIN own = {p.name} /\ own[p.name] = v
    BY <1>2 DEF Chosen
  <2>2. g = IF p.kind = "rust" THEN SetRefs(h, LockOf(p), own) ELSE h
    BY <1>2 DEF UpdateReleased, UpdateVersion
  <2> HIDE DEF v, h, own
  <2>3. h = SetVersion(f, VersionSection(p), v) /\ v = released[p.name]
    BY DEF h, v
  <2>4. /\ h \in Contents(c)
        /\ \A t \in DOMAIN Sections[c] :
             /\ h[t].version = IF t = VersionSection(p) THEN v ELSE f[t].version
             /\ h[t].refs = f[t].refs
             /\ t # VersionSection(p) => h[t] = f[t]
    BY <2>1, <2>3, SetVersionDoes
  <2>5. VersionSection(p) \in DOMAIN Sections[c] => FileOf(VersionSection(p)) \in ManagedPaths(c)
    BY OwnIsManaged DEF VersionSection, Inherits
  <2>6. Moves(f, h, c, released)
    BY <2>4, <2>5 DEF Moves
  <2>7. CASE p.kind # "rust"
    BY <1>2, <2>2, <2>3, <2>4, <2>6, <2>7
  <2>8. CASE p.kind = "rust"
    <3>1. g = SetRefs(h, LockOf(p), own)
      BY <2>2, <2>8
    <3>2. /\ g \in Contents(c)
          /\ \A t \in DOMAIN Sections[c] :
               /\ g[t].version = h[t].version
               /\ t # LockOf(p) => g[t] = h[t]
               /\ \A d \in Entries(c, t) : Follows(g[t].refs[d], h[t].refs[d], t = LockOf(p), d, own)
      BY <2>1, <2>4, <3>1, SetRefsDoes
    <3>3. Moves(h, g, c, released)
      <4>1. FileOf(LockOf(p)) \in ManagedPaths(c)
        BY <2>8, OwnIsManaged
      <4> QED BY <1>2, <2>1, <2>3, <3>2, <4>1 DEF Moves, Follows
    <3>4. Moves(f, g, c, released)
      BY <2>6, <3>3, MovesOn
    <3> QED BY <1>2, <2>1, <2>3, <2>4, <3>2, <3>4 DEF Follows, Eponymous
  <2> QED BY <2>7, <2>8
<1> QED BY <1>1, <1>2

\* What UpdateLocalDependencyVersionsWithFS does for a package.
LEMMA RequirementMoves ==
    ASSUME NEW c \in Configurations, NEW f \in Contents(c), NEW p \in Range(c.packages),
           NEW released, Chosen(c, released), NEW g, g = UpdateLocalDependencies(f, p, released)
    PROVE  /\ Moves(f, g, c, released)
           /\ \A s \in DOMAIN Sections[c] : g[s].version = f[s].version
           /\ \A d \in Range(p.deps) \cap DOMAIN released :
                Recorded(p, d) /\ RequirementSection(p, d) \in DOMAIN Sections[c]
                /\ d \in Entries(c, RequirementSection(p, d)) =>
                    g[RequirementSection(p, d)].refs[d] = released[d]
<1> DEFINE local == LocalVersions(p, released)
           pinned == [d \in {e \in DOMAIN local : p.forms[e] = "pinned"} |-> local[d]]
           a == SetRefs(f, Own(p), pinned)
           b == SetRefs(a, Shared(p), local)
           e == SetRefs(b, LockOf(p), local)
<1>1. /\ DOMAIN local = Range(p.deps) \cap DOMAIN released /\ \A d \in DOMAIN local : local[d] = released[d]
      /\ DOMAIN pinned = {d \in DOMAIN local : p.forms[d] = "pinned"}
      /\ \A d \in DOMAIN pinned : pinned[d] = released[d]
  BY DEF LocalVersions
<1>2. g = IF DOMAIN local = {} \/ p.kind = "file" THEN f ELSE IF p.kind # "rust" THEN a ELSE e
  BY DEF UpdateLocalDependencies, UpdateOwnRequirements
<1>3. a = SetRefs(f, Own(p), pinned) /\ b = SetRefs(a, Shared(p), local) /\ e = SetRefs(b, LockOf(p), local)
  OBVIOUS
<1> HIDE DEF local, pinned, a, b, e
<1>4. Chosen(c, local) /\ Chosen(c, pinned)
  BY <1>1 DEF Chosen
<1>5. /\ a \in Contents(c)
      /\ \A t \in DOMAIN Sections[c] :
           /\ a[t].version = f[t].version
           /\ t # Own(p) => a[t] = f[t]
           /\ \A d \in Entries(c, t) : Follows(a[t].refs[d], f[t].refs[d], t = Own(p), d, pinned)
  BY <1>3, <1>4, SetRefsDoes
<1>6. Moves(f, a, c, released)
  BY <1>1, <1>5, OwnIsManaged DEF Moves, Follows
<1>7. CASE DOMAIN local = {} \/ p.kind = "file"
  <2>1. g = f
    BY <1>2, <1>7
  <2>2. Moves(f, g, c, released)
    BY <2>1 DEF Moves
  <2> QED BY <1>1, <1>7, <2>1, <2>2 DEF Recorded
<1>8. CASE DOMAIN local # {} /\ p.kind \notin {"file", "rust"}
  <2>1. g = a
    BY <1>2, <1>8
  <2>2. \A d \in Range(p.deps) \cap DOMAIN released :
          Recorded(p, d) => RequirementSection(p, d) = Own(p) /\ d \in DOMAIN pinned
    BY <1>1, <1>8 DEF Recorded, RequirementSection
  <2> QED BY <1>1, <1>5, <1>6, <2>1, <2>2 DEF Follows
<1>9. CASE DOMAIN local # {} /\ p.kind = "rust"
  <2>1. g = e
    BY <1>2, <1>9
  <2>2. /\ b \in Contents(c)
        /\ \A t \in DOMAIN Sections[c] :
             /\ b[t].version = a[t].version
             /\ t # Shared(p) => b[t] = a[t]
             /\ \A d \in Entries(c, t) : Follows(b[t].refs[d], a[t].refs[d], t = Shared(p), d, local)
    BY <1>3, <1>4, <1>5, SetRefsDoes
  <2>3. /\ e \in Contents(c)
        /\ \A t \in DOMAIN Sections[c] :
             /\ e[t].version = b[t].version
             /\ t # LockOf(p) => e[t] = b[t]
             /\ \A d \in Entries(c, t) : Follows(e[t].refs[d], b[t].refs[d], t = LockOf(p), d, local)
    BY <1>3, <1>4, <2>2, SetRefsDoes
  <2>4. Moves(a, b, c, released) /\ Moves(b, e, c, released)
    BY <1>1, <1>9, <2>2, <2>3, OwnIsManaged DEF Moves, Follows
  <2>5. Moves(f, g, c, released)
    BY <1>6, <2>1, <2>4, MovesOn
  <2>6. ASSUME NEW d \in Range(p.deps) \cap DOMAIN released, Recorded(p, d),
               RequirementSection(p, d) \in DOMAIN Sections[c], d \in Entries(c, RequirementSection(p, d))
        PROVE  e[RequirementSection(p, d)].refs[d] = released[d]
    <3>1. /\ d \in DOMAIN local /\ local[d] = released[d]
          /\ \A n \in DOMAIN local : Key[n] = Key[d] => n = d
      BY <1>1, NamesDistinct DEF Chosen
    <3>0. \A t \in DOMAIN Sections[c] : d \in Entries(c, t) /\ a[t].refs[d] = released[d] => e[t].refs[d] = released[d]
      BY <2>2, <2>3, <3>1 DEF Follows
    <3>2. CASE p.forms[d] = "pinned"
      <4>1. a[Own(p)].refs[d] = released[d] /\ RequirementSection(p, d) = Own(p)
        BY <1>1, <1>5, <2>6, <3>1, <3>2 DEF RequirementSection, Follows
      <4> QED BY <2>6, <3>0, <4>1
    <3>3. CASE p.forms[d] # "pinned"
      <4>1. RequirementSection(p, d) = Shared(p)
        BY <3>3 DEF RequirementSection
      <4>2. b[Shared(p)].refs[d] = released[d]
        BY <2>2, <2>6, <3>1, <4>1 DEF Follows
      <4> QED BY <2>3, <2>6, <3>1, <4>1, <4>2 DEF Follows
    <3> QED BY <3>2, <3>3
  <2> QED BY <1>5, <2>1, <2>2, <2>3, <2>5, <2>6
<1> QED BY <1>7, <1>8, <1>9

-----------------------------------------------------------------------------
(* What a release does to the manifests. *)

\* No two packages have one manifest (validateManagedPaths).
LEMMA PackagesDisjoint ==
    ASSUME NEW c \in Configurations
    PROVE  /\ Len(c.packages) \in Nat /\ DOMAIN c.packages = 1..Len(c.packages)
           /\ \A p, q \in Range(c.packages) : p.manifest = q.manifest => p = q
<1>1. PICK r \in RawConfigs : Accepted(r) /\ c = Normalize(r)
  BY DEF Configurations
<1>2. r \in [packages : Seq(Range(r.packages)), named : BOOLEAN] /\ \A p \in Range(r.packages) : "manifest" \in DOMAIN p
  BY PlanAssumption
<1> DEFINE ps == r.packages
           n == Len(r.packages)
<1>3. n \in Nat /\ DOMAIN ps = 1..n
  BY <1>2
<1>4. c.packages = [i \in DOMAIN ps |-> NormalizePackage(r, ps[i])]
  BY <1>1, <1>2 DEF Normalize
<1>5. \A i \in DOMAIN ps : ps[i].manifest = NormalizePackage(r, ps[i]).manifest
  <2>1. ASSUME NEW i \in DOMAIN ps PROVE ps[i].manifest = NormalizePackage(r, ps[i]).manifest
    <3>1. "manifest" \in DOMAIN ps[i]
      BY <1>2 DEF Range
    <3> QED BY <3>1 DEF NormalizePackage
  <2> QED BY <2>1
<1>6. ASSUME NEW i \in DOMAIN ps, NEW j \in DOMAIN ps, ps[i].manifest = ps[j].manifest PROVE i = j
  <2> DEFINE owned == {<<k, x>> : k \in DOMAIN ps, x \in {"manifest", "changelog"}}
  <2>1. \A o, u \in owned : ps[o[1]][o[2]] = ps[u[1]][u[2]] => o = u
    BY <1>1 DEF Accepted, ManagedPathsDisjoint
  <2>2. <<i, "manifest">> \in owned /\ <<j, "manifest">> \in owned
    OBVIOUS
  <2>3. ps[i]["manifest"] = ps[j]["manifest"]
    BY <1>6
  <2> HIDE DEF owned
  <2>4. <<i, "manifest">> = <<j, "manifest">>
    BY <2>1, <2>2, <2>3
  <2> QED BY <2>4
<1> HIDE DEF ps, n
<1>7. Len(c.packages) = n /\ DOMAIN c.packages = 1..n
  BY <1>3, <1>4
<1>8. ASSUME NEW p \in Range(c.packages), NEW q \in Range(c.packages), p.manifest = q.manifest PROVE p = q
  <2>1. PICK i \in DOMAIN c.packages : p = c.packages[i]
    BY DEF Range
  <2>2. PICK j \in DOMAIN c.packages : q = c.packages[j]
    BY DEF Range
  <2>3. i \in DOMAIN ps /\ j \in DOMAIN ps /\ ps[i].manifest = p.manifest /\ ps[j].manifest = q.manifest
    BY <1>4, <1>5, <2>1, <2>2
  <2>4. i = j
    BY <1>6, <1>8, <2>3
  <2> QED BY <2>1, <2>2, <2>4
<1> QED BY <1>3, <1>7, <1>8

\* The release of p writes the version of section s.
Writes(p, s, released) == p.name \in DOMAIN released /\ VersionSection(p) = s

\* After the packages ps: every section that one of them writes has the
\* version of one, and their lock entries have theirs.
Versioned(f, g, c, ps, released) ==
    /\ Moves(f, g, c, released)
    /\ \A s \in DOMAIN Sections[c] :
         \/ g[s].version = f[s].version /\ \A p \in ps : ~Writes(p, s, released)
         \/ \E p \in ps : Writes(p, s, released) /\ g[s].version = released[p.name]
    /\ \A p \in ps :
         p.name \in DOMAIN released /\ p.kind = "rust" /\ LockOf(p) \in DOMAIN Sections[c]
         /\ Eponymous(p) /\ p.title \in Entries(c, LockOf(p)) => g[LockOf(p)].refs[p.title] = released[p.name]

\* After the packages ps: their requirements on what is released are rewritten.
Required(f, g, c, ps, released) ==
    /\ Moves(f, g, c, released)
    /\ \A s \in DOMAIN Sections[c] : g[s].version = f[s].version
    /\ \A p \in ps : \A d \in Range(p.deps) \cap DOMAIN released :
         Recorded(p, d) /\ RequirementSection(p, d) \in DOMAIN Sections[c]
         /\ d \in Entries(c, RequirementSection(p, d)) => g[RequirementSection(p, d)].refs[d] = released[d]

LEMMA VersionedOn ==
    ASSUME NEW c \in Configurations, NEW ps \in SUBSET Range(c.packages), NEW p \in Range(c.packages),
           NEW released, Chosen(c, released), NEW f \in Contents(c), NEW g, Versioned(f, g, c, ps, released),
           NEW h, h = UpdateReleased(g, p, released)
    PROVE  Versioned(f, h, c, ps \cup {p}, released)
<1>1. g \in Contents(c)
  BY DEF Versioned, Moves
<1>2. /\ Moves(g, h, c, released)
      /\ \A s \in DOMAIN Sections[c] :
           h[s].version = IF p.name \in DOMAIN released /\ s = VersionSection(p)
                          THEN released[p.name] ELSE g[s].version
      /\ p.name \in DOMAIN released /\ p.kind = "rust" /\ LockOf(p) \in DOMAIN Sections[c]
         /\ Eponymous(p) /\ p.title \in Entries(c, LockOf(p)) => h[LockOf(p)].refs[p.title] = released[p.name]
  BY <1>1, VersionMoves
<1>3. Moves(f, h, c, released)
  BY <1>2, MovesOn DEF Versioned
<1>4. ASSUME NEW s \in DOMAIN Sections[c]
      PROVE  \/ h[s].version = f[s].version /\ \A q \in ps \cup {p} : ~Writes(q, s, released)
             \/ \E q \in ps \cup {p} : Writes(q, s, released) /\ h[s].version = released[q.name]
  BY <1>2 DEF Versioned, Writes
<1>5. ASSUME NEW q \in ps, q.name \in DOMAIN released, q.kind = "rust", LockOf(q) \in DOMAIN Sections[c],
             Eponymous(q), q.title \in Entries(c, LockOf(q))
      PROVE  h[LockOf(q)].refs[q.title] = released[q.name]
  <2>1. g[LockOf(q)].refs[q.title] = released[q.name]
    BY <1>5 DEF Versioned
  <2> QED BY <1>2, <1>5, <2>1, FollowedStays DEF Eponymous
<1> QED BY <1>2, <1>3, <1>4, <1>5 DEF Versioned

LEMMA RequiredOn ==
    ASSUME NEW c \in Configurations, NEW ps \in SUBSET Range(c.packages), NEW p \in Range(c.packages),
           NEW released, Chosen(c, released), NEW f \in Contents(c), NEW g, Required(f, g, c, ps, released),
           NEW h, h = UpdateLocalDependencies(g, p, released)
    PROVE  Required(f, h, c, ps \cup {p}, released)
<1>1. g \in Contents(c)
  BY DEF Required, Moves
<1>2. /\ Moves(g, h, c, released)
      /\ \A s \in DOMAIN Sections[c] : h[s].version = g[s].version
      /\ \A d \in Range(p.deps) \cap DOMAIN released :
           Recorded(p, d) /\ RequirementSection(p, d) \in DOMAIN Sections[c]
           /\ d \in Entries(c, RequirementSection(p, d)) => h[RequirementSection(p, d)].refs[d] = released[d]
  BY <1>1, RequirementMoves
<1>3. Moves(f, h, c, released)
  BY <1>2, MovesOn DEF Required
<1>4. ASSUME NEW q \in ps, NEW d \in Range(q.deps) \cap DOMAIN released, Recorded(q, d),
             RequirementSection(q, d) \in DOMAIN Sections[c], d \in Entries(c, RequirementSection(q, d))
      PROVE  h[RequirementSection(q, d)].refs[d] = released[d]
  <2>1. g[RequirementSection(q, d)].refs[d] = released[d]
    BY <1>4 DEF Required
  <2> QED BY <1>2, <1>4, <2>1, FollowedStays
<1>5. \A s \in DOMAIN Sections[c] : h[s].version = f[s].version
  BY <1>2 DEF Required
<1> QED BY <1>2, <1>3, <1>4, <1>5 DEF Required

LEMMA AllVersioned ==
    ASSUME NEW c \in Configurations, NEW f \in Contents(c), NEW released, Chosen(c, released),
           NEW g, g = UpdateVersions(f, c.packages, released)
    PROVE  Versioned(f, g, c, Range(c.packages), released)
<1> DEFINE n == Len(c.packages)
           ps == c.packages
           F == Contents(c)
           G == [z \in F \X (1..n) |-> UpdateReleased(z[1], ps[z[2]], released)]
           upTo(i) == {ps[j] : j \in 1..i}
<1>1. n \in Nat /\ DOMAIN ps = 1..n /\ \A i \in 1..n : ps[i] \in Range(ps)
  BY PackagesDisjoint DEF Range
<1> HIDE DEF n
<1>2. \A h \in F, i \in 1..n : UpdateReleased(h, ps[i], released) \in F
  <2>1. ASSUME NEW h \in F, NEW i \in 1..n PROVE UpdateReleased(h, ps[i], released) \in F
    <3>1. Moves(h, UpdateReleased(h, ps[i], released), c, released)
      BY <1>1, VersionMoves
    <3> QED BY <3>1 DEF Moves
  <2> QED BY <2>1
<1>3. G \in [F \X (1..n) -> F] /\ \A h \in F, i \in 1..n : G[<<h, i>>] = UpdateReleased(h, ps[i], released)
  BY <1>2
<1> HIDE DEF G, F
<1>4. RunsTo(g, n, F, f, G)
  <2>1. f \in F
    BY DEF F
  <2> QED BY <1>1, <1>3, <2>1, VersionFold
<1>5. PICK d : Runs(d, n, F, f, G) /\ g = d[n]
  BY <1>4 DEF RunsTo
<1> DEFINE S == {i \in 0..n : Versioned(f, d[i], c, upTo(i), released)}
<1>6. 0 \in S
  <2>1. 1..0 = {} /\ d[0] = f /\ 0 \in 0..n
    BY <1>1, <1>5 DEF Runs
  <2>2. Versioned(f, f, c, {}, released)
    BY DEF Versioned, Moves
  <2> QED BY <2>1, <2>2
<1>7. ASSUME NEW i \in 1..n, i - 1 \in S PROVE i \in S
  <2>1. Versioned(f, d[i - 1], c, upTo(i - 1), released) /\ d[i - 1] \in F
    BY <1>1, <1>5, <1>7 DEF Runs
  <2>2. d[i] = UpdateReleased(d[i - 1], ps[i], released)
    BY <1>3, <1>5, <2>1 DEF Runs
  <2>3. upTo(i - 1) \in SUBSET Range(ps) /\ ps[i] \in Range(ps) /\ upTo(i) = upTo(i - 1) \cup {ps[i]}
    <3>1. 1..i = (1..i - 1) \cup {i} /\ 1..i \subseteq 1..n
      BY <1>1
    <3> QED BY <1>1, <3>1
  <2> HIDE DEF upTo
  <2>4. Versioned(f, d[i], c, upTo(i - 1) \cup {ps[i]}, released)
    BY <2>1, <2>2, <2>3, VersionedOn
  <2>5. Versioned(f, d[i], c, upTo(i), released) /\ i \in 0..n
    BY <1>1, <2>3, <2>4
  <2> QED BY <2>5
<1>8. n \in S
  <2> HIDE DEF S
  <2>1. \A i \in 0..n : i \in S
    BY <1>1, <1>6, <1>7, SegmentInduction
  <2> QED BY <1>1, <2>1
<1>9. upTo(n) = Range(ps)
  BY <1>1 DEF Range
<1> QED BY <1>5, <1>8, <1>9

LEMMA AllRequired ==
    ASSUME NEW c \in Configurations, NEW f \in Contents(c), NEW released, Chosen(c, released),
           NEW g, g = UpdateRequirements(f, c.packages, released)
    PROVE  Required(f, g, c, Range(c.packages), released)
<1> DEFINE n == Len(c.packages)
           ps == c.packages
           F == Contents(c)
           G == [z \in F \X (1..n) |-> UpdateLocalDependencies(z[1], ps[z[2]], released)]
           upTo(i) == {ps[j] : j \in 1..i}
<1>1. n \in Nat /\ DOMAIN ps = 1..n /\ \A i \in 1..n : ps[i] \in Range(ps)
  BY PackagesDisjoint DEF Range
<1> HIDE DEF n
<1>2. \A h \in F, i \in 1..n : UpdateLocalDependencies(h, ps[i], released) \in F
  <2>1. ASSUME NEW h \in F, NEW i \in 1..n PROVE UpdateLocalDependencies(h, ps[i], released) \in F
    <3>1. Moves(h, UpdateLocalDependencies(h, ps[i], released), c, released)
      BY <1>1, RequirementMoves
    <3> QED BY <3>1 DEF Moves
  <2> QED BY <2>1
<1>3. G \in [F \X (1..n) -> F] /\ \A h \in F, i \in 1..n : G[<<h, i>>] = UpdateLocalDependencies(h, ps[i], released)
  BY <1>2
<1> HIDE DEF G, F
<1>4. RunsTo(g, n, F, f, G)
  <2>1. f \in F
    BY DEF F
  <2> QED BY <1>1, <1>3, <2>1, RequirementFold
<1>5. PICK d : Runs(d, n, F, f, G) /\ g = d[n]
  BY <1>4 DEF RunsTo
<1> DEFINE S == {i \in 0..n : Required(f, d[i], c, upTo(i), released)}
<1>6. 0 \in S
  <2>1. 1..0 = {} /\ d[0] = f /\ 0 \in 0..n
    BY <1>1, <1>5 DEF Runs
  <2>2. Required(f, f, c, {}, released)
    BY DEF Required, Moves
  <2> QED BY <2>1, <2>2
<1>7. ASSUME NEW i \in 1..n, i - 1 \in S PROVE i \in S
  <2>1. Required(f, d[i - 1], c, upTo(i - 1), released) /\ d[i - 1] \in F
    BY <1>1, <1>5, <1>7 DEF Runs
  <2>2. d[i] = UpdateLocalDependencies(d[i - 1], ps[i], released)
    BY <1>3, <1>5, <2>1 DEF Runs
  <2>3. upTo(i - 1) \in SUBSET Range(ps) /\ ps[i] \in Range(ps) /\ upTo(i) = upTo(i - 1) \cup {ps[i]}
    <3>1. 1..i = (1..i - 1) \cup {i} /\ 1..i \subseteq 1..n
      BY <1>1
    <3> QED BY <1>1, <3>1
  <2> HIDE DEF upTo
  <2>4. Required(f, d[i], c, upTo(i - 1) \cup {ps[i]}, released)
    BY <2>1, <2>2, <2>3, RequiredOn
  <2>5. Required(f, d[i], c, upTo(i), released) /\ i \in 0..n
    BY <1>1, <2>3, <2>4
  <2> QED BY <2>5
<1>8. n \in S
  <2> HIDE DEF S
  <2>1. \A i \in 0..n : i \in S
    BY <1>1, <1>6, <1>7, SegmentInduction
  <2> QED BY <1>1, <2>1
<1>9. upTo(n) = Range(ps)
  BY <1>1 DEF Range
<1> QED BY <1>5, <1>8, <1>9

LEMMA UpdateDoes ==
    ASSUME NEW c \in Configurations, NEW f \in Contents(c), NEW released, Chosen(c, released),
           NEW g, g = UpdateManifests(f, c, released)
    PROVE  /\ Versioned(f, g, c, Range(c.packages), released)
           /\ \E h : Required(h, g, c, Range(c.packages), released)
<1> DEFINE h == UpdateVersions(f, c.packages, released)
<1>1. Versioned(f, h, c, Range(c.packages), released)
  BY AllVersioned
<1>2. h \in Contents(c) /\ Moves(f, h, c, released) /\ g = UpdateRequirements(h, c.packages, released)
  BY <1>1 DEF Versioned, Moves, UpdateManifests
<1> HIDE DEF h
<1>3. Required(h, g, c, Range(c.packages), released)
  BY <1>2, AllRequired
<1>4. Moves(h, g, c, released) /\ \A s \in DOMAIN Sections[c] : g[s].version = h[s].version
  BY <1>3 DEF Required
<1>5. Moves(f, g, c, released)
  BY <1>2, <1>4, MovesOn
<1>6. ASSUME NEW q \in Range(c.packages), q.name \in DOMAIN released, q.kind = "rust",
             LockOf(q) \in DOMAIN Sections[c], Eponymous(q), q.title \in Entries(c, LockOf(q))
      PROVE  g[LockOf(q)].refs[q.title] = released[q.name]
  <2>1. h[LockOf(q)].refs[q.title] = released[q.name]
    BY <1>1, <1>6 DEF Versioned
  <2> QED BY <1>4, <1>6, <2>1, FollowedStays DEF Eponymous
<1>7. \A s \in DOMAIN Sections[c] :
        \/ g[s].version = f[s].version /\ \A p \in Range(c.packages) : ~Writes(p, s, released)
        \/ \E p \in Range(c.packages) : Writes(p, s, released) /\ g[s].version = released[p.name]
  BY <1>1, <1>4 DEF Versioned
<1>8. Versioned(f, g, c, Range(c.packages), released)
  BY <1>5, <1>6, <1>7 DEF Versioned
<1> QED BY <1>3, <1>8

\* A release of nothing changes nothing.
LEMMA UpdateNothing ==
    ASSUME NEW c \in Configurations, NEW f \in Contents(c), NEW released, DOMAIN released = {}
    PROVE  UpdateManifests(f, c, released) = f
<1> DEFINE g == UpdateManifests(f, c, released)
<1>1. Chosen(c, released)
  BY DEF Chosen
<1>2. Versioned(f, g, c, Range(c.packages), released)
  BY <1>1, UpdateDoes
<1> HIDE DEF g
<1>3. g \in Contents(c)
  BY <1>2 DEF Versioned, Moves
<1>4. \A s \in DOMAIN Sections[c] : g[s].version = f[s].version
  BY <1>2 DEF Versioned, Writes
<1>5. \A s \in DOMAIN Sections[c] : \A d \in Entries(c, s) : g[s].refs[d] = f[s].refs[d]
  BY <1>2 DEF Versioned, Moves
<1>6. ASSUME NEW s \in DOMAIN Sections[c] PROVE g[s] = f[s]
  <2>1. g[s].refs \in [Entries(c, s) -> Versions] /\ f[s].refs \in [Entries(c, s) -> Versions]
    BY <1>3, ContentsFacts
  <2>2. g[s].refs = f[s].refs
    BY <1>5, <2>1
  <2>3. /\ g[s] = [version |-> g[s].version, refs |-> g[s].refs]
        /\ f[s] = [version |-> f[s].version, refs |-> f[s].refs]
    <3>1. /\ g[s] \in [version : Versions, refs : UNION {[D -> Versions] : D \in SUBSET Written(c)}]
          /\ f[s] \in [version : Versions, refs : UNION {[D -> Versions] : D \in SUBSET Written(c)}]
      BY <1>3, ContentsFacts
    <3> QED BY <3>1
  <2> QED BY <1>4, <2>2, <2>3
<1>7. g = f
  BY <1>3, <1>6 DEF Contents
<1> QED BY <1>7 DEF g

\* A release that ValidateVersionUpdates accepts leaves manifests that agree.
LEMMA UpdateAgrees ==
    ASSUME NEW c \in Configurations, NEW f \in Contents(c), NEW old, Agree(f, c, old),
           NEW released, Chosen(c, released), VersionUpdatesValid(c, released),
           NEW new, \A n \in PackageNames(c) : new[n] = IF n \in DOMAIN released THEN released[n] ELSE old[n],
           NEW g, g = UpdateManifests(f, c, released)
    PROVE  g \in Contents(c) /\ Agree(g, c, new)
<1>1. Versioned(f, g, c, Range(c.packages), released)
  BY UpdateDoes
<1>2. PICK h : Required(h, g, c, Range(c.packages), released)
  BY UpdateDoes
<1>3. /\ g \in Contents(c) /\ DOMAIN g = DOMAIN Sections[c] /\ DOMAIN f = DOMAIN Sections[c]
      /\ \A s \in DOMAIN Sections[c] : DOMAIN f[s].refs = Entries(c, s) /\ DOMAIN g[s].refs = Entries(c, s)
  <2>1. g \in Contents(c)
    BY <1>1 DEF Versioned, Moves
  <2> QED BY <2>1, ContentsFacts
<1>4. \A s \in DOMAIN Sections[c] : \A d \in Entries(c, s) :
        \/ g[s].refs[d] = f[s].refs[d]
        \/ \E n \in DOMAIN released : Key[n] = Key[d] /\ g[s].refs[d] = released[n]
  BY <1>1 DEF Versioned, Moves
<1>5. \A p \in Range(c.packages) : p.name \in PackageNames(c)
  BY DEF Range, PackageNames
<1>6. ASSUME NEW p \in Range(c.packages), NEW q \in Range(c.packages), VersionSection(p) = VersionSection(q),
             q.name \in DOMAIN released
      PROVE  p.name \in DOMAIN released /\ released[p.name] = released[q.name]
  <2>1. CASE p = q
    BY <1>6, <2>1
  <2>2. CASE p # q
    <3>1. Inherits(p) /\ Inherits(q) /\ p.root = q.root
      <4>1. p.manifest # q.manifest
        BY <2>2, PackagesDisjoint
      <4> QED BY <1>6, <4>1 DEF VersionSection, Own, Shared
    <3>2. p \in InheritingFrom(c, p.root) /\ q \in InheritingFrom(c, p.root)
      BY <3>1 DEF InheritingFrom
    <3>3. released[q.name] \in Targets(c, p.root, released)
      BY <1>6, <3>2 DEF Targets
    <3>4. p.name \in DOMAIN released
      BY <3>1, <3>3 DEF VersionUpdatesValid
    <3>5. released[p.name] \in Targets(c, p.root, released)
      BY <3>2, <3>4 DEF Targets
    <3> QED BY <3>1, <3>3, <3>4, <3>5 DEF VersionUpdatesValid
  <2> QED BY <2>1, <2>2
<1>7. ASSUME NEW p \in Range(c.packages)
      PROVE  VersionSection(p) \in DOMAIN g /\ CurrentVersion(g, p) = new[p.name]
  <2> DEFINE s == VersionSection(p)
  <2>1. s \in DOMAIN Sections[c] /\ f[s].version = old[p.name]
    BY <1>3 DEF Agree, CurrentVersion
  <2>2. CASE g[s].version = f[s].version /\ \A q \in Range(c.packages) : ~Writes(q, s, released)
    <3>1. p.name \notin DOMAIN released
      BY <2>2 DEF Writes
    <3> QED BY <1>3, <1>5, <2>1, <2>2, <3>1 DEF CurrentVersion
  <2>3. CASE \E q \in Range(c.packages) : Writes(q, s, released) /\ g[s].version = released[q.name]
    <3>1. PICK q \in Range(c.packages) : Writes(q, s, released) /\ g[s].version = released[q.name]
      BY <2>3
    <3>2. p.name \in DOMAIN released /\ released[p.name] = released[q.name]
      BY <1>6, <3>1 DEF Writes
    <3> QED BY <1>3, <1>5, <2>1, <3>1, <3>2 DEF CurrentVersion
  <2> QED BY <1>1, <2>1, <2>2, <2>3 DEF Versioned
<1>8. ASSUME NEW p \in Range(c.packages), NEW d \in Range(p.deps), Recorded(p, d)
      PROVE  Asks(g, RequirementSection(p, d), d, new[d])
  <2> DEFINE s == RequirementSection(p, d)
  <2>1. s \in DOMAIN Sections[c] /\ d \in Entries(c, s) /\ f[s].refs[d] = old[d]
    BY <1>3, <1>8 DEF Agree, Asks
  <2>2. d \in PackageNames(c) /\ s \in DOMAIN g /\ d \in DOMAIN g[s].refs
    BY <1>3, <2>1, DependenciesNamed
  <2>3. CASE d \in DOMAIN released
    <3>1. g[s].refs[d] = released[d]
      BY <1>2, <1>8, <2>1, <2>3 DEF Required
    <3> QED BY <2>2, <2>3, <3>1 DEF Asks
  <2>4. CASE d \notin DOMAIN released
    <3>1. g[s].refs[d] = f[s].refs[d]
      BY <1>4, <2>1, <2>2, <2>4, NamesDistinct DEF Chosen
    <3> QED BY <2>1, <2>2, <2>4, <3>1 DEF Asks
  <2> QED BY <2>3, <2>4
<1>9. ASSUME NEW p \in Range(c.packages), LockOf(p) \in DOMAIN g, p.kind = "rust", Eponymous(p)
      PROVE  Asks(g, LockOf(p), p.title, new[p.name])
  <2> DEFINE s == LockOf(p)
             t == p.title
  <2>1. s \in DOMAIN Sections[c] /\ t \in Entries(c, s) /\ f[s].refs[t] = old[p.name]
    BY <1>3, <1>9 DEF Agree, Asks
  <2>2. p.name \in PackageNames(c) /\ s \in DOMAIN g /\ t \in DOMAIN g[s].refs
    BY <1>3, <1>5, <2>1
  <2>3. CASE p.name \in DOMAIN released
    <3>1. g[s].refs[t] = released[p.name]
      BY <1>1, <1>9, <2>1, <2>3 DEF Versioned
    <3> QED BY <2>2, <2>3, <3>1 DEF Asks
  <2>4. CASE p.name \notin DOMAIN released
    <3>1. \A n \in DOMAIN released : Key[n] # Key[t]
      BY <1>9, <2>2, <2>4, NamesDistinct DEF Chosen, Eponymous
    <3>2. g[s].refs[t] = f[s].refs[t]
      BY <1>4, <2>1, <3>1
    <3> QED BY <2>1, <2>2, <2>4, <3>2 DEF Asks
  <2> QED BY <2>3, <2>4
<1> QED BY <1>3, <1>7, <1>8, <1>9 DEF Agree

\* The manifests of the files a release rewrites are declared to its transaction.
LEMMA UpdateManaged ==
    ASSUME NEW c \in Configurations, NEW f \in Contents(c), NEW released, Chosen(c, released),
           NEW g, g = UpdateManifests(f, c, released)
    PROVE  Rewritten(f, g) \subseteq ManagedPaths(c) /\ Rewritten(g, f) \subseteq ManagedPaths(c)
<1>1. Moves(f, g, c, released)
  BY UpdateDoes DEF Versioned
<1>2. DOMAIN f = DOMAIN Sections[c] /\ DOMAIN g = DOMAIN Sections[c]
  BY <1>1, ContentsFacts DEF Moves
<1> QED BY <1>1, <1>2 DEF Moves, Rewritten

-----------------------------------------------------------------------------
(* What the commits of a branch make of the manifests. *)

LEMMA UpdateContents ==
    ASSUME NEW c \in Configurations, NEW f \in Contents(c), NEW released, Chosen(c, released)
    PROVE  UpdateManifests(f, c, released) \in Contents(c)
BY UpdateDoes DEF Versioned, Moves

LEMMA FirstContents ==
    ASSUME NEW c \in Configurations
    PROVE  Sections[c] \in Contents(c)
BY SectionsAssumption DEF Contents

\* d lists the manifests after each of the n commits of a history.
Traces(d, c, h, n) ==
    /\ d[0] = Sections[c] /\ ManifestsAfter(c, h) = d[n]
    /\ \A i \in 0..n : d[i] \in Contents(c)
    /\ \A i \in 1..n : d[i] = UpdateManifests(d[i - 1], c, VersionsIn(h[i]))

LEMMA AfterRuns ==
    ASSUME NEW c \in Configurations, NEW n \in Nat, NEW h, DOMAIN h = 1..n,
           \A k \in 1..n : Chosen(c, VersionsIn(h[k]))
    PROVE  \E d : Traces(d, c, h, n)
<1> DEFINE F == Contents(c)
           base == Sections[c]
           G == [z \in F \X (1..n) |-> UpdateManifests(z[1], c, VersionsIn(h[z[2]]))]
<1>1. base \in F
  BY FirstContents
<1>2. \A f \in F, i \in 1..n : UpdateManifests(f, c, VersionsIn(h[i])) \in F
  BY UpdateContents
<1>3. G \in [F \X (1..n) -> F] /\ \A f \in F, i \in 1..n : G[<<f, i>>] = UpdateManifests(f, c, VersionsIn(h[i]))
  BY <1>2
<1> HIDE DEF F, G
<1>4. RunsTo(ManifestsAfter(c, h), n, F, base, G)
  BY <1>1, <1>3, CommitFold
<1>5. PICK d : Runs(d, n, F, base, G) /\ ManifestsAfter(c, h) = d[n]
  BY <1>4 DEF RunsTo
<1>6. \A i \in 1..n : d[i] = UpdateManifests(d[i - 1], c, VersionsIn(h[i]))
  <2>1. ASSUME NEW i \in 1..n PROVE d[i] = UpdateManifests(d[i - 1], c, VersionsIn(h[i]))
    <3>1. d[i - 1] \in F /\ d[i] = G[<<d[i - 1], i>>]
      BY <1>5 DEF Runs
    <3> QED BY <1>3, <3>1
  <2> QED BY <2>1
<1>7. Traces(d, c, h, n)
  BY <1>5, <1>6 DEF Runs, F, Traces
<1> QED BY <1>7

LEMMA AfterAppend ==
    ASSUME NEW c \in Configurations, NEW h, h \in Seq(Range(h)), NEW e, Chosen(c, VersionsIn(e)),
           \A k \in DOMAIN h : Chosen(c, VersionsIn(h[k]))
    PROVE  /\ ManifestsAfter(c, h) \in Contents(c)
           /\ ManifestsAfter(c, Append(h, e)) = UpdateManifests(ManifestsAfter(c, h), c, VersionsIn(e))
<1> DEFINE n == Len(h)
           g == Append(h, e)
<1>1. /\ n \in Nat /\ DOMAIN h = 1..n /\ DOMAIN g = 1..n + 1 /\ g[n + 1] = e
      /\ \A i \in 1..n : g[i] = h[i]
  OBVIOUS
<1> HIDE DEF n, g
<1>2. PICK d : Traces(d, c, h, n)
  <2>1. \A k \in 1..n : Chosen(c, VersionsIn(h[k]))
    BY <1>1
  <2>2. DOMAIN h = 1..n /\ n \in Nat
    BY <1>1
  <2> QED BY <2>1, <2>2, AfterRuns
<1>3. \A k \in 1..n + 1 : Chosen(c, VersionsIn(g[k]))
  <2>1. \A k \in 1..n + 1 : k \in 1..n \/ k = n + 1
    BY <1>1
  <2> QED BY <1>1, <2>1
<1>4. PICK b : Traces(b, c, g, n + 1)
  <2> DEFINE m == n + 1
  <2>1. m \in Nat
    BY <1>1
  <2>2. DOMAIN g = 1..m
    BY <1>1
  <2>3. \A k \in 1..m : Chosen(c, VersionsIn(g[k]))
    BY <1>3
  <2> HIDE DEF m
  <2>4. \E b : Traces(b, c, g, m)
    BY <2>1, <2>2, <2>3, AfterRuns
  <2> QED BY <2>4 DEF m
<1> DEFINE S == {i \in 0..n : b[i] = d[i]}
<1>5. 0 \in S
  BY <1>1, <1>2, <1>4 DEF Traces
<1>6. ASSUME NEW i \in 1..n, i - 1 \in S PROVE i \in S
  <2>1. i \in 1..n + 1 /\ i \in 0..n
    BY <1>1
  <2>2. b[i] = UpdateManifests(b[i - 1], c, VersionsIn(h[i]))
    BY <1>1, <1>4, <2>1 DEF Traces
  <2> QED BY <1>2, <1>6, <2>1, <2>2 DEF Traces
<1>7. b[n] = d[n]
  <2> HIDE DEF S
  <2>1. \A i \in 0..n : i \in S
    BY <1>1, <1>5, <1>6, SegmentInduction
  <2>2. n \in S
    BY <1>1, <2>1
  <2> QED BY <2>2 DEF S
<1>8. b[n + 1] = UpdateManifests(b[n], c, VersionsIn(e))
  <2>1. n + 1 \in 1..n + 1 /\ n + 1 - 1 = n
    BY <1>1
  <2> QED BY <1>1, <1>4, <2>1 DEF Traces
<1>9. ManifestsAfter(c, h) \in Contents(c) /\ n \in 0..n
  BY <1>1, <1>2 DEF Traces
<1> QED BY <1>2, <1>4, <1>7, <1>8, <1>9 DEF g, Traces

\* Without commits the manifests are the first ones.
LEMMA AfterNothing ==
    ASSUME NEW c \in Configurations
    PROVE  ManifestsAfter(c, <<>>) = Sections[c]
<1>1. DOMAIN <<>> = 1..0 /\ 0 \in Nat
  OBVIOUS
<1>2. PICK d : Traces(d, c, <<>>, 0)
  BY <1>1, AfterRuns
<1> QED BY <1>2 DEF Traces

-----------------------------------------------------------------------------
(* The order of versions. *)

LEMMA BumpAbove ==
    ASSUME NEW v \in Versions, NEW t, Bump(v, t) \in Versions
    PROVE  Below(v, Bump(v, t))
<1>1. MaxComponent \in Nat
  BY PlanAssumption
<1>2. \A n \in 0..MaxComponent : Wrap(n + 1) \in 0..MaxComponent => n < Wrap(n + 1)
  BY <1>1 DEF Wrap
<1>3. /\ v.major \in 0..MaxComponent /\ v.minor \in 0..MaxComponent /\ v.patch \in 0..MaxComponent
      /\ v = [major |-> v.major, minor |-> v.minor, patch |-> v.patch]
  BY DEF Versions
<1>4. CASE t = Major
  <2>1. Bump(v, t) = [major |-> Wrap(v.major + 1), minor |-> 0, patch |-> 0]
    BY <1>4 DEF Bump, Major, Minor
  <2>2. Bump(v, t).major = Wrap(v.major + 1)
    BY <2>1
  <2>3. Bump(v, t).major \in 0..MaxComponent
    BY DEF Versions
  <2> QED BY <1>2, <1>3, <2>2, <2>3 DEF Below
<1>5. CASE t # Major /\ t = Minor
  <2>1. Bump(v, t) = [v EXCEPT !.minor = Wrap(@ + 1), !.patch = 0]
    BY <1>5 DEF Bump
  <2>2. Bump(v, t).minor = Wrap(v.minor + 1) /\ Bump(v, t).major = v.major
    BY <1>3, <2>1
  <2>3. Bump(v, t).minor \in 0..MaxComponent
    BY DEF Versions
  <2> QED BY <1>2, <1>3, <2>2, <2>3 DEF Below
<1>6. CASE t # Major /\ t # Minor
  <2>1. Bump(v, t) = [v EXCEPT !.patch = Wrap(@ + 1)]
    BY <1>6 DEF Bump
  <2>2. Bump(v, t).patch = Wrap(v.patch + 1) /\ Bump(v, t).major = v.major /\ Bump(v, t).minor = v.minor
    BY <1>3, <2>1
  <2>3. Bump(v, t).patch \in 0..MaxComponent
    BY DEF Versions
  <2> QED BY <1>2, <1>3, <2>2, <2>3 DEF Below
<1> QED BY <1>4, <1>5, <1>6

LEMMA BelowOn ==
    ASSUME NEW u \in Versions, NEW v \in Versions, NEW x \in Versions, Below(u, v), Below(v, x)
    PROVE  Below(u, x)
<1>1. \A y \in Versions : y.major \in Int /\ y.minor \in Int /\ y.patch \in Int
  BY PlanAssumption DEF Versions
<1> QED BY <1>1 DEF Below

\* The releases of a branch before a commit, and their versions, are those after it.
LEMMA LastAppended ==
    ASSUME BranchOK, NEW e, log' = Append(log, e), NEW n
    PROVE  LastVersion(n)' = IF n \in DOMAIN e.releases THEN e.releases[n].version ELSE LastVersion(n)
<1> DEFINE rs == {k \in DOMAIN log : n \in DOMAIN log[k].releases}
           L == Len(log) + 1
<1>1. /\ Len(log) \in Nat /\ DOMAIN log = 1..Len(log) /\ DOMAIN log' = DOMAIN log \cup {L} /\ log'[L] = e
      /\ \A k \in DOMAIN log : log'[k] = log[k] /\ k # L
  BY AppendedCommit DEF BranchOK
<1>2. rs \in SUBSET (0..Len(log))
  BY <1>1
<1>3. CASE n \notin DOMAIN e.releases
  <2>1. {k \in DOMAIN log' : n \in DOMAIN log'[k].releases} = rs
    BY <1>1, <1>3
  <2>2. rs # {} => Max(rs) \in DOMAIN log
    <3> HIDE DEF rs
    <3>1. rs # {} => Max(rs) \in rs
      BY <1>1, <1>2, GreatestExists
    <3> QED BY <3>1 DEF rs
  <2> HIDE DEF L
  <2> QED BY <1>1, <1>3, <2>1, <2>2 DEF LastVersion
<1>4. CASE n \in DOMAIN e.releases
  <2> DEFINE all == {k \in DOMAIN log' : n \in DOMAIN log'[k].releases}
  <2>1. L \in all /\ all \in SUBSET (0..L) /\ L \in Nat
    BY <1>1, <1>4
  <2>2. Max(all) = L
    <3> HIDE DEF all, L
    <3>1. Max(all) \in all /\ L <= Max(all)
      BY <2>1, GreatestExists
    <3>2. Max(all) \in 0..L
      BY <2>1, <3>1
    <3> QED BY <2>1, <3>1, <3>2
  <2>3. LastVersion(n)' = log'[L].releases[n].version
    BY <2>1, <2>2 DEF LastVersion
  <2> QED BY <1>1, <1>4, <2>3
<1> QED BY <1>3, <1>4

LEMMA LastSame == ASSUME NEW n, log' = log PROVE LastVersion(n)' = LastVersion(n)
BY DEF LastVersion

\* No release is above the last one of its package.
LEMMA LastAbove ==
    ASSUME BranchOK, VersionsGrow, NEW r \in DOMAIN log, NEW n \in DOMAIN log[r].releases
    PROVE  /\ LastVersion(n) \in Versions
           /\ LastVersion(n) = log[r].releases[n].version \/ Below(log[r].releases[n].version, LastVersion(n))
<1> DEFINE rs == {k \in DOMAIN log : n \in DOMAIN log[k].releases}
<1>1. Len(log) \in Nat /\ rs \in SUBSET (0..Len(log)) /\ r \in rs
  BY DEF BranchOK
<1>2. LastVersion(n) = log[Max(rs)].releases[n].version
  BY <1>1 DEF LastVersion
<1>3. Max(rs) \in rs /\ r <= Max(rs)
  <2> HIDE DEF rs
  <2> QED BY <1>1, GreatestExists
<1>4. r = Max(rs) \/ r < Max(rs)
  BY <1>1, <1>3
<1> QED BY <1>2, <1>3, <1>4 DEF VersionsGrow

LEMMA LogChosen ==
    ASSUME VersionsGrow, NamesOK, NEW k \in DOMAIN log
    PROVE  Chosen(config, VersionsIn(log[k]))
BY DEF VersionsGrow, NamesOK, Names, Chosen, VersionsIn

-----------------------------------------------------------------------------
(* The versions of a plan. *)

\* While no release has rewritten them, the manifests state what is committed.
LEMMA FilesFacts ==
    ASSUME TypeOK, VInv
    PROVE  /\ config \in Configurations /\ Committed \in Contents(config) /\ Agree(Committed, config, LastVersions)
           /\ \A w \in Planners :
                /\ pc[w] = "mutate" => files = Committed
                /\ pc[w] = "commit" => /\ files = UpdateManifests(Committed, config, NextVersions(w))
                                       /\ Chosen(config, NextVersions(w)) /\ VersionUpdatesValid(config, NextVersions(w))
                                       /\ \A n \in DOMAIN NextVersions(w) : Below(LastVersion(n), NextVersions(w)[n])
<1>1. \A w, v \in Planners : pc[w] \in {"mutate", "commit"} /\ pc[v] = "commit" => w = v
  BY DEF TypeOK
<1>2. \A w \in Planners : pc[w] = "mutate" => files = Committed
  BY <1>1 DEF VInv, FilesOK
<1>3. \A w \in Planners : pc[w] = "commit" => Chosen(config, NextVersions(w))
  BY DEF VInv, NamesOK, Names, VersionsOK, Built, Chosen, NextVersions
<1>4. \A w \in Planners : pc[w] = "commit" => \A n \in DOMAIN NextVersions(w) : Below(LastVersion(n), NextVersions(w)[n])
  BY DEF VInv, VersionsOK, NextVersions
<1> QED BY <1>2, <1>3, <1>4 DEF VInv, FilesOK, VersionsOK

\* What a release has written into the manifests agrees too.
LEMMA WrittenAgrees ==
    ASSUME TypeOK, VInv, NEW w \in Planners, pc[w] = "commit"
    PROVE  /\ files \in Contents(config)
           /\ Agree(files, config, [n \in Names |-> IF n \in DOMAIN NextVersions(w) THEN NextVersions(w)[n]
                                                    ELSE LastVersion(n)])
<1> DEFINE new == [n \in Names |-> IF n \in DOMAIN NextVersions(w) THEN NextVersions(w)[n] ELSE LastVersion(n)]
           next == NextVersions(w)
<1>1. \A n \in PackageNames(config) : new[n] = IF n \in DOMAIN next THEN next[n] ELSE LastVersions[n]
  BY DEF Names, LastVersions
<1>2. /\ config \in Configurations /\ Committed \in Contents(config) /\ Agree(Committed, config, LastVersions)
      /\ files = UpdateManifests(Committed, config, next)
      /\ Chosen(config, next) /\ VersionUpdatesValid(config, next)
  BY FilesFacts
<1> HIDE DEF new, next
<1>3. files \in Contents(config) /\ Agree(files, config, new)
  BY <1>1, <1>2, UpdateAgrees
<1> QED BY <1>3 DEF new, next

\* No manifest states a version below the last release of its package, also
\* while a release has rewritten the manifests and not yet committed them.
LEMMA CurrentAbove ==
    ASSUME TypeOK, VInv, NEW p \in Range(config.packages)
    PROVE  /\ CurrentVersion(files, p) \in Versions
           /\ CurrentVersion(files, p) = LastVersion(p.name) \/ Below(LastVersion(p.name), CurrentVersion(files, p))
<1>1. p.name \in Names
  BY DEF Names, PackageNames, Range
<1>2. ASSUME files \in Contents(config), VersionSection(p) \in DOMAIN files PROVE CurrentVersion(files, p) \in Versions
  BY <1>2, ContentsFacts DEF CurrentVersion, VInv
<1>3. CASE \A w \in Planners : pc[w] # "commit"
  <2>1. files \in Contents(config) /\ Agree(files, config, LastVersions)
    BY <1>3 DEF VInv, FilesOK
  <2> QED BY <1>1, <1>2, <2>1 DEF Agree, LastVersions
<1>4. ASSUME NEW w \in Planners, pc[w] = "commit"
      PROVE  /\ CurrentVersion(files, p) \in Versions
             /\ CurrentVersion(files, p) = LastVersion(p.name) \/ Below(LastVersion(p.name), CurrentVersion(files, p))
  <2> DEFINE new == [n \in Names |-> IF n \in DOMAIN NextVersions(w) THEN NextVersions(w)[n] ELSE LastVersion(n)]
  <2>1. files \in Contents(config) /\ Agree(files, config, new)
    BY <1>4, WrittenAgrees
  <2>2. VersionSection(p) \in DOMAIN files /\ CurrentVersion(files, p) = new[p.name]
    BY <2>1 DEF Agree
  <2>3. \A n \in DOMAIN NextVersions(w) : Below(LastVersion(n), NextVersions(w)[n])
    BY <1>4, FilesFacts
  <2> QED BY <1>1, <1>2, <2>1, <2>2, <2>3
<1> QED BY <1>3, <1>4

\* The version that is built is above the last release of the package.
LEMMA BuiltAbove ==
    ASSUME TypeOK, BranchOK, VInv, NEW p \in Range(config.packages), NEW t, CheckedBump(CurrentVersion(files, p), t),
           LastVersion(p.name) \in Versions
    PROVE  /\ Bump(CurrentVersion(files, p), t) \in Versions
           /\ Below(LastVersion(p.name), Bump(CurrentVersion(files, p), t))
<1> DEFINE v == CurrentVersion(files, p)
           x == Bump(v, t)
<1>1. v \in Versions /\ x \in Versions
  BY DEF CheckedBump
<1>2. v = LastVersion(p.name) \/ Below(LastVersion(p.name), v)
  BY CurrentAbove
<1>3. Below(v, x)
  BY <1>1, BumpAbove
<1> HIDE DEF v, x
<1>4. Below(LastVersion(p.name), x)
  BY <1>1, <1>2, <1>3, BelowOn
<1> QED BY <1>1, <1>4 DEF v, x

\* A package that has no release is at its first version.
LEMMA LastIsVersion ==
    ASSUME BranchOK, VersionsGrow, NEW n
    PROVE  LastVersion(n) \in Versions
<1> DEFINE rs == {k \in DOMAIN log : n \in DOMAIN log[k].releases}
<1>1. CASE rs = {}
  BY <1>1, PlanAssumption DEF LastVersion
<1>2. CASE rs # {}
  <2>1. PICK r \in DOMAIN log : n \in DOMAIN log[r].releases
    BY <1>2
  <2> QED BY <2>1, LastAbove
<1> QED BY <1>1, <1>2

LEMMA InitVInv == Init => VInv
<1> SUFFICES ASSUME Init PROVE VInv
  OBVIOUS
<1>1. config \in Configurations /\ log = <<>> /\ files = Sections[config] /\ \A w \in Planners : pc[w] = "idle"
  BY DEF Init
<1>2. Committed = Sections[config] /\ Sections[config] \in Contents(config)
  BY <1>1, AfterNothing, FirstContents DEF Committed
<1>3. LastVersions = [n \in PackageNames(config) |-> InitVersion]
  <2>1. \A n : LastVersion(n) = InitVersion
    BY <1>1 DEF LastVersion
  <2> QED BY <2>1 DEF LastVersions, Names
<1>4. Agree(Committed, config, LastVersions)
  BY <1>1, <1>2, <1>3, SectionsAssumption
<1>5. FilesOK
  BY <1>1, <1>2, <1>4 DEF FilesOK
<1>6. VersionsGrow
  BY <1>1 DEF VersionsGrow
<1>7. \A w \in Planners : VersionsOK(w)
  BY <1>1 DEF VersionsOK, Built
<1>8. NamesOK
  <2>1. releases = [w \in Planners |-> NoReleases] /\ DOMAIN NoReleases = {}
    BY DEF Init, NoReleases
  <2> QED BY <1>1, <2>1 DEF NamesOK
<1> QED BY <1>1, <1>5, <1>6, <1>7, <1>8 DEF VInv

-----------------------------------------------------------------------------
(* The steps: the manifests. *)

\* A process that has rewritten the manifests has not moved.
Holds(v) ==
    /\ pc'[v] = "commit" <=> pc[v] = "commit"
    /\ pc[v] = "commit" => releases'[v] = releases[v]

\* Four steps have to do with the manifests.
LEMMA ManifestStep ==
    ASSUME TypeOK, DOMAIN releases = Planners, [Next]_vars
    PROVE  \/ log' = log /\ files' = files /\ \A v \in Planners : Holds(v)
           \/ \E c \in Changes : Commit(c)
           \/ \E w \in Planners : Update(w) \/ CommitRelease(w) \/ GiveUp(w)
<1>1. CASE UNCHANGED vars
  BY <1>1 DEF vars, Holds
<1>2. ASSUME NEW w \in Planners, CreatePlan(w) \/ Execute(w), ~(Update(w) \/ CommitRelease(w) \/ GiveUp(w))
      PROVE  log' = log /\ files' = files /\ \A v \in Planners : Holds(v)
  <2>1. \A v \in Planners : v # w => Holds(v)
    BY <1>2, OthersWait DEF Waits, Untouched, Holds
  <2>2. log' = log /\ files' = files /\ pc[w] # "commit"
    BY <1>2 DEF CreatePlan, Execute, ReadHead, ReadHistory, Refuse, Route, Trigger, Pass,
                EndPass, Build, BuildFails, Begin, Leave, UpdateFails, Tag, Finish
  <2>3. pc'[w] # "commit"
    BY <1>2, <2>2 DEF TypeOK, CreatePlan, Execute, Stop, Goto, ReadHead, ReadHistory, Refuse, Route, Trigger, Pass,
                      EndPass, Build, BuildFails, Begin, Leave, UpdateFails, Tag, Finish
  <2> QED BY <2>1, <2>2, <2>3 DEF Holds
<1> QED BY <1>1, <1>2 DEF Next

LEMMA SameBranch ==
    ASSUME config' = config, log' = log
    PROVE  /\ Committed' = Committed /\ LastVersions' = LastVersions
           /\ \A n : LastVersion(n)' = LastVersion(n)
<1>1. Committed' = Committed
  BY DEF Committed
<1>2. \A n : LastVersion(n)' = LastVersion(n)
  BY DEF LastVersion
<1>3. Names' = Names
  BY DEF Names
<1>4. LastVersions' = LastVersions
  BY <1>2, <1>3 DEF LastVersions
<1> QED BY <1>1, <1>2, <1>4

\* A change of the branch that releases nothing leaves all versions alone.
LEMMA CommitKeeps ==
    ASSUME BranchOK, VInv, config' = config, NEW c \in Changes, Commit(c)
    PROVE  /\ Committed' = Committed /\ LastVersions' = LastVersions
           /\ \A n : LastVersion(n)' = LastVersion(n)
<1> DEFINE e == [change |-> c, releases |-> NoReleases]
<1>1. log' = Append(log, e) /\ e.releases = NoReleases /\ DOMAIN e.releases = {}
  BY DEF Commit, NoReleases
<1> HIDE DEF e
<1>2. VersionsIn(e) = [n \in {} |-> e.releases[n].version] /\ DOMAIN VersionsIn(e) = {}
  BY <1>1 DEF VersionsIn
<1>3. Chosen(config, VersionsIn(e))
  BY <1>2 DEF Chosen
<1>4. /\ config \in Configurations /\ log \in Seq(Range(log)) /\ \A k \in DOMAIN log : Chosen(config, VersionsIn(log[k]))
  BY LogChosen DEF VInv, BranchOK
<1>5. /\ ManifestsAfter(config, log) \in Contents(config)
      /\ ManifestsAfter(config, log') = UpdateManifests(ManifestsAfter(config, log), config, VersionsIn(e))
  BY <1>1, <1>3, <1>4, AfterAppend
<1>6. ManifestsAfter(config, log') = ManifestsAfter(config, log)
  BY <1>2, <1>4, <1>5, UpdateNothing
<1>7. Committed' = Committed
  BY <1>6 DEF Committed
<1>8. \A n : LastVersion(n)' = LastVersion(n)
  BY <1>1, LastAppended
<1>9. LastVersions' = LastVersions
  BY <1>8 DEF LastVersions, Names
<1> QED BY <1>7, <1>8, <1>9

\* A release commit: its versions, and the manifests that were written before.
LEMMA ReleaseCommitted ==
    ASSUME TypeOK, BranchOK, VInv, config' = config, NEW w \in Planners, CommitRelease(w)
    PROVE  /\ Committed' = files
           /\ \A n : LastVersion(n)' = IF n \in DOMAIN releases[w] THEN releases[w][n].version ELSE LastVersion(n)
           /\ Committed' \in Contents(config) /\ Agree(Committed', config, LastVersions')
<1> DEFINE e == [change |-> NoChange, releases |-> releases[w]]
           next == NextVersions(w)
           new == [n \in Names |-> IF n \in DOMAIN next THEN next[n] ELSE LastVersion(n)]
<1>1. log' = Append(log, e) /\ e.releases = releases[w] /\ pc[w] = "commit" /\ files' = files
  BY DEF CommitRelease
<1>2. files \in Contents(config) /\ Agree(files, config, new)
  BY <1>1, WrittenAgrees
<1>3. config \in Configurations /\ files = UpdateManifests(Committed, config, next) /\ Chosen(config, next)
  BY <1>1, FilesFacts
<1> HIDE DEF e
<1>4. VersionsIn(e) = next
  BY <1>1 DEF VersionsIn, NextVersions
<1>5. \A n : LastVersion(n)' = IF n \in DOMAIN releases[w] THEN releases[w][n].version ELSE LastVersion(n)
  <2>1. ASSUME NEW n
        PROVE  LastVersion(n)' = IF n \in DOMAIN releases[w] THEN releases[w][n].version ELSE LastVersion(n)
    BY <1>1, LastAppended
  <2> QED BY <2>1
<1>6. LastVersions' = new
  <2>1. \A n \in DOMAIN releases[w] : next[n] = releases[w][n].version
    BY DEF NextVersions
  <2>2. DOMAIN next = DOMAIN releases[w]
    BY DEF NextVersions
  <2> QED BY <1>5, <2>1, <2>2 DEF LastVersions, Names
<1> HIDE DEF next, new
<1>7. log \in Seq(Range(log)) /\ \A k \in DOMAIN log : Chosen(config, VersionsIn(log[k]))
  BY LogChosen DEF VInv, BranchOK
<1>8. ManifestsAfter(config, log') = UpdateManifests(ManifestsAfter(config, log), config, VersionsIn(e))
  BY <1>1, <1>3, <1>4, <1>7, AfterAppend
<1>9. Committed' = files
  BY <1>3, <1>4, <1>8 DEF Committed
<1> QED BY <1>2, <1>5, <1>6, <1>9

LEMMA FilesStep == IInv /\ EInv /\ VInv /\ [Next]_vars => FilesOK'
<1> SUFFICES ASSUME IInv, EInv, VInv, [Next]_vars PROVE FilesOK'
  OBVIOUS
<1>0. /\ TypeOK /\ BranchOK /\ config' = config /\ DOMAIN releases = Planners
      /\ config \in Configurations /\ Committed \in Contents(config) /\ Agree(Committed, config, LastVersions)
  BY ConfigStep, FilesFacts DEF IInv, EInv
<1>1. CASE log' = log /\ files' = files /\ \A v \in Planners : Holds(v)
  <2>1. Committed' = Committed /\ LastVersions' = LastVersions
    BY <1>0, <1>1, SameBranch
  <2>2. (\A w \in Planners : pc'[w] # "commit") => files' = Committed'
    BY <1>1, <2>1 DEF VInv, FilesOK, Holds
  <2>3. \A w \in Planners : pc'[w] = "commit" => NextVersions(w)' = NextVersions(w)
    BY <1>1 DEF Holds, NextVersions
  <2>4. \A w \in Planners : pc'[w] = "commit" => files' = UpdateManifests(Committed', config', NextVersions(w)')
    BY <1>0, <1>1, <2>1, <2>3 DEF VInv, FilesOK, Holds
  <2> QED BY <1>0, <2>1, <2>2, <2>4 DEF FilesOK
<1>2. ASSUME NEW c \in Changes, Commit(c) PROVE FilesOK'
  <2>1. Committed' = Committed /\ LastVersions' = LastVersions
    BY <1>0, <1>2, CommitKeeps
  <2>2. files' = files /\ pc' = pc /\ releases' = releases
    BY <1>2 DEF Commit, plan
  <2>3. \A w \in Planners : NextVersions(w)' = NextVersions(w)
    BY <2>2 DEF NextVersions
  <2> QED BY <1>0, <2>1, <2>2, <2>3 DEF VInv, FilesOK
<1>3. ASSUME NEW w \in Planners, Update(w) PROVE FilesOK'
  <2>1. /\ log' = log /\ releases' = releases /\ pc[w] = "mutate" /\ pc' = [pc EXCEPT ![w] = "commit"]
        /\ files' = UpdateManifests(files, config, NextVersions(w))
    BY <1>3 DEF Update, plan, Goto
  <2>2. Committed' = Committed /\ LastVersions' = LastVersions
    BY <1>0, <2>1, SameBranch
  <2>3. NextVersions(w)' = NextVersions(w)
    BY <2>1 DEF NextVersions
  <2>4. files = Committed
    BY <1>0, <2>1, FilesFacts
  <2>5. pc'[w] = "commit" /\ \A v \in Planners : pc'[v] = "commit" => v = w
    BY <1>0, <2>1 DEF TypeOK
  <2>6. \A v \in Planners : pc'[v] = "commit" => files' = UpdateManifests(Committed', config', NextVersions(v)')
    BY <1>0, <2>1, <2>2, <2>3, <2>4, <2>5
  <2> QED BY <1>0, <2>2, <2>5, <2>6 DEF FilesOK
<1>4. ASSUME NEW w \in Planners, CommitRelease(w) PROVE FilesOK'
  <2>1. files' = files /\ pc[w] = "commit" /\ pc' = [pc EXCEPT ![w] = "tag"]
    BY <1>4 DEF CommitRelease, Goto
  <2>2. \A v \in Planners : pc'[v] # "commit"
    BY <1>0, <2>1 DEF TypeOK
  <2>3. Committed' = files /\ Committed' \in Contents(config) /\ Agree(Committed', config, LastVersions')
    BY <1>0, <1>4, ReleaseCommitted
  <2> QED BY <1>0, <2>1, <2>2, <2>3 DEF FilesOK
<1>5. ASSUME NEW w \in Planners, GiveUp(w) PROVE FilesOK'
  <2>1. log' = log /\ files' = Committed /\ pc[w] = "commit" /\ pc' = [pc EXCEPT ![w] = "idle"]
    BY <1>5 DEF GiveUp, Stop, Goto
  <2>2. \A v \in Planners : pc'[v] # "commit"
    BY <1>0, <2>1 DEF TypeOK
  <2>3. Committed' = Committed /\ LastVersions' = LastVersions
    BY <1>0, <2>1, SameBranch
  <2> QED BY <1>0, <2>1, <2>2, <2>3 DEF FilesOK
<1> QED BY <1>0, <1>1, <1>2, <1>3, <1>4, <1>5, ManifestStep

\* The files a step rewrites are declared.
LEMMA ManagedStep ==
    IInv /\ EInv /\ VInv /\ [Next]_vars => [Rewritten(files, files') \subseteq ManagedPaths(config)]_files
<1> SUFFICES ASSUME IInv, EInv, VInv, [Next]_vars, files' # files
             PROVE  Rewritten(files, files') \subseteq ManagedPaths(config)
  OBVIOUS
<1>0. TypeOK /\ DOMAIN releases = Planners /\ config \in Configurations /\ Committed \in Contents(config)
  BY FilesFacts DEF IInv, EInv
<1>1. PICK w \in Planners : Update(w) \/ GiveUp(w)
  BY <1>0, ManifestStep DEF Commit, CommitRelease
<1>2. CASE Update(w)
  <2>1. pc[w] = "mutate" /\ files' = UpdateManifests(files, config, NextVersions(w))
    BY <1>2 DEF Update
  <2>2. files = Committed
    BY <1>0, <2>1, FilesFacts
  <2>3. Chosen(config, NextVersions(w))
    BY <2>1 DEF VInv, NamesOK, Names, VersionsOK, Built, Chosen, NextVersions
  <2> QED BY <1>0, <2>1, <2>2, <2>3, UpdateManaged
<1>3. CASE GiveUp(w)
  <2>1. pc[w] = "commit" /\ files' = Committed
    BY <1>3 DEF GiveUp
  <2>2. files = UpdateManifests(Committed, config, NextVersions(w)) /\ Chosen(config, NextVersions(w))
    BY <1>0, <2>1, FilesFacts
  <2> QED BY <1>0, <2>1, <2>2, UpdateManaged
<1> QED BY <1>1, <1>2, <1>3

-----------------------------------------------------------------------------
(* The steps: the versions. *)

\* What a tag names stays what it names.
LEMMA SameTagged ==
    ASSUME BranchOK, TagsFollow, Grown, config' = config, tags' = tags, NEW w \in Planners, releases'[w] = releases[w]
    PROVE  TagsFree(w)' <=> TagsFree(w)
<1>1. \A t \in DOMAIN tags : log'[t[1]] = log[t[1]]
  BY GrownKeeps DEF TagsFollow
<1>2. \A n, m : SameTags(n, m)' <=> SameTags(n, m)
  BY DEF SameTags, Count
<1>3. \A n, v : TagExists(n, v)' <=> TagExists(n, v)
  BY <1>1, <1>2 DEF TagExists
<1> QED BY <1>2, <1>3 DEF TagsFree

\* A plan that has not been touched stays above the branch, while that has not moved on.
LEMMA VersionsKeep ==
    ASSUME IInv, EInv, VInv, [Next]_vars, NEW v \in Planners, Waits(v)
    PROVE  VersionsOK(v)'
<1>0. /\ TypeOK /\ BranchOK /\ Grown /\ config' = config /\ TagsFollow /\ VersionsOK(v)
      /\ pc'[v] = pc[v] /\ source'[v] = source[v] /\ releases'[v] = releases[v]
      /\ source[v] \in Nat /\ source[v] <= Len(log) /\ Len(log) \in Nat /\ Len(log') \in Nat /\ Len(log') >= Len(log)
  BY ConfigStep, GrownStep, GrownKeeps DEF IInv, EInv, HistoryOK, VInv, Waits, Untouched, BranchOK, TypeOK
<1>1. pc[v] \in Built => \A n \in DOMAIN releases'[v] : releases'[v][n].version \in Versions
  BY <1>0 DEF VersionsOK
<1>2. ASSUME pc[v] \in {"mutate", "commit"} PROVE tags' = tags /\ \A n : LastVersion(n)' = LastVersion(n)
  <2>1. ASSUME NEW w \in Planners, CommitRelease(w) \/ Tag(w) PROVE FALSE
    <3>1. (pc[w] = "commit" /\ pc'[w] # pc[w]) \/ pc[w] = "tag"
      BY <2>1, <1>0 DEF CommitRelease, Tag, Goto, TypeOK
    <3>2. lock = v
      BY <1>0, <1>2 DEF TypeOK
    <3>3. pc[w] \in {"mutate", "commit", "tag"}
      BY <3>1
    <3>4. lock = w
      BY <1>0, <3>3 DEF TypeOK
    <3> QED BY <1>0, <1>2, <3>1, <3>2, <3>4
  <2>2. tags' = tags
    BY <2>1, TagStep
  <2>3. CASE log' = log
    BY <1>0, <2>2, <2>3, SameBranch
  <2>4. ASSUME NEW c \in Changes, Commit(c) PROVE \A n : LastVersion(n)' = LastVersion(n)
    BY <1>0, <2>4, CommitKeeps
  <2> QED BY <2>1, <2>2, <2>3, <2>4, LogStep
<1>3. CASE pc[v] \in {"mutate", "commit"}
  <2>1. TagsFree(v)' /\ VersionUpdatesValid(config, NextVersions(v))
    BY <1>0, <1>2, <1>3, SameTagged DEF VersionsOK
  <2>2. NextVersions(v)' = NextVersions(v)
    BY <1>0 DEF NextVersions
  <2>3. \A n \in DOMAIN releases'[v] : Below(LastVersion(n)', releases'[v][n].version)
    BY <1>0, <1>2, <1>3 DEF VersionsOK
  <2> QED BY <1>0, <1>1, <2>1, <2>2, <2>3 DEF VersionsOK, Below
<1>4. CASE pc[v] = "build"
  <2>1. ASSUME Len(log') = source'[v]
        PROVE  \A n \in DOMAIN releases'[v] : Below(LastVersion(n)', releases'[v][n].version)
    <3>1. Len(log') = Len(log) /\ Len(log) = source[v]
      BY <1>0, <2>1
    <3>2. log' = log
      <4>1. ASSUME NEW e, log' = Append(log, e) PROVE FALSE
        BY <1>0, <3>1, <4>1, AppendedCommit
      <4> QED BY <1>0, <4>1 DEF Grown
    <3>3. \A n : LastVersion(n)' = LastVersion(n)
      BY <1>0, <3>2, SameBranch
    <3> QED BY <1>0, <1>4, <3>1, <3>3 DEF VersionsOK
  <2> QED BY <1>0, <1>1, <1>4, <2>1 DEF VersionsOK, Below
<1>5. CASE pc[v] \notin {"build", "mutate", "commit"}
  BY <1>0, <1>1, <1>5 DEF VersionsOK
<1> QED BY <1>3, <1>4, <1>5

\* The release that Build adds to a plan.
LEMMA BuildVersions ==
    ASSUME IInv, EInv, VInv, [Next]_vars, NEW v \in Planners, Build(v)
    PROVE  VersionsOK(v)'
<1> DEFINE p == PkgAt(v)
           x == Bump(CurrentVersion(files, p), types[v][p.name])
<1>0. /\ TypeOK /\ BranchOK /\ ConfigOK /\ config' = config /\ DOMAIN releases = Planners /\ VersionsOK(v) /\ VersionsGrow
      /\ at[v] \in 1..Count /\ p = config.packages[at[v]]
      /\ pc[v] = "build" /\ pc'[v] = "build" /\ log' = log /\ source' = source
  BY ConfigStep, PkgAtOK DEF IInv, EInv, VInv, Build
<1>1. p \in Range(config.packages)
  BY <1>0 DEF ConfigOK, Range
<1>2. \A n : LastVersion(n)' = LastVersion(n)
  BY <1>0, SameBranch
<1>3. CASE types[v][p.name] = NoRelease
  <2>1. releases' = releases
    BY <1>3 DEF Build
  <2> QED BY <1>0, <1>2, <2>1 DEF VersionsOK, Built, Below
<1>4. CASE types[v][p.name] # NoRelease
  <2>1. CheckedBump(CurrentVersion(files, p), types[v][p.name])
    BY <1>4 DEF Build
  <2>2. x \in Versions /\ Below(LastVersion(p.name), x)
    BY <1>0, <1>1, <2>1, LastIsVersion, BuiltAbove
  <2>3. /\ DOMAIN releases'[v] = DOMAIN releases[v] \cup {p.name}
        /\ \A n \in DOMAIN releases[v] : n # p.name => releases'[v][n] = releases[v][n]
        /\ releases'[v][p.name].version = x
    <3> DEFINE release == [version |-> x, commits |-> NotesOf(v, p.name)]
    <3>1. releases' = [releases EXCEPT ![v] =
                                [n \in DOMAIN @ \cup {p.name} |-> IF n = p.name THEN release ELSE @[n]]]
      BY <1>4 DEF Build
    <3>2. release.version = x
      OBVIOUS
    <3> HIDE DEF release, x, p
    <3>3. releases'[v] = [n \in DOMAIN releases[v] \cup {p.name} |-> IF n = p.name THEN release ELSE releases[v][n]]
      BY <1>0, <3>1
    <3> QED BY <3>2, <3>3
  <2> HIDE DEF x, p
  <2>4. \A n \in DOMAIN releases'[v] : releases'[v][n].version \in Versions
    BY <1>0, <2>2, <2>3 DEF VersionsOK, Built
  <2>5. Len(log) = source[v] => \A n \in DOMAIN releases'[v] : Below(LastVersion(n), releases'[v][n].version)
    BY <1>0, <2>2, <2>3 DEF VersionsOK
  <2> QED BY <1>0, <1>2, <2>4, <2>5 DEF VersionsOK, Below
<1> QED BY <1>3, <1>4

LEMMA VersionsStep == IInv /\ EInv /\ VInv /\ [Next]_vars => \A v \in Planners : VersionsOK(v)'
<1> SUFFICES ASSUME IInv, EInv, VInv, [Next]_vars, NEW v \in Planners PROVE VersionsOK(v)'
  OBVIOUS
<1>0. /\ TypeOK /\ BranchOK /\ config' = config /\ DOMAIN releases = Planners /\ VersionsOK(v) /\ BuiltOK(v)
      /\ Grown /\ TagsFollow
  BY ConfigStep, GrownStep DEF IInv, EInv, RunOK, VInv, HistoryOK
<1>1. CASE Waits(v)
  BY <1>1, VersionsKeep
<1>2. CASE Build(v)
  BY <1>2, BuildVersions
<1>3. CASE Stop(v) \/ ReadHead(v) \/ ReadHistory(v) \/ Route(v) \/ Trigger(v) \/ Pass(v)
  <2>1. pc'[v] \notin Built
    BY <1>0, <1>3 DEF Stop, Goto, ReadHead, ReadHistory, Route, Trigger, Pass, TypeOK, Built
  <2> QED BY <2>1 DEF VersionsOK, Built
<1>4. CASE EndPass(v)
  <2>1. releases' = releases /\ DOMAIN releases[v] = {}
    BY <1>0, <1>4 DEF EndPass, BuiltOK
  <2>2. pc'[v] \in {"scan", "build"}
    BY <1>0, <1>4 DEF EndPass, Goto, TypeOK
  <2> QED BY <2>1, <2>2 DEF VersionsOK
<1>5. CASE Begin(v) \/ Update(v)
  <2>1. /\ log' = log /\ tags' = tags /\ releases' = releases
        /\ pc[v] \in {"build", "mutate"} /\ pc'[v] \in {"mutate", "commit"}
    BY <1>0, <1>5 DEF Begin, Update, plan, Goto, TypeOK
  <2>2. TagsFree(v) /\ VersionUpdatesValid(config, NextVersions(v))
    BY <1>0, <1>5 DEF Begin, Releasable, Verified, Update, VersionsOK
  <2>3. /\ \A n \in DOMAIN releases[v] : releases[v][n].version \in Versions
        /\ \A n \in DOMAIN releases[v] : Below(LastVersion(n), releases[v][n].version)
    BY <1>0, <1>5 DEF Begin, Releasable, Verified, Update, VersionsOK, Built
  <2>4. TagsFree(v)'
    BY <1>0, <2>1, <2>2, SameTagged
  <2>5. NextVersions(v)' = NextVersions(v)
    BY <2>1 DEF NextVersions
  <2>6. \A n : LastVersion(n)' = LastVersion(n)
    BY <1>0, <2>1, SameBranch
  <2> QED BY <1>0, <2>1, <2>2, <2>3, <2>4, <2>5, <2>6 DEF VersionsOK, Below
<1>6. CASE CommitRelease(v) \/ Tag(v)
  <2>1. releases' = releases /\ pc[v] \in Built /\ pc'[v] = "tag"
    BY <1>0, <1>6 DEF CommitRelease, Tag, plan, Goto, TypeOK, Built
  <2> QED BY <1>0, <2>1 DEF VersionsOK
<1>7. ASSUME NEW c \in Changes, Commit(c) PROVE VersionsOK(v)'
  <2>1. Waits(v)
    BY <1>7 DEF Commit, plan, Waits, Untouched
  <2> QED BY <2>1, VersionsKeep
<1>8. ASSUME NEW w \in Planners, CreatePlan(w) \/ Execute(w) PROVE VersionsOK(v)'
  <2>1. CASE w # v
    BY <1>0, <1>1, <1>8, <2>1, OthersWait
  <2>2. CASE w = v
    BY <1>2, <1>3, <1>4, <1>5, <1>6, <1>8, <2>2
    DEF CreatePlan, Execute, Refuse, BuildFails, Leave, UpdateFails, GiveUp, Finish
  <2> QED BY <2>1, <2>2
<1>9. CASE UNCHANGED vars
  <2>1. Waits(v)
    BY <1>9 DEF vars, Waits, Untouched
  <2> QED BY <2>1, VersionsKeep
<1> QED BY <1>7, <1>8, <1>9 DEF Next

\* A release is above the last ones, and no tag it will have exists.
LEMMA GrowStep == IInv /\ EInv /\ VInv /\ [Next]_vars => VersionsGrow'
<1> SUFFICES ASSUME IInv, EInv, VInv, [Next]_vars PROVE VersionsGrow'
  OBVIOUS
<1>0. /\ TypeOK /\ BranchOK /\ config' = config /\ Count' = Count /\ VersionsGrow
      /\ DOMAIN log = 1..Len(log) /\ Len(log) \in Nat
  BY ConfigStep DEF IInv, VInv, BranchOK
<1>1. \A n, m : SameTags(n, m)' <=> SameTags(n, m)
  BY <1>0 DEF SameTags
<1>2. CASE log' = log
  BY <1>0, <1>1, <1>2 DEF VersionsGrow, Below
<1>3. ASSUME NEW c \in Changes, Commit(c) PROVE VersionsGrow'
  <2> DEFINE e == [change |-> c, releases |-> NoReleases]
  <2>1. log' = Append(log, e) /\ DOMAIN e.releases = {}
    BY <1>3 DEF Commit, NoReleases
  <2> HIDE DEF e
  <2>2. \A k \in DOMAIN log' : (k \in DOMAIN log /\ log'[k] = log[k]) \/ DOMAIN log'[k].releases = {}
    BY <1>0, <2>1, AppendedCommit DEF BranchOK
  <2> QED BY <1>0, <1>1, <2>2 DEF VersionsGrow, Below
<1>4. ASSUME NEW w \in Planners, CommitRelease(w) PROVE VersionsGrow'
  <2> DEFINE L == Len(log) + 1
  <2>1. /\ DOMAIN log' = DOMAIN log \cup {L} /\ log'[L].releases = releases[w] /\ pc[w] = "commit"
        /\ \A k \in DOMAIN log : log'[k] = log[k] /\ k < L
    BY <1>0, <1>4, CommitAdds, AppendedCommit DEF CommitRelease, BranchOK
  <2>2. /\ TagsFree(w) /\ \A n \in DOMAIN releases[w] : releases[w][n].version \in Versions
        /\ \A n \in DOMAIN releases[w] : Below(LastVersion(n), releases[w][n].version)
    BY <2>1 DEF VInv, VersionsOK, Built
  <2>3. ASSUME NEW j \in DOMAIN log, NEW n \in DOMAIN log[j].releases, n \in DOMAIN releases[w]
        PROVE  Below(log[j].releases[n].version, releases[w][n].version)
    <3>1. /\ LastVersion(n) \in Versions
          /\ LastVersion(n) = log[j].releases[n].version \/ Below(log[j].releases[n].version, LastVersion(n))
      BY <1>0, LastAbove
    <3>2. log[j].releases[n].version \in Versions
      BY <1>0 DEF VersionsGrow
    <3> QED BY <2>2, <2>3, <3>1, <3>2, BelowOn
  <2>4. ASSUME NEW j \in DOMAIN log, NEW n \in DOMAIN log[j].releases, NEW m \in DOMAIN releases[w],
               SameTags(n, m) \/ SameTags(m, n)
        PROVE  log[j].releases[n].version # releases[w][m].version
    <3>1. <<j, n>> \in DOMAIN tags
      BY <2>1, AllTagged
    <3>2. SameTags(m, n)
      BY <2>4 DEF SameTags
    <3>3. ~TagExists(m, releases[w][m].version)
      BY <2>2 DEF TagsFree
    <3> QED BY <3>1, <3>2, <3>3 DEF TagExists
  <2>5. \A n, m \in DOMAIN releases[w] :
           SameTags(n, m) /\ releases[w][n].version = releases[w][m].version => n = m
    BY <2>2 DEF TagsFree
  <2>6. \A n, m : SameTags(n, m) <=> SameTags(m, n)
    BY DEF SameTags
  <2>7. L \in Nat /\ ~(L < L) /\ \A j \in DOMAIN log : ~(L < j) /\ L # j
    BY <1>0
  <2> HIDE DEF L
  <2>8. SUFFICES ASSUME NEW j \in DOMAIN log', NEW k \in DOMAIN log',
                        NEW n \in DOMAIN log'[j].releases, NEW m \in DOMAIN log'[k].releases
                 PROVE  /\ log'[j].releases[n].version \in Versions
                        /\ n = m /\ j < k => Below(log'[j].releases[n].version, log'[k].releases[m].version)
                        /\ SameTags(n, m) /\ log'[j].releases[n].version = log'[k].releases[m].version => j = k /\ n = m
    BY <1>1 DEF VersionsGrow, Below
  <2>9. CASE j \in DOMAIN log /\ k \in DOMAIN log
    BY <1>0, <2>1, <2>9 DEF VersionsGrow
  <2>10. CASE j \in DOMAIN log /\ k = L
    <3>1. log'[j] = log[j] /\ log'[k].releases = releases[w]
      BY <2>1, <2>10
    <3> QED BY <1>0, <2>3, <2>4, <2>10, <3>1 DEF VersionsGrow
  <2>11. CASE j = L /\ k \in DOMAIN log
    <3>1. log'[k] = log[k] /\ log'[j].releases = releases[w]
      BY <2>1, <2>11
    <3> QED BY <1>0, <2>2, <2>4, <2>6, <2>7, <2>11, <3>1
  <2>12. CASE j = L /\ k = L
    BY <2>1, <2>2, <2>5, <2>7, <2>12
  <2> QED BY <2>1, <2>9, <2>10, <2>11, <2>12
<1> QED BY <1>2, <1>3, <1>4, LogStep

LEMMA NamesStep == IInv /\ EInv /\ VInv /\ [Next]_vars => NamesOK'
<1> SUFFICES ASSUME IInv, EInv, VInv, [Next]_vars PROVE NamesOK'
  OBVIOUS
<1>0. TypeOK /\ BranchOK /\ Names' = Names /\ DOMAIN log = 1..Len(log) /\ Len(log) \in Nat
  BY ConfigStep DEF IInv, BranchOK
<1>1. ASSUME NEW w \in Planners PROVE DOMAIN releases'[w] \subseteq Names'
  <2>1. BuiltOK(w)' /\ TypeOK'
    BY StepIInv, BuiltStep DEF IInv
  <2>2. pc'[w] \in Built \/ DOMAIN releases'[w] = {}
    BY <2>1 DEF BuiltOK, Built, TypeOK, PCs
  <2>3. (Planned(w))' \subseteq Names'
    BY DEF Planned
  <2> QED BY <2>1, <2>2, <2>3 DEF BuiltOK, Built
<1>2. ASSUME NEW k \in DOMAIN log' PROVE DOMAIN log'[k].releases \subseteq Names'
  <2>1. CASE log' = log
    BY <1>0, <2>1 DEF VInv, NamesOK
  <2>2. ASSUME NEW c \in Changes, Commit(c) PROVE DOMAIN log'[k].releases \subseteq Names'
    <3> DEFINE e == [change |-> c, releases |-> NoReleases]
    <3>1. log' = Append(log, e) /\ DOMAIN e.releases = {}
      BY <2>2 DEF Commit, NoReleases
    <3> HIDE DEF e
    <3>2. (k \in DOMAIN log /\ log'[k] = log[k]) \/ DOMAIN log'[k].releases = {}
      BY <1>0, <3>1, AppendedCommit DEF BranchOK
    <3> QED BY <1>0, <3>2 DEF VInv, NamesOK
  <2>3. ASSUME NEW w \in Planners, CommitRelease(w) PROVE DOMAIN log'[k].releases \subseteq Names'
    <3> DEFINE L == Len(log) + 1
    <3>1. /\ DOMAIN log' = DOMAIN log \cup {L} /\ log'[L].releases = releases[w]
          /\ \A i \in DOMAIN log : log'[i] = log[i]
      BY <1>0, <2>3, CommitAdds, AppendedCommit DEF CommitRelease, BranchOK
    <3> HIDE DEF L
    <3> QED BY <1>0, <3>1 DEF VInv, NamesOK
  <2> QED BY <2>1, <2>2, <2>3, LogStep
<1> QED BY <1>1, <1>2 DEF NamesOK

LEMMA StepVInv == IInv /\ EInv /\ VInv /\ [Next]_vars => VInv'
<1> SUFFICES ASSUME IInv, EInv, VInv, [Next]_vars PROVE VInv'
  OBVIOUS
<1>1. NamesOK' /\ FilesOK' /\ VersionsGrow' /\ \A w \in Planners : VersionsOK(w)'
  BY NamesStep, FilesStep, GrowStep, VersionsStep
<1>2. config' \in Configurations
  BY ConfigStep DEF IInv, VInv
<1> QED BY <1>1, <1>2 DEF VInv

-----------------------------------------------------------------------------
\* Every variable keeps its type, and exactly the process inside Execute has
\* the repository lock.
THEOREM TypeCorrect == Spec => []TypeOK
<1>1. IInv => TypeOK
  BY DEF IInv
<1> QED BY <1>1, InitIInv, StepIInv, PTL DEF Spec

\* For every graph of packages and every history, however processes and
\* commits interleave, a finished plan is the least set of packages that holds
\* those with commits of their own and is closed under dependents (plan.go's
\* fixpoint), and it stays so until the release is over.
THEOREM PlanIsLeast == Spec => []LeastClosure
<1>1. IInv => LeastClosure
  BY DEF IInv, PlanOK, Grounded, Complete, LeastClosure
<1> QED BY <1>1, InitIInv, StepIInv, PTL DEF Spec

\* However plans, releases and commits interleave, no change is in the notes of two releases of
\* a package, none is in the notes of a package it does not touch, and none that calls for a
\* release is left behind by one, unless a commit came between a release and its tags
\* (the windows of CreatePlanWithEnv, verifySource, Validate, the repository lock).
THEOREM ReleasedOnce == Spec => []ExactlyOnce
<1> QED BY InitIInv, StepIInv, InitEInv, StepEInv, EInvOnce, PTL DEF Spec

\* However plans, releases and commits interleave, every release of a package is
\* above the one before it and no two releases claim one tag, also where the
\* tags do not name their package (buildRelease's checked bump of the manifest's
\* version, verifySource, Validate, the repository lock).
THEOREM VersionsRise == Spec => []VersionsGrow
<1>1. VInv => VersionsGrow
  BY DEF VInv
<1> QED BY <1>1, InitIInv, StepIInv, InitEInv, StepEInv, InitVInv, StepVInv, PTL DEF Spec

\* Whenever no release is under way, after any number of releases and of ones
\* that were given up, every manifest states the last release of its package, and
\* so does every requirement and workspace entry that names it, and the lock entry
\* of its crate if that has the configured name, up to case (UpdateVersionWithFS,
\* UpdateLocalDependencyVersionsWithFS, findReleasedName, ValidateVersionUpdates,
\* the restoring of a release that failed).
THEOREM ManifestsInStep == Spec => []ManifestsAgree
<1>1. TypeOK /\ VInv => ManifestsAgree
  <2> SUFFICES ASSUME TypeOK, VInv, lock = None PROVE Agree(files, config, [n \in Names |-> LastVersion(n)])
    BY DEF ManifestsAgree
  <2>1. \A w \in Planners : pc[w] # "commit"
    BY PlanAssumption DEF TypeOK
  <2>2. files = Committed
    BY <2>1 DEF VInv, FilesOK
  <2> QED BY <2>2 DEF VInv, FilesOK, LastVersions
<1>2. IInv => TypeOK
  BY DEF IInv
<1> QED BY <1>1, <1>2, InitIInv, StepIInv, InitEInv, StepEInv, InitVInv, StepVInv, PTL DEF Spec

\* No release, and none that is given up, rewrites a file it has not declared to
\* its transaction (ManagedPathsWithFS).
THEOREM OnlyManagedWritten == Spec => WritesManaged
<1> QED BY InitIInv, StepIInv, InitEInv, StepEInv, InitVInv, StepVInv, ManagedStep, PTL DEF Spec, WritesManaged
=============================================================================

----------------------- MODULE ReleaseTransaction_proofs -----------------------
(***************************************************************************)
(* Proofs about ReleaseTransaction for any identities, tags, modes and     *)
(* bounds: its type invariant; that a rollback takes no commit off the     *)
(* branch that a push has sent, or that someone else made outside of its   *)
(* two looks at HEAD; that what others see of a plan is one whole release  *)
(* or nothing; that a run which reports its release has published it; and  *)
(* that a checkout is whole or has a journal.  They rest on four inductive *)
(* invariants, each on top of the ones before: IInv, RInv, KInv and, for   *)
(* the file that a hook creates, CInv.                                     *)
(***************************************************************************)
EXTENDS ReleaseTransaction, FiniteSetTheorems, TLAPS

-------------------------------------------------------------------------------
\* The inductive invariant.

\* A commit that exists; one that does not has no history.
Made(c) == c \in log[c].on

\* Histories are closed: what is in one exists and brings its own along, and all
\* begin with the root.
Histories ==
    \A c \in Commits :
        /\ log[c].on = {} \/ (Made(c) /\ Root \in log[c].on)
        /\ \A d \in log[c].on : Made(d) /\ log[d].on \subseteq log[c].on

\* The run has a transaction, the journal's.
InTransaction == pc \in Body \cup Restoring \cup {"recover"} \/ resuming

\* After the release commit was found, and while the run still has to make it.
Tagging  == {"tag", "pushing", "push", "pushed", "remoteTags", "publishing", "publish", "write",
             "published", "afterRelease", "finish"}
Changing == {"mutating", "beforeHooks", "update", "afterHooks", "committing", "add", "commit", "readHead"}

\* The variables that have a value while a run is there.
Settings ==
    /\ pc # "idle" => mode \in Modes /\ plan \in [source : Commits, release : BOOLEAN]
    /\ pc \in Restoring \ {"rollback"} => target \in Commits
    /\ InTransaction =>
          /\ txn \in Transactions /\ journal \in Transactions
          /\ txn.source = journal.source /\ txn.phase = journal.phase

\* The commits a run, the journal and origin speak of exist.
Known ==
    /\ Made(head) /\ Made(remote.branch)
    /\ \A p \in inflight : Made(p.commit)
    /\ \A c \in undone \cup attempted : Made(c)
    /\ journal # None => Made(journal.source)
    /\ pc # "idle" => Made(plan.source)

\* A recorded release commit is a child of the source that it was recorded for.
FoundFor(x) == x.releaseHead = None \/ (x.releaseHead \in Commits /\ IsReleaseOf(x.releaseHead, x.source))
Found ==
    /\ journal # None => FoundFor(journal)
    /\ InTransaction => FoundFor(txn)

\* Where the phase is external, and what the run has made sure of HEAD.
Course ==
    /\ pc \in Restoring \cup Changing => txn.phase \notin External /\ ~resuming
    /\ pc \in {"push", "pushed"} => txn.phase \in External
    /\ pc = "clear" /\ txn.phase \in External => resumable
    /\ resuming => /\ txn.phase \in External /\ txn.source = plan.source
                   /\ pc \in {"derive", "verify"} \cup Body
    /\ resuming /\ pc \in {"derive", "verify"} =>
           head # plan.source /\ (head = txn.releaseHead \/ head \in Changes)
    /\ pc \in {"verify", "snapshot"} /\ resumable => IsReleaseOf(head, plan.source)
    /\ pc = "snapshot" => ~resuming /\ (resumable \/ head = plan.source)
    /\ pc = "readHead" => head # txn.source
    /\ pc = "clear" /\ resumable => txn.releaseHead = head
    /\ pc \in Tagging => txn.releaseHead = head

\* Origin has a commit, or may still get it.
OutThere == attempted \cup log[remote.branch].on

\* While the journal is not external, HEAD has nothing beyond its source that
\* is out there.
Unsent ==
    journal # None /\ journal.phase \notin External =>
        \A c \in log[head].on \ log[journal.source].on : c \notin OutThere

\* What c has on top of b is out there nowhere, and is the program's own or was
\* made between a rollback's two looks at HEAD.
OnTopOf(c, b) ==
    /\ log[b].on \subseteq log[c].on
    /\ \A d \in log[c].on \ log[b].on : d \notin OutThere /\ d \in Releases \cup overtaken

\* A rollback goes on from what it found on top of the source.
Targeted ==
    pc \in Restoring \ {"rollback"} =>
        /\ Made(target) /\ OnTopOf(target, txn.source)
        /\ pc = "readTarget" => OnTopOf(head, target)

\* What was taken off the branch is nowhere any more.
Gone ==
    /\ undone \subseteq Releases \cup overtaken
    /\ \A c \in undone : c \notin OutThere /\ c \notin log[head].on
    /\ \A p \in inflight : log[p.commit].on \subseteq attempted

IInv == /\ TypeOK /\ Settings
        /\ Histories /\ Known /\ Found /\ Course
        /\ Unsent /\ Targeted /\ Gone

-------------------------------------------------------------------------------
\* Types.

USE DEF Goto

LEMMA Labels ==
    /\ Body \subseteq PCs /\ Restoring \subseteq PCs /\ Early \subseteq PCs /\ "idle" \in PCs
    /\ "idle" \notin Body \cup Restoring \cup Early
BY DEF Body, Restoring, Early, PCs

\* The types without the variables of the run, and those alone.
OuterTypes ==
    /\ log \in [Commits -> [on : SUBSET Commits, created : BOOLEAN]]
    /\ head \in Commits
    /\ tags \in Refs
    /\ index \in Commits \cup {"added"}
    /\ files \in Trees
    /\ remote \in [branch : Commits, tags : Refs]
    /\ inflight \subseteq [commit : Commits, tags : Refs, late : BOOLEAN]
    /\ github \in Refs
    /\ undone \subseteq Commits
    /\ overtaken \subseteq Changes /\ overlooked \subseteq Changes
    /\ stranded \in BOOLEAN
    /\ attempted \subseteq Commits

RunTypes ==
    /\ journal \in Transactions \cup {None}
    /\ pc \in PCs
    /\ mode \in Modes \cup {None}
    /\ plan \in [source : Commits, release : BOOLEAN] \cup {None}
    /\ resuming \in BOOLEAN /\ resumable \in BOOLEAN /\ aborting \in BOOLEAN /\ accepted \in BOOLEAN
    /\ txn \in Transactions \cup {None}
    /\ target \in Commits \cup {None}
    /\ pending \subseteq Tags \cup {"manifest", "output"}

Bounds ==
    /\ faults \in 0..MaxFaults
    /\ others \in 0..MaxOthers
    /\ done \in [push : SUBSET Commits, github : SUBSET Commits]

LEMMA TypeParts == TypeOK <=> OuterTypes /\ RunTypes /\ Bounds
BY DEF TypeOK, OuterTypes, RunTypes, Bounds

LEMMA CommitsIn ==
    /\ Root \in Commits /\ Elsewhere \in Commits
    /\ Releases \subseteq Commits /\ Changes \subseteq Commits
BY DEF Commits

\* The parts of a transaction, and what may be set of it.
LEMMA TransactionParts ==
    \A x \in Transactions :
        /\ x.phase \in Phases /\ x.source \in Commits /\ x.release \in BOOLEAN
        /\ x.releaseHead \in Commits \cup {None} /\ x.tags \in Refs /\ x.files \in Trees
        /\ x.index \in Commits \cup {"added"}
BY DEF Transactions

LEMMA PhaseSet ==
    ASSUME NEW x \in Transactions, NEW p \in Phases
    PROVE  LET y == [x EXCEPT !.phase = p]
           IN  /\ y \in Transactions /\ y.phase = p /\ y.source = x.source /\ y.releaseHead = x.releaseHead
               /\ y.release = x.release /\ y.tags = x.tags /\ y.files = x.files /\ y.index = x.index
BY DEF Transactions

LEMMA ReleaseHeadSet ==
    ASSUME NEW x \in Transactions, NEW c \in Commits \cup {None}
    PROVE  LET y == [x EXCEPT !.releaseHead = c]
           IN  /\ y \in Transactions /\ y.phase = x.phase /\ y.source = x.source /\ y.releaseHead = c
               /\ y.release = x.release /\ y.tags = x.tags /\ y.files = x.files /\ y.index = x.index
BY DEF Transactions

LEMMA TaggingSet ==
    ASSUME NEW x \in Transactions, NEW c \in Commits
    PROVE  LET y == [x EXCEPT !.releaseHead = c, !.phase = "tagging"]
           IN  y \in Transactions /\ y.phase = "tagging" /\ y.source = x.source /\ y.releaseHead = c
BY DEF Transactions, Phases

\* Setting a file.
LEMMA SetFileTypes ==
    ASSUME files \in Trees
    PROVE  /\ \A m \in {"old", "new"} : SetFile("manifest", m) => files' \in Trees
           /\ \A b \in BOOLEAN : SetFile("created", b) => files' \in Trees
           /\ \A o \in {"none", "empty", "notes", "new"} : SetFile("output", o) => files' \in Trees
BY DEF SetFile, Trees

\* A new commit.
LEMMA MakeTypes ==
    ASSUME log \in [Commits -> [on : SUBSET Commits, created : BOOLEAN]],
           NEW c \in Commits, NEW b \in Commits, NEW x \in BOOLEAN, Make(c, b, x)
    PROVE  log' \in [Commits -> [on : SUBSET Commits, created : BOOLEAN]]
BY DEF Make

\* The end of a run.
LEMMA ReturnTypes == ASSUME RunTypes, Return, journal' = journal \/ journal' = None PROVE RunTypes'
BY Labels DEF Return, RunTypes

LEMMA GiveUpTypes == ASSUME RunTypes, GiveUp, UNCHANGED journal PROVE RunTypes'
<1>1. CASE Return
  BY <1>1, ReturnTypes
<1>2. CASE ~Return
  BY <1>2, Labels DEF GiveUp, RunTypes, Restoring
<1> QED BY <1>1, <1>2

\* What steps leave alone.
USE DEF checkout, options, locals, origin, history

LEMMA EarlyTypes ==
    ASSUME IInv, OuterTypes, RunTypes, Bounds,
           Start \/ Load \/ Resume \/ RecoverLocally \/ Derive \/ Verify \/ Snapshot, UNCHANGED others
    PROVE  OuterTypes' /\ RunTypes' /\ Bounds'
<1>1. CASE Start
  BY <1>1, Labels DEF Start, Unaffected, PlanAt, OuterTypes, RunTypes, Bounds, Early
<1>2. CASE Load
  BY <1>2, Labels DEF Load, Unaffected, OuterTypes, RunTypes, Bounds, Early
<1>3. CASE Resume
  <2>1. UNCHANGED <<log, checkout, journal, origin, faults, history, others>>
    BY <1>3 DEF Resume, Unaffected
  <2>2. RunTypes'
    <3>1. CASE Return
      BY <3>1, <2>1, ReturnTypes
    <3>2. CASE ~Return
      <4>1. /\ pc' = "derive" /\ txn' = [txn EXCEPT !.releaseHead = head]
            /\ plan' = [source |-> txn.source, release |-> txn.release]
            /\ resuming' = TRUE
            /\ UNCHANGED <<mode, resumable, aborting, target, accepted, pending, journal>>
        BY <1>3, <3>2 DEF Resume, Unaffected
      <4>2. txn \in Transactions /\ head \in Commits
        BY <1>3 DEF Resume, IInv, Settings, InTransaction, OuterTypes
      <4> QED BY <4>1, <4>2, Labels, ReleaseHeadSet, TransactionParts DEF RunTypes, Early
    <3> QED BY <3>1, <3>2
  <2> QED BY <2>1, <2>2 DEF OuterTypes, Bounds
<1>4. CASE RecoverLocally
  BY <1>4, Labels DEF RecoverLocally, Unaffected, OuterTypes, RunTypes, Bounds, Restoring
<1>5. CASE Derive
  <2>1. UNCHANGED <<log, checkout, journal, origin, faults, history, others>>
    BY <1>5 DEF Derive, Unaffected
  <2>2. RunTypes'
    <3>1. CASE Return
      BY <3>1, <2>1, ReturnTypes
    <3>2. CASE ~Return
      <4>1. /\ pc' = "verify" /\ UNCHANGED <<mode, resuming, aborting, txn, target, accepted, pending, journal>>
            /\ resumable' \in BOOLEAN
            /\ plan' = plan \/ \E x \in Commits : plan' = [source |-> x, release |-> TRUE]
        BY <1>5, <3>2 DEF Derive, Unaffected
      <4>2. plan' \in [source : Commits, release : BOOLEAN] \cup {None}
        <5>1. CASE plan' = plan
          BY <5>1 DEF RunTypes
        <5>2. ASSUME NEW x \in Commits, plan' = [source |-> x, release |-> TRUE]
              PROVE  plan' \in [source : Commits, release : BOOLEAN]
          BY <5>2
        <5> QED BY <4>1, <5>1, <5>2
      <4>3. "verify" \in PCs
        BY Labels DEF Early
      <4> QED BY <4>1, <4>2, <4>3 DEF RunTypes
    <3> QED BY <3>1, <3>2
  <2> QED BY <2>1, <2>2 DEF OuterTypes, Bounds
<1>6. CASE Verify
  <2>1. UNCHANGED <<log, checkout, journal, origin, faults, history, others>>
    BY <1>6 DEF Verify, Unaffected
  <2>2. RunTypes'
    <3>1. CASE Return
      BY <3>1, <2>1, ReturnTypes
    <3>2. CASE ~Return
      BY <1>6, <3>2, Labels DEF Verify, Unaffected, RunTypes, Early, Body
    <3> QED BY <3>1, <3>2
  <2> QED BY <2>1, <2>2 DEF OuterTypes, Bounds
<1>7. CASE Snapshot
  <2>1. Recorded \in Transactions
    BY <1>7 DEF Snapshot, Recorded, Transactions, Phases, IInv, Settings, OuterTypes
  <2> QED BY <1>7, <2>1, Labels DEF Snapshot, OuterTypes, RunTypes, Bounds, Body
<1> QED BY <1>1, <1>2, <1>3, <1>4, <1>5, <1>6, <1>7

LEMMA BodyTypes ==
    ASSUME IInv, OuterTypes, RunTypes, Bounds,
           \/ Clear \/ WriteEmpty \/ FinishEmpty \/ Mutating \/ RunHooks \/ Update \/ Committing \/ Add
           \/ Commit \/ ReadHead \/ \E t \in Tags : Tag(t),
           UNCHANGED others
    PROVE  OuterTypes' /\ RunTypes' /\ Bounds'
<1>0. pc \in Body => txn \in Transactions
  BY DEF IInv, Settings, InTransaction
<1>1. CASE Clear
  BY <1>1, Labels, SetFileTypes DEF Clear, FileStep, OuterTypes, RunTypes, Bounds, Body
<1>2. CASE WriteEmpty
  BY <1>2, Labels, SetFileTypes DEF WriteEmpty, FileStep, OuterTypes, RunTypes, Bounds, Body
<1>3. CASE FinishEmpty
  BY <1>3, ReturnTypes DEF FinishEmpty, OuterTypes, Bounds
<1>4. CASE Mutating
  BY <1>4, <1>0, Labels, PhaseSet DEF Mutating, Save, JournalStep, OuterTypes, RunTypes, Bounds, Body, Phases
<1>5. CASE RunHooks
  <2>1. OuterTypes'
    <3>1. CASE UNCHANGED <<log, head, index, files>>
      BY <1>5, <3>1 DEF RunHooks, OuterTypes
    <3>2. CASE SetFile("created", TRUE) /\ UNCHANGED <<log, head, index>>
      BY <1>5, <3>2, SetFileTypes DEF RunHooks, OuterTypes
    <3>3. CASE /\ UNCHANGED files
               /\ \E c \in Changes : Make(c, head, log[head].created) /\ head' = c /\ index' = c
      <4>1. PICK c \in Changes : Make(c, head, log[head].created) /\ head' = c /\ index' = c
        BY <3>3
      <4>2. log[head].created \in BOOLEAN /\ c \in Commits
        BY CommitsIn DEF OuterTypes
      <4>3. log' \in [Commits -> [on : SUBSET Commits, created : BOOLEAN]]
        BY <4>1, <4>2, MakeTypes DEF OuterTypes
      <4> QED BY <1>5, <3>3, <4>1, <4>2, <4>3 DEF RunHooks, OuterTypes
    <3> QED BY <1>5, <3>1, <3>2, <3>3 DEF RunHooks
  <2> QED BY <1>5, <2>1, Labels DEF RunHooks, RunTypes, Bounds, Body
<1>6. CASE Update
  <2>1. OuterTypes' /\ Bounds'
    BY <1>6, SetFileTypes DEF Update, OuterTypes, Bounds
  <2>2. CASE GiveUp
    BY <1>6, <2>1, <2>2, GiveUpTypes DEF Update
  <2>3. CASE ~GiveUp
    BY <1>6, <2>1, <2>3, Labels DEF Update, RunTypes, Body
  <2> QED BY <2>2, <2>3
<1>7. CASE Committing
  <2>1. OuterTypes' /\ Bounds'
    BY <1>7 DEF Committing, OuterTypes, Bounds
  <2>2. CASE GiveUp /\ UNCHANGED journal
    BY <2>1, <2>2, GiveUpTypes
  <2>3. CASE ~(GiveUp /\ UNCHANGED journal)
    <3>1. /\ pc = "committing" /\ pc' = "add" /\ txn' = [txn EXCEPT !.phase = "committing"] /\ journal' = txn'
          /\ UNCHANGED <<options, plan, target, accepted, pending>>
      BY <1>7, <2>3 DEF Committing, Save
    <3>2. txn' \in Transactions
      BY <1>0, <3>1, PhaseSet DEF Body, Phases
    <3> QED BY <2>1, <3>1, <3>2, Labels DEF RunTypes, Body
  <2> QED BY <2>2, <2>3
<1>8. CASE Add
  BY <1>8, Labels DEF Add, OuterTypes, RunTypes, Bounds, Body
<1>9. CASE Commit
  <2>1. CASE \E c \in Releases : Make(c, head, files.created) /\ head' = c /\ index' = c
    <3>1. PICK c \in Releases : Make(c, head, files.created) /\ head' = c /\ index' = c
      BY <2>1
    <3>2. files.created \in BOOLEAN /\ c \in Commits
      BY CommitsIn DEF OuterTypes, Trees
    <3>3. log' \in [Commits -> [on : SUBSET Commits, created : BOOLEAN]]
      BY <3>1, <3>2, MakeTypes DEF OuterTypes
    <3>4. OuterTypes'
      BY <1>9, <3>1, <3>2, <3>3 DEF Commit, OuterTypes
    <3>5. pc' \in PCs /\ UNCHANGED <<locals, journal, faults, others, done>>
      BY <1>9, <3>1, Labels DEF Commit, Make, Body
    <3> QED BY <3>4, <3>5 DEF RunTypes, Bounds
  <2>2. CASE GiveUp /\ UNCHANGED <<log, head, index>>
    BY <1>9, <2>2, GiveUpTypes DEF Commit, OuterTypes, Bounds
  <2> QED BY <1>9, <2>1, <2>2 DEF Commit
<1>10. CASE ReadHead
  <2>1. OuterTypes' /\ Bounds'
    BY <1>10 DEF ReadHead, OuterTypes, Bounds
  <2>2. CASE GiveUp /\ UNCHANGED journal
    BY <2>1, <2>2, GiveUpTypes
  <2>3. CASE ~(GiveUp /\ UNCHANGED journal)
    <3>1. /\ txn' = [txn EXCEPT !.releaseHead = FoundHead, !.phase = "tagging"] /\ journal' = txn'
          /\ pc' = "tag" /\ pending' = Tags /\ UNCHANGED <<options, plan, target, accepted>>
      BY <1>10, <2>3 DEF ReadHead
    <3>2. txn \in Transactions /\ FoundHead \in Commits \cup {None}
      BY <1>10, <1>0, TransactionParts DEF ReadHead, Body, FoundHead, OuterTypes
    <3>3. txn' \in Transactions
      BY <3>1, <3>2, ReleaseHeadSet, PhaseSet DEF Phases, Transactions
    <3> QED BY <2>1, <3>1, <3>3, Labels DEF RunTypes, Body
  <2> QED BY <2>2, <2>3
<1>11. ASSUME NEW t \in Tags, Tag(t) PROVE OuterTypes' /\ RunTypes' /\ Bounds'
  <2>1. OuterTypes' /\ Bounds' /\ UNCHANGED journal
    BY <1>11 DEF Tag, OuterTypes, Bounds, Refs
  <2>2. CASE GiveUp
    BY <2>1, <2>2, GiveUpTypes
  <2>3. CASE ~GiveUp
    BY <1>11, <2>1, <2>3, Labels DEF Tag, RunTypes, Body
  <2> QED BY <2>1, <2>2, <2>3
<1> QED BY <1>1, <1>2, <1>3, <1>4, <1>5, <1>6, <1>7, <1>8, <1>9, <1>10, <1>11

LEMMA PublicationTypes ==
    ASSUME IInv, OuterTypes, RunTypes, Bounds,
           \/ Pushing \/ Push \/ PushReturns \/ RemoteTags \/ Publishing \/ (\E t \in Tags : Publish(t))
           \/ WriteNotes \/ Write \/ Published \/ AfterRelease \/ Finish,
           UNCHANGED others
    PROVE  OuterTypes' /\ RunTypes' /\ Bounds'
<1>0. pc \in Body => txn \in Transactions /\ plan.source \in Commits
  BY Labels DEF IInv, Settings, InTransaction
<1>1. CASE Pushing
  <2>1. OuterTypes' /\ Bounds' /\ pc' \in PCs /\ UNCHANGED <<options, plan, target, accepted, pending>>
    BY <1>1, Labels DEF Pushing, JournalStep, OuterTypes, Bounds, Body
  <2>2. txn' \in Transactions /\ (journal' = txn' \/ journal' = journal)
    BY <1>1, <1>0, PhaseSet DEF Pushing, Save, Body, Phases
  <2> QED BY <2>1, <2>2 DEF RunTypes
<1>2. CASE Push
  <2>1. inflight' \subseteq [commit : Commits, tags : Refs, late : BOOLEAN]
    <3>1. \A p \in inflight : [p EXCEPT !.late = TRUE] \in [commit : Commits, tags : Refs, late : BOOLEAN]
      BY DEF OuterTypes
    <3>2. [commit |-> head, tags |-> tags, late |-> FALSE] \in [commit : Commits, tags : Refs, late : BOOLEAN]
      BY DEF OuterTypes
    <3>3. inflight' = {[p EXCEPT !.late = TRUE] : p \in inflight}
                         \cup {[commit |-> head, tags |-> tags, late |-> FALSE]}
      BY <1>2 DEF Push
    <3> QED BY <3>1, <3>2, <3>3
  <2>2. attempted' \subseteq Commits
    BY <1>2 DEF Push, OuterTypes
  <2> QED BY <1>2, <2>1, <2>2, Labels DEF Push, OuterTypes, RunTypes, Bounds, Body
<1>3. CASE PushReturns
  <2>1. OuterTypes' /\ Bounds' /\ UNCHANGED journal
    BY <1>3 DEF PushReturns, Unaffected, OuterTypes, Bounds
  <2>2. CASE GiveUp
    BY <2>1, <2>2, GiveUpTypes
  <2>3. CASE ~GiveUp
    BY <1>3, <2>1, <2>3, Labels DEF PushReturns, RunTypes, Body
  <2> QED BY <2>1, <2>2, <2>3
<1>4. CASE RemoteTags
  <2>1. OuterTypes' /\ Bounds' /\ UNCHANGED journal
    BY <1>4 DEF RemoteTags, Unaffected, OuterTypes, Bounds
  <2>2. CASE GiveUp
    BY <2>1, <2>2, GiveUpTypes
  <2>3. CASE ~GiveUp
    BY <1>4, <2>1, <2>3, Labels DEF RemoteTags, RunTypes, Body
  <2> QED BY <2>1, <2>2, <2>3
<1>5. CASE Publishing
  BY <1>5, <1>0, Labels, PhaseSet DEF Publishing, Save, JournalStep, OuterTypes, RunTypes, Bounds, Body, Phases
<1>6. ASSUME NEW t \in Tags, Publish(t) PROVE OuterTypes' /\ RunTypes' /\ Bounds'
  <2>1. OuterTypes' /\ Bounds' /\ UNCHANGED journal
    BY <1>6, <1>0 DEF Publish, OuterTypes, Bounds, Refs, Body
  <2>2. CASE GiveUp
    BY <2>1, <2>2, GiveUpTypes
  <2>3. CASE ~GiveUp
    BY <1>6, <2>1, <2>3, Labels DEF Publish, RunTypes, Body
  <2> QED BY <2>1, <2>2, <2>3
<1>7. CASE WriteNotes
  BY <1>7, SetFileTypes DEF WriteNotes, FileStep, OuterTypes, RunTypes, Bounds
<1>8. CASE Write
  BY <1>8, Labels, SetFileTypes DEF Write, FileStep, OuterTypes, RunTypes, Bounds, Body
<1>9. CASE Published
  BY <1>9, <1>0, Labels, PhaseSet DEF Published, Save, JournalStep, OuterTypes, RunTypes, Bounds, Body, Phases
<1>10. CASE AfterRelease
  BY <1>10, Labels DEF AfterRelease, Unaffected, OuterTypes, RunTypes, Bounds, Body
<1>11. CASE Finish
  <2>1. txn.releaseHead \in Commits
    BY <1>11 DEF Finish, IInv, Course, Tagging, OuterTypes
  <2>2. done' \in [push : SUBSET Commits, github : SUBSET Commits]
    BY <1>11, <2>1 DEF Finish, Bounds
  <2> QED BY <1>11, <2>2, ReturnTypes DEF Finish, OuterTypes, Bounds
<1> QED BY <1>1, <1>2, <1>3, <1>4, <1>5, <1>6, <1>7, <1>8, <1>9, <1>10, <1>11

LEMMA RollbackTypes ==
    ASSUME IInv, OuterTypes, RunTypes, Bounds,
           \/ Rollback \/ ReadTarget \/ (\E t \in Tags : Untag(t)) \/ RemoveCreated
           \/ (\E file \in {"manifest", "output"} : Restore(file)) \/ ResetRef \/ RestoreIndex \/ Forget,
           UNCHANGED others
    PROVE  OuterTypes' /\ RunTypes' /\ Bounds'
<1>0. pc \in Restoring => txn \in Transactions
  BY DEF IInv, Settings, InTransaction
<1>1. CASE Rollback
  <2>1. OuterTypes' /\ Bounds' /\ UNCHANGED journal
    BY <1>1 DEF Rollback, Unaffected, OuterTypes, Bounds
  <2>2. CASE Return
    BY <2>1, <2>2, ReturnTypes
  <2>3. CASE ~Return
    <3>1. /\ pc = "rollback" /\ pc' = "readTarget" /\ txn' = [txn EXCEPT !.releaseHead = FoundHead]
          /\ target' = head /\ UNCHANGED <<options, plan, accepted, pending>>
      BY <1>1, <2>3 DEF Rollback
    <3>2. FoundHead \in Commits \cup {None}
      BY <1>0, <3>1, TransactionParts DEF Restoring, FoundHead, OuterTypes
    <3>3. txn' \in Transactions
      BY <1>0, <3>1, <3>2, ReleaseHeadSet DEF Restoring
    <3> QED BY <2>1, <3>1, <3>3, Labels DEF RunTypes, Restoring, OuterTypes
  <2> QED BY <2>2, <2>3
<1>2. ASSUME NEW t \in Tags, Untag(t) PROVE OuterTypes' /\ RunTypes' /\ Bounds'
  <2>1. Bounds' /\ UNCHANGED journal
    BY <1>2 DEF Untag, Bounds
  <2>2. txn.tags \in Refs
    BY <1>0, <1>2, TransactionParts DEF Untag, Restoring
  <2>3. OuterTypes'
    BY <1>2, <2>2 DEF Untag, OuterTypes, Refs
  <2>4. CASE Return
    BY <2>1, <2>3, <2>4, ReturnTypes
  <2>5. CASE ~Return
    BY <1>2, <2>1, <2>3, <2>5, Labels DEF Untag, RunTypes, Restoring
  <2> QED BY <2>4, <2>5
<1>3. CASE RemoveCreated
  <2>1. files' \in Trees
    BY <1>3, SetFileTypes DEF RemoveCreated, OuterTypes
  <2> QED BY <1>3, <2>1, Labels DEF RemoveCreated, OuterTypes, RunTypes, Bounds, Restoring
<1>8. CASE ReadTarget
  BY <1>8, Labels DEF ReadTarget, Unaffected, OuterTypes, RunTypes, Bounds, Restoring
<1>4. ASSUME NEW file \in {"manifest", "output"}, Restore(file) PROVE OuterTypes' /\ RunTypes' /\ Bounds'
  <2>1. txn.files \in Trees
    BY <1>0, <1>4, TransactionParts DEF Restore, Restoring
  <2>2. files' \in Trees
    BY <1>4, <2>1 DEF Restore, SetFile, OuterTypes, Trees
  <2> QED BY <1>4, <2>2, Labels DEF Restore, FileStep, OuterTypes, RunTypes, Bounds, Restoring
<1>5. CASE ResetRef
  <2>1. txn.source \in Commits
    BY <1>0, <1>5, TransactionParts DEF ResetRef, Restoring
  <2>2. OffBranch \subseteq Commits
    BY DEF OffBranch, OuterTypes
  <2>3. OuterTypes' /\ Bounds' /\ UNCHANGED journal
    BY <1>5, <2>1, <2>2 DEF ResetRef, OuterTypes, Bounds
  <2>4. CASE Return
    BY <2>3, <2>4, ReturnTypes
  <2>5. CASE ~Return
    BY <1>5, <2>3, <2>5, Labels DEF ResetRef, RunTypes, Restoring
  <2> QED BY <2>4, <2>5
<1>6. CASE RestoreIndex
  <2>1. txn.index \in Commits \cup {"added"}
    BY <1>0, <1>6, TransactionParts DEF RestoreIndex, Restoring
  <2> QED BY <1>6, <2>1, Labels DEF RestoreIndex, OuterTypes, RunTypes, Bounds, Restoring
<1>7. CASE Forget
  <2>1. OuterTypes' /\ Bounds' /\ journal' = None
    BY <1>7 DEF Forget, OuterTypes, Bounds
  <2>2. CASE Return
    BY <2>1, <2>2, ReturnTypes
  <2>3. CASE ~Return
    <3>1. pc' = "derive" /\ plan' = PlanAt(head) /\ UNCHANGED <<options, txn, target, accepted, pending>>
      BY <1>7, <2>3 DEF Forget
    <3>2. plan' \in [source : Commits, release : BOOLEAN]
      BY <3>1 DEF PlanAt, OuterTypes
    <3> QED BY <2>1, <3>1, <3>2, Labels DEF RunTypes, Early
  <2> QED BY <2>2, <2>3
<1> QED BY <1>1, <1>2, <1>3, <1>4, <1>5, <1>6, <1>7, <1>8

LEMMA FaultTypes ==
    ASSUME IInv, OuterTypes, RunTypes, Bounds, Faulty \/ Arrive, UNCHANGED others
    PROVE  OuterTypes' /\ RunTypes' /\ Bounds'
<1>0. Fault => faults' \in 0..MaxFaults
  BY BoundsAssumption DEF Fault, Bounds
<1>1. CASE CommandFails
  BY <1>0, <1>1, GiveUpTypes DEF CommandFails, OuterTypes, Bounds
<1>2. CASE SaveFails
  <2>1. OuterTypes' /\ Bounds' /\ Return
    BY <1>0, <1>2 DEF SaveFails, OuterTypes, Bounds
  <2>2. journal' \in Transactions \cup {None}
    <3>1. CASE pc = "snapshot"
      <4>1. Recorded \in Transactions
        BY <3>1 DEF Recorded, Transactions, Phases, IInv, Settings, OuterTypes
      <4> QED BY <1>2, <3>1, <4>1 DEF SaveFails
    <3>2. CASE pc # "snapshot"
      BY <1>2, <3>2 DEF SaveFails, RunTypes
    <3> QED BY <3>1, <3>2
  <2> QED BY <2>1, <2>2, Labels DEF Return, RunTypes
<1>3. CASE Crash
  BY <1>0, <1>3, ReturnTypes DEF Crash, OuterTypes, Bounds
<1>4. ASSUME NEW p \in inflight, Lose(p) PROVE OuterTypes' /\ RunTypes' /\ Bounds'
  BY <1>0, <1>4 DEF Lose, OuterTypes, RunTypes, Bounds
<1>5. ASSUME NEW p \in inflight, Receive(p) PROVE OuterTypes' /\ RunTypes' /\ Bounds'
  <2>1. remote' \in [branch : Commits, tags : Refs]
    BY <1>5 DEF Receive, OuterTypes
  <2>2. accepted' \in BOOLEAN
    BY <1>5, Zenon DEF Receive, RunTypes, Acceptable
  <2>3. UNCHANGED <<log, checkout, journal, pc, options, plan, txn, target, pending, github, faults, history, others>>
        /\ inflight' \subseteq inflight
    BY <1>5 DEF Receive
  <2> QED BY <2>1, <2>2, <2>3 DEF OuterTypes, RunTypes, Bounds
<1> QED BY <1>1, <1>2, <1>3, <1>4, <1>5 DEF Faulty, Arrive

LEMMA OtherTypes ==
    ASSUME IInv, OuterTypes, RunTypes, Bounds, Intervene
    PROVE  OuterTypes' /\ RunTypes' /\ Bounds'
<1>0. others' \in 0..MaxOthers
  BY BoundsAssumption DEF Intervene, Bounds
<1>1. \A c \in Commits : log[c].created \in BOOLEAN /\ log[c].on \subseteq Commits
  BY DEF OuterTypes
<1>2. ASSUME NEW c \in Commits, CheckOut(c) PROVE head' \in Commits /\ index' \in Commits /\ files' \in Trees
  <2>1. log[c].created \in BOOLEAN
    BY <1>1, <1>2
  <2> QED BY <1>2, <2>1 DEF CheckOut, OuterTypes, Trees
<1>3. CASE CommitChange
  <2>1. PICK c \in Changes : Make(c, head, log[head].created) /\ head' = c /\ index' = c
    BY <1>3 DEF CommitChange
  <2>2. c \in Commits /\ log[head].created \in BOOLEAN /\ head \in Commits
    BY <1>1, CommitsIn DEF OuterTypes
  <2>3. log' \in [Commits -> [on : SUBSET Commits, created : BOOLEAN]]
    BY <2>1, <2>2, MakeTypes DEF OuterTypes
  <2> QED BY <1>0, <1>3, <2>1, <2>2, <2>3 DEF CommitChange, OtherThanCheckout, OuterTypes, RunTypes, Bounds
<1>4. CASE Reset
  <2>1. PICK c \in log[head].on : CheckOut(c)
    BY <1>4 DEF Reset
  <2>2. head' \in Commits /\ index' \in Commits /\ files' \in Trees
    BY <1>1, <1>2, <2>1 DEF OuterTypes
  <2> QED BY <1>0, <1>4, <2>2 DEF Reset, OtherThanCheckout, OuterTypes, RunTypes, Bounds
<1>5. CASE Pull
  <2>1. head' \in Commits /\ index' \in Commits /\ files' \in Trees
    BY <1>2, <1>5 DEF Pull, OuterTypes
  <2>2. tags' \in Refs
    BY <1>5 DEF Pull, OuterTypes, Refs
  <2> QED BY <1>0, <1>5, <2>1, <2>2 DEF Pull, OtherThanCheckout, OuterTypes, RunTypes, Bounds
<1>6. CASE Clone
  <2>1. head' \in Commits /\ index' \in Commits /\ tags' \in Refs
    BY <1>6 DEF Clone, OuterTypes
  <2>2. log[head'].created \in BOOLEAN
    BY <1>1, <2>1
  <2>3. files' \in Trees
    BY <1>6, <2>2 DEF Clone, Trees
  <2> QED BY <1>0, <1>6, <2>1, <2>3 DEF Clone, OuterTypes, RunTypes, Bounds
<1>7. CASE PushChange
  <2>1. PICK c \in Changes : /\ Make(c, remote.branch, log[remote.branch].created)
                           /\ remote' = [remote EXCEPT !.branch = c]
    BY <1>7 DEF PushChange
  <2>2. c \in Commits /\ remote.branch \in Commits /\ log[remote.branch].created \in BOOLEAN
    BY <1>1, CommitsIn DEF OuterTypes
  <2>3. log' \in [Commits -> [on : SUBSET Commits, created : BOOLEAN]]
    BY <2>1, <2>2, MakeTypes DEF OuterTypes
  <2>4. remote' \in [branch : Commits, tags : Refs]
    BY <2>1, <2>2 DEF OuterTypes
  <2> QED BY <1>0, <1>7, <2>3, <2>4 DEF PushChange, OtherThanOrigin, OuterTypes, RunTypes, Bounds
<1>8. CASE MergeRelease
  <2>1. PICK c \in Releases : Make(c, remote.branch, FALSE) /\ remote' = [remote EXCEPT !.branch = c]
    BY <1>8 DEF MergeRelease
  <2>2. c \in Commits /\ remote.branch \in Commits
    BY CommitsIn DEF OuterTypes
  <2>3. log' \in [Commits -> [on : SUBSET Commits, created : BOOLEAN]]
    BY <2>1, <2>2, MakeTypes DEF OuterTypes
  <2>4. remote' \in [branch : Commits, tags : Refs]
    BY <2>1, <2>2 DEF OuterTypes
  <2> QED BY <1>0, <1>8, <2>3, <2>4 DEF MergeRelease, OtherThanOrigin, OuterTypes, RunTypes, Bounds
<1>9. ASSUME NEW t \in Tags, SetTag(t) PROVE OuterTypes' /\ RunTypes' /\ Bounds'
  <2>1. tags' \in Refs
    <3>1. CASE tags' = [tags EXCEPT ![t] = Elsewhere]
      BY <3>1, CommitsIn DEF OuterTypes, Refs
    <3>2. CASE journal # None /\ tags' = [tags EXCEPT ![t] = journal.source]
      <4>1. journal.source \in Commits
        BY <3>2, TransactionParts DEF RunTypes
      <4> QED BY <3>2, <4>1 DEF OuterTypes, Refs
    <3> QED BY <1>9, <3>1, <3>2 DEF SetTag
  <2> QED BY <1>0, <1>9, <2>1 DEF SetTag, OtherThanCheckout, OuterTypes, RunTypes, Bounds
<1>10. ASSUME NEW t \in Tags, PushTag(t) PROVE OuterTypes' /\ RunTypes' /\ Bounds'
  <2>1. remote' \in [branch : Commits, tags : Refs]
    BY <1>10, CommitsIn DEF PushTag, OuterTypes, Refs
  <2>2. UNCHANGED <<log, checkout, journal, pc, locals, inflight, github, faults, history>>
    BY <1>10 DEF PushTag, OtherThanOrigin
  <2> QED BY <1>0, <2>1, <2>2 DEF OuterTypes, RunTypes, Bounds
<1> QED BY <1>3, <1>4, <1>5, <1>6, <1>7, <1>8, <1>9, <1>10 DEF Intervene

LEMMA TypeStep == ASSUME IInv, [Next]_vars PROVE TypeOK'
<1>1. OuterTypes /\ RunTypes /\ Bounds
  BY TypeParts DEF IInv
<1>2. OuterTypes' /\ RunTypes' /\ Bounds' => TypeOK'
  BY TypeParts, PTL
<1>3. CASE UNCHANGED vars
  <2>1. OuterTypes' /\ RunTypes' /\ Bounds'
    BY <1>1, <1>3 DEF vars, OuterTypes, RunTypes, Bounds
  <2> QED BY <1>2, <2>1
<1>4. CASE Intervene
  BY <1>1, <1>2, <1>4, OtherTypes
<1>5. CASE UNCHANGED others /\ (Start \/ Execute \/ Faulty \/ Arrive)
  BY <1>1, <1>2, <1>5, EarlyTypes, BodyTypes, PublicationTypes, RollbackTypes, FaultTypes DEF Execute
<1> QED BY <1>3, <1>4, <1>5 DEF Next

-------------------------------------------------------------------------------
\* Commits.

\* A new commit disturbs no history, and was in none.
LEMMA MakeKeeps ==
    ASSUME OuterTypes, Histories, NEW c \in Commits, NEW b \in Commits, NEW x, Made(b), Make(c, b, x)
    PROVE  /\ \A d \in Commits : Made(d) => d # c /\ log'[d] = log[d]
           /\ \A d \in Commits : c \notin log[d].on
           /\ log'[c].on = log[b].on \cup {c}
           /\ Histories'
<1>1. /\ \A d \in Commits : d # c => log'[d] = log[d]
      /\ log'[c].on = log[b].on \cup {c} /\ log[c].on = {}
  BY DEF Make, Fresh, OuterTypes
<1>2. \A d \in Commits : log[d].on \subseteq Commits
  BY DEF OuterTypes
<1>3. \A d \in Commits : c \notin log[d].on
  BY <1>1 DEF Histories, Made
<1>4. \A d \in Commits : Made(d) => d # c
  BY <1>1 DEF Made
<1>5. Histories'
  <2>1. ASSUME NEW d \in Commits, d # c
        PROVE  /\ (log[d].on = {} \/ (Made(d) /\ Root \in log[d].on))'
               /\ \A e \in log'[d].on : Made(e)' /\ log'[e].on \subseteq log'[d].on
    <3>1. \A e \in log[d].on : e # c /\ e \in Commits
      BY <1>2, <1>3
    <3> QED BY <1>1, <2>1, <3>1 DEF Histories, Made
  <2>2. Made(c)' /\ Root \in log'[c].on
    BY <1>1 DEF Made, Histories
  <2>3. ASSUME NEW e \in log'[c].on PROVE Made(e)' /\ log'[e].on \subseteq log'[c].on
    <3>1. CASE e = c
      BY <2>2, <3>1
    <3>2. CASE e # c
      <4>1. e \in log[b].on /\ e \in Commits
        BY <1>1, <1>2, <3>2
      <4> QED BY <1>1, <3>2, <4>1 DEF Histories, Made
    <3> QED BY <3>1, <3>2
  <2> QED BY <2>1, <2>2, <2>3 DEF Histories
<1> QED BY <1>1, <1>3, <1>4, <1>5

\* Steps that make no commit, move no branch and send nothing.
Still == /\ UNCHANGED <<log, head, undone, overtaken, attempted>>
         /\ remote'.branch = remote.branch
         /\ inflight' \subseteq inflight

LEMMA StillKeeps == ASSUME Histories, Gone, Still PROVE Histories' /\ Gone' /\ OutThere' = OutThere
BY DEF Histories, Gone, Still, OutThere, Made

\* The journal after such a step.
JournalInv ==
    /\ journal # None => Made(journal.source) /\ FoundFor(journal)
    /\ Unsent

JournalKept ==
    \/ journal' = journal
    \/ journal' = None
    \/ /\ journal' \in Transactions /\ journal # None
       /\ journal'.source = journal.source
       /\ journal'.phase \in External \/ journal.phase \notin External
       /\ FoundFor(journal')

LEMMA JournalKeeps == ASSUME JournalInv, Still, OutThere' = OutThere, JournalKept PROVE JournalInv'
BY DEF JournalInv, Still, JournalKept, Unsent, FoundFor, Made, IsReleaseOf, IsChild

\* The run after such a step.
RunInv ==
    /\ Settings /\ Course /\ Targeted
    /\ InTransaction => FoundFor(txn)
    /\ pc # "idle" => Made(plan.source)

\* The other commits: a summary of IInv.
PlaceInv ==
    /\ Histories /\ Gone
    /\ Made(head) /\ Made(remote.branch)
    /\ \A p \in inflight : Made(p.commit)
    /\ \A c \in undone \cup attempted : Made(c)

LEMMA InvParts == IInv <=> TypeOK /\ PlaceInv /\ JournalInv /\ RunInv
BY DEF IInv, PlaceInv, JournalInv, RunInv, Known, Found

LEMMA PlaceKeeps == ASSUME PlaceInv, Still PROVE PlaceInv' /\ OutThere' = OutThere
<1>1. Histories' /\ Gone' /\ OutThere' = OutThere
  BY StillKeeps DEF PlaceInv
<1> QED BY <1>1 DEF PlaceInv, Still, Made

\* A step that is none of the run's.
LEMMA RunStays ==
    ASSUME RunInv, Still, OutThere' = OutThere, UNCHANGED <<pc, locals, journal>> PROVE RunInv'
<1>1. Targeted'
  BY DEF RunInv, Still, Targeted, OnTopOf, Made
<1> QED BY <1>1 DEF RunInv, Still, Settings, Course, InTransaction, FoundFor, Made, IsReleaseOf, IsChild

\* A run that has ended has nothing to keep.
LEMMA ReturnKeeps == ASSUME Return PROVE RunInv'
BY DEF Return, RunInv, Settings, Course, Targeted, InTransaction, Body, Restoring, Early, Changing, Tagging

\* A rollback is only begun of what is not external.
LEMMA GiveUpKeeps ==
    ASSUME RunInv, TypeOK, Still, OutThere' = OutThere, GiveUp, UNCHANGED journal PROVE RunInv'
<1>1. CASE Return
  BY <1>1, ReturnKeeps
<1>2. CASE ~Return
  <2>1. /\ pc \in Body /\ txn.phase \notin External /\ pc' = "rollback"
        /\ UNCHANGED <<mode, resuming, resumable, plan, txn, target, accepted, pending, journal, head, log>>
    BY <1>2 DEF GiveUp, Still
  <2>2. pc # "idle"
    BY <2>1, Labels
  <2> QED BY <2>1, <2>2 DEF RunInv, Settings, Course, Targeted, InTransaction, Restoring, Changing,
             Tagging, FoundFor, Made, IsReleaseOf, IsChild
<1> QED BY <1>1, <1>2

-------------------------------------------------------------------------------
\* The steps of a run that move no branch, one lemma for each part of it.

\* Commits and the child of a source, while no commit is made.
LEMMA StillCommits ==
    ASSUME Still
    PROVE  /\ \A c : Made(c)' <=> Made(c)
           /\ \A c, b : IsReleaseOf(c, b)' <=> IsReleaseOf(c, b)
BY DEF Still, Made, IsReleaseOf, IsChild

LEMMA StartsStill ==
    ASSUME TypeOK, PlaceInv, JournalInv, RunInv, Start \/ Load \/ Resume \/ RecoverLocally \/ Derive \/ Verify
    PROVE  Still /\ JournalKept /\ RunInv'
<1>1. Still /\ JournalKept
  BY DEF Start, Load, Resume, RecoverLocally, Derive, Verify, Unaffected, Still, JournalKept
<1>2. CASE Return
  BY <1>1, <1>2, ReturnKeeps
<1>3. ASSUME ~Return PROVE RunInv'
  <2> USE <1>3, <1>1, StillCommits
  <2>1. CASE Start
    <3>1. plan' \in [source : Commits, release : BOOLEAN] /\ plan'.source = head
      BY <2>1 DEF Start, PlanAt, TypeOK
    <3> QED BY <2>1, <3>1 DEF Start, Unaffected, RunInv, Settings, Course, Targeted, InTransaction,
               FoundFor, Body, Restoring, Changing, Tagging, PlaceInv, Still, Made
  <2>2. CASE Load
    <3>1. /\ pc = "load" /\ txn' = journal /\ pc' = (IF journal = None THEN "derive" ELSE "recover")
          /\ UNCHANGED <<options, plan, target, accepted, pending, journal, log>>
      BY <2>2 DEF Load, Unaffected
    <3>2. ~resuming /\ mode \in Modes /\ plan \in [source : Commits, release : BOOLEAN] /\ Made(plan.source)
      BY <3>1 DEF RunInv, Settings, Course, Body
    <3>3. journal # None => journal \in Transactions /\ FoundFor(journal)
      BY DEF JournalInv, TypeOK
    <3> QED BY <3>1, <3>2, <3>3 DEF RunInv, Settings, Course, Targeted, InTransaction, Body, Restoring,
               Changing, Tagging, FoundFor
  <2>3. CASE Resume
    <3>1. /\ pc = "recover" /\ pc' = "derive" /\ txn.phase \in External /\ HeadAccepted /\ FoundHead = head
          /\ txn' = [txn EXCEPT !.releaseHead = head] /\ plan' = [source |-> txn.source, release |-> txn.release]
          /\ resuming' = TRUE /\ UNCHANGED <<mode, journal, head, log>>
      BY <2>3 DEF Resume, Unaffected
    <3>2. txn \in Transactions /\ journal \in Transactions /\ head \in Commits /\ mode \in Modes
          /\ txn.source = journal.source /\ txn.phase = journal.phase /\ FoundFor(txn)
      BY <3>1 DEF RunInv, Settings, InTransaction, TypeOK
    <3>3. /\ txn' \in Transactions /\ txn'.source = txn.source /\ txn'.phase = txn.phase
          /\ txn'.releaseHead = head /\ txn.source \in Commits /\ txn.release \in BOOLEAN
      BY <3>1, <3>2, ReleaseHeadSet, TransactionParts
    <3>4. IsReleaseOf(head, txn.source)
      BY <3>1, <3>2, CommitsAssumption DEF HeadAccepted, FoundHead, FoundFor
    <3>5. head # txn.source
      BY <3>4 DEF IsReleaseOf, IsChild, PlaceInv, Made
    <3>6. Made(txn.source)
      <4>1. journal # None
        BY <3>2, JournalAssumption
      <4> QED BY <3>2, <4>1 DEF JournalInv
    <3> QED BY <3>1, <3>2, <3>3, <3>4, <3>5, <3>6 DEF RunInv, Settings, Course, Targeted, InTransaction,
               FoundFor, Body, Restoring, Changing, Tagging
  <2>4. CASE RecoverLocally
    BY <2>4 DEF RecoverLocally, Unaffected, RunInv, Settings, Course, Targeted, InTransaction, Body,
       Restoring, Changing, Tagging, FoundFor
  <2>5. CASE Derive
    <3>1. /\ pc = "derive" /\ pc' = "verify"
          /\ UNCHANGED <<mode, resuming, aborting, txn, target, journal, head, log>>
          /\ resumable' = (plan'.release /\ IsReleaseOf(head, plan'.source) /\ TagsAgree)
          /\ \/ plan' = plan
             \/ /\ ~resuming /\ head \in Releases
                /\ \E x \in Commits : IsChild(head, x) /\ plan' = [source |-> x, release |-> TRUE]
      BY <2>5 DEF Derive, Unaffected
    <3>2. plan' \in [source : Commits, release : BOOLEAN] /\ Made(plan'.source)
      <4>1. CASE plan' = plan
        BY <3>1, <4>1 DEF RunInv, Settings
      <4>2. ASSUME head \in Releases, NEW x \in Commits, IsChild(head, x), plan' = [source |-> x, release |-> TRUE]
            PROVE  plan' \in [source : Commits, release : BOOLEAN] /\ Made(plan'.source)
        <5>1. Made(x)
          <6>1. head \in Releases /\ head # Root /\ head \in Commits
            BY <4>2, CommitsAssumption DEF TypeOK
          <6> QED BY <4>2, <6>1 DEF IsChild, PlaceInv, Histories, Made
        <5> QED BY <4>2, <5>1
      <4> QED BY <3>1, <4>1, <4>2
    <3>3. resuming => plan' = plan
      BY <3>1
    <3> QED BY <3>1, <3>2, <3>3 DEF RunInv, Settings, Course, Targeted, InTransaction, FoundFor, Body,
               Restoring, Changing, Tagging
  <2>6. CASE Verify
    <3>1. /\ pc = "verify" /\ Verified /\ pc' = (IF resuming THEN "clear" ELSE "snapshot")
          /\ UNCHANGED <<mode, plan, resuming, resumable, txn, target, journal, head, log>>
      BY <2>6 DEF Verify, Unaffected
    <3>2. resumable \/ head = plan.source
      BY <3>1 DEF Verified
    <3>3. resuming => resumable /\ IsReleaseOf(head, plan.source) /\ txn.releaseHead = head
      BY <3>1, <3>2, CommitsAssumption DEF RunInv, Course, IsReleaseOf
    <3>4. CASE resuming
      BY <3>1, <3>3, <3>4 DEF RunInv, Settings, Course, Targeted, InTransaction, FoundFor, Body, Restoring,
         Changing, Tagging
    <3>5. CASE ~resuming
      BY <3>1, <3>2, <3>5 DEF RunInv, Settings, Course, Targeted, InTransaction, FoundFor, Body, Restoring,
         Changing, Tagging
    <3> QED BY <3>4, <3>5
  <2> QED BY <2>1, <2>2, <2>3, <2>4, <2>5, <2>6
<1> QED BY <1>1, <1>2, <1>3

\* A journal that is not external is begun at its source.
LEMMA RecordedFacts ==
    ASSUME TypeOK, RunInv, pc = "snapshot"
    PROVE  /\ Recorded \in Transactions /\ Recorded.source = plan.source /\ Made(plan.source)
           /\ FoundFor(Recorded)
           /\ Recorded.phase \in External => resumable /\ Recorded.releaseHead = head
           /\ Recorded.phase \notin External => head = plan.source
<1>1. plan.source \in Commits /\ plan.release \in BOOLEAN /\ Made(plan.source)
  BY DEF RunInv, Settings
<1>2. Recorded \in Transactions
  BY <1>1 DEF Recorded, Transactions, Phases, TypeOK
<1>3. resumable => IsReleaseOf(head, plan.source)
  BY DEF RunInv, Course
<1>4. resumable \/ head = plan.source
  BY DEF RunInv, Course
<1> QED BY <1>1, <1>2, <1>3, <1>4 DEF Recorded, FoundFor, External, TypeOK

LEMMA RecordedKeeps ==
    ASSUME TypeOK, RunInv, pc = "snapshot", Still, journal' = Recorded PROVE JournalInv'
<1> DEFINE r == Recorded
<1>1. /\ journal' = r /\ r.source = plan.source /\ Made(plan.source) /\ FoundFor(r)
      /\ r.phase \notin External => head = plan.source
  BY RecordedFacts
<1> HIDE DEF r
<1>2. Made(journal.source)' /\ FoundFor(journal)'
  BY <1>1 DEF FoundFor, Still, Made, IsReleaseOf, IsChild
<1>3. Unsent'
  BY <1>1 DEF Unsent, Still
<1> QED BY <1>2, <1>3 DEF JournalInv

LEMMA SnapshotStill ==
    ASSUME TypeOK, PlaceInv, RunInv, Snapshot PROVE Still /\ JournalInv' /\ RunInv'
<1>1. Still
  BY DEF Snapshot, Still
<1>2. JournalInv'
  BY <1>1, RecordedKeeps DEF Snapshot
<1>3. /\ pc = "snapshot" /\ pc' = "clear" /\ txn' = Recorded /\ journal' = Recorded
      /\ UNCHANGED <<options, plan, head, log>>
  BY DEF Snapshot
<1>4. mode \in Modes /\ plan \in [source : Commits, release : BOOLEAN] /\ ~resuming
  BY <1>3 DEF RunInv, Settings, Course
<1>5. FoundFor(txn)' /\ Made(plan.source)'
  BY <1>1, <1>3, RecordedFacts, StillCommits DEF FoundFor, Still, Made, IsReleaseOf, IsChild
<1>6. txn'.phase \in External => resumable' /\ txn'.releaseHead = head'
  BY <1>3, RecordedFacts
<1>7. resumable' => IsReleaseOf(head, plan.source)
  BY <1>3 DEF RunInv, Course
<1>8. resumable' => txn'.releaseHead = head'
  BY <1>3, <1>7, RecordedFacts DEF IsReleaseOf, IsChild, PlaceInv, Made
<1>9. Settings' /\ Targeted'
  BY <1>3, <1>4, RecordedFacts DEF Settings, Targeted, InTransaction, Restoring
<1>10. Course'
  BY <1>3, <1>4, <1>6, <1>8 DEF Course, Body, Restoring, Changing, Tagging
<1> QED BY <1>1, <1>2, <1>5, <1>9, <1>10 DEF RunInv

\* A step of the body that saves a phase, or leaves the transaction as it is.
Steady == UNCHANGED <<mode, plan, resuming, resumable, head, log>>
Saves(phase) ==
    /\ txn' \in Transactions /\ journal' = txn'
    /\ txn'.phase = phase /\ txn'.source = txn.source /\ txn'.releaseHead = txn.releaseHead

LEMMA SaveEffect ==
    ASSUME RunInv, pc \in Body, NEW phase \in Phases, Save(phase) PROVE Saves(phase)
<1>1. txn \in Transactions
  BY DEF RunInv, Settings, InTransaction
<1> QED BY <1>1, PhaseSet DEF Save, Saves

\* Going on in the body.
LEMMA GoesOn ==
    ASSUME RunInv, Still, Steady, pc \in Body, pc' \in Body,
           UNCHANGED <<txn, journal>> \/ \E phase \in Phases : Saves(phase),
           pc' # "clear",
           pc' \in Changing => txn'.phase \notin External,
           pc' \in {"push", "pushed"} => txn'.phase \in External,
           resuming => txn'.phase \in External,
           pc' = "readHead" => head # txn.source,
           pc' \in Tagging => txn.releaseHead = head
    PROVE  RunInv'
<1>1. /\ mode \in Modes /\ plan \in [source : Commits, release : BOOLEAN]
      /\ txn \in Transactions /\ journal \in Transactions /\ txn.source = journal.source
      /\ txn.phase = journal.phase /\ FoundFor(txn) /\ Made(plan.source)
      /\ resuming => txn.source = plan.source
  BY Labels DEF RunInv, Settings, Course, InTransaction
<1>2. pc' \notin Restoring \cup {"idle", "recover", "derive", "verify", "snapshot"}
  BY DEF Body, Restoring
<1>3. txn' \in Transactions /\ journal' \in Transactions /\ txn'.source = journal'.source
      /\ txn'.phase = journal'.phase /\ txn'.source = txn.source /\ txn'.releaseHead = txn.releaseHead
  BY <1>1 DEF Saves
<1>4. Settings' /\ Targeted'
  BY <1>1, <1>2, <1>3 DEF Settings, Targeted, Steady
<1>5. pc' \in Changing => ~resuming
  OBVIOUS
<1>6. Course'
  BY <1>1, <1>2, <1>3, <1>5 DEF Course, Steady
<1>7. FoundFor(txn)' /\ Made(plan.source)'
  BY <1>1, <1>3 DEF FoundFor, Still, Made, IsReleaseOf, IsChild, Steady
<1> QED BY <1>4, <1>6, <1>7 DEF RunInv

LEMMA ChangesStill ==
    ASSUME TypeOK, PlaceInv, JournalInv, RunInv,
           \/ Clear \/ WriteEmpty \/ FinishEmpty \/ Mutating \/ Update \/ Committing \/ Add \/ ReadHead
           \/ \E t \in Tags : Tag(t)
    PROVE  Still /\ JournalKept /\ RunInv'
<1>0. pc \in Body => /\ txn \in Transactions /\ journal \in Transactions /\ journal # None
                     /\ txn.source = journal.source /\ txn.phase = journal.phase /\ FoundFor(txn)
  BY JournalAssumption DEF RunInv, Settings, InTransaction
<1>1. CASE Clear
  <2>1. /\ pc = "clear" /\ UNCHANGED <<options, plan, txn, target, journal, head, log>>
        /\ \/ pc' = pc
           \/ pc' = IF ~plan.release THEN "writeEmpty" ELSE IF resumable THEN "tag" ELSE "mutating"
    BY <1>1 DEF Clear, FileStep
  <2>2. Still /\ Steady /\ JournalKept
    BY <1>1 DEF Clear, FileStep, Still, Steady, JournalKept
  <2>3. /\ txn.phase \in External => resumable
        /\ resumable => txn.releaseHead = head
        /\ resuming => txn.phase \in External
    BY <2>1 DEF RunInv, Course
  <2>4. pc \in Body /\ pc' \in Body
    BY <2>1 DEF Body
  <2>5. CASE pc' = pc
    BY <2>1, <2>2, <2>5, StillCommits DEF RunInv, Settings, Course, Targeted, InTransaction, FoundFor,
       Restoring, Changing, Tagging, Body
  <2>6. CASE pc' # pc
    BY <2>1, <2>2, <2>3, <2>4, <2>6, GoesOn DEF Changing, Tagging
  <2> QED BY <2>5, <2>6
<1>2. CASE WriteEmpty
  <2>1. Still /\ Steady /\ JournalKept /\ UNCHANGED <<txn, journal>> /\ pc = "writeEmpty" /\ pc' = "finishEmpty"
    BY <1>2 DEF WriteEmpty, FileStep, Still, Steady, JournalKept
  <2>2. resuming => txn.phase \in External
    BY DEF RunInv, Course
  <2> QED BY <2>1, <2>2, GoesOn DEF Body, Changing, Tagging
<1>3. CASE FinishEmpty
  BY <1>3, ReturnKeeps DEF FinishEmpty, Still, JournalKept
<1>4. CASE Mutating
  <2>1. Still /\ Steady /\ pc = "mutating" /\ pc' = "beforeHooks" /\ Save("mutating")
    BY <1>4 DEF Mutating, JournalStep, Still, Steady
  <2>2. pc \in Body /\ pc' \in Body /\ "mutating" \in Phases \ External
    BY <2>1 DEF Body, Phases, External
  <2>3. Saves("mutating") /\ txn.phase \notin External /\ ~resuming
    BY <2>1, <2>2, SaveEffect DEF RunInv, Course, Changing
  <2>4. JournalKept
    BY <1>0, <2>2, <2>3, StillCommits DEF JournalKept, Saves, FoundFor
  <2> QED BY <2>1, <2>2, <2>3, <2>4, GoesOn DEF Saves, Changing, Tagging
<1>5. CASE Update
  <2>1. Still /\ JournalKept /\ UNCHANGED journal
    BY <1>5 DEF Update, Still, JournalKept, SetFile
  <2>2. CASE GiveUp
    BY <2>1, <2>2, GiveUpKeeps, PlaceKeeps
  <2>3. CASE ~GiveUp
    <3>1. Steady /\ UNCHANGED <<txn, journal>> /\ pc = "update" /\ pc' = "afterHooks"
      BY <1>5, <2>3 DEF Update, Steady
    <3>2. txn.phase \notin External /\ ~resuming
      BY <3>1 DEF RunInv, Course, Changing
    <3> QED BY <2>1, <3>1, <3>2, GoesOn DEF Body, Changing, Tagging
  <2> QED BY <2>1, <2>2, <2>3
<1>6. CASE Committing
  <2>1. Still
    BY <1>6 DEF Committing, Still
  <2>2. CASE GiveUp /\ UNCHANGED journal
    BY <2>1, <2>2, GiveUpKeeps, PlaceKeeps DEF JournalKept
  <2>3. CASE ~(GiveUp /\ UNCHANGED journal)
    <3>1. Steady /\ pc = "committing" /\ pc' = "add" /\ Save("committing")
      BY <1>6, <2>3 DEF Committing, Steady
    <3>2. pc \in Body /\ pc' \in Body /\ "committing" \in Phases \ External
      BY <3>1 DEF Body, Phases, External
    <3>3. Saves("committing") /\ txn.phase \notin External /\ ~resuming
      BY <3>1, <3>2, SaveEffect DEF RunInv, Course, Changing
    <3>4. JournalKept
      BY <1>0, <2>1, <3>2, <3>3, StillCommits DEF JournalKept, Saves, FoundFor
    <3> QED BY <2>1, <3>1, <3>2, <3>3, <3>4, GoesOn DEF Saves, Changing, Tagging
  <2> QED BY <2>1, <2>2, <2>3
<1>7. CASE Add
  <2>1. Still /\ Steady /\ JournalKept /\ UNCHANGED <<txn, journal>> /\ pc = "add" /\ pc' = "commit"
    BY <1>7 DEF Add, Still, Steady, JournalKept
  <2>2. txn.phase \notin External /\ ~resuming
    BY <2>1 DEF RunInv, Course, Changing
  <2> QED BY <2>1, <2>2, GoesOn DEF Body, Changing, Tagging
<1>8. CASE ReadHead
  <2>1. Still
    BY <1>8 DEF ReadHead, Still
  <2>2. CASE GiveUp /\ UNCHANGED journal
    BY <2>1, <2>2, GiveUpKeeps, PlaceKeeps DEF JournalKept
  <2>3. CASE ~(GiveUp /\ UNCHANGED journal)
    <3>1. /\ pc = "readHead" /\ pc' = "tag" /\ HeadAccepted /\ journal' = txn'
          /\ txn' = [txn EXCEPT !.releaseHead = FoundHead, !.phase = "tagging"]
          /\ UNCHANGED <<options, plan, head, log>>
      BY <1>8, <2>3 DEF ReadHead
    <3>2. txn.phase \notin External /\ ~resuming /\ head # txn.source /\ pc \in Body
      BY <3>1 DEF RunInv, Course, Changing, Body
    <3>3. FoundHead = head /\ IsReleaseOf(head, txn.source) /\ head \in Commits
      BY <3>1, <3>2 DEF HeadAccepted, FoundHead, TypeOK
    <3>4. txn' \in Transactions /\ txn'.releaseHead = head /\ txn'.phase = "tagging" /\ txn'.source = txn.source
      <4>1. txn' = [txn EXCEPT !.releaseHead = head, !.phase = "tagging"]
        BY <3>1, <3>3
      <4> QED BY <1>0, <3>2, <3>3, <4>1, TaggingSet
    <3>5. FoundFor(txn)' /\ FoundFor(txn')
      BY <2>1, <3>1, <3>3, <3>4, StillCommits DEF FoundFor, Still, IsReleaseOf, IsChild
    <3>6. JournalKept
      BY <1>0, <3>1, <3>2, <3>4, <3>5 DEF JournalKept
    <3>7. mode \in Modes /\ plan \in [source : Commits, release : BOOLEAN] /\ Made(plan.source)
      BY <3>2, Labels DEF RunInv, Settings
    <3>8. Settings' /\ Targeted'
      BY <3>1, <3>4, <3>7 DEF Settings, Targeted, Restoring
    <3>9. Course'
      BY <3>1, <3>2, <3>4 DEF Course, Restoring, Changing
    <3>10. Made(plan.source)'
      BY <2>1, <3>1, <3>7 DEF Still, Made
    <3> QED BY <2>1, <3>5, <3>6, <3>8, <3>9, <3>10 DEF RunInv
  <2> QED BY <2>1, <2>2, <2>3
<1>9. ASSUME NEW t \in Tags, Tag(t) PROVE Still /\ JournalKept /\ RunInv'
  <2>1. Still /\ JournalKept /\ UNCHANGED journal /\ pc = "tag"
    BY <1>9 DEF Tag, Still, JournalKept
  <2>2. CASE GiveUp
    BY <2>1, <2>2, GiveUpKeeps, PlaceKeeps
  <2>3. CASE ~GiveUp
    <3>1. Steady /\ UNCHANGED <<txn, journal>> /\ pc' \in {"pushing", "tag"}
      BY <1>9, <2>3 DEF Tag, Steady
    <3>2. txn.releaseHead = head /\ (resuming => txn.phase \in External)
      BY <2>1 DEF RunInv, Course, Tagging
    <3> QED BY <2>1, <3>1, <3>2, GoesOn DEF Body, Changing
  <2> QED BY <2>1, <2>2, <2>3
<1> QED BY <1>1, <1>2, <1>3, <1>4, <1>5, <1>6, <1>7, <1>8, <1>9

LEMMA PublicationStill ==
    ASSUME TypeOK, PlaceInv, JournalInv, RunInv,
           \/ Pushing \/ PushReturns \/ RemoteTags \/ Publishing \/ (\E t \in Tags : Publish(t))
           \/ WriteNotes \/ Write \/ Published \/ AfterRelease \/ Finish
    PROVE  Still /\ JournalKept /\ RunInv'
<1>0. /\ pc \in Body => /\ txn \in Transactions /\ journal \in Transactions /\ journal # None
                        /\ txn.source = journal.source /\ txn.phase = journal.phase /\ FoundFor(txn)
      /\ resuming => txn.phase \in External
      /\ pc \in Tagging => txn.releaseHead = head
      /\ Tagging \subseteq Body
  BY JournalAssumption DEF RunInv, Settings, InTransaction, Course, Tagging, Body
<1>1. ASSUME NEW phase \in Phases \cap External, Saves(phase), Still, pc \in Body PROVE JournalKept
  BY <1>0, <1>1, StillCommits DEF JournalKept, Saves, FoundFor
<1>2. "external" \in Phases \cap External /\ "published" \in Phases \cap External
  BY DEF Phases, External
<1>3. CASE Pushing
  <2>1. Still /\ Steady /\ pc = "pushing" /\ pc \in Tagging
    BY <1>3 DEF Pushing, JournalStep, Still, Steady, Tagging
  <2>2. CASE Save("external") /\ pc' = "push"
    <3>1. Saves("external") /\ JournalKept
      BY <1>0, <1>1, <1>2, <2>1, <2>2, SaveEffect
    <3> QED BY <1>0, <1>2, <2>1, <2>2, <3>1, GoesOn DEF Saves, Body, Changing
  <2>3. CASE pc' = "remoteTags" /\ UNCHANGED <<txn, journal>>
    BY <1>0, <2>1, <2>3, GoesOn DEF JournalKept, Body, Changing
  <2> QED BY <1>3, <2>2, <2>3 DEF Pushing
<1>4. CASE PushReturns
  <2>1. Still /\ JournalKept /\ UNCHANGED journal /\ pc \in Tagging
    BY <1>4 DEF PushReturns, Unaffected, Still, JournalKept, Tagging
  <2>2. CASE GiveUp
    BY <2>1, <2>2, GiveUpKeeps, PlaceKeeps
  <2>3. CASE ~GiveUp
    <3>1. Steady /\ UNCHANGED <<txn, journal>> /\ pc' = "remoteTags"
      BY <1>4, <2>3 DEF PushReturns, Unaffected, Steady
    <3> QED BY <1>0, <2>1, <3>1, GoesOn DEF Body, Changing
  <2> QED BY <2>1, <2>2, <2>3
<1>5. CASE RemoteTags
  <2>1. Still /\ JournalKept /\ UNCHANGED journal /\ pc \in Tagging
    BY <1>5 DEF RemoteTags, Unaffected, Still, JournalKept, Tagging
  <2>2. CASE GiveUp
    BY <2>1, <2>2, GiveUpKeeps, PlaceKeeps
  <2>3. CASE ~GiveUp
    <3>1. Steady /\ UNCHANGED <<txn, journal>> /\ pc' \in {"publishing", "write"}
      BY <1>5, <2>3 DEF RemoteTags, Unaffected, Steady
    <3> QED BY <1>0, <2>1, <3>1, GoesOn DEF Body, Changing
  <2> QED BY <2>1, <2>2, <2>3
<1>6. CASE Publishing
  <2>1. Still /\ Steady /\ pc \in Tagging /\ Save("external") /\ pc' = "publish"
    BY <1>6 DEF Publishing, JournalStep, Still, Steady, Tagging
  <2>2. Saves("external") /\ JournalKept
    BY <1>0, <1>1, <1>2, <2>1, SaveEffect
  <2> QED BY <1>0, <1>2, <2>1, <2>2, GoesOn DEF Saves, Body, Changing
<1>7. ASSUME NEW t \in Tags, Publish(t) PROVE Still /\ JournalKept /\ RunInv'
  <2>1. Still /\ JournalKept /\ UNCHANGED journal /\ pc \in Tagging
    BY <1>7 DEF Publish, Still, JournalKept, Tagging
  <2>2. CASE GiveUp
    BY <2>1, <2>2, GiveUpKeeps, PlaceKeeps
  <2>3. CASE ~GiveUp
    <3>1. Steady /\ UNCHANGED <<txn, journal>> /\ pc' \in {"publish", "write"}
      BY <1>7, <2>3 DEF Publish, Steady
    <3> QED BY <1>0, <2>1, <3>1, GoesOn DEF Body, Changing
  <2> QED BY <2>1, <2>2, <2>3
<1>8. CASE WriteNotes
  <2>1. Still /\ Steady /\ JournalKept /\ UNCHANGED <<txn, journal, pc>> /\ pc = "write"
    BY <1>8 DEF WriteNotes, FileStep, Still, Steady, JournalKept
  <2> QED BY <1>0, <2>1, GoesOn DEF Body, Changing, Tagging
<1>9. CASE Write
  <2>1. Still /\ Steady /\ JournalKept /\ UNCHANGED <<txn, journal>> /\ pc = "write" /\ pc' = "published"
    BY <1>9 DEF Write, FileStep, Still, Steady, JournalKept
  <2> QED BY <1>0, <2>1, GoesOn DEF Body, Changing, Tagging
<1>10. CASE Published
  <2>1. Still /\ Steady /\ pc \in Tagging /\ Save("published") /\ pc' = "afterRelease"
    BY <1>10 DEF Published, JournalStep, Still, Steady, Tagging
  <2>2. Saves("published") /\ JournalKept
    BY <1>0, <1>1, <1>2, <2>1, SaveEffect
  <2> QED BY <1>0, <1>2, <2>1, <2>2, GoesOn DEF Saves, Body, Changing
<1>11. CASE AfterRelease
  <2>1. Still /\ Steady /\ JournalKept /\ UNCHANGED <<txn, journal>> /\ pc = "afterRelease" /\ pc' = "finish"
    BY <1>11 DEF AfterRelease, Unaffected, Still, Steady, JournalKept
  <2> QED BY <1>0, <2>1, GoesOn DEF Body, Changing, Tagging
<1>12. CASE Finish
  BY <1>12, ReturnKeeps DEF Finish, Still, JournalKept
<1> QED BY <1>3, <1>4, <1>5, <1>6, <1>7, <1>8, <1>9, <1>10, <1>11, <1>12

\* A rollback reads HEAD while nothing beyond its source is out there.
LEMMA RollbackStill ==
    ASSUME TypeOK, PlaceInv, JournalInv, RunInv,
           \/ Rollback \/ ReadTarget \/ (\E t \in Tags : Untag(t)) \/ RemoveCreated
           \/ (\E file \in {"manifest", "output"} : Restore(file)) \/ RestoreIndex \/ Forget
    PROVE  Still /\ JournalKept /\ RunInv'
<1>0. pc \in Restoring => /\ txn \in Transactions /\ journal \in Transactions /\ journal # None
                          /\ txn.source = journal.source /\ txn.phase = journal.phase /\ FoundFor(txn)
                          /\ txn.phase \notin External /\ ~resuming
                          /\ mode \in Modes /\ plan \in [source : Commits, release : BOOLEAN] /\ Made(plan.source)
  BY JournalAssumption, Labels DEF RunInv, Settings, InTransaction, Course
<1>1. ASSUME Still, OutThere' = OutThere, UNCHANGED <<options, plan, txn, target, journal>>,
             pc \in Restoring \ {"rollback"}, pc' \in Restoring \ {"rollback", "readTarget"}
      PROVE  RunInv'
  <2>1. pc' \notin Body /\ pc' \notin {"idle", "clear", "derive", "verify", "snapshot", "push", "pushed", "readHead"}
    BY <1>1 DEF Body, Restoring
  <2>2. Settings'
    BY <1>0, <1>1 DEF RunInv, Settings
  <2>3. Course'
    BY <1>0, <1>1, <2>1 DEF Course, Tagging, Body
  <2>4. Targeted'
    BY <1>1 DEF RunInv, Targeted, OnTopOf, Still, Made
  <2> QED BY <1>0, <1>1, <2>2, <2>3, <2>4, StillCommits DEF RunInv, FoundFor
<1>2. CASE Rollback
  <2>1. Still /\ JournalKept /\ UNCHANGED journal /\ pc = "rollback"
    BY <1>2 DEF Rollback, Unaffected, Still, JournalKept
  <2>2. OutThere' = OutThere
    BY <2>1, PlaceKeeps
  <2>3. CASE Return
    BY <2>1, <2>3, ReturnKeeps
  <2>4. CASE ~Return
    <3>1. /\ HeadAccepted /\ txn' = [txn EXCEPT !.releaseHead = FoundHead] /\ target' = head /\ pc' = "readTarget"
          /\ UNCHANGED <<options, plan>>
      BY <1>2, <2>4 DEF Rollback
    <3>2. pc \in Restoring /\ pc' \in Restoring \ {"rollback"}
      BY <2>1, <3>1 DEF Restoring
    <3>3. FoundHead \in Commits \cup {None} /\ head \in Commits
      BY <1>0, <3>2, TransactionParts DEF FoundHead, TypeOK
    <3>4. txn' \in Transactions /\ txn'.phase = txn.phase /\ txn'.source = txn.source /\ txn'.releaseHead = FoundHead
      BY <1>0, <3>1, <3>2, <3>3, ReleaseHeadSet
    <3>5. FoundFor(txn)'
      BY <1>0, <2>1, <3>1, <3>2, <3>3, <3>4, StillCommits DEF FoundFor, HeadAccepted, FoundHead, IsReleaseOf,
         IsChild, Still
    <3>6. Made(head) /\ OnTopOf(head, txn.source)
      <4>1. Made(head)
        BY DEF PlaceInv
      <4>2. CASE head = txn.source
        BY <4>1, <4>2 DEF OnTopOf
      <4>3. CASE head # txn.source
        <5>1. IsReleaseOf(head, txn.source)
          BY <3>1, <4>3 DEF HeadAccepted
        <5>2. /\ log[head].on = log[txn.source].on \cup {head} /\ head \in Releases
              /\ head \in log[head].on \ log[journal.source].on
          BY <1>0, <3>2, <5>1 DEF IsReleaseOf, IsChild
        <5>3. head \notin OutThere
          BY <1>0, <3>2, <5>2 DEF JournalInv, Unsent
        <5> QED BY <4>1, <5>2, <5>3 DEF OnTopOf
      <4> QED BY <4>2, <4>3
    <3>7. Targeted'
      <4>1. target' = head /\ head' = head /\ txn'.source = txn.source
        BY <2>1, <3>1, <3>4 DEF Still
      <4>2. /\ Made(target)' /\ OnTopOf(target, txn.source)' /\ OnTopOf(head, target)'
        BY <2>1, <2>2, <3>6, <4>1 DEF OnTopOf, Still, Made
      <4> QED BY <4>2 DEF Targeted
    <3>8. Settings'
      BY <1>0, <2>1, <3>1, <3>2, <3>3, <3>4 DEF Settings
    <3>9. Course'
      BY <1>0, <3>1, <3>2, <3>4 DEF Course, Tagging, Body
    <3> QED BY <1>0, <2>1, <3>1, <3>2, <3>5, <3>7, <3>8, <3>9, StillCommits DEF RunInv
  <2> QED BY <2>1, <2>3, <2>4
<1>8. CASE ReadTarget
  <2>1. /\ Still /\ JournalKept /\ UNCHANGED <<options, plan, txn, journal>> /\ target' = head
        /\ pc = "readTarget" /\ pc' = "untag"
    BY <1>8 DEF ReadTarget, Unaffected, Still, JournalKept
  <2>2. OutThere' = OutThere /\ pc \in Restoring \ {"rollback"}
    BY <2>1, PlaceKeeps DEF Restoring
  <2>3. OnTopOf(target, txn.source) /\ OnTopOf(head, target) /\ Made(head)
    BY <2>1, <2>2 DEF RunInv, Targeted, PlaceInv
  <2>4. OnTopOf(head, txn.source)
    BY <2>3 DEF OnTopOf
  <2>5. Targeted'
    BY <2>1, <2>2, <2>3, <2>4 DEF Targeted, OnTopOf, Still, Made
  <2>6. Settings' /\ Course'
    BY <1>0, <2>1, <2>2 DEF RunInv, Settings, Course, Tagging, Body, Changing, Restoring, TypeOK
  <2> QED BY <1>0, <2>1, <2>2, <2>5, <2>6, StillCommits DEF RunInv, FoundFor
<1>3. ASSUME NEW t \in Tags, Untag(t) PROVE Still /\ JournalKept /\ RunInv'
  <2>1. Still /\ JournalKept /\ UNCHANGED journal
    BY <1>3 DEF Untag, Still, JournalKept
  <2>2. OutThere' = OutThere
    BY <2>1, PlaceKeeps
  <2>3. CASE Return
    BY <2>1, <2>3, ReturnKeeps
  <2>4. CASE ~Return
    <3>1. UNCHANGED <<options, plan, txn, target, journal>> /\ pc = "untag" /\ pc' \in {"untag", "removeCreated"}
      BY <1>3, <2>4 DEF Untag
    <3> QED BY <1>1, <2>1, <2>2, <3>1 DEF Restoring
  <2> QED BY <2>1, <2>3, <2>4
<1>4. CASE RemoveCreated
  <2>1. /\ Still /\ JournalKept /\ UNCHANGED <<options, plan, txn, target, journal>>
        /\ pc = "removeCreated" /\ pc' = "restore"
    BY <1>4 DEF RemoveCreated, Still, JournalKept
  <2> QED BY <1>1, <2>1, PlaceKeeps DEF Restoring
<1>5. ASSUME NEW file \in {"manifest", "output"}, Restore(file) PROVE Still /\ JournalKept /\ RunInv'
  <2>1. Still /\ JournalKept /\ UNCHANGED <<options, plan, txn, target, journal>> /\ pc = "restore"
        /\ pc' \in {"resetRef", "restore"}
    BY <1>5 DEF Restore, FileStep, Still, JournalKept
  <2> QED BY <1>1, <2>1, PlaceKeeps DEF Restoring
<1>6. CASE RestoreIndex
  <2>1. /\ Still /\ JournalKept /\ UNCHANGED <<options, plan, txn, target, journal>>
        /\ pc = "restoreIndex" /\ pc' = "forget"
    BY <1>6 DEF RestoreIndex, Still, JournalKept
  <2> QED BY <1>1, <2>1, PlaceKeeps DEF Restoring
<1>7. CASE Forget
  <2>1. Still /\ JournalKept /\ pc = "forget" /\ pc \in Restoring
    BY <1>7 DEF Forget, Still, JournalKept, Restoring
  <2>2. CASE Return
    BY <2>1, <2>2, ReturnKeeps
  <2>3. CASE ~Return
    <3>1. pc' = "derive" /\ plan' = PlanAt(head) /\ UNCHANGED <<options, head, log>>
      BY <1>7, <2>3 DEF Forget
    <3>2. plan' \in [source : Commits, release : BOOLEAN] /\ plan'.source = head
      BY <3>1 DEF PlanAt, TypeOK
    <3> QED BY <1>0, <2>1, <3>1, <3>2 DEF RunInv, Settings, Course, Targeted, InTransaction, Body,
               Restoring, Changing, Tagging, PlaceInv, Made
  <2> QED BY <2>1, <2>2, <2>3
<1> QED BY <1>2, <1>3, <1>4, <1>5, <1>6, <1>7, <1>8

LEMMA FaultStill ==
    ASSUME TypeOK, PlaceInv, JournalInv, RunInv, CommandFails \/ SaveFails \/ Crash \/ \E p \in inflight : Lose(p)
    PROVE  Still /\ JournalInv' /\ RunInv'
<1>1. CASE CommandFails
  <2>1. Still /\ JournalKept /\ UNCHANGED journal /\ GiveUp
    BY <1>1 DEF CommandFails, Still, JournalKept
  <2> QED BY <2>1, PlaceKeeps, JournalKeeps, GiveUpKeeps
<1>2. CASE SaveFails
  <2>1. Still /\ Return /\ journal' = IF pc = "snapshot" THEN Recorded ELSE journal
    BY <1>2 DEF SaveFails, Still
  <2>2. JournalInv'
    BY <2>1, RecordedKeeps, PlaceKeeps, JournalKeeps DEF JournalKept
  <2> QED BY <2>1, <2>2, ReturnKeeps
<1>3. CASE Crash
  <2>1. Still /\ JournalKept /\ Return
    BY <1>3 DEF Crash, Still, JournalKept
  <2> QED BY <2>1, PlaceKeeps, JournalKeeps, ReturnKeeps
<1>4. ASSUME NEW p \in inflight, Lose(p) PROVE Still /\ JournalInv' /\ RunInv'
  <2>1. Still /\ JournalKept /\ UNCHANGED <<pc, locals, journal>>
    BY <1>4 DEF Lose, Still, JournalKept
  <2>2. JournalInv' /\ OutThere' = OutThere
    BY <2>1, PlaceKeeps, JournalKeeps
  <2> QED BY <2>1, <2>2, RunStays
<1> QED BY <1>1, <1>2, <1>3, <1>4

\* Others touch tags without moving a branch.
LEMMA TagsStill ==
    ASSUME TypeOK, PlaceInv, JournalInv, RunInv, \E t \in Tags : SetTag(t) \/ PushTag(t)
    PROVE  Still /\ JournalInv' /\ RunInv'
<1>1. Still /\ UNCHANGED <<pc, locals, journal>>
  BY DEF SetTag, PushTag, OtherThanCheckout, OtherThanOrigin, Still, TypeOK
<1>2. JournalInv' /\ OutThere' = OutThere
  BY <1>1, PlaceKeeps, JournalKeeps DEF JournalKept
<1> QED BY <1>1, <1>2, RunStays

-------------------------------------------------------------------------------
\* The steps that make a commit, move a branch, send or receive.

\* What a new commit leaves as it was.
LEMMA MadeStays ==
    ASSUME TypeOK, Histories, NEW c \in Commits, NEW b \in Commits, NEW x, Made(b), Make(c, b, x)
    PROVE  /\ \A d \in Commits : Made(d) => Made(d)' /\ d # c /\ log'[d].on = log[d].on
           /\ \A d, e \in Commits : IsReleaseOf(d, e) /\ Made(e) => IsReleaseOf(d, e)'
           /\ \A d \in Commits : c \notin log[d].on
           /\ log'[c].on = log[b].on \cup {c} /\ Made(c)'
           /\ Histories'
<1>1. OuterTypes
  BY TypeParts
<1>2. /\ \A d \in Commits : Made(d) => d # c /\ log'[d] = log[d]
      /\ \A d \in Commits : c \notin log[d].on
      /\ log'[c].on = log[b].on \cup {c}
      /\ Histories'
  BY <1>1, MakeKeeps
<1>3. \A d \in Commits : Made(d) => Made(d)' /\ d # c /\ log'[d].on = log[d].on
  BY <1>2 DEF Made
<1>4. \A d, e \in Commits : IsReleaseOf(d, e) => Made(d)
  BY DEF IsReleaseOf, IsChild, Made
<1>5. \A d, e \in Commits : IsReleaseOf(d, e) /\ Made(e) => IsReleaseOf(d, e)'
  BY <1>3, <1>4 DEF IsReleaseOf, IsChild
<1> QED BY <1>2, <1>3, <1>5 DEF Made

\* A commit on top of HEAD is out there for nobody.
LEMMA CommitKeeps ==
    ASSUME TypeOK, PlaceInv, JournalInv,
           NEW c \in Commits, NEW x, Make(c, head, x), head' = c,
           UNCHANGED <<journal, undone, attempted, remote, inflight>>, overtaken \subseteq overtaken'
    PROVE  PlaceInv' /\ JournalInv' /\ (\A d \in Commits : d \in OutThere' <=> d \in OutThere)
<1>1. head \in Commits /\ Made(head) /\ Histories
  BY DEF TypeOK, PlaceInv
<1>2. /\ \A d \in Commits : Made(d) => Made(d)' /\ d # c /\ log'[d].on = log[d].on
      /\ \A d, e \in Commits : IsReleaseOf(d, e) /\ Made(e) => IsReleaseOf(d, e)'
      /\ \A d \in Commits : c \notin log[d].on
      /\ log'[c].on = log[head].on \cup {c} /\ Made(c)'
      /\ Histories'
  BY <1>1, MadeStays
<1>3. /\ remote.branch \in Commits /\ undone \subseteq Commits /\ attempted \subseteq Commits
      /\ \A p \in inflight : p.commit \in Commits
  BY DEF TypeOK
<1>4. OutThere' = OutThere /\ c \notin OutThere /\ c \notin undone
  BY <1>2, <1>3 DEF OutThere, PlaceInv
<1>5. Gone'
  BY <1>2, <1>3, <1>4 DEF Gone, PlaceInv
<1>6. PlaceInv'
  BY <1>2, <1>3, <1>5 DEF PlaceInv
<1>7. JournalInv'
  <2>1. CASE journal # None
    <3>1. journal.source \in Commits /\ Made(journal.source) /\ FoundFor(journal)
      BY <2>1, TransactionParts DEF JournalInv, TypeOK
    <3>2. FoundFor(journal)' /\ Made(journal.source)'
      BY <1>2, <3>1 DEF FoundFor
    <3>3. Unsent'
      BY <1>2, <1>4, <3>1 DEF JournalInv, Unsent
    <3> QED BY <3>2, <3>3 DEF JournalInv
  <2>2. CASE journal = None
    BY <2>2 DEF JournalInv, Unsent
  <2> QED BY <2>1, <2>2
<1> QED BY <1>4, <1>6, <1>7

\* What a step of someone else leaves as it was, for the run.
LEMMA RunKept ==
    ASSUME TypeOK, RunInv, Histories, UNCHANGED <<pc, locals, journal>>, overtaken \subseteq overtaken',
           \A d \in Commits : Made(d) => Made(d)' /\ log'[d].on = log[d].on,
           \A d, e \in Commits : IsReleaseOf(d, e) /\ Made(e) => IsReleaseOf(d, e)',
           InTransaction => Made(txn.source),
           \A d \in Commits : d \in OutThere' /\ Made(d) => d \in OutThere,
           Made(head),
           head' # head => /\ pc \notin Body \cup {"snapshot"} /\ ~resumable
                           /\ head' \in Changes /\ ~Made(head') /\ head' \notin OutThere'
                           /\ log'[head'].on = log[head].on \cup {head'}
                           /\ pc = "readTarget" => head' \in overtaken'
    PROVE  RunInv'
<1>1. /\ pc # "idle" => plan.source \in Commits
      /\ InTransaction => txn.source \in Commits
      /\ pc \in Restoring \ {"rollback"} => target \in Commits
  BY TransactionParts DEF RunInv, Settings
<1>2. Settings'
  BY DEF RunInv, Settings, InTransaction
<1>3. pc # "idle" => Made(plan.source) /\ Made(plan.source)'
  BY <1>1 DEF RunInv
<1>4. Course'
  <2>1. pc \in {"verify", "snapshot"} /\ resumable => IsReleaseOf(head, plan.source)'
    BY <1>1, <1>3 DEF RunInv, Course, TypeOK
  <2>2. CASE head' = head
    BY <2>1, <2>2 DEF RunInv, Course
  <2>3. CASE head' # head
    <3>1. pc \notin Body \cup {"snapshot"} /\ ~resumable /\ head' \in Changes /\ ~Made(head')
      BY <2>3
    <3>2. pc \notin Tagging \cup {"clear", "readHead"}
      BY <3>1 DEF Tagging, Body
    <3>3. pc # "idle" => head' # plan.source
      BY <1>3, <3>1
    <3> QED BY <3>1, <3>2, <3>3 DEF RunInv, Course
  <2> QED BY <2>2, <2>3
<1>5. InTransaction' => FoundFor(txn)'
  BY <1>1 DEF RunInv, InTransaction, FoundFor
<1>6. Targeted'
  <2>1. ASSUME NEW d \in Commits, NEW e \in Commits, Made(d), Made(e), OnTopOf(d, e) PROVE OnTopOf(d, e)'
    <3>1. log'[d].on = log[d].on /\ log'[e].on = log[e].on
      BY <2>1
    <3>2. \A x \in log[d].on : x \in Commits /\ Made(x)
      BY DEF TypeOK, Histories
    <3> QED BY <2>1, <3>1, <3>2 DEF OnTopOf
  <2>2. CASE pc \in Restoring \ {"rollback"}
    <3>1. /\ target \in Commits /\ txn.source \in Commits /\ Made(target) /\ Made(txn.source)
          /\ OnTopOf(target, txn.source) /\ (pc = "readTarget" => OnTopOf(head, target))
      BY <1>1, <2>2 DEF RunInv, Targeted, InTransaction
    <3>2. Made(target)' /\ OnTopOf(target, txn.source)'
      BY <2>1, <3>1
    <3>3. ASSUME pc = "readTarget" PROVE OnTopOf(head, target)'
      <4>1. head \in Commits /\ OnTopOf(head, target)
        BY <3>1, <3>3 DEF TypeOK
      <4>2. CASE head' = head
        BY <2>1, <3>1, <4>1, <4>2 DEF OnTopOf
      <4>3. CASE head' # head
        <5>1. log'[head].on = log[head].on /\ log'[target].on = log[target].on
          BY <3>1, <4>1
        <5>2. /\ log[target].on \subseteq log[head].on
              /\ \A x \in log[head].on \ log[target].on : x \notin OutThere' /\ x \in Releases \cup overtaken'
          <6>1. \A x \in log[head].on : x \in Commits /\ Made(x)
            BY <4>1 DEF TypeOK, Histories
          <6> QED BY <4>1, <6>1 DEF OnTopOf
        <5>3. head' \notin OutThere' /\ head' \in overtaken' /\ log'[head'].on = log[head].on \cup {head'}
          BY <3>3, <4>3
        <5> QED BY <5>1, <5>2, <5>3 DEF OnTopOf
      <4> QED BY <4>2, <4>3
    <3> QED BY <3>2, <3>3 DEF Targeted
  <2>3. CASE pc \notin Restoring \ {"rollback"}
    BY <2>3 DEF Targeted
  <2> QED BY <2>2, <2>3
<1> QED BY <1>2, <1>3, <1>4, <1>5, <1>6 DEF RunInv

\* A commit of the run itself, on top of its source.
CommittedRun ==
    /\ txn \in Transactions /\ journal \in Transactions
    /\ txn.source = journal.source /\ txn.phase = journal.phase /\ Made(txn.source) /\ FoundFor(txn)
LEMMA OnTop ==
    ASSUME TypeOK, RunInv, CommittedRun, UNCHANGED <<journal, locals>>,
           pc \in Body, pc' \in Body, txn.phase \notin External, ~resuming,
           \A d \in Commits : Made(d) => Made(d)',
           \A d, e \in Commits : IsReleaseOf(d, e) /\ Made(e) => IsReleaseOf(d, e)',
           pc' \notin Tagging \cup {"clear", "push", "pushed"}, pc' = "readHead" => head' # txn.source
    PROVE  RunInv'
<1>1. pc' \notin Restoring \cup Early \cup {"idle"} /\ pc # "idle"
  BY Labels DEF Body, Restoring, Early
<1>2. Settings' /\ Targeted'
  BY <1>1 DEF RunInv, Settings, Targeted, CommittedRun
<1>3. Course'
  BY <1>1 DEF Course, Early
<1>4. plan.source \in Commits /\ Made(plan.source)
  BY <1>1 DEF RunInv, Settings
<1>5. FoundFor(txn)'
  BY TransactionParts DEF CommittedRun, FoundFor
<1> QED BY <1>2, <1>3, <1>4, <1>5 DEF RunInv

\* The run's own commits: a hook's, and the release.
LEMMA HooksMove ==
    ASSUME TypeOK, PlaceInv, JournalInv, RunInv, RunHooks PROVE PlaceInv' /\ JournalInv' /\ RunInv'
<1>1. /\ pc \in {"beforeHooks", "afterHooks"} /\ pc' \in {"update", "committing"}
      /\ UNCHANGED <<journal, locals, undone, overtaken, attempted, remote, inflight>>
  BY DEF RunHooks
<1>2. txn.phase \notin External /\ ~resuming /\ pc \in Body /\ pc' \in Changing \cap Body
  BY <1>1 DEF RunInv, Course, Changing, Body
<1>3. CASE UNCHANGED <<log, head>>
  <2>1. Still /\ Steady /\ UNCHANGED <<txn, journal>>
    BY <1>1, <1>3 DEF Still, Steady
  <2>2. RunInv'
    BY <1>1, <1>2, <2>1, GoesOn DEF Tagging
  <2> QED BY <2>1, <2>2, PlaceKeeps, JournalKeeps DEF JournalKept
<1>4. ASSUME NEW c \in Changes, Make(c, head, log[head].created), head' = c
      PROVE  PlaceInv' /\ JournalInv' /\ RunInv'
  <2>1. c \in Commits
    BY CommitsIn
  <2>2. PlaceInv' /\ JournalInv'
    BY <1>1, <1>4, <2>1, CommitKeeps
  <2>3. head \in Commits /\ Made(head) /\ Histories
    BY DEF TypeOK, PlaceInv
  <2>4. /\ \A d \in Commits : Made(d) => Made(d)'
        /\ \A d, e \in Commits : IsReleaseOf(d, e) /\ Made(e) => IsReleaseOf(d, e)'
    BY <1>4, <2>1, <2>3, MadeStays
  <2>5. CommittedRun
    BY <1>2, JournalAssumption DEF CommittedRun, RunInv, Settings, InTransaction, JournalInv
  <2> QED BY <1>1, <1>2, <2>2, <2>4, <2>5, OnTop DEF Tagging, Body
<1> QED BY <1>3, <1>4 DEF RunHooks

LEMMA CommitMoves ==
    ASSUME TypeOK, PlaceInv, JournalInv, RunInv, Commit PROVE PlaceInv' /\ JournalInv' /\ RunInv'
<1>1. pc = "commit" /\ UNCHANGED <<journal, undone, overtaken, attempted, remote, inflight>>
  BY DEF Commit
<1>2. txn.phase \notin External /\ ~resuming /\ pc \in Body
  BY <1>1 DEF RunInv, Course, Changing, Body
<1>3. CASE GiveUp /\ UNCHANGED <<log, head, index>>
  <2>1. Still /\ JournalKept
    BY <1>1, <1>3 DEF Still, JournalKept
  <2> QED BY <1>1, <1>3, <2>1, PlaceKeeps, JournalKeeps, GiveUpKeeps
<1>4. ASSUME NEW c \in Releases, Make(c, head, files.created), head' = c, pc' = "readHead", UNCHANGED locals
      PROVE  PlaceInv' /\ JournalInv' /\ RunInv'
  <2>1. c \in Commits
    BY CommitsIn
  <2>2. PlaceInv' /\ JournalInv'
    BY <1>1, <1>4, <2>1, CommitKeeps
  <2>3. head \in Commits /\ Made(head) /\ Histories
    BY DEF TypeOK, PlaceInv
  <2>4. /\ \A d \in Commits : Made(d) => Made(d)' /\ d # c
        /\ \A d, e \in Commits : IsReleaseOf(d, e) /\ Made(e) => IsReleaseOf(d, e)'
    BY <1>4, <2>1, <2>3, MadeStays
  <2>5. CommittedRun
    BY <1>2, JournalAssumption DEF CommittedRun, RunInv, Settings, InTransaction, JournalInv
  <2>6. head' # txn.source
    BY <1>4, <2>4, <2>5, TransactionParts DEF CommittedRun
  <2>7. pc' \in Body /\ pc' # "clear" /\ pc' \notin Tagging \cup {"push", "pushed"}
    BY <1>4 DEF Body, Tagging
  <2> QED BY <1>1, <1>2, <1>4, <2>2, <2>4, <2>5, <2>6, <2>7, OnTop
<1> QED BY <1>1, <1>3, <1>4 DEF Commit

\* A push makes HEAD known, of which nothing was ever taken off the branch.
LEMMA PushSends ==
    ASSUME TypeOK, PlaceInv, JournalInv, RunInv, Push PROVE PlaceInv' /\ JournalInv' /\ RunInv'
<1>1. /\ pc = "push" /\ pc' = "pushed" /\ attempted' = attempted \cup log[head].on
      /\ inflight' = {[p EXCEPT !.late = TRUE] : p \in inflight}
                        \cup {[commit |-> head, tags |-> tags, late |-> FALSE]}
      /\ UNCHANGED <<log, head, journal, locals, remote, undone, overtaken>>
  BY DEF Push
<1>2. \A q \in inflight' : q.commit = head \/ \E p \in inflight : q.commit = p.commit
  <2>1. \A p \in inflight : [p EXCEPT !.late = TRUE].commit = p.commit
    BY DEF TypeOK
  <2>2. ASSUME NEW q \in inflight' PROVE q.commit = head \/ \E p \in inflight : q.commit = p.commit
    <3>1. CASE q = [commit |-> head, tags |-> tags, late |-> FALSE]
      BY <3>1
    <3>2. CASE \E p \in inflight : q = [p EXCEPT !.late = TRUE]
      BY <2>1, <3>2
    <3> QED BY <1>1, <3>1, <3>2
  <2> QED BY <2>2
<1>3. PlaceInv'
  <2>1. head \in Commits /\ \A d \in log[head].on : Made(d)
    BY DEF TypeOK, PlaceInv, Histories
  <2>2. Gone'
    <3>1. \A q \in inflight' : log[q.commit].on \subseteq attempted'
      BY <1>1, <1>2 DEF PlaceInv, Gone
    <3>2. \A c \in undone : c \notin attempted' \cup log[remote.branch].on /\ c \notin log[head].on
      BY <1>1 DEF PlaceInv, Gone, OutThere
    <3> QED BY <1>1, <3>1, <3>2 DEF PlaceInv, Gone, OutThere
  <2> QED BY <1>1, <1>2, <2>1, <2>2 DEF PlaceInv, Histories, Made
<1>4. /\ pc \in Body /\ pc' \in Body /\ pc' \notin Restoring \cup Changing \cup {"idle", "clear"}
      /\ pc \in Tagging /\ pc' \in Tagging
  BY <1>1 DEF Body, Restoring, Changing, Tagging
<1>5. /\ txn \in Transactions /\ journal \in Transactions /\ txn.phase = journal.phase /\ FoundFor(txn)
      /\ txn.phase \in External /\ txn.releaseHead = head
  BY <1>1, <1>4 DEF RunInv, Settings, InTransaction, Course
<1>6. JournalInv'
  BY <1>1, <1>5 DEF JournalInv, Unsent, FoundFor, Made, IsReleaseOf, IsChild
<1>7. RunInv'
  <2>1. Settings' /\ Targeted'
    BY <1>1, <1>4, Labels DEF RunInv, Settings, Targeted, InTransaction
  <2>2. Course'
    BY <1>1, <1>4, <1>5 DEF RunInv, Course
  <2> QED BY <1>1, <1>4, <1>5, <2>1, <2>2, Labels DEF RunInv, FoundFor, Made, IsReleaseOf, IsChild
<1> QED BY <1>3, <1>6, <1>7

\* What origin receives was sent before.
LEMMA ReceiveKeeps ==
    ASSUME TypeOK, PlaceInv, JournalInv, RunInv, NEW p \in inflight, Receive(p)
    PROVE  PlaceInv' /\ JournalInv' /\ RunInv'
<1>1. /\ inflight' = inflight \ {p} /\ remote'.branch \in {remote.branch, p.commit}
      /\ UNCHANGED <<log, head, journal, pc, options, plan, txn, target, undone, overtaken, attempted>>
  BY DEF Receive
<1>2. \A c : c \in OutThere' => c \in OutThere
  BY <1>1 DEF OutThere, PlaceInv, Gone
<1>3. PlaceInv'
  BY <1>1, <1>2 DEF PlaceInv, Gone, Histories, Made
<1>4. JournalInv'
  BY <1>1, <1>2 DEF JournalInv, Unsent, FoundFor, Made, IsReleaseOf, IsChild
<1>5. RunInv'
  <2>1. Targeted'
    BY <1>1, <1>2 DEF RunInv, Targeted, OnTopOf, Made
  <2> QED BY <1>1, <2>1 DEF RunInv, Settings, Course, InTransaction, FoundFor, Made, IsReleaseOf, IsChild
<1> QED BY <1>3, <1>4, <1>5

\* A rollback takes the release commit off the branch, and nothing else.
LEMMA ResetRefKeeps ==
    ASSUME TypeOK, PlaceInv, JournalInv, RunInv, ResetRef PROVE PlaceInv' /\ JournalInv' /\ RunInv'
<1>1. pc = "resetRef" /\ pc \in Restoring \ {"rollback"} /\ UNCHANGED <<log, journal, overtaken, attempted, remote, inflight>>
  BY DEF ResetRef, Restoring
<1>2. /\ txn \in Transactions /\ journal \in Transactions /\ journal # None
      /\ txn.source = journal.source /\ txn.phase = journal.phase /\ FoundFor(txn)
      /\ txn.phase \notin External /\ ~resuming /\ txn.source \in Commits /\ Made(txn.source)
      /\ Made(target) /\ OnTopOf(target, txn.source)
  BY <1>1, JournalAssumption, TransactionParts DEF RunInv, Settings, InTransaction, Course, Targeted, JournalInv
<1>3. CASE Return /\ UNCHANGED <<head, undone>>
  <2>1. Still /\ JournalKept
    BY <1>1, <1>3 DEF Still, JournalKept
  <2> QED BY <1>3, <2>1, PlaceKeeps, JournalKeeps, ReturnKeeps
<1>4. ASSUME pc' = "restoreIndex", UNCHANGED locals, \A d \in OutThere' : d \in OutThere PROVE RunInv'
  <2>1. /\ pc' \in Restoring \ {"rollback"}
        /\ pc' \notin Body \cup Changing \cup Tagging \cup Early \cup {"clear", "push", "pushed"}
    BY <1>4 DEF Restoring, Body, Changing, Tagging, Early
  <2>2. Settings'
    BY <1>1, <1>2, <1>4, <2>1 DEF RunInv, Settings, InTransaction, Restoring, Early
  <2>3. Course'
    BY <1>2, <1>4, <2>1 DEF Course, Early
  <2>4. Targeted'
    BY <1>1, <1>2, <1>4 DEF Targeted, OnTopOf, Made
  <2> QED BY <1>1, <1>2, <1>4, <2>2, <2>3, <2>4, Labels DEF RunInv, FoundFor, Made, IsReleaseOf, IsChild
<1>5. CASE pc' = "restoreIndex" /\ UNCHANGED <<head, undone, locals>>
  <2>1. Still /\ JournalKept
    BY <1>1, <1>5 DEF Still, JournalKept
  <2> QED BY <1>4, <1>5, <2>1, PlaceKeeps, JournalKeeps
<1>6. CASE /\ target # txn.source /\ head = target /\ head' = txn.source /\ undone' = undone \cup OffBranch
           /\ pc' = "restoreIndex" /\ UNCHANGED locals
  <2>1. /\ log[txn.source].on \subseteq log[head].on /\ OffBranch = log[head].on \ log[txn.source].on
        /\ \A d \in OffBranch : d \notin OutThere /\ d \in Releases \cup overtaken
    BY <1>2, <1>6 DEF OffBranch, OnTopOf
  <2>2. \A d \in OffBranch : Made(d)
    <3>1. head \in Commits
      BY DEF TypeOK
    <3> QED BY <2>1, <3>1 DEF PlaceInv, Histories
  <2>3. OutThere' = OutThere
    BY <1>1 DEF OutThere
  <2>4. Gone'
    BY <1>1, <1>6, <2>1, <2>3 DEF Gone, PlaceInv
  <2>5. PlaceInv'
    BY <1>1, <1>2, <1>6, <2>2, <2>4 DEF PlaceInv, Histories, Made
  <2>6. JournalInv'
    BY <1>1, <1>2, <1>6, <2>3 DEF JournalInv, Unsent, FoundFor, Made, IsReleaseOf, IsChild
  <2> QED BY <1>4, <1>6, <2>3, <2>5, <2>6
<1> QED BY <1>3, <1>5, <1>6 DEF ResetRef

\* Someone commits in the checkout.
LEMMA CommitChangeMoves ==
    ASSUME TypeOK, PlaceInv, JournalInv, RunInv, CommitChange PROVE PlaceInv' /\ JournalInv' /\ RunInv'
<1>1. PICK c \in Changes : /\ Make(c, head, log[head].created) /\ head' = c
                           /\ pc = "readTarget" => c \in overtaken'
  BY DEF CommitChange
<1>2. /\ ~resumable /\ pc \notin Body \cup {"snapshot"}
      /\ UNCHANGED <<journal, pc, locals, undone, attempted, remote, inflight>>
      /\ overtaken \subseteq overtaken'
  BY DEF CommitChange, OtherThanCheckout
<1>3. c \in Commits /\ head \in Commits /\ Made(head) /\ Histories
  BY CommitsIn DEF TypeOK, PlaceInv
<1>4. PlaceInv' /\ JournalInv' /\ \A d \in Commits : d \in OutThere' <=> d \in OutThere
  BY <1>1, <1>2, <1>3, CommitKeeps
<1>5. /\ \A d \in Commits : Made(d) => Made(d)' /\ d # c /\ log'[d].on = log[d].on
      /\ \A d, e \in Commits : IsReleaseOf(d, e) /\ Made(e) => IsReleaseOf(d, e)'
      /\ \A d \in Commits : c \notin log[d].on
      /\ log'[c].on = log[head].on \cup {c}
  BY <1>1, <1>3, MadeStays
<1>6. head' \in Changes /\ ~Made(head') /\ log'[head'].on = log[head].on \cup {head'}
  BY <1>1, <1>3, <1>5
<1>8. head' \notin OutThere'
  <2>1. remote.branch \in Commits /\ \A d \in attempted : Made(d) /\ d \in Commits
    BY DEF TypeOK, PlaceInv
  <2>2. c \notin OutThere
    BY <1>3, <1>5, <2>1 DEF OutThere
  <2> QED BY <1>1, <1>3, <1>4, <2>2
<1>7. InTransaction => Made(txn.source)
  BY JournalAssumption DEF RunInv, Settings, JournalInv
<1> QED BY <1>1, <1>2, <1>3, <1>4, <1>5, <1>6, <1>7, <1>8, RunKept

\* Someone makes a commit on origin's branch.
LEMMA OriginGrows ==
    ASSUME TypeOK, PlaceInv, JournalInv, RunInv, PushChange \/ MergeRelease
    PROVE  PlaceInv' /\ JournalInv' /\ RunInv'
<1>1. UNCHANGED <<head, journal, pc, locals, undone, overtaken, attempted, inflight>>
  BY DEF PushChange, MergeRelease, OtherThanOrigin
<1>2. \E c \in Commits, x \in BOOLEAN : Make(c, remote.branch, x) /\ remote' = [remote EXCEPT !.branch = c]
  <2>1. log[remote.branch].created \in BOOLEAN
    BY DEF TypeOK
  <2> QED BY <2>1, CommitsIn DEF PushChange, MergeRelease
<1>3. PICK c \in Commits, x \in BOOLEAN : Make(c, remote.branch, x) /\ remote' = [remote EXCEPT !.branch = c]
  BY <1>2
<1>4. remote'.branch = c /\ remote.branch \in Commits /\ Made(remote.branch) /\ Histories
  BY <1>3 DEF TypeOK, PlaceInv
<1>5. /\ \A d \in Commits : Made(d) => Made(d)' /\ d # c /\ log'[d].on = log[d].on
      /\ \A d, e \in Commits : IsReleaseOf(d, e) /\ Made(e) => IsReleaseOf(d, e)'
      /\ \A d \in Commits : c \notin log[d].on
      /\ log'[c].on = log[remote.branch].on \cup {c} /\ Made(c)'
      /\ Histories'
  BY <1>3, <1>4, MadeStays
<1>6. /\ head \in Commits /\ Made(head) /\ undone \subseteq Commits /\ attempted \subseteq Commits
      /\ \A p \in inflight : p.commit \in Commits /\ Made(p.commit)
      /\ \A d \in undone \cup attempted : Made(d)
  BY DEF TypeOK, PlaceInv
<1>7. \A d \in Commits : d \in OutThere' /\ d # c => d \in OutThere
  BY <1>1, <1>4, <1>5 DEF OutThere
<1>8. Gone'
  BY <1>1, <1>5, <1>6, <1>7 DEF Gone, PlaceInv
<1>9. PlaceInv'
  BY <1>1, <1>4, <1>5, <1>6, <1>8 DEF PlaceInv
<1>10. JournalInv'
  <2>1. CASE journal # None
    <3>1. journal.source \in Commits /\ Made(journal.source) /\ FoundFor(journal)
      BY <2>1, TransactionParts DEF JournalInv, TypeOK
    <3>2. \A d \in log[head].on : d \in Commits /\ d # c
      BY <1>5, <1>6 DEF TypeOK
    <3>3. Unsent'
      BY <1>1, <1>5, <1>6, <1>7, <3>1, <3>2 DEF JournalInv, Unsent
    <3> QED BY <1>1, <1>5, <3>1, <3>3 DEF JournalInv, FoundFor
  <2>2. CASE journal = None
    BY <1>1, <2>2 DEF JournalInv, Unsent
  <2> QED BY <2>1, <2>2
<1>11. InTransaction => Made(txn.source)
  BY JournalAssumption DEF RunInv, Settings, JournalInv
<1>12. RunInv'
  BY <1>1, <1>4, <1>5, <1>6, <1>7, <1>11, RunKept
<1> QED BY <1>9, <1>10, <1>12

\* Between two runs someone moves HEAD, to an earlier commit or to what origin has.
LEMMA HeadMoves ==
    ASSUME TypeOK, PlaceInv, JournalInv, RunInv, Reset \/ Pull \/ Clone
    PROVE  PlaceInv' /\ JournalInv' /\ RunInv'
<1>1. /\ pc = "idle" /\ pc' = "idle" /\ resuming' = resuming
      /\ UNCHANGED <<log, undone, overtaken, attempted, remote, inflight>>
  BY DEF Reset, Pull, Clone, Idle, OtherThanCheckout
<1>2. RunInv'
  <2>1. ~resuming
    BY <1>1, Labels DEF RunInv, Course
  <2> QED BY <1>1, <2>1, Labels DEF RunInv, Settings, Course, Targeted, InTransaction, Body, Restoring,
             Changing, Tagging
<1>3. OutThere' = OutThere
  BY <1>1 DEF OutThere
<1>4. head' \in log[head].on \/ head' = remote.branch
  BY DEF Reset, Pull, Clone, CheckOut
<1>5. PlaceInv'
  <2>1. head \in Commits /\ remote.branch \in Commits
    BY DEF TypeOK
  <2>2. Made(head') /\ (log[head'].on \subseteq log[head].on \/ log[head'].on \subseteq OutThere)
    BY <1>4, <2>1 DEF PlaceInv, Histories, OutThere
  <2>3. Gone'
    BY <1>1, <1>3, <2>2 DEF PlaceInv, Gone
  <2> QED BY <1>1, <2>2, <2>3 DEF PlaceInv, Histories, Made
<1>6. JournalInv'
  <2>1. CASE Clone
    BY <2>1 DEF Clone, JournalInv, Unsent
  <2>2. CASE Pull
    <3>1. journal' = journal /\ (journal # None => journal.phase \in External)
      BY <2>2 DEF Pull, OtherThanCheckout
    <3> QED BY <1>1, <3>1 DEF JournalInv, Unsent, FoundFor, Made, IsReleaseOf, IsChild
  <2>3. CASE Reset
    <3>1. journal' = journal /\ head' \in log[head].on /\ head \in Commits
      BY <2>3 DEF Reset, CheckOut, OtherThanCheckout, TypeOK
    <3>2. log[head'].on \subseteq log[head].on
      BY <3>1 DEF PlaceInv, Histories
    <3> QED BY <1>1, <1>3, <3>1, <3>2 DEF JournalInv, Unsent, FoundFor, Made, IsReleaseOf, IsChild
  <2> QED BY <2>1, <2>2, <2>3
<1> QED BY <1>2, <1>5, <1>6

-------------------------------------------------------------------------------
(* The theorems. *)

LEMMA InitHolds == Init => IInv
<1> SUFFICES ASSUME Init PROVE IInv
  OBVIOUS
<1>1. Root \in Commits /\ Elsewhere \in Commits /\ Root # Elsewhere
  BY CommitsIn, CommitsAssumption
<1>2. log \in [Commits -> [on : SUBSET Commits, created : BOOLEAN]]
  <2>1. \A c \in Commits : (IF c \in {Root, Elsewhere} THEN {Root, c} ELSE {}) \in SUBSET Commits
    BY <1>1
  <2> QED BY <2>1 DEF Init
<1>3. OuterTypes
  BY <1>1, <1>2 DEF Init, OuterTypes, Refs, NoTags, Trees
<1>4. RunTypes
  BY Labels, Zenon DEF Init, RunTypes
<1>5. Bounds
  BY BoundsAssumption DEF Init, Bounds
<1>6. \A c \in Commits : log[c].on = IF c \in {Root, Elsewhere} THEN {Root, c} ELSE {}
  BY DEF Init
<1>7. Histories
  BY <1>1, <1>6 DEF Histories, Made
<1>8. PlaceInv
  BY <1>1, <1>6, <1>7 DEF Init, PlaceInv, Gone, OutThere, Made
<1>9. JournalInv
  BY DEF Init, JournalInv, Unsent
<1>10. RunInv
  BY Labels DEF Init, RunInv, Settings, Course, Targeted, InTransaction, Body, Restoring, Changing, Tagging
<1> QED BY <1>3, <1>4, <1>5, <1>8, <1>9, <1>10, TypeParts, InvParts

LEMMA StepHolds == IInv /\ [Next]_vars => IInv'
<1> SUFFICES ASSUME IInv, [Next]_vars PROVE IInv'
  OBVIOUS
<1>1. TypeOK /\ PlaceInv /\ JournalInv /\ RunInv
  BY InvParts
<1>2. TypeOK'
  BY TypeStep
<1>3. TypeOK' /\ PlaceInv' /\ JournalInv' /\ RunInv' => IInv'
  BY InvParts, PTL
<1>4. ASSUME Still, JournalKept, RunInv' PROVE IInv'
  BY <1>1, <1>2, <1>3, <1>4, PlaceKeeps, JournalKeeps
<1>5. ASSUME Still, JournalInv', RunInv' PROVE IInv'
  BY <1>1, <1>2, <1>3, <1>5, PlaceKeeps
<1>6. CASE UNCHANGED vars
  <2>1. Still /\ JournalKept /\ UNCHANGED <<pc, locals, journal>>
    BY <1>6 DEF vars, Still, JournalKept
  <2>2. RunInv'
    BY <1>1, <2>1, PlaceKeeps, RunStays
  <2> QED BY <1>4, <2>1, <2>2
<1>7. CASE Start \/ Execute
  BY <1>1, <1>2, <1>3, <1>4, <1>5, <1>7, StartsStill, SnapshotStill, ChangesStill, PublicationStill,
     RollbackStill, HooksMove, CommitMoves, PushSends, ResetRefKeeps DEF Execute
<1>8. CASE Faulty
  BY <1>1, <1>5, <1>8, FaultStill DEF Faulty
<1>9. CASE Arrive
  BY <1>1, <1>2, <1>3, <1>9, ReceiveKeeps DEF Arrive
<1>10. CASE Intervene
  BY <1>1, <1>2, <1>3, <1>5, <1>10, TagsStill, CommitChangeMoves, OriginGrows, HeadMoves DEF Intervene
<1> QED BY <1>6, <1>7, <1>8, <1>9, <1>10 DEF Next

LEMMA InvHolds == Spec => []IInv
BY InitHolds, StepHolds, PTL DEF Spec

\* The types of the variables of a release, whatever fails and whoever else works on
\* the checkout and on origin.
THEOREM TypeCorrect == Spec => []TypeOK
<1>1. IInv => TypeOK
  BY DEF IInv
<1> QED BY <1>1, InvHolds, PTL

\* A rollback takes no commit off the branch that a push has sent, whatever origin
\* answered and whenever the push arrives: the journal is external before the first
\* push.  Nor does it take one that a hook or someone else made, but for commits made
\* between its check of HEAD and its second reading, which is not checked
\* (transaction.go:319, :322) and with which update-ref compares HEAD.
THEOREM RollbackIsSafe == Spec => []RollbackSpares
<1>1. IInv => RollbackSpares
  BY CommitsAssumption DEF IInv, Gone, OutThere, RollbackSpares, SentNeverUndone, OthersCommitsKept
<1> QED BY <1>1, InvHolds, PTL
-------------------------------------------------------------------------------
\* What others see of the release: a second inductive invariant, on top of IInv.

AllTags(refs)  == \A t \in Tags : refs[t] # None
AllAt(refs, c) == \A t \in Tags : refs[t] = c

\* A history that goes on after a release.
Past(c) == \E d \in log[c].on \ Releases : Released(d)

\* Origin and GitHub: no history has two releases, a push is whole, nobody goes on
\* after a release without its tags, and what was reported is there.
OneEach == \A c \in Commits : \A r, s \in log[c].on \cap Releases : r = s
Whole   ==
    /\ \A p \in inflight : p.commit \in Releases /\ AllAt(p.tags, p.commit)
    /\ \A t \in Tags : remote.tags[t] \in Releases \cup {Elsewhere, None}
Reported ==
    /\ \A c \in done.push \cup done.github : c \in Releases /\ AllAt(remote.tags, c)
    /\ done.github # {} => AllTags(github)
Outside ==
    /\ OneEach /\ Whole /\ Reported
    /\ Past(remote.branch) => AllTags(remote.tags)
    /\ PublishedTogether /\ GitHubFollowsTags

\* The same of the checkout, where a rollback restores the tags of the journal.
TagsKept ==
    /\ journal = None /\ Past(head) => AllTags(tags)
    /\ journal # None =>
          /\ \A t \in Tags : journal.tags[t] # None => tags[t] # None
          /\ journal.phase \in External => journal.release
          /\ journal.phase \notin External /\ Released(journal.source) => AllTags(journal.tags)

\* The run works on the journal's release, and makes a release commit only on a
\* history that has none.
Working ==
    /\ InTransaction => txn.release = journal.release /\ txn.tags = journal.tags
    /\ pc \in Body \/ resuming => plan.source = txn.source /\ plan.release = txn.release
    /\ pc \in {"derive", "verify", "snapshot"} /\ ~resuming => journal = None
Gated ==
    /\ pc = "verify" /\ ~resuming /\ head = plan.source => head \notin Releases
    /\ pc = "snapshot" /\ ~resumable => head \notin Releases /\ (plan.release => ~Released(head))
    /\ pc \in {"verify", "snapshot"} \cup Body /\ resumable => TagsAgree /\ plan.release
Ahead ==
    /\ pc \in {"clear", "writeEmpty", "finishEmpty"} /\ txn.phase \notin External => head = txn.source
    /\ pc = "clear" /\ txn.phase \notin External /\ plan.release => ~Released(txn.source)
    /\ pc \in {"writeEmpty", "finishEmpty"} => ~plan.release
    /\ pc \in Changing => plan.release /\ ~resumable /\ ~Released(txn.source)
    /\ pc \in {"add", "commit"} => head = txn.source
    /\ pc \in Tagging => plan.release
Back ==
    pc \in Restoring \ {"rollback"} /\ (target = txn.source \/ pc \in {"restoreIndex", "forget"}) =>
        (Released(head) => Released(txn.source))
Planned == Working /\ Gated /\ Ahead /\ Back

\* What the checkout, origin and GitHub have of HEAD when the run has got so far.
AtOrigin == AllAt(remote.tags, head)
Tail     == {"write", "published", "afterRelease", "finish"}
Reached ==
    /\ pc = "tag" => \A t \in Tags \ pending : tags[t] = head
    /\ pc \in Tagging \ {"tag"} => AllAt(tags, head)
    /\ pc = "pushed" => \A p \in inflight : p.late \/ p.commit = head
    /\ accepted => AtOrigin /\ pc \in Tagging /\ txn.phase \in External
    /\ pc \in {"remoteTags"} \cup Tail /\ mode.push => AtOrigin
    /\ pc \in {"publishing", "publish"} => AtOrigin /\ mode.github
    /\ pc \in Tail /\ mode.github => AtOrigin /\ AllTags(github)
    /\ pc = "publish" => \A t \in Tags \ pending : github[t] # None

RInv == Outside /\ TagsKept /\ Planned /\ Reached

USE DEF AllTags, AllAt

\* A history with a release goes on after it, or ends with it.
LEMMA ReleasedOrPast == ASSUME IInv, Released(head), head \notin Releases PROVE Past(head)
BY DEF IInv, Known, Made, Past

LEMMA PastReleased == ASSUME IInv, NEW c \in Commits, Past(c) PROVE Released(c)
BY DEF IInv, Histories, Past, Released

\* What a run has between its steps.
LEMMA RunFacts ==
    ASSUME IInv
    PROVE  /\ pc # "idle" => /\ mode \in Modes /\ plan \in [source : Commits, release : BOOLEAN]
                             /\ plan.source \in Commits /\ Made(plan.source)
           /\ InTransaction =>
                 /\ txn \in Transactions /\ journal \in Transactions /\ journal # None
                 /\ txn.source = journal.source /\ txn.phase = journal.phase /\ FoundFor(txn)
                 /\ txn.source \in Commits /\ Made(txn.source) /\ txn.tags \in Refs
           /\ pc \in Tagging => head \in Releases /\ txn.releaseHead = head /\ InTransaction
<1>1. /\ pc # "idle" => /\ mode \in Modes /\ plan \in [source : Commits, release : BOOLEAN]
                        /\ plan.source \in Commits /\ Made(plan.source)
      /\ InTransaction =>
            /\ txn \in Transactions /\ journal \in Transactions /\ journal # None
            /\ txn.source = journal.source /\ txn.phase = journal.phase /\ FoundFor(txn)
            /\ txn.source \in Commits /\ Made(txn.source) /\ txn.tags \in Refs
  BY JournalAssumption, TransactionParts DEF IInv, Settings, Known, Found
<1>2. pc \in Tagging => InTransaction /\ txn.releaseHead = head
  BY DEF IInv, Course, InTransaction, Tagging, Body
<1>3. head \in Commits /\ head # None
  BY CommitsAssumption DEF IInv, TypeOK
<1> QED BY <1>1, <1>2, <1>3 DEF FoundFor, IsReleaseOf

LEMMA NotAccepted == ASSUME Reached, pc \notin Tagging PROVE ~accepted
BY DEF Reached

\* Steps that do not touch what others see.
LEMMA OutsideStays ==
    ASSUME Outside, UNCHANGED <<log, remote, github, done>>, inflight' \subseteq inflight PROVE Outside'
BY DEF Outside, OneEach, Whole, Reported, Past, Released, PublishedTogether, GitHubFollowsTags

LEMMA SameCommits ==
    ASSUME UNCHANGED log
    PROVE  \A c : (Released(c)' <=> Released(c)) /\ (Past(c)' <=> Past(c))
BY DEF Released, Past

\* No tag goes.
TagsStay == \A t \in Tags : tags[t] # None => tags'[t] # None

LEMMA TagsStayKept == ASSUME TagsKept, UNCHANGED <<log, head, journal>>, TagsStay PROVE TagsKept'
BY SameCommits DEF TagsKept, TagsStay

\* The transaction stays as it is, or is saved with another phase.
Keeps ==
    \/ UNCHANGED <<txn, journal>>
    \/ /\ txn' \in Transactions /\ journal' = txn'
       /\ txn'.source = txn.source /\ txn'.release = txn.release /\ txn'.tags = txn.tags
       /\ txn'.phase \in External \/ txn.phase \notin External
       /\ txn'.phase \in External => txn.release

LEMMA KeepsTags ==
    ASSUME IInv, RInv, pc \in Body, Keeps, TagsStay,
           \A c \in Commits : Made(c) => (Released(c)' <=> Released(c))
    PROVE  TagsKept'
<1>1. InTransaction
  BY DEF InTransaction
<1>2. /\ journal # None /\ journal' # None /\ journal'.source = journal.source /\ journal'.tags = journal.tags
      /\ journal'.phase \in External \/ journal.phase \notin External
      /\ journal'.phase \in External => journal'.release
  BY <1>1, RunFacts, JournalAssumption DEF Keeps, RInv, Planned, Working, TagsKept
<1>3. journal.source \in Commits /\ Made(journal.source)
  BY <1>1, RunFacts
<1>4. Released(journal.source)' <=> Released(journal.source)
  BY <1>2, <1>3
<1> QED BY <1>2, <1>4 DEF RInv, TagsKept, TagsStay

\* What is claimed only of some places.
LEMMA NotTagging == ASSUME pc' \notin Tagging, ~accepted' PROVE Reached'
BY DEF Reached, Tagging, Tail

LEMMA NotAhead ==
    ASSUME pc' \notin Changing \cup Tagging \cup {"clear", "writeEmpty", "finishEmpty"} PROVE Ahead'
BY DEF Ahead, Changing

LEMMA NotBack == ASSUME pc' \notin Restoring \ {"rollback"} PROVE Back'
BY DEF Back

LEMMA NotGated == ASSUME pc' \notin {"verify", "snapshot"} \cup Body PROVE Gated'
BY DEF Gated

LEMMA NotWorking ==
    ASSUME pc' \notin Body \cup Restoring \cup {"recover", "derive", "verify", "snapshot"}, ~resuming'
    PROVE  Working'
BY DEF Working, InTransaction

LEMMA InBody == ASSUME pc' \in Body PROVE pc' # "idle" /\ pc' \notin Early \cup Restoring
BY DEF Body, Early, Restoring

LEMMA BodyLabels == /\ Changing \subseteq Body /\ Tagging \subseteq Body /\ Changing \cap Tagging = {}
                    /\ {"clear", "writeEmpty", "finishEmpty"} \subseteq Body \ (Changing \cup Tagging)
BY DEF Changing, Tagging, Body

\* The end of a run, and the beginning of a rollback.
LEMMA ReturnDone == ASSUME Return PROVE Planned' /\ Reached'
<1>1. pc' = "idle" /\ ~resuming' /\ ~accepted'
  BY DEF Return
<1>2. pc' \notin Body \cup Restoring \cup Early /\ pc' \notin Changing \cup Tagging
  BY <1>1, Labels, BodyLabels
<1> QED BY <1>1, <1>2, NotTagging, NotAhead, NotBack, NotGated, NotWorking DEF Planned, Early

LEMMA GiveUpDone ==
    ASSUME IInv, RInv, GiveUp, UNCHANGED journal PROVE Planned' /\ Reached'
<1>1. CASE Return
  BY <1>1, ReturnDone
<1>2. CASE ~Return
  <2>1. /\ pc \in Body /\ txn.phase \notin External /\ pc' = "rollback"
        /\ UNCHANGED <<mode, resuming, resumable, plan, txn, target, accepted, pending, journal>>
    BY <1>2 DEF GiveUp
  <2>2. ~accepted /\ InTransaction /\ ~resuming
    BY <2>1 DEF RInv, Reached, InTransaction, IInv, Course
  <2>3. pc' \in Restoring /\ pc' \notin Body \cup Early /\ pc' \notin Changing \cup Tagging
    BY <2>1, BodyLabels DEF Restoring, Body, Early
  <2>4. Working'
    BY <2>1, <2>2, <2>3 DEF RInv, Planned, Working, Early
  <2>5. Reached' /\ Gated' /\ Ahead' /\ Back'
    BY <2>1, <2>2, <2>3, BodyLabels, NotTagging, NotAhead, NotBack, NotGated DEF Early
  <2> QED BY <2>4, <2>5 DEF Planned
<1> QED BY <1>1, <1>2

-------------------------------------------------------------------------------
\* The start of a run.

LEMMA StartsPlanned ==
    ASSUME IInv, RInv, Start \/ Load \/ Resume \/ RecoverLocally \/ Derive \/ Verify
    PROVE  RInv'
<1>1. UNCHANGED <<log, head, tags, journal, remote, inflight, github, done>> /\ pc \notin Tagging
  BY DEF Start, Load, Resume, RecoverLocally, Derive, Verify, Unaffected, Tagging
<1>2. Outside' /\ TagsKept'
  BY <1>1, OutsideStays, TagsStayKept DEF RInv, TagsStay
<1>3. ~accepted
  BY <1>1, NotAccepted DEF RInv
<1>4. CASE Return
  BY <1>2, <1>4, ReturnDone DEF RInv
<1>5. ASSUME ~Return PROVE Planned' /\ Reached'
  <2>1. pc' \in {"load", "derive", "recover", "rollback", "verify", "snapshot", "clear"} /\ accepted' = accepted
    BY <1>5 DEF Start, Load, Resume, RecoverLocally, Derive, Verify
  <2>2. Reached'
    BY <1>3, <2>1, NotTagging DEF Tagging
  <2>3. /\ pc' \notin Restoring \ {"rollback"} /\ pc' \notin Changing \cup Tagging \cup {"writeEmpty", "finishEmpty"}
        /\ pc' # "clear" => pc' \notin Body
    BY <2>1 DEF Changing, Tagging, Restoring, Body
  <2>12. Back' /\ (pc' # "clear" => Ahead')
    BY <2>3, NotBack, NotAhead
  <2>4. \A c : Released(c)' <=> Released(c)
    BY <1>1, SameCommits
  <2>5. resuming => pc \in {"derive", "verify"} \cup Body /\ txn.phase \in External
    BY DEF IInv, Course
  <2>6. CASE Start
    <3>1. ~resuming' /\ pc' = "load"
      BY <2>5, <2>6, Labels DEF Start, Body
    <3>2. Working' /\ Gated'
      BY <3>1, Labels, NotWorking, NotGated DEF Body, Restoring
    <3> QED BY <2>2, <2>12, <3>1, <3>2 DEF Planned
  <2>7. CASE Load
    <3>1. ~resuming' /\ txn' = journal /\ journal' = journal /\ pc' \in {"derive", "recover"}
          /\ (pc' = "derive" => journal = None)
      BY <1>1, <2>5, <2>7 DEF Load, Body
    <3>2. Working'
      BY <2>3, <3>1 DEF Working
    <3>3. Gated'
      BY <2>3, <3>1, NotGated
    <3> QED BY <2>2, <2>12, <3>1, <3>2, <3>3 DEF Planned
  <2>8. CASE Resume
    <3>1. /\ pc = "recover" /\ pc' = "derive" /\ resuming' /\ txn' = [txn EXCEPT !.releaseHead = head]
          /\ plan' = [source |-> txn.source, release |-> txn.release]
      BY <1>5, <2>8 DEF Resume
    <3>2. txn \in Transactions /\ head \in Commits
      BY <3>1, RunFacts DEF InTransaction, IInv, TypeOK
    <3>3. txn'.source = txn.source /\ txn'.release = txn.release /\ txn'.tags = txn.tags
      BY <3>1, <3>2, ReleaseHeadSet
    <3>4. plan'.source = txn'.source /\ plan'.release = txn'.release
      BY <3>1, <3>3
    <3>5. txn.release = journal.release /\ txn.tags = journal.tags
      BY <3>1 DEF RInv, Planned, Working, InTransaction
    <3>6. Working'
      BY <1>1, <3>1, <3>3, <3>4, <3>5 DEF Working
    <3>7. Gated'
      BY <2>3, <3>1, NotGated
    <3> QED BY <2>2, <2>12, <3>1, <3>6, <3>7 DEF Planned
  <2>9. CASE RecoverLocally
    <3>1. ~resuming' /\ pc = "recover" /\ pc' = "rollback" /\ txn' = txn
      BY <2>5, <2>9 DEF RecoverLocally, Body
    <3>2. Working'
      BY <1>1, <2>3, <3>1 DEF RInv, Planned, Working, InTransaction
    <3>3. Gated'
      BY <2>3, <3>1, NotGated
    <3> QED BY <2>2, <2>12, <3>1, <3>2, <3>3 DEF Planned
  <2>10. CASE Derive
    <3>1. /\ pc = "derive" /\ pc' = "verify" /\ UNCHANGED <<resuming, txn>>
          /\ resumable' = (plan'.release /\ IsReleaseOf(head, plan'.source) /\ TagsAgree)
          /\ resuming => plan' = plan
          /\ ~resuming /\ head \in Releases => \E s \in Commits : IsChild(head, s) /\ plan'.source = s
      BY <1>5, <2>10 DEF Derive
    <3>2. ~resuming /\ head \in Releases => head # plan'.source
      <4>1. ASSUME NEW s \in Commits, IsChild(head, s) PROVE head # s
        BY <4>1 DEF IsChild, IInv, Known, Made
      <4> QED BY <3>1, <4>1
    <3>3. resumable' => TagsAgree' /\ plan'.release
      BY <1>1, <3>1 DEF TagsAgree
    <3>4. InTransaction' => InTransaction /\ resuming
      BY <3>1 DEF InTransaction, Body, Restoring
    <3>5. resuming => plan'.source = txn.source /\ plan'.release = txn.release
      BY <3>1 DEF RInv, Planned, Working, Gated
    <3>6. ~resuming => journal = None
      BY <3>1 DEF RInv, Planned, Working, Gated
    <3>7. InTransaction' => txn'.release = journal'.release /\ txn'.tags = journal'.tags
      BY <1>1, <3>1, <3>4 DEF RInv, Planned, Working, Gated
    <3>8. Working'
      BY <1>1, <2>3, <3>1, <3>5, <3>6, <3>7 DEF Working
    <3>9. Gated'
      BY <1>1, <2>3, <3>1, <3>2, <3>3 DEF Gated
    <3> QED BY <2>2, <2>12, <3>1, <3>8, <3>9 DEF Planned
  <2>11. CASE Verify
    <3>1. /\ pc = "verify" /\ Verified /\ pc' = (IF resuming THEN "clear" ELSE "snapshot")
          /\ UNCHANGED <<plan, resuming, resumable, txn>>
      BY <1>5, <2>11 DEF Verify
    <3>2. resumable' => TagsAgree' /\ plan'.release
      BY <1>1, <3>1 DEF RInv, Planned, Working, Gated, TagsAgree
    <3>3. CASE resuming
      <4>1. pc' = "clear" /\ txn'.phase \in External
        BY <2>5, <3>1, <3>3
      <4>2. txn.release = journal.release /\ txn.tags = journal.tags /\ plan.source = txn.source
            /\ plan.release = txn.release
        BY <3>3 DEF RInv, Planned, Working, Gated, InTransaction
      <4>3. Working'
        BY <1>1, <3>1, <3>3, <4>1, <4>2 DEF Working
      <4>4. Gated' /\ Ahead'
        BY <2>3, <3>2, <4>1 DEF Gated, Ahead
      <4> QED BY <2>2, <2>12, <4>3, <4>4 DEF Planned
    <3>4. CASE ~resuming
      <4>1. pc' = "snapshot" /\ journal' = None /\ ~resuming' /\ ~InTransaction'
        BY <1>1, <3>1, <3>4 DEF RInv, Planned, Working, Gated, InTransaction, Body, Restoring
      <4>2. ~resumable => head \notin Releases
        BY <3>1, <3>4 DEF Verified, RInv, Planned, Working, Gated
      <4>3. ~resumable /\ plan.release => ~Released(head)
        <5> SUFFICES ASSUME ~resumable, plan.release, Released(head) PROVE FALSE
          OBVIOUS
        <5>1. AllTags(tags)
          BY <4>1, <1>1, <4>2, ReleasedOrPast DEF RInv, TagsKept
        <5>2. tags = NoTags
          BY <3>1 DEF Verified
        <5> QED BY <5>1, <5>2, TagsAssumption DEF NoTags
      <4>4. Released(head)' <=> Released(head)
        BY <1>1 DEF Released
      <4>5. Working' /\ Gated'
        BY <1>1, <2>3, <3>1, <3>2, <4>1, <4>2, <4>3, <4>4 DEF Working, Gated
      <4> QED BY <2>2, <2>12, <4>1, <4>5 DEF Planned
    <3> QED BY <3>3, <3>4
  <2> QED BY <2>2, <2>6, <2>7, <2>8, <2>9, <2>10, <2>11
<1> QED BY <1>2, <1>4, <1>5 DEF RInv

\* A recorded journal has the tags of a release that lies below HEAD.
LEMMA RecordedTags ==
    ASSUME IInv, RInv, pc = "snapshot", journal' = Recorded, UNCHANGED <<log, head, tags>> PROVE TagsKept'
<1>1. /\ Recorded \in Transactions /\ Recorded.source = plan.source
      /\ Recorded.phase \in External => resumable
      /\ Recorded.phase \notin External => head = plan.source
  BY RecordedFacts, InvParts
<1>2. Recorded.tags = tags /\ Recorded.release = plan.release
  BY DEF Recorded
<1>3. journal = None /\ (resumable => plan.release) /\ (~resumable => head \notin Releases)
  BY DEF RInv, Planned, Working, Gated, IInv, Course
<1>4. head = plan.source => ~resumable
  BY DEF IInv, Course, IsReleaseOf, IsChild, Known
<1>5. head = plan.source /\ Released(head) => AllTags(tags)
  BY <1>3, <1>4, ReleasedOrPast DEF RInv, TagsKept
<1> DEFINE r == Recorded
<1>7. /\ journal' = r /\ r # None /\ r.tags = tags /\ r.source = plan.source
      /\ r.phase \in External => r.release
      /\ r.phase \notin External => head = plan.source
  BY <1>1, <1>2, <1>3, JournalAssumption
<1> HIDE DEF r
<1>8. r.phase \notin External /\ Released(journal.source)' => AllTags(tags)
  <2>1. Released(journal.source)' => Released(plan.source)
    BY <1>7 DEF Released
  <2> QED BY <1>5, <1>7, <2>1
<1> QED BY <1>7, <1>8 DEF TagsKept

LEMMA SnapshotPlanned == ASSUME IInv, RInv, Snapshot PROVE RInv'
<1>1. /\ pc = "snapshot" /\ pc' = "clear" /\ txn' = Recorded /\ journal' = Recorded
      /\ UNCHANGED <<options, plan, accepted, log, head, tags, remote, inflight, github, done>>
  BY DEF Snapshot
<1>2. Outside' /\ TagsKept'
  BY <1>1, OutsideStays, RecordedTags DEF RInv
<1>3. Reached'
  BY <1>1, NotAccepted, NotTagging DEF RInv, Tagging
<1>4. /\ Recorded.source = plan.source
      /\ Recorded.phase \notin External => head = plan.source
  BY <1>1, RecordedFacts, InvParts
<1>5. Recorded.release = plan.release
  BY DEF Recorded
<1>6. resumable' => TagsAgree' /\ plan'.release
  BY <1>1 DEF RInv, Planned, Working, Gated, TagsAgree
<1>7. head = plan.source => ~resumable
  BY <1>1 DEF IInv, Course, IsReleaseOf, IsChild, Known, Made
<1>8. ~resuming'
  BY <1>1 DEF IInv, Course
<1> DEFINE r == Recorded
<1>9. /\ txn' = r /\ journal' = r /\ r.source = plan.source /\ r.release = plan.release
      /\ r.phase \notin External => head = plan.source
  BY <1>1, <1>4, <1>5
<1> HIDE DEF r
<1>10. txn'.phase \notin External /\ plan'.release => ~Released(txn.source)'
  BY <1>1, <1>7, <1>9 DEF RInv, Planned, Working, Gated, Released
<1>11. Planned'
  <2>1. /\ pc' \notin Restoring \ {"rollback"} /\ pc' \notin Changing \cup Tagging \cup {"add", "commit"}
        /\ pc' \in Body
    BY <1>1 DEF Restoring, Changing, Tagging, Body
  <2>2. Working'
    BY <1>1, <1>8, <1>9 DEF Working
  <2>3. Gated' /\ Back'
    BY <1>1, <1>6, <2>1, NotBack DEF Gated
  <2>4. Ahead'
    BY <1>1, <1>9, <1>10, <2>1 DEF Ahead
  <2> QED BY <2>2, <2>3, <2>4 DEF Planned
<1> QED BY <1>2, <1>3, <1>11 DEF RInv

-------------------------------------------------------------------------------
\* The steps of the body, up to the tags.

LEMMA SaveKeeps ==
    ASSUME IInv, pc \in Body, NEW phase \in Phases, Save(phase),
           phase \in External \/ txn.phase \notin External, phase \in External => txn.release
    PROVE  Keeps
<1>1. txn \in Transactions
  BY RunFacts DEF InTransaction
<1> QED BY <1>1, PhaseSet DEF Save, Keeps

LEMMA KeepsWorking ==
    ASSUME IInv, RInv, pc \in Body, pc' \in Body, Keeps, UNCHANGED plan PROVE Working'
<1>1. InTransaction /\ pc' \notin {"derive", "verify", "snapshot"}
  BY InBody DEF InTransaction, Early
<1>2. /\ txn.release = journal.release /\ txn.tags = journal.tags
      /\ plan.source = txn.source /\ plan.release = txn.release
  BY <1>1 DEF RInv, Planned, Working
<1> QED BY <1>1, <1>2 DEF Keeps, Working

\* Towards the release commit.
LEMMA ChangesOn ==
    ASSUME IInv, RInv, pc \in Body, pc' \in Changing, Keeps, UNCHANGED <<plan, resumable, accepted>>,
           plan.release, ~resumable, ~Released(txn.source), ~accepted,
           \A c \in Commits : Made(c) => (Released(c)' <=> Released(c)),
           pc' \in {"add", "commit"} => head' = txn.source
    PROVE  Planned' /\ Reached'
<1>1. pc' \in Body /\ pc' \notin Tagging /\ pc' \notin {"clear", "writeEmpty", "finishEmpty", "verify", "snapshot"}
      /\ pc' \notin Restoring
  BY BodyLabels, InBody DEF Early
<1>2. Working' /\ Reached' /\ Back'
  BY <1>1, KeepsWorking, NotTagging, NotBack
<1>3. Gated'
  BY <1>1 DEF Gated
<1>4. txn'.source = txn.source /\ txn.source \in Commits /\ Made(txn.source)
  BY RunFacts DEF Keeps, InTransaction
<1>5. ~Released(txn.source)'
  BY <1>4
<1>6. Ahead'
  BY <1>1, <1>4, <1>5 DEF Ahead
<1> QED BY <1>2, <1>3, <1>6 DEF Planned

\* After the tags.
LEMMA TaggingOn ==
    ASSUME IInv, RInv, pc \in Body, pc' \in Tagging, Keeps, UNCHANGED <<plan, resumable>>,
           plan.release, resumable => TagsAgree'
    PROVE  Planned'
<1>1. pc' \in Body /\ pc' \notin Changing /\ pc' \notin {"clear", "writeEmpty", "finishEmpty", "verify", "snapshot"}
      /\ pc' \notin Restoring
  BY BodyLabels, InBody DEF Early
<1>2. Working' /\ Back'
  BY <1>1, KeepsWorking, NotBack
<1>3. Gated' /\ Ahead'
  BY <1>1 DEF Gated, Ahead, Changing
<1> QED BY <1>2, <1>3 DEF Planned

LEMMA ChangesPlanned ==
    ASSUME IInv, RInv,
           Clear \/ WriteEmpty \/ Mutating \/ Update \/ Committing \/ Add \/ ReadHead \/ \E t \in Tags : Tag(t)
    PROVE  RInv'
<1>1. UNCHANGED <<log, head, remote, inflight, github, done>> /\ pc \in Body
  BY DEF Clear, WriteEmpty, Mutating, Update, Committing, Add, ReadHead, Tag, FileStep, JournalStep, Body
<1>2. Outside'
  BY <1>1, OutsideStays DEF RInv
<1>3. \A c \in Commits : Made(c) => (Released(c)' <=> Released(c))
  BY <1>1, SameCommits
<1>4. ASSUME GiveUp, UNCHANGED <<journal, tags>> PROVE RInv'
  BY <1>1, <1>2, <1>4, GiveUpDone, TagsStayKept DEF RInv, TagsStay
<1>5. ASSUME Keeps, TagsStay, Planned', Reached' PROVE RInv'
  BY <1>1, <1>2, <1>3, <1>5, KeepsTags DEF RInv
<1>6. /\ plan.source = txn.source /\ plan.release = txn.release
      /\ pc \in Changing => plan.release /\ ~resumable /\ ~Released(txn.source) /\ txn.phase \notin External
      /\ pc \notin Tagging => ~accepted
  BY <1>1, NotAccepted DEF RInv, Planned, Working, Ahead, IInv, Course
<1>7. CASE Clear
  <2>1. /\ pc = "clear" /\ UNCHANGED <<options, plan, txn, target, journal, tags, accepted>>
        /\ \/ UNCHANGED <<pc, pending>>
           \/ /\ pending' = Tags
              /\ pc' = IF ~plan.release THEN "writeEmpty" ELSE IF resumable THEN "tag" ELSE "mutating"
    BY <1>7 DEF Clear, FileStep
  <2>2. Keeps /\ TagsStay /\ ~accepted
    BY <1>6, <2>1 DEF Keeps, TagsStay, Tagging
  <2>6. CASE UNCHANGED <<pc, pending>>
    <3>1. Working' /\ Reached'
      BY <1>1, <2>1, <2>2, <2>6, KeepsWorking, NotTagging DEF Tagging
    <3>2. Gated' /\ Ahead' /\ Back'
      BY <1>1, <1>3, <2>1, <2>6, SameCommits DEF RInv, Planned, Gated, TagsAgree, Ahead, Back, Changing,
         Tagging, Restoring
    <3> QED BY <1>5, <2>2, <3>1, <3>2 DEF Planned
  <2>3. CASE ~plan.release /\ pc' # pc
    <3>1. pc' = "writeEmpty" /\ pc' \in Body /\ pc' \notin Changing \cup Tagging \cup Restoring
      BY <2>1, <2>3, BodyLabels DEF Restoring
    <3>2. Working' /\ Reached' /\ Back'
      BY <1>1, <2>1, <2>2, <3>1, KeepsWorking, NotTagging, NotBack
    <3>3. ~resumable
      BY <1>1, <2>3 DEF RInv, Planned, Gated
    <3>4. Gated' /\ Ahead'
      BY <1>1, <2>1, <2>3, <3>1, <3>3 DEF RInv, Planned, Gated, Ahead, Changing
    <3> QED BY <1>5, <2>2, <3>2, <3>4 DEF Planned
  <2>4. CASE plan.release /\ resumable /\ pc' # pc
    <3>1. pc' = "tag" /\ pc' \in Tagging
      BY <2>1, <2>4 DEF Tagging
    <3>2. TagsAgree'
      BY <1>1, <2>1, <2>4 DEF RInv, Planned, Gated, TagsAgree
    <3>3. Planned'
      BY <1>1, <2>1, <2>2, <2>4, <3>1, <3>2, TaggingOn
    <3>4. Reached'
      BY <2>1, <2>2, <3>1 DEF Reached, Tail
    <3> QED BY <1>5, <2>2, <3>3, <3>4
  <2>5. CASE plan.release /\ ~resumable /\ pc' # pc
    <3>1. pc' = "mutating" /\ pc' \in Changing
      BY <2>1, <2>5 DEF Changing
    <3>2. ~Released(txn.source)
      BY <2>1, <2>5 DEF RInv, Planned, Ahead, IInv, Course
    <3>3. Planned' /\ Reached'
      BY <1>1, <1>3, <2>1, <2>2, <2>5, <3>1, <3>2, ChangesOn
    <3> QED BY <1>5, <2>2, <3>3
  <2> QED BY <2>1, <2>3, <2>4, <2>5, <2>6
<1>8. CASE WriteEmpty
  <2>1. /\ pc = "writeEmpty" /\ pc' = "finishEmpty" /\ UNCHANGED <<options, plan, txn, journal, tags, accepted>>
    BY <1>8 DEF WriteEmpty, FileStep
  <2>2. Keeps /\ TagsStay /\ ~accepted
    BY <1>6, <2>1 DEF Keeps, TagsStay, Tagging
  <2>3. pc' \in Body /\ pc' \notin Changing \cup Tagging \cup Restoring
    BY <2>1, BodyLabels DEF Restoring
  <2>4. Working' /\ Reached' /\ Back'
    BY <1>1, <2>1, <2>2, <2>3, KeepsWorking, NotTagging, NotBack
  <2>5. ~plan.release
    BY <2>1 DEF RInv, Planned, Ahead
  <2>6. Gated' /\ Ahead'
    BY <1>1, <2>1, <2>3, <2>5 DEF RInv, Planned, Gated, Ahead, Changing
  <2> QED BY <1>5, <2>2, <2>4, <2>6 DEF Planned
<1>9. CASE Mutating
  <2>1. pc = "mutating" /\ pc' = "beforeHooks" /\ Save("mutating") /\ UNCHANGED <<plan, resumable, accepted, tags>>
    BY <1>9 DEF Mutating, JournalStep
  <2>2. pc \in Changing /\ pc' \in Changing /\ pc \notin Tagging /\ "mutating" \in Phases \ External
    BY <2>1 DEF Changing, Tagging, Phases, External
  <2>3. Keeps /\ TagsStay
    BY <1>1, <1>6, <2>1, <2>2, SaveKeeps DEF TagsStay
  <2>4. Planned' /\ Reached'
    BY <1>1, <1>3, <1>6, <2>1, <2>2, <2>3, ChangesOn
  <2> QED BY <1>5, <2>3, <2>4
<1>10. CASE Update
  <2>1. CASE GiveUp
    BY <1>4, <1>10, <2>1 DEF Update
  <2>2. CASE ~GiveUp
    <3>1. pc = "update" /\ pc' = "afterHooks" /\ UNCHANGED <<txn, journal, plan, resumable, accepted, tags>>
      BY <1>10, <2>2 DEF Update
    <3>2. pc \in Changing /\ pc' \in Changing /\ pc \notin Tagging /\ Keeps /\ TagsStay
      BY <3>1 DEF Changing, Tagging, Keeps, TagsStay
    <3>3. Planned' /\ Reached'
      BY <1>1, <1>3, <1>6, <3>1, <3>2, ChangesOn
    <3> QED BY <1>5, <3>2, <3>3
  <2> QED BY <2>1, <2>2
<1>11. CASE Committing
  <2>1. CASE GiveUp /\ UNCHANGED journal
    BY <1>4, <1>11, <2>1 DEF Committing
  <2>2. CASE ~(GiveUp /\ UNCHANGED journal)
    <3>1. /\ pc = "committing" /\ pc' = "add" /\ Save("committing") /\ head = plan.source
          /\ UNCHANGED <<plan, resumable, accepted, tags>>
      BY <1>11, <2>2 DEF Committing
    <3>2. pc \in Changing /\ pc' \in Changing /\ pc \notin Tagging /\ "committing" \in Phases \ External
      BY <3>1 DEF Changing, Tagging, Phases, External
    <3>3. Keeps /\ TagsStay
      BY <1>1, <1>6, <3>1, <3>2, SaveKeeps DEF TagsStay
    <3>4. Planned' /\ Reached'
      BY <1>1, <1>3, <1>6, <3>1, <3>2, <3>3, ChangesOn
    <3> QED BY <1>5, <3>3, <3>4
  <2> QED BY <2>1, <2>2
<1>12. CASE Add
  <2>1. /\ pc = "add" /\ pc' = "commit" /\ UNCHANGED <<txn, journal, plan, resumable, accepted, tags>>
    BY <1>12 DEF Add
  <2>2. pc \in Changing /\ pc' \in Changing /\ pc \notin Tagging /\ Keeps /\ TagsStay
    BY <2>1 DEF Changing, Tagging, Keeps, TagsStay
  <2>3. head = txn.source
    BY <2>1 DEF RInv, Planned, Ahead
  <2>4. Planned' /\ Reached'
    BY <1>1, <1>3, <1>6, <2>1, <2>2, <2>3, ChangesOn
  <2> QED BY <1>5, <2>2, <2>4
<1>13. CASE ReadHead
  <2>1. CASE GiveUp /\ UNCHANGED journal
    BY <1>4, <1>13, <2>1 DEF ReadHead
  <2>2. CASE ~(GiveUp /\ UNCHANGED journal)
    <3>1. /\ pc = "readHead" /\ pc' = "tag" /\ journal' = txn' /\ pending' = Tags
          /\ txn' = [txn EXCEPT !.releaseHead = FoundHead, !.phase = "tagging"]
          /\ UNCHANGED <<plan, resumable, accepted, tags>>
      BY <1>13, <2>2 DEF ReadHead
    <3>2. pc \in Changing /\ pc' \in Tagging /\ pc \notin Tagging
      BY <3>1 DEF Changing, Tagging
    <3>3. Keeps
      <4>1. txn \in Transactions /\ FoundHead \in Commits \cup {None}
        BY <1>1, RunFacts, TransactionParts DEF InTransaction, FoundHead, IInv, TypeOK
      <4>2. /\ txn' \in Transactions /\ txn'.source = txn.source /\ txn'.release = txn.release
            /\ txn'.tags = txn.tags /\ txn'.phase = "tagging"
        BY <3>1, <4>1 DEF Transactions, Phases
      <4> QED BY <1>6, <3>1, <3>2, <4>2 DEF Keeps, External
    <3>4. TagsStay
      BY <3>1 DEF TagsStay
    <3>5. Planned'
      BY <1>1, <1>6, <3>1, <3>2, <3>3, TaggingOn
    <3>6. Reached'
      BY <1>6, <3>1, <3>2 DEF Reached, Tail
    <3> QED BY <1>5, <3>3, <3>4, <3>5, <3>6
  <2> QED BY <2>1, <2>2
<1>14. ASSUME NEW t \in Tags, Tag(t) PROVE RInv'
  <2>1. CASE GiveUp /\ UNCHANGED tags
    BY <1>4, <1>14, <2>1 DEF Tag
  <2>2. CASE ~(GiveUp /\ UNCHANGED tags)
    <3>1. /\ pc = "tag" /\ t \in pending /\ (tags[t] = None \/ resumable)
          /\ tags' = [tags EXCEPT ![t] = IF @ = None THEN head ELSE @] /\ pending' = pending \ {t}
          /\ pc' = (IF pending' = {} THEN "pushing" ELSE "tag")
          /\ UNCHANGED <<mode, plan, resumable, txn, journal, accepted>>
      BY <1>14, <2>2 DEF Tag
    <3>2. tags \in [Tags -> Commits \cup {None}]
      BY DEF IInv, TypeOK, Refs
    <3>3. resumable => TagsAgree
      BY <1>1 DEF RInv, Planned, Gated
    <3>4. tags'[t] = head /\ \A u \in Tags \ {t} : tags'[u] = tags[u]
      BY <3>1, <3>2, <3>3 DEF TagsAgree
    <3>5. Keeps /\ TagsStay
      <4>1. \A u \in Tags : tags[u] # None => tags'[u] # None
        BY <3>1, <3>2
      <4> QED BY <3>1, <4>1 DEF Keeps, TagsStay
    <3>6. resumable => TagsAgree'
      BY <1>1, <3>3, <3>4 DEF TagsAgree
    <3>7. pc \in Tagging /\ pc' \in Tagging
      BY <3>1 DEF Tagging
    <3>8. plan.release
      BY <3>7 DEF RInv, Planned, Ahead
    <3>9. Planned'
      BY <1>1, <3>1, <3>5, <3>6, <3>7, <3>8, TaggingOn
    <3>10. \A u \in Tags \ pending' : tags'[u] = head
      BY <3>1, <3>4 DEF RInv, Reached
    <3>11. accepted' => AtOrigin' /\ txn'.phase \in External
      BY <1>1, <3>1 DEF RInv, Reached, AtOrigin
    <3>12. Reached'
      BY <1>1, <3>1, <3>7, <3>10, <3>11 DEF Reached, Tail
    <3> QED BY <1>5, <3>5, <3>9, <3>12
  <2> QED BY <2>1, <2>2
<1> QED BY <1>7, <1>8, <1>9, <1>10, <1>11, <1>12, <1>13, <1>14

\* A run without a release leaves the tags of an earlier one below HEAD.
LEMMA EmptyPlanned == ASSUME IInv, RInv, FinishEmpty PROVE RInv'
<1>1. /\ pc = "finishEmpty" /\ pc \in Body /\ journal' = None /\ Return
      /\ UNCHANGED <<log, head, tags, remote, inflight, github, done>>
  BY DEF FinishEmpty, Body
<1>2. /\ txn.phase = journal.phase /\ txn.source = journal.source /\ journal # None /\ head \in Commits
  BY <1>1, RunFacts DEF InTransaction, IInv, TypeOK
<1>3. ~plan.release /\ plan.release = txn.release /\ txn.release = journal.release
  BY <1>1 DEF RInv, Planned, Working, Ahead, InTransaction
<1>4. txn.phase \notin External /\ head = txn.source
  BY <1>1, <1>2, <1>3 DEF RInv, Planned, Ahead, TagsKept
<1>5. Past(head) => AllTags(tags)
  BY <1>2, <1>4, PastReleased DEF RInv, TagsKept
<1>6. TagsKept'
  BY <1>1, <1>5, SameCommits DEF TagsKept, Past, Released
<1> QED BY <1>1, <1>6, OutsideStays, ReturnDone DEF RInv

-------------------------------------------------------------------------------
\* The publication.

LEMMA PublicationPlanned ==
    ASSUME IInv, RInv,
           \/ Pushing \/ PushReturns \/ RemoteTags \/ Publishing \/ (\E t \in Tags : Publish(t))
           \/ WriteNotes \/ Write \/ Published \/ AfterRelease
    PROVE  RInv'
<1>1. UNCHANGED <<log, head, tags, remote, inflight, done>> /\ pc \in Tagging /\ pc \in Body /\ TagsStay
  BY BodyLabels DEF Pushing, PushReturns, RemoteTags, Publishing, Publish, WriteNotes, Write, Published,
     AfterRelease, FileStep, JournalStep, Unaffected, Tagging, TagsStay
<1>2. \A c \in Commits : Made(c) => (Released(c)' <=> Released(c))
  BY <1>1, SameCommits
<1>3. plan.release /\ plan.release = txn.release /\ (resumable => TagsAgree) /\ (TagsAgree' <=> TagsAgree)
  BY <1>1 DEF RInv, Planned, Working, Gated, Ahead, TagsAgree
<1>4. "external" \in Phases \cap External /\ "published" \in Phases \cap External
  BY DEF Phases, External
<1>5. ASSUME Outside', GiveUp, UNCHANGED journal PROVE RInv'
  BY <1>1, <1>5, GiveUpDone, TagsStayKept DEF RInv
<1>6. ASSUME Outside', Keeps, UNCHANGED <<plan, resumable>>, pc' \in Tagging, Reached' PROVE RInv'
  BY <1>1, <1>2, <1>3, <1>6, TaggingOn, KeepsTags DEF RInv
<1>7. UNCHANGED github => Outside'
  BY <1>1, OutsideStays DEF RInv
<1>8. CASE Pushing
  <2>1. /\ pc = "pushing" /\ pc' = (IF mode.push THEN "push" ELSE "remoteTags")
        /\ UNCHANGED <<plan, resumable, mode, accepted, github>>
        /\ IF mode.push THEN Save("external") ELSE UNCHANGED <<txn, journal>>
    BY <1>8 DEF Pushing, JournalStep
  <2>2. Keeps
    BY <1>1, <1>3, <1>4, <2>1, SaveKeeps DEF Keeps
  <2>3. txn'.phase \in External \/ txn' = txn
    <3>1. txn \in Transactions
      BY <1>1, RunFacts
    <3> QED BY <1>4, <2>1, <3>1, PhaseSet DEF Save
  <2>4. pc' \in Tagging
    BY <2>1 DEF Tagging
  <2>5. Reached'
    BY <1>1, <2>1, <2>3, <2>4 DEF RInv, Reached, AtOrigin, Tail
  <2> QED BY <1>6, <1>7, <2>1, <2>2, <2>4, <2>5
<1>9. CASE PushReturns
  <2>1. CASE GiveUp
    BY <1>5, <1>7, <1>9, <2>1 DEF PushReturns, Unaffected
  <2>2. CASE ~GiveUp
    <3>1. /\ accepted /\ pc = "pushed" /\ pc' = "remoteTags"
          /\ UNCHANGED <<txn, journal, plan, resumable, mode, accepted, github>>
      BY <1>9, <2>2 DEF PushReturns, Unaffected
    <3>2. Keeps /\ pc' \in Tagging
      BY <3>1 DEF Keeps, Tagging
    <3>3. Reached'
      BY <1>1, <3>1, <3>2 DEF RInv, Reached, AtOrigin, Tail, Tagging
    <3> QED BY <1>6, <1>7, <3>1, <3>2, <3>3
  <2> QED BY <2>1, <2>2
<1>10. CASE RemoteTags
  <2>1. CASE GiveUp
    BY <1>5, <1>7, <1>10, <2>1 DEF RemoteTags, Unaffected
  <2>2. CASE ~GiveUp
    <3>1. /\ pc = "remoteTags" /\ pc' = (IF mode.github THEN "publishing" ELSE "write")
          /\ mode.github /\ ~mode.push => AtOrigin
          /\ UNCHANGED <<txn, journal, plan, resumable, mode, accepted, github>>
      BY <1>10, <2>2 DEF RemoteTags, Unaffected, AtOrigin
    <3>2. Keeps /\ pc' \in Tagging
      BY <3>1 DEF Keeps, Tagging
    <3>3. (mode.push \/ mode.github) => AtOrigin'
      BY <1>1, <3>1 DEF RInv, Reached, AtOrigin
    <3>4. Reached'
      BY <1>1, <3>1, <3>2, <3>3 DEF RInv, Reached, AtOrigin, Tail, Tagging
    <3> QED BY <1>6, <1>7, <3>1, <3>2, <3>4
  <2> QED BY <2>1, <2>2
<1>11. CASE Publishing
  <2>1. /\ pc = "publishing" /\ pc' = "publish" /\ Save("external") /\ pending' = Tags
        /\ UNCHANGED <<plan, resumable, mode, accepted, github>>
    BY <1>11 DEF Publishing, JournalStep
  <2>2. Keeps
    BY <1>1, <1>3, <1>4, <2>1, SaveKeeps
  <2>3. txn'.phase \in External
    BY <1>1, <1>4, <2>1, RunFacts, PhaseSet DEF Save
  <2>4. pc' \in Tagging
    BY <2>1 DEF Tagging
  <2>5. Reached'
    BY <1>1, <2>1, <2>3, <2>4 DEF RInv, Reached, AtOrigin, Tail
  <2> QED BY <1>6, <1>7, <2>1, <2>2, <2>4, <2>5
<1>12. ASSUME NEW t \in Tags, Publish(t) PROVE RInv'
  <2>1. CASE GiveUp /\ UNCHANGED github
    BY <1>5, <1>7, <1>12, <2>1 DEF Publish
  <2>2. CASE ~(GiveUp /\ UNCHANGED github)
    <3>1. /\ pc = "publish" /\ github' = [github EXCEPT ![t] = plan.source] /\ pending' = pending \ {t}
          /\ pc' = (IF pending' = {} THEN "write" ELSE "publish")
          /\ UNCHANGED <<txn, journal, plan, resumable, mode, accepted>>
      BY <1>12, <2>2 DEF Publish
    <3>2. plan.source # None /\ github \in [Tags -> Commits \cup {None}]
      BY <1>1, RunFacts, Labels, CommitsAssumption DEF IInv, TypeOK, Refs
    <3>3. github'[t] # None /\ \A u \in Tags \ {t} : github'[u] = github[u]
      BY <3>1, <3>2
    <3>4. AtOrigin /\ mode.github /\ head \in Releases
      BY <1>1, <3>1, RunFacts DEF RInv, Reached
    <3>5. Outside'
      BY <1>1, <3>1, <3>3, <3>4 DEF RInv, Outside, OneEach, Whole, Reported, Past, Released,
         PublishedTogether, GitHubFollowsTags, AtOrigin
    <3>6. Keeps /\ pc' \in Tagging
      BY <3>1 DEF Keeps, Tagging
    <3>7. \A u \in Tags \ pending' : github'[u] # None
      BY <3>1, <3>3 DEF RInv, Reached
    <3>8. AtOrigin'
      BY <1>1, <3>4 DEF AtOrigin
    <3>9. accepted' => txn'.phase \in External
      BY <3>1 DEF RInv, Reached
    <3>10. AllAt(tags, head)'
      BY <1>1, <3>1 DEF RInv, Reached
    <3>11. Reached'
      BY <3>1, <3>4, <3>6, <3>7, <3>8, <3>9, <3>10 DEF Reached, Tail
    <3> QED BY <1>6, <3>1, <3>5, <3>6, <3>11
  <2> QED BY <2>1, <2>2
<1>13. ASSUME pc \in Tail, pc' \in Tail, UNCHANGED <<plan, resumable, mode, accepted, github>>, Keeps,
              txn' = txn \/ txn'.phase \in External
       PROVE  RInv'
  <2>1. pc \notin {"tag", "pushed", "publishing", "publish"} /\ pc' \notin {"tag", "pushed", "publishing", "publish"}
        /\ pc' \in Tagging /\ pc' # "remoteTags"
    BY <1>13 DEF Tail, Tagging
  <2>2. Reached'
    BY <1>1, <1>13, <2>1 DEF RInv, Reached, AtOrigin
  <2> QED BY <1>6, <1>7, <1>13, <2>1, <2>2
<1>14. CASE WriteNotes \/ Write \/ AfterRelease
  <2>1. pc \in Tail /\ pc' \in Tail /\ UNCHANGED <<txn, journal, plan, resumable, mode, accepted, github>>
    BY <1>14 DEF WriteNotes, Write, AfterRelease, FileStep, Unaffected, Tail
  <2> QED BY <1>13, <2>1 DEF Keeps
<1>15. CASE Published
  <2>1. pc \in Tail /\ pc' \in Tail /\ Save("published") /\ UNCHANGED <<plan, resumable, mode, accepted, github>>
    BY <1>15 DEF Published, JournalStep, Tail
  <2>2. Keeps
    BY <1>1, <1>3, <1>4, <2>1, SaveKeeps
  <2>3. txn'.phase \in External
    BY <1>1, <1>4, <2>1, RunFacts, PhaseSet DEF Save
  <2> QED BY <1>13, <2>1, <2>2, <2>3
<1> QED BY <1>8, <1>9, <1>10, <1>11, <1>12, <1>14, <1>15

\* What a run reports is there: its tags at origin, its releases on GitHub.
LEMMA FinishPlanned == ASSUME IInv, RInv, Finish PROVE RInv'
<1>1. /\ pc = "finish" /\ journal' = None /\ Return /\ UNCHANGED <<log, head, tags, remote, inflight, github>>
      /\ done' = [option \in {"push", "github"} |->
                     done[option] \cup IF mode[option] THEN {txn.releaseHead} ELSE {}]
  BY DEF Finish
<1>2. pc \in Tagging \ {"tag"} /\ pc \in Tail
  BY <1>1 DEF Tagging, Tail
<1>3. head \in Releases /\ txn.releaseHead = head /\ AllAt(tags, head)
  BY <1>2, RunFacts DEF RInv, Reached
<1>4. TagsKept'
  BY <1>1, <1>3, CommitsIn, CommitsAssumption DEF TagsKept
<1>5. mode.push \/ mode.github => AtOrigin
  BY <1>2 DEF RInv, Reached
<1>6. mode.github => AllTags(github)
  BY <1>2 DEF RInv, Reached
<1>7. /\ done'.push \subseteq done.push \cup (IF mode.push THEN {head} ELSE {})
      /\ done'.github = done.github \cup (IF mode.github THEN {head} ELSE {})
  BY <1>1, <1>3
<1>8. Reported'
  <2>1. \A c \in done'.push \cup done'.github : c \in Releases /\ AllAt(remote.tags, c)
    BY <1>3, <1>5, <1>7 DEF RInv, Outside, Reported, AtOrigin
  <2>2. done'.github # {} => AllTags(github)
    BY <1>6, <1>7 DEF RInv, Outside, Reported
  <2> QED BY <1>1, <2>1, <2>2 DEF Reported
<1>9. Outside'
  BY <1>1, <1>8 DEF RInv, Outside, OneEach, Whole, Past, Released, PublishedTogether, GitHubFollowsTags
<1> QED BY <1>1, <1>4, <1>9, ReturnDone DEF RInv

-------------------------------------------------------------------------------
\* The rollback, and faults.

LEMMA RestoringOn ==
    ASSUME IInv, RInv, pc \in Restoring, pc' \in Restoring, UNCHANGED <<log, journal, resuming, accepted>>,
           txn'.source = txn.source, txn'.release = txn.release, txn'.tags = txn.tags, Back'
    PROVE  Planned' /\ Reached'
<1>1. ~accepted /\ ~resuming /\ InTransaction
  BY NotAccepted DEF RInv, Restoring, Tagging, IInv, Course, InTransaction
<1>2. pc' \notin Body \cup Early \cup {"idle"} /\ pc' \notin Changing \cup Tagging
  BY BodyLabels DEF Restoring, Body, Early
<1>3. Working'
  BY <1>1, <1>2 DEF RInv, Planned, Working, Early
<1>4. Gated' /\ Ahead' /\ Reached'
  BY <1>1, <1>2, BodyLabels, NotGated, NotAhead, NotTagging DEF Early
<1> QED BY <1>3, <1>4 DEF Planned

LEMMA RollbackPlanned ==
    ASSUME IInv, RInv,
           \/ Rollback \/ ReadTarget \/ (\E t \in Tags : Untag(t)) \/ RemoveCreated
           \/ (\E file \in {"manifest", "output"} : Restore(file)) \/ ResetRef \/ RestoreIndex
    PROVE  RInv'
<1>1. UNCHANGED <<log, journal, remote, inflight, github, done>> /\ pc \in Restoring
  BY DEF Rollback, ReadTarget, Untag, RemoveCreated, Restore, ResetRef, RestoreIndex, FileStep, Unaffected, Restoring
<1>2. Outside'
  BY <1>1, OutsideStays DEF RInv
<1>3. InTransaction /\ txn \in Transactions /\ journal # None /\ txn.tags = journal.tags
  BY <1>1, RunFacts DEF InTransaction, RInv, Planned, Working
<1>4. \A c : Released(c)' <=> Released(c)
  BY <1>1, SameCommits
<1>5. ASSUME \A t \in Tags : tags'[t] # None \/ tags'[t] = tags[t] \/ tags'[t] = txn.tags[t] PROVE TagsKept'
  BY <1>1, <1>3, <1>4, <1>5 DEF RInv, TagsKept
<1>6. CASE Return /\ UNCHANGED tags
  BY <1>2, <1>5, <1>6, ReturnDone DEF RInv
<1>7. ASSUME TagsKept', pc' \in Restoring, UNCHANGED <<resuming, accepted, txn>>, Back' PROVE RInv'
  BY <1>1, <1>2, <1>7, RestoringOn DEF RInv
<1>8. CASE Rollback
  <2>1. CASE Return
    BY <1>6, <1>8, <2>1 DEF Rollback, Unaffected
  <2>2. CASE ~Return
    <3>1. /\ pc' = "readTarget" /\ txn' = [txn EXCEPT !.releaseHead = FoundHead] /\ target' = head
          /\ UNCHANGED <<head, tags, resuming, accepted>>
      BY <1>8, <2>2 DEF Rollback, Unaffected
    <3>2. FoundHead \in Commits \cup {None}
      BY <1>3, TransactionParts DEF FoundHead, IInv, TypeOK
    <3>3. txn'.source = txn.source /\ txn'.release = txn.release /\ txn'.tags = txn.tags
      BY <1>3, <3>1, <3>2, ReleaseHeadSet
    <3>4. (target = txn.source)' => head' = txn'.source
      BY <3>1
    <3>5. Back'
      BY <3>1, <3>4 DEF Back
    <3>6. pc' \in Restoring
      BY <3>1 DEF Restoring
    <3>7. Planned' /\ Reached'
      BY <1>1, <3>1, <3>3, <3>5, <3>6, RestoringOn
    <3> QED BY <1>2, <1>5, <3>1, <3>7 DEF RInv
  <2> QED BY <2>1, <2>2
<1>12. CASE ReadTarget
  <2>1. pc' = "untag" /\ target' = head /\ UNCHANGED <<head, tags, resuming, accepted, txn>>
    BY <1>12 DEF ReadTarget, Unaffected
  <2>2. Back'
    BY <2>1 DEF Back
  <2> QED BY <1>5, <1>7, <2>1, <2>2 DEF Restoring
<1>9. ASSUME NEW t \in Tags, Untag(t) PROVE RInv'
  <2>1. CASE Return /\ UNCHANGED tags
    BY <1>6, <2>1
  <2>2. CASE ~(Return /\ UNCHANGED tags)
    <3>1. /\ pc = "untag" /\ pc' \in {"untag", "removeCreated"} /\ tags' = [tags EXCEPT ![t] = txn.tags[t]]
          /\ UNCHANGED <<head, resuming, accepted, txn, target>>
      BY <1>9, <2>2 DEF Untag
    <3>2. tags \in [Tags -> Commits \cup {None}]
      BY DEF IInv, TypeOK, Refs
    <3>3. TagsKept'
      BY <1>5, <3>1, <3>2
    <3>4. Back'
      BY <1>4, <3>1 DEF RInv, Planned, Back, Restoring
    <3> QED BY <1>7, <3>1, <3>3, <3>4 DEF Restoring
  <2> QED BY <2>1, <2>2
<1>10. CASE RemoveCreated \/ (\E file \in {"manifest", "output"} : Restore(file)) \/ RestoreIndex
  <2>1. /\ pc \in {"removeCreated", "restore", "restoreIndex"}
        /\ pc' \in (IF pc = "restoreIndex" THEN {"forget"} ELSE {"restore", "resetRef"})
        /\ UNCHANGED <<head, tags, resuming, accepted, txn, target>>
    BY <1>10 DEF RemoveCreated, Restore, RestoreIndex, FileStep
  <2>2. Back'
    BY <1>4, <2>1 DEF RInv, Planned, Back, Restoring
  <2> QED BY <1>5, <1>7, <2>1, <2>2 DEF Restoring
<1>11. CASE ResetRef
  <2>1. pc = "resetRef" /\ UNCHANGED tags
    BY <1>11 DEF ResetRef
  <2>2. CASE Return
    BY <1>6, <2>1, <2>2
  <2>3. CASE ~Return
    <3>1. /\ pc' = "restoreIndex" /\ UNCHANGED <<resuming, accepted, txn, target>>
          /\ (target = txn.source /\ head' = head) \/ head' = txn.source
      BY <1>11, <2>3 DEF ResetRef
    <3>2. Released(head)' => Released(txn.source)
      <4>1. CASE head' = txn.source
        BY <1>1, <4>1 DEF Released
      <4>2. CASE target = txn.source /\ head' = head
        <5>1. Released(head) => Released(txn.source)
          BY <2>1, <4>2 DEF RInv, Planned, Back, Restoring
        <5> QED BY <1>1, <4>2, <5>1 DEF Released
      <4> QED BY <3>1, <4>1, <4>2
    <3>3. Back'
      BY <1>4, <3>1, <3>2 DEF Back
    <3> QED BY <1>5, <1>7, <2>1, <3>1, <3>3 DEF Restoring
  <2> QED BY <2>2, <2>3
<1> QED BY <1>8, <1>9, <1>10, <1>11, <1>12

\* The journal goes when the checkout is back, with the tags it had.
LEMMA ForgetPlanned == ASSUME IInv, RInv, Forget PROVE RInv'
<1>1. /\ pc = "forget" /\ pc \in Restoring \ {"rollback"} /\ journal' = None
      /\ UNCHANGED <<log, head, tags, remote, inflight, github, done>>
  BY DEF Forget, Restoring
<1>2. /\ txn.phase = journal.phase /\ txn.source = journal.source /\ journal # None /\ head \in Commits
      /\ txn.phase \notin External /\ ~resuming /\ ~accepted
  BY <1>1, RunFacts, NotAccepted DEF InTransaction, IInv, TypeOK, Course, RInv, Tagging
<1>3. Past(head) => AllTags(tags)
  BY <1>1, <1>2, PastReleased DEF RInv, Planned, Back, TagsKept
<1>4. TagsKept'
  BY <1>1, <1>3, SameCommits DEF TagsKept, Past, Released
<1>5. Planned' /\ Reached'
  <2>1. CASE Return
    BY <2>1, ReturnDone
  <2>2. CASE ~Return
    <3>1. pc' = "derive" /\ UNCHANGED <<resuming, accepted>>
      BY <2>2 DEF Forget
    <3>2. pc' \notin Body \cup Restoring /\ pc' \notin Changing \cup Tagging
      BY <3>1, BodyLabels DEF Body, Restoring
    <3>3. Working'
      BY <1>1, <1>2, <3>1, <3>2 DEF Working, InTransaction
    <3> QED BY <1>2, <3>1, <3>2, <3>3, BodyLabels, NotTagging, NotAhead, NotBack, NotGated DEF Planned
  <2> QED BY <2>1, <2>2
<1> QED BY <1>1, <1>4, <1>5, OutsideStays DEF RInv

LEMMA FaultsPlanned ==
    ASSUME IInv, RInv, CommandFails \/ SaveFails \/ Crash \/ \E p \in inflight : Lose(p) PROVE RInv'
<1>1. UNCHANGED <<log, head, tags, remote, github, done>> /\ inflight' \subseteq inflight
  BY DEF CommandFails, SaveFails, Crash, Lose
<1>2. Outside' /\ (UNCHANGED journal => TagsKept')
  BY <1>1, OutsideStays, TagsStayKept DEF RInv, TagsStay
<1>3. CASE CommandFails \/ Crash
  <2>1. UNCHANGED journal /\ (GiveUp \/ Return)
    BY <1>3 DEF CommandFails, Crash
  <2> QED BY <1>2, <2>1, GiveUpDone, ReturnDone DEF RInv
<1>4. CASE SaveFails
  <2>1. Return /\ (UNCHANGED journal \/ (pc = "snapshot" /\ journal' = Recorded))
    BY <1>4 DEF SaveFails
  <2> QED BY <1>1, <1>2, <2>1, RecordedTags, ReturnDone DEF RInv
<1>5. CASE \E p \in inflight : Lose(p)
  <2>1. UNCHANGED <<journal, pc, locals>>
    BY <1>5 DEF Lose
  <2>2. Planned'
    <3>1. \A c : Released(c)' <=> Released(c)
      BY <1>1, SameCommits
    <3> QED BY <1>1, <2>1, <3>1 DEF RInv, Planned, Working, Gated, Ahead, Back, InTransaction, TagsAgree
  <2>3. Reached'
    BY <1>1, <2>1 DEF RInv, Reached, AtOrigin
  <2> QED BY <1>2, <2>1, <2>2, <2>3 DEF RInv
<1> QED BY <1>3, <1>4, <1>5

-------------------------------------------------------------------------------
\* New commits.

\* A new commit is a release, or is on top of one, or has none below it.
LEMMA MakeReleases ==
    ASSUME IInv, RInv, NEW c \in Commits, NEW b \in Commits, NEW x, Made(b), Make(c, b, x),
           c \in Releases => ~Released(b)
    PROVE  /\ \A d \in Commits : Made(d) => (Released(d)' <=> Released(d)) /\ (Past(d)' <=> Past(d))
           /\ \A d \in Commits : Made(d) => log'[d].on = log[d].on
           /\ Past(c)' => Released(b) /\ c \notin Releases
           /\ c \notin Releases => (Released(c)' <=> Released(b))
           /\ ~Made(c) /\ Made(c)'
           /\ OneEach'
<1>1. TypeOK /\ Histories
  BY DEF IInv
<1>2. /\ \A d \in Commits : Made(d) => Made(d)' /\ d # c /\ log'[d].on = log[d].on
      /\ \A d \in Commits : c \notin log[d].on
      /\ log'[c].on = log[b].on \cup {c} /\ Made(c)'
  BY <1>1, MadeStays
<1>3. \A d \in Commits : \A e \in log[d].on : e \in Commits /\ Made(e) /\ log[e].on \subseteq log[d].on
  BY <1>1 DEF TypeOK, Histories
<1>4. \A d \in Commits : Made(d) => (Released(d)' <=> Released(d))
  BY <1>2 DEF Released
<1>5. \A d \in Commits : Made(d) => (Past(d)' <=> Past(d))
  <2>1. ASSUME NEW d \in Commits, Made(d) PROVE Past(d)' <=> Past(d)
    <3>1. log'[d].on = log[d].on /\ \A e \in log[d].on : Released(e)' <=> Released(e)
      BY <1>2, <1>3, <1>4, <2>1
    <3> QED BY <3>1 DEF Past
  <2> QED BY <2>1
<1>6. c \notin Releases => (Released(c)' <=> Released(b))
  BY <1>2 DEF Released
<1>7. Past(c)' => Released(b) /\ c \notin Releases
  <2> SUFFICES ASSUME NEW e \in log'[c].on \ Releases, Released(e)' PROVE Released(b) /\ c \notin Releases
    BY DEF Past
  <2>1. CASE e = c
    BY <1>6, <2>1
  <2>2. CASE e # c
    <3>1. e \in log[b].on /\ Released(e)
      BY <1>2, <1>3, <1>4, <2>2
    <3> QED BY <1>3, <3>1 DEF Released
  <2> QED BY <2>1, <2>2
<1>8. OneEach'
  <2> SUFFICES ASSUME NEW d \in Commits, NEW r \in log'[d].on \cap Releases, NEW s \in log'[d].on \cap Releases
               PROVE  r = s
    BY DEF OneEach
  <2>1. CASE d = c
    <3>1. r \in log[b].on \cup {c} /\ s \in log[b].on \cup {c}
      BY <1>2, <2>1
    <3>2. c \in Releases => r = c /\ s = c
      BY <3>1 DEF Released
    <3> QED BY <3>1, <3>2 DEF RInv, Outside, OneEach
  <2>2. CASE d # c
    <3>1. log'[d] = log[d]
      BY <2>2, <1>1 DEF Make, TypeOK
    <3> QED BY <3>1 DEF RInv, Outside, OneEach
  <2> QED BY <2>1, <2>2
<1> QED BY <1>2, <1>4, <1>5, <1>6, <1>7, <1>8

\* Commits in the checkout are not seen outside.
LEMMA MakeOutside ==
    ASSUME IInv, RInv, NEW c \in Commits, NEW x, Make(c, head, x), c \in Releases => ~Released(head),
           UNCHANGED <<remote, inflight, github, done>>
    PROVE  Outside'
<1>1. head \in Commits /\ Made(head) /\ remote.branch \in Commits /\ Made(remote.branch)
  BY DEF IInv, TypeOK, Known
<1>2. /\ OneEach' /\ (Past(remote.branch)' <=> Past(remote.branch)) /\ log'[remote.branch].on = log[remote.branch].on
  BY <1>1, MakeReleases
<1> QED BY <1>2 DEF RInv, Outside, Whole, Reported, PublishedTogether, GitHubFollowsTags

LEMMA HooksPlanned == ASSUME IInv, RInv, RunHooks PROVE RInv'
<1>1. /\ pc \in Changing /\ pc' \in Changing \ {"add", "commit"} /\ pc \in Body /\ pc \notin Tagging
      /\ UNCHANGED <<tags, journal, locals, remote, inflight, github, done>>
  BY DEF RunHooks, Changing, Body, Tagging
<1>2. Keeps /\ TagsStay
  BY <1>1 DEF Keeps, TagsStay
<1>3. plan.release /\ ~resumable /\ ~Released(txn.source) /\ ~accepted
  BY <1>1, NotAccepted DEF RInv, Planned, Ahead
<1>4. ASSUME Outside', \A d \in Commits : Made(d) => (Released(d)' <=> Released(d)) PROVE RInv'
  BY <1>1, <1>2, <1>3, <1>4, ChangesOn, KeepsTags DEF RInv
<1>5. CASE UNCHANGED log
  BY <1>1, <1>4, <1>5, SameCommits, OutsideStays DEF RInv
<1>6. ASSUME NEW c \in Changes, Make(c, head, log[head].created) PROVE RInv'
  <2>1. c \in Commits /\ c \notin Releases /\ head \in Commits /\ Made(head)
    BY CommitsIn, CommitsAssumption DEF IInv, TypeOK, Known
  <2>2. Outside'
    BY <1>1, <1>6, <2>1, MakeOutside
  <2>3. \A d \in Commits : Made(d) => (Released(d)' <=> Released(d))
    BY <1>6, <2>1, MakeReleases
  <2> QED BY <1>4, <2>2, <2>3
<1> QED BY <1>5, <1>6 DEF RunHooks

\* The only release commit that a run makes is on a history without one.
LEMMA CommitPlanned == ASSUME IInv, RInv, Commit PROVE RInv'
<1>1. pc = "commit" /\ UNCHANGED <<tags, journal, remote, inflight, github, done>>
  BY DEF Commit
<1>2. pc \in Changing /\ pc \in Body /\ pc \notin Tagging
  BY <1>1 DEF Changing, Body, Tagging
<1>3. plan.release /\ ~resumable /\ ~Released(txn.source) /\ ~accepted /\ head = txn.source
  BY <1>1, <1>2, NotAccepted DEF RInv, Planned, Ahead
<1>4. CASE GiveUp /\ UNCHANGED <<log, head>>
  BY <1>1, <1>4, GiveUpDone, OutsideStays, TagsStayKept DEF RInv, TagsStay
<1>5. ASSUME NEW c \in Releases, Make(c, head, files.created), pc' = "readHead", UNCHANGED locals PROVE RInv'
  <2>1. c \in Commits /\ head \in Commits /\ Made(head)
    BY CommitsIn DEF IInv, TypeOK, Known
  <2>2. Outside'
    BY <1>1, <1>3, <1>5, <2>1, MakeOutside
  <2>3. \A d \in Commits : Made(d) => (Released(d)' <=> Released(d))
    BY <1>3, <1>5, <2>1, MakeReleases
  <2>4. Keeps /\ TagsStay /\ pc' \in Changing \ {"add", "commit"}
    BY <1>1, <1>5 DEF Keeps, TagsStay, Changing
  <2> QED BY <1>1, <1>2, <1>3, <1>5, <2>2, <2>3, <2>4, ChangesOn, KeepsTags DEF RInv
<1> QED BY <1>4, <1>5 DEF Commit

\* A push sends the release commit and all its tags.
LEMMA PushPlanned == ASSUME IInv, RInv, Push PROVE RInv'
<1>1. /\ pc = "push" /\ pc' = "pushed" /\ UNCHANGED <<log, head, tags, journal, locals, remote, github, done>>
      /\ inflight' = {[p EXCEPT !.late = TRUE] : p \in inflight}
                        \cup {[commit |-> head, tags |-> tags, late |-> FALSE]}
  BY DEF Push
<1>2. pc \in Tagging \ {"tag"} /\ pc \in Body /\ pc' \in Tagging \ {"tag"}
  BY <1>1 DEF Tagging, Body
<1>3. head \in Releases /\ AllAt(tags, head)
  BY <1>2, RunFacts DEF RInv, Reached
<1>4. \A q \in inflight' : /\ q.late \/ q.commit = head
                           /\ q.commit \in Releases /\ AllAt(q.tags, q.commit)
  <2>1. ASSUME NEW p \in inflight
        PROVE  LET q == [p EXCEPT !.late = TRUE] IN q.late /\ q.commit = p.commit /\ q.tags = p.tags
    BY DEF IInv, TypeOK
  <2>2. ASSUME NEW q \in inflight'
        PROVE  (q.late \/ q.commit = head) /\ q.commit \in Releases /\ AllAt(q.tags, q.commit)
    <3>1. CASE q = [commit |-> head, tags |-> tags, late |-> FALSE]
      BY <1>3, <3>1
    <3>2. ASSUME NEW p \in inflight, q = [p EXCEPT !.late = TRUE]
          PROVE  (q.late \/ q.commit = head) /\ q.commit \in Releases /\ AllAt(q.tags, q.commit)
      <4>1. q.late /\ q.commit = p.commit /\ q.tags = p.tags
        BY <2>1, <3>2
      <4> QED BY <4>1 DEF RInv, Outside, Whole
    <3> QED BY <1>1, <3>1, <3>2
  <2> QED BY <2>2
<1>5. Outside'
  BY <1>1, <1>4 DEF RInv, Outside, OneEach, Whole, Reported, Past, Released, PublishedTogether, GitHubFollowsTags
<1>6. Keeps /\ TagsStay /\ (TagsAgree' <=> TagsAgree)
  BY <1>1 DEF Keeps, TagsStay, TagsAgree
<1>7. Planned' /\ TagsKept'
  <2>1. plan.release /\ (resumable => TagsAgree) /\ \A d \in Commits : Made(d) => (Released(d)' <=> Released(d))
    BY <1>1, <1>2, SameCommits DEF RInv, Planned, Gated, Ahead
  <2> QED BY <1>1, <1>2, <1>6, <2>1, TaggingOn, KeepsTags
<1>8. Reached'
  BY <1>1, <1>2, <1>3, <1>4 DEF RInv, Reached, AtOrigin, Tail
<1> QED BY <1>5, <1>7, <1>8 DEF RInv

-------------------------------------------------------------------------------
\* Origin, and others.

\* A step that the run does not see.
LEMMA PlannedStays ==
    ASSUME IInv, RInv, UNCHANGED <<pc, locals, journal, head>>, TagsAgree' <=> TagsAgree,
           \A d \in Commits : Made(d) => (Released(d)' <=> Released(d))
    PROVE  Planned'
<1>1. InTransaction' <=> InTransaction
  BY DEF InTransaction
<1>2. Working' /\ Gated'
  <2>1. Released(head)' <=> Released(head)
    BY DEF IInv, TypeOK, Known
  <2> QED BY <1>1, <2>1 DEF RInv, Planned, Working, Gated
<1>3. Ahead' /\ Back'
  <2>1. Released(head)' <=> Released(head)
    BY DEF IInv, TypeOK, Known
  <2>2. pc \in Body \cup Restoring => (Released(txn.source)' <=> Released(txn.source))
    BY RunFacts DEF InTransaction
  <2> QED BY <2>1, <2>2, BodyLabels DEF RInv, Planned, Ahead, Back
<1> QED BY <1>2, <1>3 DEF Planned

\* Origin's tags stay, so that what the run has seen of them does.
LEMMA ReachedStays ==
    ASSUME Reached, UNCHANGED <<pc, locals, head, tags, github>>, inflight' \subseteq inflight, AtOrigin => AtOrigin'
    PROVE  Reached'
BY DEF Reached

\* Origin takes all of a push, or nothing.
LEMMA ReceivePlanned == ASSUME IInv, RInv, NEW p \in inflight, Receive(p) PROVE RInv'
<1>1. /\ inflight' = inflight \ {p}
      /\ remote' = IF Acceptable(p) THEN [branch |-> p.commit, tags |-> p.tags] ELSE remote
      /\ accepted' = IF pc = "pushed" /\ ~p.late THEN Acceptable(p) ELSE accepted
      /\ UNCHANGED <<log, head, tags, journal, pc, options, plan, txn, target, pending, github, done>>
  BY DEF Receive
<1>2. p.commit \in Commits /\ Made(p.commit) /\ p.commit \in Releases /\ AllAt(p.tags, p.commit) /\ p.commit # None
  BY CommitsAssumption DEF IInv, TypeOK, Known, RInv, Outside, Whole
<1>3. \A t \in Tags : remote.tags[t] # None => remote'.tags[t] = remote.tags[t]
  BY <1>1 DEF Acceptable
<1>4. \A t \in Tags : remote.tags[t] \in Releases => remote'.tags[t] = remote.tags[t]
  BY <1>3, CommitsIn, CommitsAssumption
<1>5. Outside'
  <2>1. OneEach' /\ Whole'
    BY <1>1 DEF RInv, Outside, OneEach, Whole
  <2>2. Reported' /\ GitHubFollowsTags'
    <3>1. \A c \in done.push \cup done.github : c \in Releases /\ \A t \in Tags : remote'.tags[t] = c
      BY <1>4 DEF RInv, Outside, Reported
    <3>2. \A t \in Tags : github[t] # None => remote'.tags[t] \in Releases
      BY <1>4 DEF RInv, Outside, GitHubFollowsTags
    <3> QED BY <1>1, <3>1, <3>2 DEF RInv, Outside, Reported, GitHubFollowsTags
  <2>3. CASE Acceptable(p)
    <3>1. remote'.branch = p.commit /\ AllAt(remote'.tags, p.commit)
      BY <1>1, <1>2, <2>3
    <3>2. PublishedTogether'
      BY <1>1, <1>2, <3>1 DEF PublishedTogether, Made
    <3> QED BY <1>2, <2>1, <2>2, <3>1, <3>2 DEF Outside
  <2>4. CASE ~Acceptable(p)
    <3>1. remote' = remote
      BY <1>1, <2>4
    <3>2. PublishedTogether' /\ (Past(remote.branch)' <=> Past(remote.branch))
      BY <1>1, <3>1 DEF RInv, Outside, PublishedTogether, Past, Released
    <3> QED BY <2>1, <2>2, <3>1, <3>2 DEF RInv, Outside
  <2> QED BY <2>3, <2>4
<1>6. TagsKept'
  BY <1>1, TagsStayKept DEF RInv, TagsStay
<1>7. Planned'
  <2>1. \A c : Released(c)' <=> Released(c)
    BY <1>1, SameCommits
  <2> QED BY <1>1, <2>1 DEF RInv, Planned, Working, Gated, Ahead, Back, InTransaction, TagsAgree
<1>8. AtOrigin => AtOrigin'
  <2>1. head # None
    BY CommitsAssumption DEF IInv, TypeOK
  <2> QED BY <1>1, <1>3, <2>1 DEF AtOrigin
<1>9. accepted' => AtOrigin' /\ pc \in Tagging /\ txn.phase \in External
  <2>1. CASE pc = "pushed" /\ ~p.late
    <3>1. p.commit = head /\ txn.phase \in External /\ pc \in Tagging
      BY <2>1 DEF RInv, Reached, IInv, Course, Tagging
    <3>2. accepted' => AllAt(remote'.tags, head)
      BY <1>1, <1>2, <2>1, <3>1
    <3> QED BY <1>1, <3>1, <3>2 DEF AtOrigin
  <2>2. CASE ~(pc = "pushed" /\ ~p.late)
    BY <1>1, <1>8, <2>2 DEF RInv, Reached
  <2> QED BY <2>1, <2>2
<1>10. Reached'
  BY <1>1, <1>8, <1>9 DEF RInv, Reached
<1> QED BY <1>5, <1>6, <1>7, <1>10 DEF RInv

\* Someone goes on in the checkout after a release only when its tags are there.
LEMMA CommitChangePlanned == ASSUME IInv, RInv, CommitChange PROVE RInv'
<1>1. /\ ~resumable /\ pc \notin Body \cup {"snapshot"} /\ (journal = None => AllTagged(head, tags))
      /\ UNCHANGED <<tags, journal, pc, locals, remote, inflight, github, done>>
  BY DEF CommitChange, OtherThanCheckout
<1>2. PICK c \in Changes : Make(c, head, log[head].created) /\ head' = c
  BY DEF CommitChange
<1>3. c \in Commits /\ c \notin Releases /\ head \in Commits /\ Made(head)
  BY CommitsIn, CommitsAssumption DEF IInv, TypeOK, Known
<1>4. /\ \A d \in Commits : Made(d) => (Released(d)' <=> Released(d))
      /\ Past(c)' => Released(head)
      /\ Released(c)' <=> Released(head)
  BY <1>2, <1>3, MakeReleases
<1>5. Outside'
  BY <1>1, <1>2, <1>3, MakeOutside
<1>6. TagsKept'
  <2>1. CASE journal = None
    <3>1. Released(head) => AllTags(tags)
      <4>1. None \notin log[head].on
        BY <1>3, CommitsAssumption DEF IInv, TypeOK
      <4> QED BY <1>1, <2>1, <4>1 DEF AllTagged
    <3> QED BY <1>1, <1>2, <1>4, <2>1, <3>1 DEF TagsKept
  <2>2. CASE journal # None
    <3>1. journal.source \in Commits /\ Made(journal.source)
      BY <2>2, TransactionParts DEF IInv, TypeOK, Known
    <3>2. Released(journal.source)' <=> Released(journal.source)
      BY <1>1, <1>4, <3>1
    <3> QED BY <1>1, <2>2, <3>2 DEF RInv, TagsKept
  <2> QED BY <2>1, <2>2
<1>7. pc \notin Changing \cup Tagging \cup {"clear", "writeEmpty", "finishEmpty"}
  BY <1>1, BodyLabels
<1>8. ~accepted
  BY <1>7, NotAccepted DEF RInv
<1>9. Working' /\ Gated' /\ Ahead'
  <2>1. InTransaction' <=> InTransaction
    BY <1>1 DEF InTransaction
  <2> QED BY <1>1, <1>2, <1>3, <1>7, <2>1, NotAhead DEF RInv, Planned, Working, Gated
<1>10. Back'
  <2>1. pc \in Restoring => (Released(txn.source)' <=> Released(txn.source))
    BY <1>4, <1>1, RunFacts DEF InTransaction
  <2>2. Released(head)' <=> Released(head)
    BY <1>2, <1>4
  <2> QED BY <1>1, <2>1, <2>2 DEF RInv, Planned, Back
<1>11. Reached'
  BY <1>1, <1>7, <1>8, NotTagging
<1> QED BY <1>5, <1>6, <1>9, <1>10, <1>11 DEF RInv, Planned

\* Between two runs someone moves HEAD with the tags that belong there.
LEMMA HeadPlanned == ASSUME IInv, RInv, Reset \/ Pull \/ Clone PROVE RInv'
<1>1. pc = "idle" /\ UNCHANGED <<log, pc, locals, remote, inflight, github, done>>
  BY DEF Reset, Pull, Clone, Idle, OtherThanCheckout
<1>2. Outside' /\ \A c : (Released(c)' <=> Released(c)) /\ (Past(c)' <=> Past(c))
  BY <1>1, OutsideStays, SameCommits DEF RInv
<1>3. ~resuming /\ ~accepted /\ pc \notin Body \cup Restoring \cup Early \cup Changing \cup Tagging
  BY <1>1, Labels, BodyLabels, NotAccepted DEF RInv, IInv, Course, Early
<1>4. Planned' /\ Reached'
  BY <1>1, <1>3, BodyLabels, NotWorking, NotGated, NotAhead, NotBack, NotTagging DEF Planned, Early
<1>5. Past(remote.branch) => AllTags(remote.tags)
  BY DEF RInv, Outside
<1>6. TagsKept'
  <2>1. CASE Reset
    <3>1. head' \in log[head].on /\ head \in Commits /\ UNCHANGED <<tags, journal>>
      BY <2>1 DEF Reset, CheckOut, OtherThanCheckout, IInv, TypeOK
    <3>2. Past(head') => Past(head)
      BY <3>1 DEF Past, IInv, Histories
    <3>3. Past(head)' => Past(head)
      BY <1>1, <3>2 DEF Past, Released
    <3> QED BY <1>2, <3>1, <3>3 DEF RInv, TagsKept
  <2>2. CASE Pull
    <3>1. /\ head' = remote.branch /\ UNCHANGED journal
          /\ \A t \in Tags : tags'[t] = IF tags[t] = None THEN remote.tags[t] ELSE tags[t]
      BY <2>2 DEF Pull, CheckOut, OtherThanCheckout
    <3>2. Past(head)' => Past(remote.branch)
      BY <1>1, <3>1 DEF Past, Released
    <3> QED BY <1>2, <1>5, <3>1, <3>2 DEF RInv, TagsKept
  <2>3. CASE Clone
    <3>1. head' = remote.branch /\ journal' = None /\ tags' = remote.tags
      BY <2>3 DEF Clone
    <3>2. Past(head)' => Past(remote.branch)
      BY <1>1, <3>1 DEF Past, Released
    <3> QED BY <1>5, <3>1, <3>2 DEF TagsKept
  <2> QED BY <2>1, <2>2, <2>3
<1> QED BY <1>2, <1>4, <1>6 DEF RInv

\* Nobody makes a tag that the run has already looked at.
LEMMA SetTagPlanned == ASSUME IInv, RInv, NEW t \in Tags, SetTag(t) PROVE RInv'
<1>1. /\ UNCHANGED <<log, head, journal, pc, locals, remote, inflight, github, done>>
      /\ \/ tags[t] = None /\ ~resumable /\ tags' = [tags EXCEPT ![t] = Elsewhere]
         \/ pc = "idle" /\ journal # None /\ tags' = [tags EXCEPT ![t] = journal.source]
  BY DEF SetTag, Idle, OtherThanCheckout
<1>2. tags \in [Tags -> Commits \cup {None}] /\ Elsewhere # None /\ (journal # None => journal.source # None)
  BY CommitsIn, CommitsAssumption, TransactionParts DEF IInv, TypeOK, Refs
<1>3. TagsStay
  BY <1>1, <1>2 DEF TagsStay
<1>4. Outside' /\ TagsKept'
  BY <1>1, <1>3, OutsideStays, TagsStayKept DEF RInv
<1>5. CASE pc = "idle"
  <2>1. ~resuming /\ ~accepted /\ pc \notin Body \cup Restoring \cup Early \cup Changing \cup Tagging
    BY <1>5, Labels, BodyLabels, NotAccepted DEF RInv, IInv, Course, Early
  <2>2. Planned' /\ Reached'
    BY <1>1, <2>1, BodyLabels, NotWorking, NotGated, NotAhead, NotBack, NotTagging DEF Planned, Early
  <2> QED BY <1>4, <2>2 DEF RInv
<1>6. CASE pc # "idle"
  <2>1. tags[t] = None /\ ~resumable /\ \A u \in Tags \ {t} : tags'[u] = tags[u]
    BY <1>1, <1>2, <1>6
  <2>2. \A d \in Commits : Made(d) => (Released(d)' <=> Released(d))
    BY <1>1, SameCommits
  <2>3. Planned'
    <3>1. \A c : Released(c)' <=> Released(c)
      BY <1>1, SameCommits
    <3>2. Working' /\ Back'
      BY <1>1, <3>1 DEF RInv, Planned, Working, Back, InTransaction
    <3>3. Gated' /\ Ahead'
      BY <1>1, <2>1, <3>1 DEF RInv, Planned, Gated, Ahead
    <3> QED BY <3>2, <3>3 DEF Planned
  <2>4. head # None
    BY CommitsAssumption DEF IInv, TypeOK
  <2>5. pc \notin Tagging \ {"tag"}
    BY <2>1, <2>4 DEF RInv, Reached
  <2>6. pc = "tag" => \A u \in Tags \ pending : tags'[u] = head
    BY <2>1, <2>4 DEF RInv, Reached
  <2>7. Reached'
    BY <1>1, <2>5, <2>6 DEF RInv, Reached, AtOrigin, Tail, Tagging
  <2> QED BY <1>4, <2>3, <2>7 DEF RInv
<1> QED BY <1>5, <1>6

\* A tag elsewhere at origin keeps the release away, as a whole.
LEMMA PushTagPlanned == ASSUME IInv, RInv, NEW t \in Tags, PushTag(t) PROVE RInv'
<1>1. /\ remote.tags[t] = None /\ remote' = [remote EXCEPT !.tags[t] = Elsewhere]
      /\ UNCHANGED <<log, head, tags, journal, pc, locals, inflight, github, done>>
  BY DEF PushTag, OtherThanOrigin
<1>2. /\ remote'.branch = remote.branch /\ remote'.tags[t] = Elsewhere
      /\ \A u \in Tags \ {t} : remote'.tags[u] = remote.tags[u]
  BY <1>1 DEF IInv, TypeOK, Refs
<1>3. Elsewhere \notin Releases /\ Elsewhere # None /\ None \notin Releases /\ head # None
  BY CommitsIn, CommitsAssumption DEF IInv, TypeOK
<1>4. \A u \in Tags : remote.tags[u] \notin Releases /\ remote'.tags[u] \notin Releases
  BY <1>1, <1>2, <1>3 DEF RInv, Outside, PublishedTogether
<1>5. Outside'
  <2>1. OneEach' /\ Whole' /\ (Past(remote.branch)' <=> Past(remote.branch))
    BY <1>1, <1>2 DEF RInv, Outside, OneEach, Whole, Past, Released
  <2>2. Past(remote.branch)' => AllTags(remote.tags)'
    BY <1>2, <1>3, <2>1 DEF RInv, Outside
  <2>3. done.push \cup done.github = {} /\ \A u \in Tags : github[u] = None
    BY <1>1, <1>3, <1>4 DEF RInv, Outside, Reported, GitHubFollowsTags
  <2>4. Reported' /\ GitHubFollowsTags'
    BY <1>1, <2>3 DEF Reported, GitHubFollowsTags
  <2>5. PublishedTogether'
    BY <1>4 DEF PublishedTogether
  <2> QED BY <2>1, <2>2, <2>4, <2>5 DEF Outside
<1>6. TagsKept'
  BY <1>1, TagsStayKept DEF RInv, TagsStay
<1>7. Planned'
  BY <1>1, SameCommits, PlannedStays DEF TagsAgree
<1>8. ~AtOrigin
  BY <1>1, <1>3 DEF AtOrigin
<1> QED BY <1>1, <1>5, <1>6, <1>7, <1>8, ReachedStays DEF RInv

\* Someone goes on at origin after a release only when its tags are there.
LEMMA OriginPlanned == ASSUME IInv, RInv, PushChange \/ MergeRelease PROVE RInv'
<1>1. UNCHANGED <<head, tags, journal, pc, locals, inflight, github, done>>
  BY DEF PushChange, MergeRelease, OtherThanOrigin
<1>2. \E c \in Commits, x \in BOOLEAN :
          /\ Make(c, remote.branch, x) /\ remote' = [remote EXCEPT !.branch = c]
          /\ IF c \in Releases THEN ~Released(remote.branch) ELSE AllTagged(remote.branch, remote.tags)
  <2>1. log[remote.branch].created \in BOOLEAN
    BY DEF IInv, TypeOK
  <2> QED BY <2>1, CommitsIn, CommitsAssumption DEF PushChange, MergeRelease
<1>3. PICK c \in Commits, x \in BOOLEAN :
          /\ Make(c, remote.branch, x) /\ remote' = [remote EXCEPT !.branch = c]
          /\ IF c \in Releases THEN ~Released(remote.branch) ELSE AllTagged(remote.branch, remote.tags)
  BY <1>2
<1>4. /\ remote.branch \in Commits /\ Made(remote.branch) /\ remote'.branch = c /\ remote'.tags = remote.tags
      /\ head \in Commits /\ Made(head)
  BY <1>3 DEF IInv, TypeOK, Known
<1>5. /\ \A d \in Commits : Made(d) => (Released(d)' <=> Released(d)) /\ (Past(d)' <=> Past(d))
      /\ Past(c)' => Released(remote.branch) /\ c \notin Releases
      /\ OneEach'
  BY <1>3, <1>4, MakeReleases
<1>6. log'[c].on = log[remote.branch].on \cup {c}
  BY <1>3 DEF Make, IInv, TypeOK
<1>7. Past(c)' => AllTags(remote.tags)
  <2>1. None \notin log[remote.branch].on
    BY <1>4, CommitsAssumption DEF IInv, TypeOK
  <2> QED BY <1>3, <1>5, <2>1 DEF AllTagged
<1>8. PublishedTogether'
  BY <1>4, <1>6 DEF RInv, Outside, PublishedTogether
<1>9. Outside'
  <2>1. Past(remote.branch)' => AllTags(remote.tags)'
    BY <1>4, <1>7
  <2>2. Whole' /\ Reported' /\ GitHubFollowsTags'
    BY <1>1, <1>4 DEF RInv, Outside, Whole, Reported, GitHubFollowsTags
  <2> QED BY <1>5, <1>8, <2>1, <2>2 DEF Outside
<1>10. TagsKept'
  <2>1. Past(head)' <=> Past(head)
    BY <1>1, <1>4, <1>5
  <2>2. journal # None => (Released(journal.source)' <=> Released(journal.source))
    <3>1. journal # None => journal.source \in Commits /\ Made(journal.source)
      BY TransactionParts DEF IInv, TypeOK, Known
    <3> QED BY <1>1, <1>5, <3>1
  <2> QED BY <1>1, <2>1, <2>2 DEF RInv, TagsKept
<1>11. Planned'
  BY <1>1, <1>5, PlannedStays DEF TagsAgree
<1>12. AtOrigin => AtOrigin'
  BY <1>1, <1>4 DEF AtOrigin
<1> QED BY <1>1, <1>9, <1>10, <1>11, <1>12, ReachedStays DEF RInv

-------------------------------------------------------------------------------
(* The theorems about what others see. *)

LEMMA ReleaseBegins == ASSUME Init, IInv PROVE RInv
<1>1. Root \in Commits /\ Elsewhere \in Commits /\ Root \notin Releases /\ Elsewhere \notin Releases
  BY CommitsIn, CommitsAssumption
<1>2. \A c \in Commits : log[c].on \cap Releases = {}
  BY <1>1 DEF Init
<1>3. \A c \in Commits : ~Released(c)
  BY <1>2 DEF Released
<1>4. \A c \in Commits : ~Past(c)
  BY <1>3, PastReleased
<1>5. \A t \in Tags : remote.tags[t] = None /\ github[t] = None
  BY DEF Init, NoTags
<1>6. head \in Commits /\ remote.branch \in Commits /\ None \notin Releases
  BY CommitsIn, CommitsAssumption DEF IInv, TypeOK
<1>7. Outside
  BY <1>2, <1>4, <1>5, <1>6 DEF Init, Outside, OneEach, Whole, Reported, PublishedTogether, GitHubFollowsTags
<1>8. TagsKept
  BY <1>4, <1>6 DEF Init, TagsKept
<1>9. pc = "idle" /\ pc \notin Body \cup Restoring \cup Early \cup Changing \cup Tagging
  BY Labels, BodyLabels DEF Init
<1>10. Planned
  BY <1>9, BodyLabels DEF Init, Planned, Working, Gated, Ahead, Back, InTransaction, Early
<1>11. Reached
  BY <1>9 DEF Init, Reached, Tail, Tagging
<1> QED BY <1>7, <1>8, <1>10, <1>11 DEF RInv

LEMMA ReleaseStep == ASSUME IInv, RInv, [Next]_vars PROVE RInv'
<1>1. CASE UNCHANGED vars
  <2>1. Outside' /\ TagsKept'
    BY <1>1, OutsideStays, TagsStayKept DEF vars, RInv, TagsStay
  <2>2. Planned'
    BY <1>1, SameCommits, PlannedStays DEF vars, TagsAgree
  <2>3. Reached'
    BY <1>1, ReachedStays DEF vars, RInv, AtOrigin
  <2> QED BY <2>1, <2>2, <2>3 DEF RInv
<1>2. CASE Start \/ Execute
  BY <1>2, StartsPlanned, SnapshotPlanned, ChangesPlanned, EmptyPlanned, HooksPlanned, CommitPlanned,
     PublicationPlanned, PushPlanned, FinishPlanned, RollbackPlanned, ForgetPlanned DEF Execute
<1>3. CASE Faulty
  BY <1>3, FaultsPlanned DEF Faulty
<1>4. CASE Arrive
  BY <1>4, ReceivePlanned DEF Arrive
<1>5. CASE Intervene
  BY <1>5, CommitChangePlanned, HeadPlanned, SetTagPlanned, PushTagPlanned, OriginPlanned DEF Intervene
<1> QED BY <1>1, <1>2, <1>3, <1>4, <1>5 DEF Next

LEMMA ReleaseHolds == Spec => [](IInv /\ RInv)
<1>1. Init => IInv /\ RInv
  BY InitHolds, ReleaseBegins
<1>2. IInv /\ RInv /\ [Next]_vars => IInv' /\ RInv'
  BY StepHolds, ReleaseStep
<1> QED BY <1>1, <1>2, PTL DEF Spec

\* What others see on origin and GitHub is nothing of the release, or one release with
\* all its tags: a run commits one only on a history without one, and a push is atomic
\* and has every tag on the release commit, however often runs fail, resume or repeat.
THEOREM OneReleaseIsWhole == Spec => []OneWholeRelease
<1>1. ASSUME IInv, RInv PROVE OneWholeRelease
  <2> DEFINE S == log[remote.branch].on \cap Releases
  <2>1. remote.branch \in Commits
    BY <1>1 DEF IInv, TypeOK
  <2>2. \A r, s \in S : r = s
    BY <1>1, <2>1 DEF RInv, Outside, OneEach
  <2>3. Cardinality(S) <= 1
    <3> HIDE DEF S
    <3>1. CASE S = {}
      BY <3>1, FS_EmptySet
    <3>2. ASSUME NEW r \in S PROVE Cardinality(S) <= 1
      <4>1. S = {r}
        BY <2>2
      <4> QED BY <4>1, FS_Singleton
    <3> QED BY <3>1, <3>2
  <2> QED BY <1>1, <2>3 DEF RInv, Outside, OneWholeRelease, OneRelease
<1> QED BY <1>1, ReleaseHolds, PTL

\* A run that reports a published release has published all of it: its commit and every
\* tag are at origin, and with GitHub releases each tag has one.
THEOREM ReportedIsPublished == Spec => []FinishedIsComplete
<1>1. ASSUME IInv, RInv PROVE FinishedIsComplete
  <2>1. \A c \in done.push \cup done.github : c \in Releases /\ AllAt(remote.tags, c)
    BY <1>1 DEF RInv, Outside, Reported
  <2>2. done.push \subseteq log[remote.branch].on
    BY <1>1, <2>1, TagsAssumption DEF RInv, Outside, PublishedTogether
  <2> QED BY <1>1, <2>1, <2>2 DEF RInv, Outside, Reported, FinishedIsComplete
<1> QED BY <1>1, ReleaseHolds, PTL

-------------------------------------------------------------------------------
\* What is left of a run in the checkout: a third inductive invariant.

\* The manifests and the index are those of HEAD; a commit that a rollback overlooked
\* may have its parent's index.
Version(c) == IF Released(c) THEN "new" ELSE "old"
Agrees == files.manifest = Version(head) /\ (head \in overlooked \/ index = head)

\* A tag that is none of a release commit made since.
Old(t, c) == t \in log[c].on \cup {None, Elsewhere}

\* Where the checkout agrees with HEAD, and what its files are elsewhere.
Whenever == pc \in {"clear", "writeEmpty", "finishEmpty", "readHead"} \cup Tagging
Settled ==
    /\ journal = None \/ journal.phase \in External \/ Whenever => Agrees
    /\ pc \in {"afterHooks", "committing", "add", "commit"} => files.manifest = "new"
    /\ pc = "snapshot" => index = head

\* Release notes without their payload are there only while there is a journal.
Payload ==
    /\ journal = None => files.output # "notes"
    /\ pc = "finishEmpty" => files.output = "empty"
    /\ pc \in {"published", "afterRelease", "finish"} => files.output = "new"

\* What the journal recorded is a checkout of its source.
Recording ==
    journal # None =>
        /\ journal.files.output # "notes"
        /\ log[journal.source].on \cap undone = {}
        /\ journal.phase \notin External =>
              /\ journal.files.manifest = Version(journal.source)
              /\ journal.index = journal.source
              /\ \A t \in Tags : Old(journal.tags[t], journal.source)

\* The run works with what the journal recorded.
Carried == InTransaction => txn.files = journal.files /\ txn.index = journal.index

\* A plan without releases has a tag in its history for each package.
Looked ==
    /\ pc \in {"load", "derive", "verify", "snapshot"} /\ ~resuming /\ ~plan.release =>
           \A t \in Tags : tags[t] \in log[plan.source].on
    /\ pc = "snapshot" /\ ~resumable => \A t \in Tags : Old(tags[t], plan.source)

\* No tag is on a commit that was taken off the branch, or is about to be.
Untagged ==
    /\ \A t \in Tags : tags[t] \notin undone
    /\ pc \in {"untag", "removeCreated", "restore", "resetRef"} =>
           \A c \in log[target].on \ log[txn.source].on, t \in Tags :
               tags[t] # c \/ (pc = "untag" /\ t \in pending)

\* What a rollback has restored.
Restored ==
    /\ pc \in Restoring \ {"rollback"} => log[txn.source].on \subseteq log[head].on
    /\ pc \in Restoring \ {"rollback", "readTarget"} /\ (target = txn.source \/ pc \in {"restoreIndex", "forget"}) =>
           head = txn.source \/ head \in overlooked
    /\ pc \in {"resetRef", "restoreIndex", "forget"} \/ (pc = "restore" /\ "manifest" \notin pending) =>
           files.manifest = txn.files.manifest
    /\ pc \in {"resetRef", "restoreIndex", "forget"} \/ (pc = "restore" /\ "output" \notin pending) =>
           files.output = txn.files.output
    /\ pc = "forget" => head \in overlooked \/ index = head

KInv == Settled /\ Payload /\ Recording /\ Carried /\ Looked /\ Untagged /\ Restored

\* The commits that exist stay as they are.
LogStays == \A d \in Commits : Made(d) => log'[d].on = log[d].on

LEMMA SameLog == ASSUME UNCHANGED log PROVE LogStays
BY DEF LogStays

\* The checkout stays as it is.
LEMMA AgreesStays ==
    ASSUME IInv, Agrees, LogStays, UNCHANGED <<head, index, overlooked>>, files'.manifest = files.manifest PROVE Agrees'
<1>1. Version(head)' = Version(head)
  <2>1. head \in Commits /\ Made(head)
    BY DEF IInv, TypeOK, Known
  <2>2. Version(head)' = (IF Released(head)' THEN "new" ELSE "old") /\ log'[head].on = log[head].on
    BY <2>1 DEF Version, LogStays
  <2>3. Released(head)' <=> Released(head)
    BY <2>2 DEF Released
  <2> QED BY <2>2, <2>3 DEF Version
<1> QED BY <1>1 DEF Agrees

\* The journal still has what it recorded.
SameRecord ==
    \/ UNCHANGED journal
    \/ journal' = None
    \/ /\ journal # None
       /\ journal'.files = journal.files /\ journal'.index = journal.index
       /\ journal'.tags = journal.tags /\ journal'.source = journal.source
       /\ journal'.phase \in External \/ journal.phase \notin External

LEMMA RecordingStays ==
    ASSUME IInv, KInv, LogStays, UNCHANGED undone, SameRecord PROVE Recording'
<1>1. CASE journal' = None
  BY <1>1 DEF Recording
<1>2. CASE journal = None
  BY <1>2 DEF SameRecord, Recording
<1>3. CASE journal # None /\ journal' # None
  <2>1. journal.source \in Commits /\ Made(journal.source)
    BY <1>3, TransactionParts DEF IInv, TypeOK, Known
  <2>2. /\ journal'.files = journal.files /\ journal'.index = journal.index
        /\ journal'.tags = journal.tags /\ journal'.source = journal.source
        /\ journal'.phase \in External \/ journal.phase \notin External
    BY <1>3 DEF SameRecord
  <2> DEFINE s == journal.source
  <2>3. log'[s].on = log[s].on
    BY <2>1 DEF LogStays
  <2>4. Version(journal.source)' = Version(s)
    <3>1. Version(journal.source)' = (IF log'[s].on \cap Releases # {} THEN "new" ELSE "old")
      BY <2>2 DEF Version, Released
    <3> QED BY <3>1, <2>3 DEF Version, Released
  <2>5. \A t \in Tags : Old(journal.tags[t], journal.source)' <=> Old(journal.tags[t], s)
    BY <2>2, <2>3 DEF Old
  <2>6. /\ journal.files.output # "notes" /\ log[s].on \cap undone = {}
        /\ journal.phase \notin External =>
              /\ journal.files.manifest = Version(s) /\ journal.index = s
              /\ \A t \in Tags : Old(journal.tags[t], s)
    BY <1>3 DEF KInv, Recording
  <2> QED BY <2>2, <2>3, <2>4, <2>5, <2>6 DEF Recording
<1> QED BY <1>1, <1>2, <1>3

\* What is claimed only of some places.
LEMMA NotLooked == ASSUME pc' \notin {"load", "derive", "verify", "snapshot"} PROVE Looked'
BY DEF Looked

LEMMA NotRestored == ASSUME pc' \notin Restoring \ {"rollback"} PROVE Restored'
BY DEF Restored, Restoring

LEMMA NotUntagged ==
    ASSUME pc' \notin Restoring \ {"rollback"}, \A t \in Tags : tags'[t] \notin undone' PROVE Untagged'
BY DEF Untagged, Restoring

LEMMA NotCarried == ASSUME pc' \notin Body \cup Restoring \cup {"recover"}, ~resuming' PROVE Carried'
BY DEF Carried, InTransaction

LEMMA NotSettled ==
    ASSUME journal' # None, journal'.phase \notin External, pc' \notin Tagging,
           pc' \notin {"clear", "writeEmpty", "finishEmpty", "readHead", "snapshot"},
           pc' \notin {"afterHooks", "committing", "add", "commit"}
    PROVE  Settled'
BY DEF Settled, Whenever

LEMMA AgreesSettled ==
    ASSUME Agrees', pc' \notin {"afterHooks", "committing", "add", "commit", "snapshot"} PROVE Settled'
BY DEF Settled

LEMMA PayloadLater ==
    ASSUME journal' # None, pc' \notin {"finishEmpty", "published", "afterRelease", "finish"} PROVE Payload'
BY DEF Payload

LEMMA PayloadSame ==
    ASSUME Payload, UNCHANGED journal, files'.output = files.output,
           pc' \notin {"finishEmpty", "published", "afterRelease", "finish"}
    PROVE  Payload'
BY DEF Payload

\* The end of a run, and the beginning of a rollback.
Untouched == UNCHANGED <<head, index, files, tags, undone, overlooked>>

LEMMA ReturnLeaves ==
    ASSUME IInv, KInv, Return, LogStays, Untouched, UNCHANGED journal PROVE KInv'
<1>1. pc' = "idle" /\ ~resuming'
  BY DEF Return
<1>2. pc' \notin Body \cup Restoring \cup Early /\ pc' \notin Tagging
  BY <1>1, Labels, BodyLabels
<1>3. Recording' /\ Carried' /\ Looked' /\ Untagged' /\ Restored' /\ Payload'
  BY <1>1, <1>2, RecordingStays, NotCarried, NotLooked, NotUntagged, NotRestored, PayloadSame
  DEF KInv, Untagged, Untouched, SameRecord
<1>4. Settled'
  <2>1. CASE journal = None \/ journal.phase \in External
    BY <1>1, <2>1, AgreesStays, AgreesSettled DEF KInv, Settled, Untouched
  <2>2. CASE journal # None /\ journal.phase \notin External
    BY <1>1, <1>2, <2>2, NotSettled
  <2> QED BY <2>1, <2>2
<1> QED BY <1>3, <1>4 DEF KInv

LEMMA GiveUpLeaves ==
    ASSUME IInv, KInv, GiveUp, LogStays, Untouched, UNCHANGED journal PROVE KInv'
<1>1. CASE Return
  BY <1>1, ReturnLeaves
<1>2. CASE ~Return
  <2>1. /\ pc \in Body /\ txn.phase \notin External /\ pc' = "rollback"
        /\ UNCHANGED <<resuming, txn>>
    BY <1>2 DEF GiveUp
  <2>2. InTransaction /\ journal # None /\ journal.phase \notin External
    BY <2>1, RunFacts DEF InTransaction
  <2>3. pc' \notin Restoring \ {"rollback"} /\ pc' \notin Tagging /\ pc' \notin Body
    BY <2>1 DEF Tagging, Body
  <2>4. Recording' /\ Looked' /\ Untagged' /\ Restored'
    BY <2>1, <2>3, RecordingStays, NotLooked, NotUntagged, NotRestored
    DEF KInv, Untagged, Untouched, SameRecord
  <2>5. Carried' /\ Payload' /\ Settled'
    BY <2>1, <2>2, <2>3, NotSettled, PayloadLater DEF KInv, Carried
  <2> QED BY <2>4, <2>5 DEF KInv
<1> QED BY <1>1, <1>2

-------------------------------------------------------------------------------
\* The start of a run.

LEMMA StartsSettled ==
    ASSUME IInv, KInv, Start \/ Load \/ Resume \/ RecoverLocally \/ Derive \/ Verify PROVE KInv'
<1>1. UNCHANGED <<log, head, index, files, tags, journal, undone, overlooked>>
  BY DEF Start, Load, Resume, RecoverLocally, Derive, Verify, Unaffected
<1>2. LogStays /\ Untouched
  BY <1>1, SameLog DEF Untouched
<1>3. CASE Return
  BY <1>1, <1>2, <1>3, ReturnLeaves
<1>4. ASSUME ~Return PROVE KInv'
  <2>1. pc' \in {"load", "derive", "recover", "rollback", "verify", "snapshot", "clear"}
    BY <1>4 DEF Start, Load, Resume, RecoverLocally, Derive, Verify
  <2>2. pc' \notin Restoring \ {"rollback"} /\ pc' \notin Tagging
    BY <2>1 DEF Restoring, Tagging
  <2>3. Recording' /\ Untagged' /\ Restored' /\ Payload'
    BY <1>1, <1>2, <2>1, <2>2, RecordingStays, NotUntagged, NotRestored, PayloadSame
    DEF KInv, Untagged, SameRecord
  <2>4. Settled'
    <3>1. CASE journal = None \/ journal.phase \in External
      <4>1. Agrees'
        BY <1>1, <1>2, <3>1, AgreesStays DEF KInv, Settled
      <4>2. pc' = "snapshot" => index = head
        BY <1>4, <2>1 DEF Start, Load, Resume, RecoverLocally, Derive, Verify, Verified, Clean
      <4> QED BY <1>1, <2>1, <4>1, <4>2 DEF Settled
    <3>2. CASE journal # None /\ journal.phase \notin External
      <4>1. pc' # "clear"
        <5>1. SUFFICES ASSUME pc' = "clear" PROVE FALSE
          OBVIOUS
        <5>2. pc = "verify" /\ resuming
          BY <1>4, <5>1 DEF Start, Load, Resume, RecoverLocally, Derive, Verify
        <5>3. txn.phase \in External /\ txn.phase = journal.phase
          BY <5>2, RunFacts DEF IInv, Course, InTransaction
        <5> QED BY <5>3, <3>2
      <4>2. pc' = "snapshot" => index' = head'
        BY <1>1, <1>4, <2>1 DEF Start, Load, Resume, RecoverLocally, Derive, Verify, Verified, Clean
      <4> QED BY <1>1, <2>1, <2>2, <3>2, <4>1, <4>2 DEF Settled, Whenever
    <3> QED BY <3>1, <3>2
  <2>5. Carried'
    <3>1. CASE Start
      BY <3>1, NotCarried, Labels DEF Start, IInv, Course, Body, Restoring
    <3>2. CASE Load
      <4>1. ~resuming /\ ~resuming' /\ txn' = journal' /\ pc' \in {"derive", "recover"}
        BY <3>2 DEF Load, Unaffected, IInv, Course, Body
      <4> QED BY <4>1 DEF Carried
    <3>3. CASE Resume
      <4>1. txn' = [txn EXCEPT !.releaseHead = head] /\ journal' = journal /\ InTransaction
        BY <3>3, <1>4 DEF Resume, Unaffected, InTransaction
      <4>2. txn \in Transactions /\ head \in Commits
        BY <4>1, RunFacts DEF IInv, TypeOK
      <4>3. txn'.files = txn.files /\ txn'.index = txn.index
        BY <4>1, <4>2, ReleaseHeadSet
      <4> QED BY <4>1, <4>3 DEF KInv, Carried
    <3>4. CASE RecoverLocally
      BY <3>4 DEF RecoverLocally, Unaffected, KInv, Carried, InTransaction
    <3>5. CASE Derive \/ Verify
      <4>1. UNCHANGED <<resuming, txn, journal>> /\ pc' \in {"verify", "clear", "snapshot"}
            /\ (pc' = "clear" => resuming)
        BY <3>5, <1>4 DEF Derive, Verify, Unaffected
      <4>2. InTransaction' => InTransaction
        BY <4>1 DEF InTransaction, Body, Restoring
      <4> QED BY <4>1, <4>2 DEF KInv, Carried
    <3> QED BY <3>1, <3>2, <3>3, <3>4, <3>5
  <2>6. Looked'
    <3>1. CASE Start
      <4>1. plan' = PlanAt(head) /\ pc' = "load"
        BY <3>1 DEF Start
      <4>2. plan'.source = head /\ (~plan'.release => \A t \in Tags : tags[t] \in log[head].on)
        BY <4>1 DEF PlanAt
      <4> QED BY <1>1, <4>1, <4>2 DEF Looked
    <3>2. CASE Load
      BY <1>1, <3>2 DEF Load, KInv, Looked
    <3>3. CASE Resume
      BY <3>3, <1>4 DEF Resume, Looked
    <3>4. CASE RecoverLocally
      BY <3>4 DEF RecoverLocally, Looked
    <3>5. CASE Derive
      <4>1. /\ pc = "derive" /\ pc' = "verify" /\ UNCHANGED resuming
            /\ plan' = plan \/ \E s \in Commits : plan' = [source |-> s, release |-> TRUE]
        BY <3>5, <1>4 DEF Derive
      <4>2. CASE plan' = plan
        BY <1>1, <4>1, <4>2 DEF KInv, Looked
      <4>3. CASE plan' # plan
        <5>1. plan'.release
          BY <4>1, <4>3
        <5> QED BY <4>1, <5>1 DEF Looked
      <4> QED BY <4>2, <4>3
    <3>6. CASE Verify
      <4>1. /\ pc = "verify" /\ UNCHANGED locals /\ Verified
            /\ pc' = IF resuming THEN "clear" ELSE "snapshot"
        BY <3>6, <1>4 DEF Verify
      <4>2. CASE resuming
        BY <4>1, <4>2 DEF Looked
      <4>3. CASE ~resuming
        <5>1. ~plan.release => \A t \in Tags : tags[t] \in log[plan.source].on
          BY <4>1, <4>3 DEF KInv, Looked
        <5>2. ~resumable /\ plan.release => \A t \in Tags : tags[t] = None
          BY <4>1 DEF Verified, NoTags
        <5> QED BY <1>1, <4>1, <4>3, <5>1, <5>2 DEF Looked, Old
      <4> QED BY <4>2, <4>3
    <3> QED BY <3>1, <3>2, <3>3, <3>4, <3>5, <3>6
  <2> QED BY <2>3, <2>4, <2>5, <2>6 DEF KInv
<1> QED BY <1>3, <1>4

\* What a run records is the checkout that Verify has seen.
LEMMA RecordedRight ==
    ASSUME IInv, RInv, KInv, pc = "snapshot", journal' = Recorded, LogStays, Untouched
    PROVE  Recording' /\ Agrees'
<1>1. /\ Recorded.source = plan.source /\ Recorded.files = files /\ Recorded.index = index
      /\ Recorded.tags = tags /\ (Recorded.phase \notin External => head = plan.source)
  BY RecordedFacts, InvParts DEF Recorded
<1>2. journal = None
  BY DEF RInv, Planned, Working, IInv, Course
<1>3. plan.source \in Commits /\ Made(plan.source) /\ head \in Commits /\ Made(head)
  BY RunFacts DEF IInv, TypeOK, Known
<1>4. Agrees /\ Agrees' /\ index = head /\ files.output # "notes"
  <2>1. Agrees /\ index = head /\ files.output # "notes"
    BY <1>2 DEF KInv, Settled, Payload
  <2> QED BY <2>1, AgreesStays DEF Untouched
<1>5. log[plan.source].on \subseteq log[head].on
  BY <1>3 DEF IInv, Course, IsReleaseOf, IsChild
<1>6. log[plan.source].on \cap undone = {}
  BY <1>5 DEF IInv, Gone
<1>7. head = plan.source => \A t \in Tags : Old(tags[t], plan.source)
  <2>1. resumable => head # plan.source
    BY <1>3 DEF IInv, Course, IsReleaseOf, IsChild, Made
  <2> QED BY <2>1 DEF KInv, Looked
<1>8. /\ log'[plan.source].on = log[plan.source].on
      /\ Version(journal.source)' = (IF log'[journal'.source].on \cap Releases # {} THEN "new" ELSE "old")
  BY <1>3 DEF LogStays, Version, Released
<1>9. Version(journal.source)' = Version(plan.source)
  BY <1>1, <1>8 DEF Version, Released
<1>10. /\ journal'.files.output # "notes" /\ log'[journal'.source].on \cap undone' = {}
       /\ journal'.phase \notin External =>
              /\ journal'.files.manifest = Version(journal.source)' /\ journal'.index = journal'.source
              /\ \A t \in Tags : Old(journal'.tags[t], plan.source)
  BY <1>1, <1>4, <1>6, <1>7, <1>8, <1>9 DEF Agrees, Untouched
<1>11. \A x : Old(x, plan.source) <=> Old(x, journal.source)'
  BY <1>1, <1>8 DEF Old
<1> QED BY <1>4, <1>10, <1>11 DEF Recording, Old

LEMMA SnapshotSettled == ASSUME IInv, RInv, KInv, Snapshot PROVE KInv'
<1>1. /\ pc = "snapshot" /\ txn' = Recorded /\ journal' = Recorded /\ pc' = "clear"
      /\ UNCHANGED <<log, head, index, files, tags, undone, overlooked>>
  BY DEF Snapshot
<1>2. LogStays /\ Untouched
  BY <1>1, SameLog DEF Untouched
<1>3. Recording' /\ Agrees' /\ journal' # None
  BY <1>1, <1>2, RecordedRight, RecordedFacts, InvParts, JournalAssumption
<1>4. Settled' /\ Payload' /\ Carried' /\ Looked' /\ Restored'
  BY <1>1, <1>3, AgreesSettled, PayloadLater, NotLooked, NotRestored DEF Carried, Restoring
<1>5. Untagged'
  BY <1>1, NotUntagged DEF KInv, Untagged, Restoring
<1> QED BY <1>3, <1>4, <1>5 DEF KInv

-------------------------------------------------------------------------------
\* The body of a run.

\* The transaction stays as it is, or is saved with what it has recorded.
Carries ==
    \/ UNCHANGED <<txn, journal>>
    \/ Keeps /\ journal' = txn' /\ txn'.files = txn.files /\ txn'.index = txn.index

LEMMA SaveCarries ==
    ASSUME IInv, pc \in Body, NEW phase \in Phases, Save(phase),
           phase \in External \/ txn.phase \notin External, phase \in External => txn.release
    PROVE  Carries /\ txn'.phase = phase
<1>1. txn \in Transactions
  BY RunFacts DEF InTransaction
<1> QED BY <1>1, PhaseSet, SaveKeeps DEF Save, Carries

LEMMA BodyOn ==
    ASSUME IInv, RInv, KInv, pc \in Body, pc' \in Body, LogStays, UNCHANGED undone, Carries,
           \A t \in Tags : tags'[t] \notin undone
    PROVE  /\ Recording' /\ Carried' /\ Looked' /\ Untagged' /\ Restored' /\ journal' # None
           /\ journal'.phase = txn'.phase
<1>1. pc' \notin Early \cup Restoring /\ InTransaction
  BY InBody DEF InTransaction
<1>2. /\ journal # None /\ txn.source = journal.source /\ txn.phase = journal.phase
      /\ txn.tags = journal.tags /\ txn.files = journal.files /\ txn.index = journal.index
  BY <1>1, RunFacts DEF RInv, Planned, Working, KInv, Carried
<1>3. SameRecord /\ journal' # None /\ txn'.files = journal'.files /\ txn'.index = journal'.index
      /\ journal'.phase = txn'.phase
  BY <1>2, JournalAssumption DEF Carries, Keeps, SameRecord
<1> QED BY <1>1, <1>3, RecordingStays, NotLooked, NotUntagged, NotRestored DEF Carried, Early

\* In the part of it where the checkout agrees with HEAD, and in the other.
LEMMA BodyAgrees ==
    ASSUME IInv, RInv, KInv, pc \in Body, pc' \in Body, Whenever, LogStays, UNCHANGED <<head, index, undone, overlooked>>,
           files'.manifest = files.manifest, Carries, \A t \in Tags : tags'[t] \notin undone,
           pc' \notin {"afterHooks", "committing", "add", "commit"}, Payload'
    PROVE  KInv'
<1>1. Agrees'
  BY AgreesStays DEF KInv, Settled
<1>2. pc' # "snapshot"
  BY InBody DEF Early
<1> QED BY <1>1, <1>2, AgreesSettled, BodyOn DEF KInv

LEMMA BodyChanges ==
    ASSUME IInv, RInv, KInv, pc \in Body, pc' \in Changing \ {"readHead"}, LogStays,
           UNCHANGED <<tags, undone, overlooked>>, Carries, txn'.phase \notin External,
           pc' \in {"afterHooks", "committing", "add", "commit"} => files'.manifest = "new"
    PROVE  KInv'
<1>1. pc' \in Body /\ pc' \notin Tagging /\ pc' \notin Early
      /\ pc' \notin {"clear", "writeEmpty", "finishEmpty", "published", "afterRelease", "finish"}
  BY BodyLabels, InBody DEF Tagging
<1>2. Recording' /\ Carried' /\ Looked' /\ Untagged' /\ Restored' /\ journal' # None
      /\ journal'.phase \notin External
  BY <1>1, BodyOn DEF KInv, Untagged
<1>3. Payload'
  BY <1>1, <1>2, PayloadLater
<1>4. Settled'
  BY <1>1, <1>2 DEF Settled, Whenever, Early
<1> QED BY <1>2, <1>3, <1>4 DEF KInv

LEMMA ReadHeadCarries ==
    ASSUME IInv, RInv, KInv, ReadHead, HeadAccepted PROVE Carries /\ journal' # None /\ pc' = "tag"
<1>1. /\ pc = "readHead" /\ pc' = "tag" /\ journal' = txn'
      /\ txn' = [txn EXCEPT !.releaseHead = FoundHead, !.phase = "tagging"]
  BY DEF ReadHead
<1>2. txn \in Transactions /\ txn.phase \notin External /\ "tagging" \notin External
  BY <1>1, RunFacts DEF InTransaction, Body, Changing, External, IInv, Course
<1>3. FoundHead \in Commits
  BY <1>1 DEF FoundHead, IInv, Course, TypeOK
<1>4. /\ txn' \in Transactions /\ txn'.files = txn.files /\ txn'.index = txn.index /\ txn'.tags = txn.tags
      /\ txn'.source = txn.source /\ txn'.release = txn.release /\ txn'.phase = "tagging"
  BY <1>1, <1>2, <1>3, TaggingSet DEF Transactions
<1> QED BY <1>1, <1>2, <1>4, JournalAssumption DEF Carries, Keeps

LEMMA ChangesSettled ==
    ASSUME IInv, RInv, KInv,
           Clear \/ WriteEmpty \/ Mutating \/ Update \/ Committing \/ Add \/ ReadHead \/ \E t \in Tags : Tag(t)
    PROVE  KInv'
<1>1. UNCHANGED <<log, head, undone, overlooked>> /\ pc \in Body
  BY DEF Clear, WriteEmpty, Mutating, Update, Committing, Add, ReadHead, Tag, FileStep, JournalStep, Body
<1>2. LogStays /\ InTransaction /\ \A t \in Tags : tags[t] \notin undone
  BY <1>1, SameLog DEF InTransaction, KInv, Untagged
<1>3. txn \in Transactions /\ journal # None /\ (pc \in Changing => txn.phase \notin External)
  BY <1>2, RunFacts DEF IInv, Course
<1>4. CASE GiveUp /\ UNCHANGED <<index, files, tags, journal>>
  BY <1>1, <1>2, <1>4, GiveUpLeaves DEF Untouched
<1>5. CASE Clear
  <2>1. /\ pc = "clear" /\ pc' \in {"clear", "writeEmpty", "tag", "mutating"}
        /\ SetFile("output", "notes") \/ SetFile("output", "none")
        /\ UNCHANGED <<tags, index, txn, journal>>
    BY <1>5 DEF Clear, FileStep
  <2>2. files'.manifest = files.manifest
    BY <2>1 DEF SetFile, IInv, TypeOK, Trees
  <2>3. Whenever /\ pc' \in Body /\ Carries /\ Payload'
    BY <1>3, <2>1, PayloadLater DEF Whenever, Body, Carries
  <2> QED BY <1>1, <1>2, <2>1, <2>2, <2>3, BodyAgrees
<1>6. CASE WriteEmpty
  <2>1. /\ pc = "writeEmpty" /\ pc' = "finishEmpty" /\ SetFile("output", "empty")
        /\ UNCHANGED <<tags, index, txn, journal>>
    BY <1>6 DEF WriteEmpty, FileStep
  <2>2. files'.manifest = files.manifest /\ files'.output = "empty"
    BY <2>1 DEF SetFile, IInv, TypeOK, Trees
  <2>3. Whenever /\ pc' \in Body /\ Carries /\ Payload'
    BY <1>3, <2>1, <2>2 DEF Whenever, Body, Carries, Payload
  <2> QED BY <1>1, <1>2, <2>1, <2>2, <2>3, BodyAgrees
<1>7. CASE Mutating
  <2>1. /\ pc = "mutating" /\ pc' = "beforeHooks" /\ Save("mutating") /\ UNCHANGED tags
    BY <1>7 DEF Mutating, JournalStep
  <2>2. txn.phase \notin External /\ "mutating" \in Phases /\ "mutating" \notin External
    BY <1>3, <2>1 DEF Changing, Phases, External
  <2>3. Carries /\ txn'.phase \notin External
    BY <1>1, <2>1, <2>2, SaveCarries
  <2> QED BY <1>1, <1>2, <2>1, <2>3, BodyChanges DEF Changing
<1>8. CASE Update
  <2>1. ASSUME head = plan.source PROVE KInv'
    <3>1. pc = "update" /\ pc' = "afterHooks" /\ SetFile("manifest", "new") /\ UNCHANGED <<tags, txn, journal>>
      BY <1>8, <2>1 DEF Update
    <3>2. files'.manifest = "new"
      BY <3>1 DEF SetFile, IInv, TypeOK, Trees
    <3>3. txn.phase \notin External
      BY <1>3, <3>1 DEF Changing
    <3> QED BY <1>1, <1>2, <3>1, <3>2, <3>3, BodyChanges DEF Changing, Carries
  <2>2. head # plan.source => GiveUp /\ UNCHANGED <<index, files, tags, journal>>
    BY <1>8 DEF Update
  <2> QED BY <2>1, <2>2, <1>4
<1>9. CASE Committing
  <2>1. ASSUME head = plan.source PROVE KInv'
    <3>1. /\ pc = "committing" /\ pc' = "add" /\ Save("committing") /\ UNCHANGED <<tags, files>>
      BY <1>9, <2>1 DEF Committing
    <3>2. txn.phase \notin External /\ "committing" \in Phases /\ "committing" \notin External
      BY <1>3, <3>1 DEF Changing, Phases, External
    <3>3. Carries /\ txn'.phase \notin External
      BY <1>1, <3>1, <3>2, SaveCarries
    <3>4. files'.manifest = "new"
      BY <3>1 DEF KInv, Settled
    <3> QED BY <1>1, <1>2, <3>1, <3>3, <3>4, BodyChanges DEF Changing
  <2>2. head # plan.source => GiveUp /\ UNCHANGED <<index, files, tags, journal>>
    BY <1>9 DEF Committing
  <2> QED BY <2>1, <2>2, <1>4
<1>10. CASE Add
  <2>1. pc = "add" /\ pc' = "commit" /\ UNCHANGED <<tags, files, txn, journal>>
    BY <1>10 DEF Add
  <2>2. files'.manifest = "new" /\ txn.phase \notin External
    BY <1>3, <2>1 DEF KInv, Settled, Changing
  <2> QED BY <1>1, <1>2, <2>1, <2>2, BodyChanges DEF Changing, Carries
<1>11. CASE ReadHead
  <2>1. ASSUME HeadAccepted PROVE KInv'
    <3>1. /\ pc = "readHead" /\ pc' = "tag" /\ journal' = txn'
          /\ txn' = [txn EXCEPT !.releaseHead = FoundHead, !.phase = "tagging"]
          /\ UNCHANGED <<tags, index, files>>
      BY <1>11, <2>1 DEF ReadHead
    <3>4. Carries
      BY <1>11, <2>1, ReadHeadCarries
    <3>5. Whenever /\ pc' \in Body /\ journal' # None
      BY <1>11, <2>1, <3>1, ReadHeadCarries DEF Whenever, Body
    <3> QED BY <1>1, <1>2, <3>1, <3>4, <3>5, PayloadLater, BodyAgrees
  <2>2. ~HeadAccepted => GiveUp /\ UNCHANGED <<index, files, tags, journal>>
    BY <1>11 DEF ReadHead
  <2> QED BY <2>1, <2>2, <1>4
<1>12. ASSUME NEW t \in Tags, Tag(t) PROVE KInv'
  <2>1. ASSUME tags[t] = None \/ resumable PROVE KInv'
    <3>1. /\ pc = "tag" /\ pc' \in {"tag", "pushing"} /\ UNCHANGED <<index, files, txn, journal>>
          /\ tags' = [tags EXCEPT ![t] = IF @ = None THEN head ELSE @]
      BY <1>12, <2>1 DEF Tag
    <3>2. head \notin undone
      BY DEF IInv, Gone, Known, Made
    <3>3. \A u \in Tags : tags'[u] \notin undone
      BY <1>2, <3>1, <3>2 DEF IInv, TypeOK, Refs
    <3>4. Whenever /\ pc' \in Body /\ Carries
      BY <3>1 DEF Whenever, Tagging, Body, Carries
    <3> QED BY <1>1, <1>2, <1>3, <3>1, <3>3, <3>4, PayloadLater, BodyAgrees
  <2>2. tags[t] # None /\ ~resumable => GiveUp /\ UNCHANGED <<index, files, tags, journal>>
    BY <1>12 DEF Tag
  <2> QED BY <2>1, <2>2, <1>4
<1> QED BY <1>5, <1>6, <1>7, <1>8, <1>9, <1>10, <1>11, <1>12

\* A commit of a hook, and the release commit.
LEMMA HooksSettled == ASSUME IInv, RInv, KInv, RunHooks PROVE KInv'
<1>1. /\ pc \in {"beforeHooks", "afterHooks"} /\ UNCHANGED <<tags, journal, txn, undone, overlooked>>
      /\ pc' = IF pc = "beforeHooks" THEN "update" ELSE "committing"
  BY DEF RunHooks
<1>2. pc \in Body /\ pc \in Changing /\ pc' \in Changing \ {"readHead"} /\ txn.phase \notin External
  BY <1>1 DEF Body, Changing, IInv, Course
<1>3. LogStays
  <2>1. CASE UNCHANGED log
    BY <2>1, SameLog
  <2>2. CASE ~UNCHANGED log
    <3>1. PICK c \in Changes : Make(c, head, log[head].created)
      BY <2>2 DEF RunHooks
    <3>2. c \in Commits /\ head \in Commits /\ Made(head) /\ TypeOK /\ Histories
      BY CommitsIn DEF IInv, TypeOK, Known
    <3> QED BY <3>1, <3>2, MadeStays DEF LogStays
  <2> QED BY <2>1, <2>2
<1>4. pc' \in {"afterHooks", "committing", "add", "commit"} => files'.manifest = "new"
  <2>1. files'.manifest = files.manifest
    BY DEF RunHooks, SetFile, IInv, TypeOK, Trees
  <2> QED BY <1>1, <2>1 DEF KInv, Settled
<1> QED BY <1>1, <1>2, <1>3, <1>4, BodyChanges DEF Carries

LEMMA CommitSettled == ASSUME IInv, RInv, KInv, Commit PROVE KInv'
<1>1. pc = "commit" /\ UNCHANGED <<tags, files, journal, undone, overlooked>>
  BY DEF Commit
<1>2. CASE GiveUp /\ UNCHANGED <<log, head, index>>
  BY <1>1, <1>2, SameLog, GiveUpLeaves DEF Untouched
<1>3. ASSUME NEW c \in Releases, Make(c, head, files.created), head' = c, index' = c, pc' = "readHead",
             UNCHANGED locals
      PROVE  KInv'
  <2>1. c \in Commits /\ head \in Commits /\ Made(head) /\ TypeOK /\ Histories
    BY CommitsIn DEF IInv, TypeOK, Known
  <2>2. LogStays /\ log'[c].on = log[head].on \cup {c}
    BY <1>3, <2>1, MadeStays DEF LogStays
  <2>3. Agrees'
    <3>1. files'.manifest = "new"
      BY <1>1 DEF KInv, Settled
    <3>2. Version(head)' = "new"
      BY <1>3, <2>2 DEF Version, Released
    <3> QED BY <1>3, <3>1, <3>2 DEF Agrees
  <2>4. /\ pc \in Body /\ pc' \in Body /\ Carries /\ (\A t \in Tags : tags'[t] \notin undone)
        /\ pc' \notin {"afterHooks", "committing", "add", "commit", "snapshot"}
    BY <1>1, <1>3 DEF Body, Carries, KInv, Untagged
  <2>5. Recording' /\ Carried' /\ Looked' /\ Untagged' /\ Restored' /\ journal' # None
    BY <1>1, <2>2, <2>4, BodyOn
  <2>6. Payload'
    BY <1>3, <2>5, PayloadLater
  <2> QED BY <2>3, <2>4, <2>5, <2>6, AgreesSettled DEF KInv
<1> QED BY <1>2, <1>3 DEF Commit

-------------------------------------------------------------------------------
\* Publication, and the end of a run.

LEMMA PublicationSettled ==
    ASSUME IInv, RInv, KInv,
           \/ Pushing \/ Push \/ PushReturns \/ RemoteTags \/ Publishing \/ (\E t \in Tags : Publish(t))
           \/ WriteNotes \/ Write \/ Published \/ AfterRelease
    PROVE  KInv'
<1>1. pc \in Tagging /\ UNCHANGED <<log, head, index, tags, undone, overlooked>>
  BY DEF Pushing, Push, PushReturns, RemoteTags, Publishing, Publish, WriteNotes, Write, Published,
     AfterRelease, Unaffected, FileStep, JournalStep, Tagging
<1>2. LogStays /\ pc \in Body /\ Whenever /\ \A t \in Tags : tags'[t] \notin undone
  BY <1>1, SameLog, BodyLabels DEF Whenever, KInv, Untagged
<1>3. CASE GiveUp /\ UNCHANGED <<files, journal>>
  BY <1>1, <1>2, <1>3, GiveUpLeaves DEF Untouched
<1>4. txn.release /\ journal # None
  BY <1>1, <1>2, RunFacts DEF RInv, Planned, Working, Ahead, InTransaction
<1>5. ASSUME pc' \in Tagging, Carries, files'.manifest = files.manifest,
             pc' \in {"published", "afterRelease", "finish"} => files'.output = "new"
      PROVE  KInv'
  <2>1. pc' \in Body /\ pc' \notin {"afterHooks", "committing", "add", "commit"} /\ pc' # "finishEmpty"
    BY <1>5, BodyLabels DEF Tagging
  <2>2. Payload'
    BY <1>1, <1>2, <1>5, <2>1, BodyOn DEF Payload
  <2> QED BY <1>1, <1>2, <1>5, <2>1, <2>2, BodyAgrees
<1>6. ASSUME NEW phase \in External, Save(phase), UNCHANGED files, pc' \in Tagging,
             pc' \in {"published", "afterRelease", "finish"} => files.output = "new"
      PROVE  KInv'
  <2>1. phase \in Phases
    BY DEF External, Phases
  <2>2. Carries
    BY <1>2, <1>4, <1>6, <2>1, SaveCarries
  <2> QED BY <1>5, <1>6, <2>2
<1>7. CASE Pushing
  <2>1. pc' \in Tagging /\ UNCHANGED files /\ pc' \notin {"published", "afterRelease", "finish"}
    BY <1>7 DEF Pushing, JournalStep, Tagging
  <2>2. Save("external") \/ UNCHANGED <<txn, journal>>
    BY <1>7 DEF Pushing
  <2> QED BY <1>5, <1>6, <2>1, <2>2 DEF External, Carries
<1>8. CASE Push \/ (RemoteTags /\ ~(GiveUp /\ UNCHANGED <<files, journal>>)) \/ (PushReturns /\ accepted)
  <2>1. /\ UNCHANGED <<files, txn, journal>>
        /\ pc' \in {"pushed", "remoteTags", "publishing", "write"}
    BY <1>8 DEF Push, RemoteTags, PushReturns, Unaffected
  <2> QED BY <1>5, <2>1 DEF Carries, Tagging
<1>9. CASE PushReturns /\ ~accepted
  BY <1>3, <1>9 DEF PushReturns, Unaffected
<1>10. CASE Publishing
  <2>1. Save("external") /\ pc' = "publish" /\ UNCHANGED files
    BY <1>10 DEF Publishing, JournalStep
  <2> QED BY <1>6, <2>1 DEF External, Tagging
<1>11. ASSUME NEW t \in Tags, Publish(t) PROVE KInv'
  <2>1. CASE GiveUp
    BY <1>3, <1>11, <2>1 DEF Publish
  <2>2. CASE ~GiveUp
    <3>1. UNCHANGED <<files, txn, journal>> /\ pc' \in {"write", "publish"}
      BY <1>11, <2>2 DEF Publish
    <3> QED BY <1>5, <3>1 DEF Carries, Tagging
  <2> QED BY <2>1, <2>2
<1>12. CASE WriteNotes \/ Write
  <2>1. /\ UNCHANGED <<txn, journal>>
        /\ \/ SetFile("output", "notes") /\ pc' = "write"
           \/ SetFile("output", "new") /\ pc' = "published"
    BY <1>12 DEF WriteNotes, Write, FileStep
  <2>2. /\ files'.manifest = files.manifest
        /\ pc' \in {"published", "afterRelease", "finish"} => files'.output = "new"
    BY <2>1 DEF SetFile, IInv, TypeOK, Trees
  <2> QED BY <1>5, <2>1, <2>2 DEF Carries, Tagging
<1>13. CASE Published
  <2>1. pc = "published" /\ Save("published") /\ pc' = "afterRelease" /\ UNCHANGED files
    BY <1>13 DEF Published, JournalStep
  <2>2. files.output = "new"
    BY <2>1 DEF KInv, Payload
  <2> QED BY <1>6, <2>1, <2>2 DEF External, Tagging
<1>14. CASE AfterRelease
  <2>1. pc = "afterRelease" /\ pc' = "finish" /\ UNCHANGED <<files, txn, journal>>
    BY <1>14 DEF AfterRelease, Unaffected
  <2>2. files.output = "new"
    BY <2>1 DEF KInv, Payload
  <2> QED BY <1>5, <2>1, <2>2 DEF Carries, Tagging
<1> QED BY <1>3, <1>7, <1>8, <1>9, <1>10, <1>11, <1>12, <1>13, <1>14

\* A run that ends without a journal leaves the checkout as HEAD has it.
LEMMA FinishSettled == ASSUME IInv, RInv, KInv, Finish \/ FinishEmpty PROVE KInv'
<1>1. /\ pc \in {"finish", "finishEmpty"} /\ journal' = None /\ Return
      /\ UNCHANGED <<log, head, index, files, tags, undone, overlooked>>
  BY DEF Finish, FinishEmpty
<1>2. pc' = "idle" /\ ~resuming' /\ LogStays
  BY <1>1, SameLog DEF Return
<1>3. pc' \notin Body \cup Restoring \cup Early
  BY <1>2, Labels
<1>4. Agrees' /\ files'.output # "notes"
  <2>1. Agrees /\ files.output # "notes"
    BY <1>1 DEF KInv, Settled, Payload, Whenever, Tagging
  <2> QED BY <1>1, <1>2, <2>1, AgreesStays
<1>5. Settled' /\ Payload'
  BY <1>2, <1>4, AgreesSettled DEF Payload
<1>6. Recording' /\ Carried' /\ Looked' /\ Untagged' /\ Restored'
  BY <1>1, <1>2, <1>3, NotCarried, NotLooked, NotUntagged, NotRestored DEF Early, Recording, KInv, Untagged
<1> QED BY <1>5, <1>6 DEF KInv

-------------------------------------------------------------------------------
\* A rollback.

\* What it works on.
LEMMA RestoringFacts ==
    ASSUME IInv, RInv, KInv, pc \in Restoring
    PROVE  /\ InTransaction /\ ~resuming /\ journal # None /\ journal.phase \notin External
           /\ txn \in Transactions /\ txn.source \in Commits /\ Made(txn.source)
           /\ txn.source = journal.source /\ txn.tags = journal.tags
           /\ txn.files = journal.files /\ txn.index = journal.index
           /\ txn.files.manifest = Version(txn.source) /\ txn.files.output # "notes"
           /\ txn.index = txn.source /\ log[txn.source].on \cap undone = {}
           /\ \A t \in Tags : Old(txn.tags[t], txn.source)
<1>1. InTransaction /\ txn.phase \notin External /\ ~resuming
  BY DEF InTransaction, IInv, Course
<1>2. /\ journal # None /\ journal.phase \notin External
      /\ txn \in Transactions /\ txn.source \in Commits /\ Made(txn.source)
      /\ txn.source = journal.source /\ txn.tags = journal.tags
      /\ txn.files = journal.files /\ txn.index = journal.index
  BY <1>1, RunFacts DEF RInv, Planned, Working, KInv, Carried
<1> QED BY <1>1, <1>2 DEF KInv, Recording

\* Its steps before it forgets the journal.
LEMMA RestoringKeeps ==
    ASSUME IInv, RInv, KInv, pc \in Restoring, pc' \in Restoring, LogStays, UNCHANGED <<journal, undone, overlooked>>,
           txn'.files = txn.files, txn'.index = txn.index
    PROVE  Recording' /\ Carried' /\ Looked' /\ Payload' /\ Settled'
<1>1. /\ pc' \notin Body /\ pc' \notin Tagging /\ pc' \notin Early
      /\ pc' \notin {"clear", "writeEmpty", "finishEmpty", "readHead", "snapshot"}
      /\ pc' \notin {"afterHooks", "committing", "add", "commit"}
      /\ pc' \notin {"finishEmpty", "published", "afterRelease", "finish"}
  BY DEF Restoring, Body, Tagging, Early
<1>2. /\ journal # None /\ journal.phase \notin External
      /\ txn.files = journal.files /\ txn.index = journal.index
  BY RestoringFacts
<1> QED BY <1>1, <1>2, RecordingStays, NotLooked, PayloadLater, NotSettled DEF SameRecord, Carried, Early

\* What it takes off has no tag of the journal.
Untagging == {"untag", "removeCreated", "restore", "resetRef"}

LEMMA NoneOfTheTarget ==
    ASSUME IInv, pc \in Untagging, NEW x, Old(x, txn.source), NEW c \in log[target].on \ log[txn.source].on
    PROVE  x # c
<1>1. OnTopOf(target, txn.source)
  BY DEF IInv, Targeted, Restoring, Untagging
<1>2. c \in Releases \cup Changes
  BY <1>1 DEF OnTopOf, IInv, TypeOK
<1>3. c # Elsewhere /\ c # None
  BY <1>2, CommitsIn, CommitsAssumption
<1> QED BY <1>3 DEF Old

LEMMA NoneUndone ==
    ASSUME IInv, NEW c \in Commits, NEW x, Old(x, c), log[c].on \cap undone = {} PROVE x \notin undone
<1>1. undone \subseteq Releases \cup Changes
  BY DEF IInv, Gone, TypeOK
<1>2. Elsewhere \notin undone /\ None \notin undone
  BY <1>1, CommitsIn, CommitsAssumption
<1> QED BY <1>2 DEF Old

LEMMA RollbackSettled ==
    ASSUME IInv, RInv, KInv,
           \/ Rollback \/ ReadTarget \/ (\E t \in Tags : Untag(t)) \/ RemoveCreated
           \/ (\E file \in {"manifest", "output"} : Restore(file)) \/ RestoreIndex
    PROVE  KInv'
<1>1. pc \in Restoring /\ UNCHANGED <<log, head, journal, undone, overlooked>>
  BY DEF Rollback, ReadTarget, Untag, RemoveCreated, Restore, RestoreIndex, Unaffected, FileStep, Restoring
<1>2. LogStays /\ \A t \in Tags : tags[t] \notin undone
  BY <1>1, SameLog DEF KInv, Untagged
<1>3. /\ txn \in Transactions /\ txn.source \in Commits /\ Made(txn.source)
      /\ txn.files.manifest = Version(txn.source) /\ txn.index = txn.source
      /\ log[txn.source].on \cap undone = {} /\ \A t \in Tags : Old(txn.tags[t], txn.source)
  BY <1>1, RestoringFacts
<1>4. CASE Return /\ UNCHANGED <<index, files, tags>>
  BY <1>1, <1>2, <1>4, ReturnLeaves DEF Untouched
<1>5. ASSUME pc' \in Restoring, txn'.files = txn.files, txn'.index = txn.index, Untagged', Restored' PROVE KInv'
  BY <1>1, <1>2, <1>5, RestoringKeeps DEF KInv
<1>6. CASE Rollback
  <2>1. ASSUME HeadAccepted PROVE KInv'
    <3>1. /\ pc = "rollback" /\ pc' = "readTarget" /\ txn' = [txn EXCEPT !.releaseHead = FoundHead]
          /\ target' = head /\ UNCHANGED <<tags, files, index>>
      BY <1>6, <2>1 DEF Rollback, Unaffected
    <3>2. txn'.files = txn.files /\ txn'.index = txn.index /\ txn'.source = txn.source
      BY <1>3, <3>1 DEF Transactions
    <3>3. Untagged'
      BY <1>1, <1>2, <3>1 DEF Untagged
    <3>4. Restored'
      <4>1. log[txn.source].on \subseteq log[head].on
        BY <2>1 DEF HeadAccepted, IsReleaseOf, IsChild
      <4> QED BY <1>1, <3>1, <3>2, <4>1 DEF Restored
    <3> QED BY <1>5, <3>1, <3>2, <3>3, <3>4 DEF Restoring
  <2>2. ~HeadAccepted => Return /\ UNCHANGED <<index, files, tags>>
    BY <1>6 DEF Rollback, Unaffected
  <2> QED BY <1>4, <2>1, <2>2
<1>11. CASE ReadTarget
  <2>1. /\ pc = "readTarget" /\ pc' = "untag" /\ target' = head /\ pending' = Tags
        /\ UNCHANGED <<txn, tags, files, index>>
    BY <1>11 DEF ReadTarget, Unaffected
  <2>2. Untagged'
    BY <1>1, <1>2, <2>1 DEF Untagged
  <2>3. Restored'
    BY <1>1, <2>1 DEF KInv, Restored, Restoring
  <2> QED BY <1>5, <2>1, <2>2, <2>3 DEF Restoring
<1>7. ASSUME NEW t \in Tags, Untag(t) PROVE KInv'
  <2>1. CASE Return /\ UNCHANGED tags
    BY <1>4, <1>7, <2>1 DEF Untag
  <2>2. CASE ~(Return /\ UNCHANGED tags)
    <3>1. /\ pc = "untag" /\ t \in pending /\ tags' = [tags EXCEPT ![t] = txn.tags[t]]
          /\ pending' = pending \ {t} /\ pc' = (IF pending' = {} THEN "removeCreated" ELSE "untag")
          /\ UNCHANGED <<txn, target, index, files>>
      BY <1>7, <2>2 DEF Untag
    <3>2. \A u \in Tags : tags'[u] = IF u = t THEN txn.tags[t] ELSE tags[u]
      BY <3>1 DEF IInv, TypeOK, Refs
    <3>3. txn.tags[t] \notin undone /\ \A c \in log[target].on \ log[txn.source].on : txn.tags[t] # c
      BY <1>3, <3>1, NoneUndone, NoneOfTheTarget DEF Untagging
    <3>4. \A c \in log[target].on \ log[txn.source].on, u \in Tags : tags[u] # c \/ u \in pending
      BY <3>1 DEF KInv, Untagged
    <3>5. \A c \in log[target].on \ log[txn.source].on, u \in Tags :
              tags'[u] # c \/ (pc' = "untag" /\ u \in pending')
      BY <3>1, <3>2, <3>3, <3>4
    <3>6. Untagged'
      BY <1>1, <1>2, <3>1, <3>2, <3>3, <3>5 DEF Untagged
    <3>7. Restored'
      BY <1>1, <3>1 DEF KInv, Restored, Restoring
    <3> QED BY <1>5, <3>1, <3>6, <3>7 DEF Restoring
  <2> QED BY <2>1, <2>2
<1>8. CASE RemoveCreated
  <2>1. /\ pc = "removeCreated" /\ pc' = "restore" /\ pending' = {"manifest", "output"}
        /\ UNCHANGED <<txn, target, index, tags>>
    BY <1>8 DEF RemoveCreated, FileStep
  <2>2. Untagged'
    BY <1>1, <2>1 DEF KInv, Untagged, Restoring
  <2>3. Restored'
    BY <1>1, <2>1 DEF KInv, Restored, Restoring
  <2> QED BY <1>5, <2>1, <2>2, <2>3 DEF Restoring
<1>9. ASSUME NEW file \in {"manifest", "output"}, Restore(file) PROVE KInv'
  <2>1. /\ pc = "restore" /\ pc' = (IF pending' = {} THEN "resetRef" ELSE "restore")
        /\ pending' = pending \ {file} /\ files' = [files EXCEPT ![file] = txn.files[file]]
        /\ UNCHANGED <<txn, target, index, tags>>
    BY <1>9 DEF Restore, FileStep, SetFile
  <2>2. Untagged'
    BY <1>1, <2>1 DEF KInv, Untagged, Restoring
  <2>3. /\ files'.manifest = IF file = "manifest" THEN txn.files.manifest ELSE files.manifest
        /\ files'.output = IF file = "output" THEN txn.files.output ELSE files.output
    BY <2>1 DEF IInv, TypeOK, Trees
  <2>4. /\ "manifest" \notin pending => files.manifest = txn.files.manifest
        /\ "output" \notin pending => files.output = txn.files.output
    BY <2>1 DEF KInv, Restored
  <2>5. /\ "manifest" \notin pending' => files'.manifest = txn.files.manifest
        /\ "output" \notin pending' => files'.output = txn.files.output
        /\ pc' = "resetRef" => "manifest" \notin pending' /\ "output" \notin pending'
    BY <2>1, <2>3, <2>4
  <2>6. Restored'
    BY <1>1, <2>1, <2>5 DEF KInv, Restored, Restoring
  <2> QED BY <1>5, <2>1, <2>2, <2>6 DEF Restoring
<1>10. CASE RestoreIndex
  <2>1. /\ pc = "restoreIndex" /\ pc' = "forget" /\ index' = txn.index
        /\ UNCHANGED <<txn, target, files, tags>>
    BY <1>10 DEF RestoreIndex
  <2>2. Untagged'
    BY <1>1, <2>1 DEF KInv, Untagged
  <2>3. Restored'
    BY <1>1, <1>3, <2>1 DEF KInv, Restored, Restoring
  <2> QED BY <1>5, <2>1, <2>2, <2>3 DEF Restoring
<1> QED BY <1>6, <1>7, <1>8, <1>9, <1>10, <1>11

LEMMA ResetRefSettled == ASSUME IInv, RInv, KInv, ResetRef PROVE KInv'
<1>1. pc = "resetRef" /\ pc \in Restoring \ {"rollback"} /\ UNCHANGED <<log, tags, index, files, journal, overlooked>>
  BY DEF ResetRef, Restoring
<1>2. /\ journal # None /\ journal.phase \notin External /\ txn.source = journal.source
      /\ txn.source \in Commits /\ Made(txn.source)
      /\ txn.files = journal.files /\ txn.index = journal.index /\ log[txn.source].on \cap undone = {}
  BY <1>1, RestoringFacts
<1>3. LogStays /\ \A t \in Tags : tags[t] \notin undone
  BY <1>1, SameLog DEF KInv, Untagged
<1>4. CASE Return /\ UNCHANGED <<head, undone, overlooked>>
  BY <1>1, <1>3, <1>4, ReturnLeaves DEF Untouched
<1>5. CASE target = txn.source
  <2>1. pc' = "restoreIndex" /\ UNCHANGED <<head, undone, txn, target>>
    BY <1>5 DEF ResetRef
  <2>2. Recording' /\ Carried' /\ Looked' /\ Payload' /\ Settled'
    BY <1>1, <1>3, <2>1, RestoringKeeps DEF Restoring
  <2>3. Untagged' /\ Restored'
    BY <1>1, <1>3, <1>5, <2>1 DEF Untagged, KInv, Restored, Restoring
  <2> QED BY <2>2, <2>3 DEF KInv
<1>6. CASE target # txn.source /\ ~(Return /\ UNCHANGED <<head, undone, overlooked>>)
  <2>1. /\ head = target /\ head' = txn.source /\ undone' = undone \cup OffBranch
        /\ pc' = "restoreIndex" /\ UNCHANGED <<txn, target>>
    BY <1>6 DEF ResetRef
  <2>3. undone' = undone \cup (log[target].on \ log[txn.source].on) /\ log[txn.source].on \cap undone' = {}
    BY <1>2, <2>1 DEF OffBranch
  <2>2. \A c \in log[target].on \ log[txn.source].on, t \in Tags : tags[t] # c
    BY <1>1 DEF KInv, Untagged
  <2>4. \A t \in Tags : tags'[t] \notin undone'
    BY <1>1, <1>3, <2>2, <2>3
  <2>5. pc' \notin {"untag", "removeCreated", "restore", "resetRef"} /\ pc' \notin Body \cup Early
        /\ pc' \notin Tagging /\ pc' \in Restoring
    BY <2>1 DEF Restoring, Body, Early, Tagging
  <2>6. Untagged'
    BY <2>4, <2>5 DEF Untagged
  <2>7. Restored'
    BY <1>1, <2>1 DEF KInv, Restored, Restoring
  <2>8. Looked' /\ Payload' /\ Settled'
    BY <1>1, <1>2, <2>1, <2>5, NotLooked, PayloadLater, NotSettled
  <2>9. Carried'
    BY <1>1, <1>2, <2>1 DEF Carried
  <2>10. Recording'
    <3>1. \A c : (Version(c)' = Version(c)) /\ \A x : Old(x, c)' <=> Old(x, c)
      BY <1>1 DEF Version, Released, Old
    <3>2. log'[journal.source].on \cap undone' = {}
      BY <1>1, <1>2, <2>3
    <3>3. /\ journal.files.output # "notes" /\ journal.files.manifest = Version(journal.source)
          /\ journal.index = journal.source /\ \A t \in Tags : Old(journal.tags[t], journal.source)
      BY <1>2 DEF KInv, Recording
    <3> HIDE DEF Old, Version
    <3> QED BY <1>1, <3>1, <3>2, <3>3 DEF Recording
  <2> QED BY <2>6, <2>7, <2>8, <2>9, <2>10 DEF KInv
<1> QED BY <1>4, <1>5, <1>6

\* The journal goes when HEAD has its source's version, with the files and index
\* that were recorded.
LEMMA ForgetSettled == ASSUME IInv, RInv, KInv, Forget PROVE KInv'
<1>1. /\ pc = "forget" /\ pc \in Restoring \ {"rollback"} /\ journal' = None
      /\ UNCHANGED <<log, head, tags, index, files, undone, overlooked>>
  BY DEF Forget, Restoring
<1>2. /\ ~resuming /\ txn.source \in Commits /\ Made(txn.source)
      /\ txn.files.manifest = Version(txn.source) /\ txn.files.output # "notes"
  BY <1>1, RestoringFacts
<1>3. files.manifest = txn.files.manifest /\ files.output = txn.files.output
      /\ log[txn.source].on \subseteq log[head].on /\ (head \in overlooked \/ index = head)
  BY <1>1 DEF KInv, Restored
<1>4. Released(head) <=> Released(txn.source)
  BY <1>1, <1>3 DEF RInv, Planned, Back, Released
<1>5. Agrees /\ LogStays
  BY <1>1, <1>2, <1>3, <1>4, SameLog DEF Agrees, Version
<1>6. /\ pc' \in {"idle", "derive"} /\ ~resuming'
      /\ pc' = "derive" => plan' = PlanAt(head)
  BY <1>1, <1>2 DEF Forget, Return
<1>7. pc' \notin Body \cup Restoring \cup {"recover"} /\ pc' \notin Tagging
  BY <1>6, Labels DEF Body, Restoring, Tagging
<1>8. Settled' /\ Payload'
  BY <1>1, <1>2, <1>3, <1>5, <1>6, AgreesStays, AgreesSettled DEF Payload
<1>9. Recording' /\ Carried' /\ Untagged' /\ Restored'
  BY <1>1, <1>6, <1>7, NotCarried, NotUntagged, NotRestored DEF Recording, KInv, Untagged
<1>10. Looked'
  BY <1>1, <1>6 DEF Looked, PlanAt
<1> QED BY <1>8, <1>9, <1>10 DEF KInv

-------------------------------------------------------------------------------
\* Faults, and others.

\* Steps that leave the checkout and the run alone.
LEMMA Elsewhen ==
    ASSUME IInv, KInv, LogStays, Untouched, UNCHANGED <<journal, pc, plan, txn, target, pending, resuming, resumable>>
    PROVE  KInv'
<1>1. /\ head \in Commits /\ Made(head)
      /\ pc # "idle" => plan.source \in Commits /\ Made(plan.source)
      /\ InTransaction => txn.source \in Commits /\ Made(txn.source)
  BY RunFacts DEF IInv, TypeOK, Known
<1>2. Settled'
  <2>1. Agrees => Agrees'
    BY AgreesStays DEF Untouched
  <2> QED BY <2>1 DEF KInv, Settled, Whenever, Untouched
<1>3. Payload' /\ Recording' /\ Carried'
  BY RecordingStays DEF KInv, Payload, SameRecord, Carried, InTransaction, Untouched
<1>6. Untagged'
  <2>1. pc \in {"untag", "removeCreated", "restore", "resetRef"} =>
           /\ log'[txn.source].on = log[txn.source].on /\ log'[target].on = log[target].on
    BY <1>1 DEF LogStays, InTransaction, IInv, Targeted, Settings, Restoring
  <2> QED BY <2>1 DEF KInv, Untagged, Untouched
<1>4. Looked'
  <2>1. pc # "idle" => log'[plan.source].on = log[plan.source].on
    BY <1>1 DEF LogStays
  <2> QED BY <2>1 DEF KInv, Looked, Untouched, Old
<1>5. Restored'
  <2>1. /\ pc \in Restoring => log'[txn.source].on = log[txn.source].on
        /\ log'[head].on = log[head].on
    BY <1>1 DEF LogStays, InTransaction
  <2> QED BY <2>1 DEF KInv, Restored, Untouched
<1> QED BY <1>2, <1>3, <1>4, <1>5, <1>6 DEF KInv

LEMMA FaultSettled ==
    ASSUME IInv, RInv, KInv, Faulty \/ Arrive PROVE KInv'
<1>1. CASE CommandFails
  <2>1. GiveUp /\ LogStays /\ Untouched /\ UNCHANGED journal
    BY <1>1, SameLog DEF CommandFails, Untouched
  <2> QED BY <2>1, GiveUpLeaves
<1>2. CASE Crash
  <2>1. Return /\ LogStays /\ Untouched /\ UNCHANGED journal
    BY <1>2, SameLog DEF Crash, Untouched
  <2> QED BY <2>1, ReturnLeaves
<1>3. CASE SaveFails
  <2>1. /\ Return /\ LogStays /\ Untouched
        /\ journal' = IF pc = "snapshot" THEN Recorded ELSE journal
    BY <1>3, SameLog DEF SaveFails, Untouched
  <2>2. CASE pc # "snapshot"
    BY <2>1, <2>2, ReturnLeaves
  <2>3. CASE pc = "snapshot"
    <3>1. Recording' /\ Agrees' /\ journal' # None
      BY <2>1, <2>3, RecordedRight, RecordedFacts, InvParts, JournalAssumption
    <3>2. pc' = "idle" /\ ~resuming'
      BY <2>1 DEF Return
    <3>3. pc' \notin Body \cup Restoring \cup Early
      BY <3>2, Labels
    <3>4. Settled' /\ Payload' /\ Carried' /\ Looked' /\ Restored' /\ Untagged'
      BY <2>1, <3>1, <3>2, <3>3, AgreesSettled, PayloadLater, NotCarried, NotLooked, NotRestored, NotUntagged
      DEF Early, KInv, Untagged, Untouched
    <3> QED BY <3>1, <3>4 DEF KInv
  <2> QED BY <2>2, <2>3
<1>4. ASSUME NEW p \in inflight, Lose(p) \/ Receive(p) PROVE KInv'
  <2>1. LogStays /\ Untouched /\ UNCHANGED <<journal, pc, plan, txn, target, pending, resuming, resumable>>
    BY <1>4, SameLog DEF Lose, Receive, Untouched
  <2> QED BY <2>1, Elsewhen
<1> QED BY <1>1, <1>2, <1>3, <1>4 DEF Faulty, Arrive

\* A commit of someone else, in the checkout or on origin.
LEMMA CommitChangeSettled == ASSUME IInv, RInv, KInv, CommitChange PROVE KInv'
<1>1. PICK c \in Changes : /\ Make(c, head, log[head].created) /\ head' = c /\ index' = c
                           /\ pc \in Restoring \ {"rollback", "readTarget"} => c \in overlooked'
  BY DEF CommitChange
<1>2. /\ pc \notin Body \cup {"snapshot"}
      /\ UNCHANGED <<tags, files, journal, pc, plan, txn, target, pending, resuming, resumable, undone>>
  BY DEF CommitChange, OtherThanCheckout
<1>3. c \in Commits /\ head \in Commits /\ Made(head) /\ TypeOK /\ Histories
  BY CommitsIn DEF IInv, TypeOK, Known
<1>4. LogStays /\ log'[c].on = log[head].on \cup {c}
  BY <1>1, <1>3, MadeStays DEF LogStays
<1>5. Version(head)' = Version(head) /\ (Agrees => Agrees')
  <2>1. Released(head)' <=> Released(head)
    BY <1>1, <1>4, CommitsAssumption DEF Released
  <2>2. Version(head)' = Version(head)
    BY <2>1 DEF Version
  <2> QED BY <1>1, <1>2, <2>2 DEF Agrees
<1>6. pc \notin {"clear", "writeEmpty", "finishEmpty", "readHead", "afterHooks", "committing", "add", "commit"}
      /\ pc \notin Tagging
  BY <1>2, BodyLabels DEF Body
<1>7. Settled'
  BY <1>2, <1>5, <1>6 DEF KInv, Settled, Whenever
<1>8. Payload' /\ Recording' /\ Carried'
  BY <1>2, <1>4, RecordingStays DEF KInv, Payload, SameRecord, Carried, InTransaction
<1>11. Untagged'
  <2>1. pc \in {"untag", "removeCreated", "restore", "resetRef"} =>
           /\ log'[txn.source].on = log[txn.source].on /\ log'[target].on = log[target].on
    BY <1>4, RestoringFacts DEF LogStays, IInv, Targeted, Settings, Restoring
  <2> QED BY <1>2, <2>1 DEF KInv, Untagged
<1>9. Looked'
  <2>1. pc # "idle" => log'[plan.source].on = log[plan.source].on
    BY <1>4, RunFacts DEF LogStays
  <2> QED BY <1>2, <2>1 DEF KInv, Looked, Old
<1>10. Restored'
  <2>1. pc \in Restoring => log'[txn.source].on = log[txn.source].on
    BY <1>4, RestoringFacts DEF LogStays
  <2>2. pc \in Restoring \ {"rollback"} => log'[txn.source].on \subseteq log'[head'].on
    BY <1>1, <1>4, <2>1 DEF KInv, Restored
  <2> QED BY <1>1, <1>2, <2>2 DEF KInv, Restored
<1> QED BY <1>7, <1>8, <1>9, <1>10, <1>11 DEF KInv

\* HEAD is set to another commit between two runs.
LEMMA CheckedOut ==
    ASSUME IInv, RInv, KInv, pc = "idle", UNCHANGED <<log, pc, resuming, undone, overlooked>>,
           UNCHANGED journal \/ journal' = None, Agrees', \A t \in Tags : tags'[t] \notin undone,
           files'.output = files.output \/ files'.output = "none", journal' = journal \/ files'.output # "notes"
    PROVE  KInv'
<1>1. ~resuming /\ LogStays
  BY SameLog DEF IInv, Course, Body
<1>2. pc' \notin Body \cup Restoring \cup Early
  BY Labels
<1>3. Settled' /\ Carried' /\ Looked' /\ Restored' /\ Untagged' /\ Recording'
  BY <1>1, <1>2, AgreesSettled, NotCarried, NotLooked, NotRestored, NotUntagged, RecordingStays
  DEF Early, SameRecord
<1>4. Payload'
  BY DEF KInv, Payload
<1> QED BY <1>3, <1>4 DEF KInv

LEMMA CheckOutAgrees ==
    ASSUME IInv, NEW c \in Commits, CheckOut(c), UNCHANGED log PROVE Agrees' /\ files'.output = files.output
<1>1. files'.manifest = Version(c) /\ files'.output = files.output
  BY DEF CheckOut, IInv, TypeOK, Trees, Version
<1>2. Version(head)' = Version(c)
  BY DEF CheckOut, Version, Released
<1> QED BY <1>1, <1>2 DEF Agrees, CheckOut

LEMMA HeadMovesSettled == ASSUME IInv, RInv, KInv, Reset \/ Pull \/ Clone PROVE KInv'
<1>1. pc = "idle" /\ UNCHANGED <<log, pc, resuming, undone, overlooked>>
  BY DEF Reset, Pull, Clone, Idle, OtherThanCheckout
<1>2. (\A t \in Tags : tags[t] \notin undone) /\ \A t \in Tags : remote.tags[t] \notin undone
  <2>1. undone \subseteq Releases \cup Changes /\ \A c \in undone : c \notin log[remote.branch].on
    BY DEF IInv, TypeOK, Gone, OutThere
  <2>2. \A t \in Tags : remote.tags[t] \in Releases \cup {Elsewhere, None}
    BY DEF RInv, Outside, Whole
  <2>3. \A t \in Tags : remote.tags[t] \in Releases => remote.tags[t] \in log[remote.branch].on
    BY DEF RInv, Outside, PublishedTogether
  <2>4. \A x \in Releases \cup Changes : x # Elsewhere /\ x # None
    BY CommitsAssumption DEF Commits
  <2> QED BY <2>1, <2>2, <2>3, <2>4 DEF KInv, Untagged
<1>3. CASE Reset
  <2>1. PICK c \in log[head].on : CheckOut(c)
    BY <1>3 DEF Reset
  <2>2. c \in Commits
    BY DEF IInv, TypeOK
  <2> QED BY <1>1, <1>2, <1>3, <2>1, <2>2, CheckOutAgrees, CheckedOut DEF Reset, OtherThanCheckout
<1>4. CASE Pull
  <2>1. CheckOut(remote.branch) /\ remote.branch \in Commits /\ UNCHANGED journal
    BY <1>4 DEF Pull, OtherThanCheckout, IInv, TypeOK
  <2>2. \A t \in Tags : tags'[t] \notin undone
    BY <1>2, <1>4 DEF Pull
  <2> QED BY <1>1, <2>1, <2>2, CheckOutAgrees, CheckedOut
<1>5. CASE Clone
  <2>1. /\ journal' = None /\ tags' = remote.tags /\ index' = head'
        /\ files'.manifest = (IF Released(head)' THEN "new" ELSE "old") /\ files'.output = "none"
    BY <1>1, <1>5 DEF Clone, Released
  <2>2. Agrees'
    BY <2>1 DEF Agrees, Version
  <2> QED BY <1>1, <1>2, <2>1, <2>2, CheckedOut
<1> QED BY <1>3, <1>4, <1>5

LEMMA SetTagSettled == ASSUME IInv, RInv, KInv, NEW t \in Tags, SetTag(t) PROVE KInv'
<1>1. UNCHANGED <<log, head, index, files, journal, pc, plan, txn, target, pending, resuming, resumable, undone, overlooked>>
  BY DEF SetTag, OtherThanCheckout
<1>2. PICK x : /\ tags' = [tags EXCEPT ![t] = x]
               /\ \/ tags[t] = None /\ x = Elsewhere
                  \/ pc = "idle" /\ journal # None /\ x = journal.source
  BY DEF SetTag, Idle
<1>3. \A u \in Tags : tags'[u] = IF u = t THEN x ELSE tags[u]
  BY <1>2 DEF IInv, TypeOK, Refs
<1>4. LogStays
  BY <1>1, SameLog
<1>5. x \notin undone
  <2>1. Elsewhere \notin undone
    <3>1. undone \subseteq Releases \cup Changes
      BY DEF IInv, Gone, TypeOK
    <3> QED BY <3>1, CommitsAssumption
  <2>2. journal # None => journal.source \in log[journal.source].on /\ log[journal.source].on \cap undone = {}
    BY DEF KInv, Recording, IInv, Known, Made
  <2> QED BY <1>2, <2>1, <2>2
<1>6. Untagged'
  <2>1. \A u \in Tags : tags'[u] \notin undone
    BY <1>3, <1>5 DEF KInv, Untagged
  <2>2. pc \in Untagging => \A c \in log[target].on \ log[txn.source].on : x # c
    BY <1>2, NoneOfTheTarget DEF Old, Untagging
  <2> QED BY <1>1, <1>3, <2>1, <2>2 DEF KInv, Untagged, Untagging
<1>7. Looked'
  <2>1. pc \in {"load", "derive", "verify", "snapshot"} => x = Elsewhere /\ tags[t] = None
    BY <1>2
  <2>2. pc # "idle" => log[plan.source].on \subseteq Commits
    BY RunFacts DEF IInv, TypeOK
  <2>3. pc \in {"load", "derive", "verify", "snapshot"} /\ ~resuming => plan.release
    BY <2>1, <2>2, CommitsAssumption DEF KInv, Looked
  <2> QED BY <1>1, <1>3, <2>1, <2>3 DEF KInv, Looked, Old
<1>8. Settled' /\ Payload' /\ Recording' /\ Carried' /\ Restored'
  <2>1. Agrees => Agrees'
    BY <1>1, <1>4, AgreesStays
  <2>2. Settled'
    BY <1>1, <2>1 DEF KInv, Settled, Whenever
  <2>3. Recording'
    BY <1>1, <1>4, RecordingStays DEF SameRecord
  <2> QED BY <1>1, <2>2, <2>3 DEF KInv, Payload, Carried, InTransaction, Restored
<1> QED BY <1>6, <1>7, <1>8 DEF KInv

LEMMA OriginSettled ==
    ASSUME IInv, RInv, KInv, PushChange \/ MergeRelease \/ \E t \in Tags : PushTag(t) PROVE KInv'
<1>1. Untouched /\ UNCHANGED <<journal, pc, plan, txn, target, pending, resuming, resumable>>
  BY DEF PushChange, MergeRelease, PushTag, OtherThanOrigin, Untouched
<1>2. LogStays
  <2>1. CASE UNCHANGED log
    BY <2>1, SameLog
  <2>2. CASE ~UNCHANGED log
    <3>1. PICK c \in Commits : \E x : Make(c, remote.branch, x)
      BY <2>2, CommitsIn DEF PushChange, MergeRelease, PushTag
    <3>2. remote.branch \in Commits /\ Made(remote.branch) /\ TypeOK /\ Histories
      BY DEF IInv, TypeOK, Known
    <3> QED BY <3>1, <3>2, MadeStays DEF LogStays
  <2> QED BY <2>1, <2>2
<1> QED BY <1>1, <1>2, Elsewhen

-------------------------------------------------------------------------------
LEMMA InitSettled == Init => KInv
<1> SUFFICES ASSUME Init PROVE KInv
  OBVIOUS
<1>1. /\ log = [c \in Commits |->
                   [on |-> IF c \in {Root, Elsewhere} THEN {Root, c} ELSE {}, created |-> FALSE]]
      /\ head = Root /\ index = Root /\ pc = "idle" /\ journal = None /\ undone = {} /\ ~resuming
      /\ files.manifest = "old" /\ files.output = "none"
  BY DEF Init
<1>2. Agrees
  <2>1. log[head].on = {Root}
    BY <1>1, CommitsIn
  <2>2. ~Released(head)
    BY <2>1, CommitsAssumption DEF Released
  <2> QED BY <1>1, <2>2 DEF Agrees, Version
<1> QED BY <1>1, <1>2, Labels
    DEF KInv, Settled, Payload, Recording, Carried, InTransaction, Looked, Untagged, Restored, Restoring, Body

LEMMA StepSettled == IInv /\ RInv /\ KInv /\ [Next]_vars => KInv'
<1> SUFFICES ASSUME IInv, RInv, KInv, [Next]_vars PROVE KInv'
  OBVIOUS
<1>1. CASE UNCHANGED vars
  BY <1>1, SameLog, Elsewhen DEF vars, Untouched
<1>2. CASE Start \/ Execute
  BY <1>2, StartsSettled, SnapshotSettled, ChangesSettled, HooksSettled, CommitSettled, PublicationSettled,
     FinishSettled, RollbackSettled, ResetRefSettled, ForgetSettled DEF Execute
<1>3. CASE Faulty \/ Arrive
  BY <1>3, FaultSettled
<1>4. CASE Intervene
  BY <1>4, CommitChangeSettled, HeadMovesSettled, SetTagSettled, OriginSettled DEF Intervene
<1> QED BY <1>1, <1>2, <1>3, <1>4 DEF Next

LEMMA SettledHolds == Spec => []KInv
BY ReleaseHolds, InitSettled, StepSettled, PTL DEF Spec

-------------------------------------------------------------------------------
\* The file that a hook may create: a fourth inductive invariant.

\* Only a release commits it, and then it stays.
Inherited ==
    \A c \in Commits :
        /\ ~Released(c) => ~log[c].created
        /\ \A d \in Commits : Released(c) /\ c \in log[d].on => log[d].created = log[c].created

\* Where it is as in HEAD, but for what a rollback left behind, and where the index is.
Held ==
    /\ journal = None \/ journal.phase \in External => files.created = log[head].created \/ stranded
    /\ pc = "snapshot" \/ Whenever => files.created = log[head].created
    /\ pc \in {"clear", "mutating", "beforeHooks", "update", "afterHooks", "committing", "add"} => index = head

\* What a rollback will find: a file that the source does not have is untracked, or in
\* the index that git add left, or committed.
Removable ==
    journal # None /\ journal.phase \notin External =>
        /\ journal.files.created = log[journal.source].created
        /\ journal.source \in log[head].on =>
               IF Released(journal.source)
                 THEN files.created = log[journal.source].created
                 ELSE files.created => index \in {"added", journal.source, head}

\* What it leaves.
Removing ==
    /\ pc \in {"untag", "removeCreated", "restore", "resetRef"} => log[head].created = log[target].created
    /\ pc \in {"restoreIndex", "forget"} => log[head].created = log[txn.source].created
    /\ pc \in {"restore", "resetRef", "restoreIndex", "forget"} /\ files.created /\ ~log[txn.source].created =>
           stranded /\ (pc # "forget" => index = "added")

CInv == Inherited /\ Held /\ Removable /\ Removing

\* Where the file is as in HEAD.
Exactly == files.created = log[head].created

\* No commit changes, and a new one has its parent's file or is the first release.
LEMMA MakeInherits ==
    ASSUME IInv, Inherited, NEW c \in Commits, NEW b \in Commits, NEW x \in BOOLEAN, Made(b), Make(c, b, x),
           (c \in Changes /\ x = log[b].created) \/ (c \in Releases /\ ~Released(b))
    PROVE  /\ Inherited' /\ log'[c].created = x /\ log'[c].on = log[b].on \cup {c}
           /\ \A d \in Commits : c \notin log[d].on
           /\ \A d \in Commits : Made(d) => d # c /\ log'[d] = log[d]
<1>1. OuterTypes /\ Histories
  BY TypeParts DEF IInv
<1>2. /\ \A d \in Commits : Made(d) => d # c /\ log'[d] = log[d]
      /\ \A d \in Commits : c \notin log[d].on
      /\ log'[c].on = log[b].on \cup {c}
  BY <1>1, MakeKeeps
<1>3. log'[c].created = x /\ \A d \in Commits : d # c => log'[d] = log[d]
  BY <1>1 DEF Make, OuterTypes
<1>4. \A d \in Commits : d # c => (Released(d)' <=> Released(d))
  BY <1>3 DEF Released
<1>5. c \in Changes => (Released(c)' <=> Released(b))
  BY <1>2, CommitsAssumption DEF Released
<1>6. c \in Releases => Released(c)'
  BY <1>2 DEF Released
<1>7. \A a \in log[b].on : a \in Commits /\ a # c /\ (Released(a) => Released(b))
  BY <1>1, <1>2 DEF OuterTypes, Histories, Released
<1>8. ASSUME NEW d \in Commits PROVE ~Released(d)' => ~log'[d].created
  BY <1>3, <1>4, <1>5, <1>6 DEF Inherited
<1>9. ASSUME NEW a \in Commits, NEW d \in Commits, Released(a)', a \in log'[d].on
      PROVE  log'[d].created = log'[a].created
  <2>1. CASE d = c /\ a # c
    <3>1. a \in log[b].on /\ Released(a)
      BY <1>2, <1>4, <1>9, <2>1
    <3>2. Released(b) /\ log[b].created = log[a].created
      BY <1>7, <3>1 DEF Inherited
    <3> QED BY <1>3, <2>1, <3>2
  <2>2. CASE d # c
    <3>1. a \in log[d].on /\ a # c
      BY <1>2, <1>3, <1>9, <2>2
    <3> QED BY <1>3, <1>4, <1>9, <2>2, <3>1 DEF Inherited
  <2> QED BY <2>1, <2>2
<1> QED BY <1>2, <1>3, <1>8, <1>9 DEF Inherited

LEMMA SameInherited == ASSUME Inherited, UNCHANGED log PROVE Inherited'
BY DEF Inherited, Released

\* What is claimed only of some places.
LEMMA NotRemoving == ASSUME pc' \notin Restoring \ {"rollback", "readTarget"} PROVE Removing'
BY DEF Removing, Restoring

LEMMA NotHeld ==
    ASSUME journal' # None, journal'.phase \notin External, pc' \notin Tagging,
           pc' \notin {"snapshot", "clear", "writeEmpty", "finishEmpty", "readHead"},
           pc' \in {"mutating", "beforeHooks", "update", "afterHooks", "committing", "add"} => index' = head'
    PROVE  Held'
BY DEF Held, Whenever

\* The journal's source in the history of HEAD.
LEMMA SourceFile ==
    ASSUME IInv, CInv, journal # None, journal.phase \notin External, journal.source \in log[head].on
    PROVE  /\ journal.source \in Commits /\ log[journal.source].created \in BOOLEAN
           /\ Released(journal.source) =>
                 files.created = log[journal.source].created /\ log[head].created = log[journal.source].created
           /\ ~Released(journal.source) =>
                 ~log[journal.source].created /\ (files.created => index \in {"added", journal.source, head})
<1>1. journal.source \in Commits /\ head \in Commits
  BY TransactionParts DEF IInv, TypeOK
<1> QED BY <1>1 DEF CInv, Removable, Inherited, IInv, TypeOK

\* Steps that leave the checkout alone, but for other files.
Unmoved == UNCHANGED <<log, head, index, stranded>> /\ files'.created = files.created

LEMMA UnmovedParts ==
    ASSUME IInv, CInv, Unmoved, SameRecord PROVE Inherited' /\ Removable' /\ (Exactly' <=> Exactly)
<1>1. Inherited' /\ (Exactly' <=> Exactly)
  BY SameInherited DEF CInv, Unmoved, Exactly
<1>2. Removable'
  <2>1. SUFFICES ASSUME journal' # None, journal'.phase \notin External PROVE Removable'
    BY DEF Removable
  <2>2. /\ journal # None /\ journal.phase \notin External
        /\ journal'.source = journal.source /\ journal'.files = journal.files
    BY <2>1 DEF SameRecord
  <2>3. \A c : log'[c] = log[c] /\ (Released(c)' <=> Released(c))
    BY DEF Unmoved, Released
  <2>4. Released(journal.source)' <=> Released(journal.source)
    BY <2>2 DEF Unmoved, Released
  <2> QED BY <2>2, <2>3, <2>4 DEF CInv, Removable, Unmoved
<1> QED BY <1>1, <1>2

LEMMA ReturnCreated == ASSUME IInv, CInv, Return, Unmoved, UNCHANGED journal PROVE CInv'
<1>1. pc' = "idle" /\ pc' \notin Body \cup Restoring \cup Early /\ pc' \notin Tagging
  BY Labels, BodyLabels DEF Return
<1>2. Inherited' /\ Removable' /\ (Exactly' <=> Exactly)
  BY UnmovedParts DEF SameRecord
<1>3. Held'
  BY <1>1, <1>2 DEF CInv, Held, Whenever, Unmoved, Exactly
<1> QED BY <1>1, <1>2, <1>3, NotRemoving DEF CInv

LEMMA GiveUpCreated == ASSUME IInv, CInv, GiveUp, Unmoved, UNCHANGED journal PROVE CInv'
<1>1. CASE Return
  BY <1>1, ReturnCreated
<1>2. CASE ~Return
  <2>1. pc \in Body /\ txn.phase \notin External /\ pc' = "rollback"
    BY <1>2 DEF GiveUp
  <2>2. journal # None /\ journal.phase \notin External
    BY <2>1, RunFacts DEF InTransaction
  <2>3. pc' \notin Tagging
    BY <2>1 DEF Tagging
  <2>4. Inherited' /\ Removable'
    BY UnmovedParts DEF SameRecord
  <2>5. Held' /\ Removing'
    BY <2>1, <2>2, <2>3, NotHeld, NotRemoving
  <2> QED BY <2>4, <2>5 DEF CInv
<1> QED BY <1>1, <1>2

\* The start of a run; the clean-tree gate sees the file and the index.
LEMMA StartsCreated ==
    ASSUME IInv, CInv, Start \/ Load \/ Resume \/ RecoverLocally \/ Derive \/ Verify PROVE CInv'
<1>1. Unmoved /\ UNCHANGED <<journal, files>>
  BY DEF Start, Load, Resume, RecoverLocally, Derive, Verify, Unaffected, Unmoved
<1>2. CASE Return
  BY <1>1, <1>2, ReturnCreated
<1>3. ASSUME ~Return PROVE CInv'
  <2>1. pc' \in {"load", "derive", "recover", "rollback", "verify", "snapshot", "clear"}
    BY <1>3 DEF Start, Load, Resume, RecoverLocally, Derive, Verify
  <2>2. pc' \notin Tagging /\ pc' \notin Restoring \ {"rollback", "readTarget"}
    BY <2>1 DEF Tagging, Restoring
  <2>3. Inherited' /\ Removable' /\ (Exactly' <=> Exactly)
    BY <1>1, UnmovedParts DEF SameRecord
  <2>4. pc' \in {"snapshot", "clear"} => Exactly /\ index = head
    BY <1>3, <2>1 DEF Start, Load, Resume, RecoverLocally, Derive, Verify, Verified, Clean, TreeMatches, Exactly
  <2>5. Held'
    BY <1>1, <2>1, <2>2, <2>3, <2>4 DEF CInv, Held, Whenever, Unmoved, Exactly
  <2> QED BY <2>2, <2>3, <2>5, NotRemoving DEF CInv
<1> QED BY <1>2, <1>3

LEMMA RecordedCreated ==
    ASSUME IInv, RInv, KInv, CInv, pc = "snapshot", journal' = Recorded, UNCHANGED <<log, head, index, files>>
    PROVE  Inherited' /\ Removable' /\ Exactly' /\ index' = head'
<1>1. /\ Recorded.source = plan.source /\ Recorded.files = files
      /\ (Recorded.phase \notin External => head = plan.source)
  BY RecordedFacts, InvParts DEF Recorded
<1>2. Inherited' /\ Exactly /\ Exactly' /\ index = head
  BY SameInherited DEF CInv, Held, KInv, Settled, Exactly
<1>3. Removable'
  <2>1. SUFFICES ASSUME journal'.phase \notin External PROVE Removable'
    BY DEF Removable
  <2>2. journal'.source = head /\ journal'.files.created = log[head].created
    BY <1>1, <1>2, <2>1 DEF Exactly
  <2> QED BY <1>2, <2>2 DEF Removable, Exactly
<1> QED BY <1>2, <1>3

LEMMA SnapshotCreated == ASSUME IInv, RInv, KInv, CInv, Snapshot PROVE CInv'
<1>1. /\ pc = "snapshot" /\ pc' = "clear" /\ journal' = Recorded /\ UNCHANGED <<log, head, index, files>>
  BY DEF Snapshot
<1>2. Inherited' /\ Removable' /\ Exactly' /\ index' = head'
  BY <1>1, RecordedCreated
<1>3. Held'
  BY <1>2 DEF Held, Exactly
<1>4. Removing'
  BY <1>1, NotRemoving DEF Restoring
<1> QED BY <1>2, <1>3, <1>4 DEF CInv

\* The body of a run, where the file is as in HEAD, and where hooks may write it.
LEMMA CarriesRecord ==
    ASSUME IInv, RInv, KInv, pc \in Body, Carries
    PROVE  SameRecord /\ journal' # None /\ journal'.phase = txn'.phase
<1>1. InTransaction
  BY DEF InTransaction
<1>2. /\ journal # None /\ txn.source = journal.source /\ txn.phase = journal.phase
      /\ txn.tags = journal.tags /\ txn.files = journal.files /\ txn.index = journal.index
  BY <1>1, RunFacts DEF RInv, Planned, Working, KInv, Carried
<1> QED BY <1>2, JournalAssumption DEF Carries, Keeps, SameRecord

LEMMA BodyExactly ==
    ASSUME IInv, RInv, KInv, CInv, pc \in Body, pc' \in Body, Whenever, Unmoved, Carries,
           pc' \notin Changing \ {"mutating"}, pc' \in {"clear", "mutating"} => pc = "clear"
    PROVE  CInv'
<1>1. SameRecord
  BY CarriesRecord
<1>2. Inherited' /\ Removable' /\ Exactly /\ Exactly'
  BY <1>1, UnmovedParts DEF CInv, Held, Exactly
<1>3. pc' \notin Restoring
  BY InBody
<1>4. Held'
  BY <1>2 DEF CInv, Held, Exactly, Unmoved, Changing
<1> QED BY <1>2, <1>3, <1>4, NotRemoving DEF CInv

LEMMA BodyHooked ==
    ASSUME IInv, RInv, KInv, CInv, pc \in Body, pc' \in Changing \ {"readHead"}, Carries, txn'.phase \notin External,
           Inherited', Removable', pc' \in {"mutating", "beforeHooks", "update", "afterHooks", "committing", "add"} => index' = head'
    PROVE  CInv'
<1>1. journal' # None /\ journal'.phase \notin External
  BY CarriesRecord
<1>2. pc' \in Body /\ pc' \notin Tagging /\ pc' \notin {"snapshot", "clear", "writeEmpty", "finishEmpty", "readHead"}
  BY BodyLabels, InBody DEF Early
<1>3. Held'
  BY <1>1, <1>2, NotHeld
<1>4. Removing'
  BY <1>2, InBody, NotRemoving
<1> QED BY <1>3, <1>4 DEF CInv

LEMMA ChangesCreated ==
    ASSUME IInv, RInv, KInv, CInv,
           Clear \/ WriteEmpty \/ Mutating \/ Update \/ Committing \/ Add \/ ReadHead \/ \E t \in Tags : Tag(t)
    PROVE  CInv'
<1>1. pc \in Body /\ UNCHANGED <<log, head, stranded>> /\ files'.created = files.created
  BY DEF Clear, WriteEmpty, Mutating, Update, Committing, Add, ReadHead, Tag, FileStep, JournalStep, Body, SetFile,
     IInv, TypeOK, Trees
<1>2. txn \in Transactions /\ journal # None /\ (pc \in Changing => txn.phase \notin External)
  BY <1>1, RunFacts DEF InTransaction, IInv, Course
<1>3. CASE GiveUp /\ UNCHANGED <<index, journal>>
  BY <1>1, <1>3, GiveUpCreated DEF Unmoved
<1>4. ASSUME UNCHANGED index, Carries PROVE Inherited' /\ Removable'
  BY <1>1, <1>4, CarriesRecord, UnmovedParts DEF Unmoved
<1>5. CASE Clear \/ WriteEmpty
  <2>1. /\ UNCHANGED <<index, txn, journal>> /\ pc \in {"clear", "writeEmpty"}
        /\ pc' \in {"clear", "writeEmpty", "finishEmpty", "tag", "mutating"}
        /\ pc' \in {"clear", "mutating"} => pc = "clear"
    BY <1>5 DEF Clear, WriteEmpty, FileStep
  <2>2. Whenever /\ pc' \in Body /\ Carries /\ pc' \notin Changing \ {"mutating"}
    BY <2>1 DEF Whenever, Body, Carries, Changing
  <2> QED BY <1>1, <2>1, <2>2, BodyExactly DEF Unmoved
<1>6. CASE Mutating
  <2>1. /\ pc = "mutating" /\ pc' = "beforeHooks" /\ Save("mutating") /\ UNCHANGED index
    BY <1>6 DEF Mutating, JournalStep
  <2>2. txn.phase \notin External /\ "mutating" \in Phases /\ "mutating" \notin External
    BY <1>2, <2>1 DEF Changing, Phases, External
  <2>3. Carries /\ txn'.phase \notin External /\ index' = head'
    BY <1>1, <2>1, <2>2, SaveCarries DEF CInv, Held
  <2> QED BY <1>1, <1>4, <2>1, <2>3, BodyHooked DEF Changing
<1>7. CASE Update
  <2>1. ASSUME head = plan.source PROVE CInv'
    <3>1. pc = "update" /\ pc' = "afterHooks" /\ UNCHANGED <<index, txn, journal>>
      BY <1>7, <2>1 DEF Update
    <3>2. txn'.phase \notin External /\ index' = head' /\ Carries
      BY <1>1, <1>2, <3>1 DEF Changing, CInv, Held, Carries
    <3> QED BY <1>1, <1>4, <3>1, <3>2, BodyHooked DEF Changing
  <2>2. head # plan.source => GiveUp /\ UNCHANGED <<index, journal>>
    BY <1>7 DEF Update
  <2> QED BY <2>1, <2>2, <1>3
<1>8. CASE Committing
  <2>1. ASSUME head = plan.source PROVE CInv'
    <3>1. pc = "committing" /\ pc' = "add" /\ Save("committing") /\ UNCHANGED index
      BY <1>8, <2>1 DEF Committing
    <3>2. txn.phase \notin External /\ "committing" \in Phases /\ "committing" \notin External
      BY <1>2, <3>1 DEF Changing, Phases, External
    <3>3. Carries /\ txn'.phase \notin External /\ index' = head'
      BY <1>1, <3>1, <3>2, SaveCarries DEF CInv, Held
    <3> QED BY <1>1, <1>4, <3>1, <3>3, BodyHooked DEF Changing
  <2>2. head # plan.source => GiveUp /\ UNCHANGED <<index, journal>>
    BY <1>8 DEF Committing
  <2> QED BY <2>1, <2>2, <1>3
<1>9. CASE Add
  <2>1. pc = "add" /\ pc' = "commit" /\ index' = "added" /\ UNCHANGED <<txn, journal>>
    BY <1>9 DEF Add
  <2>2. txn'.phase \notin External /\ Carries
    BY <1>2, <2>1 DEF Changing, Carries
  <2>3. \A c : Released(c)' <=> Released(c)
    BY <1>1, SameCommits
  <2>4. Inherited'
    BY <1>1, SameInherited DEF CInv
  <2>5. Removable'
    <3> HIDE DEF Released
    <3>1. Released(journal.source)' <=> Released(journal.source)
      BY <2>1, <2>3
    <3> QED BY <1>1, <2>1, <3>1 DEF CInv, Removable
  <2> QED BY <1>1, <2>1, <2>2, <2>4, <2>5, BodyHooked DEF Changing
<1>10. CASE ReadHead
  <2>1. ASSUME HeadAccepted PROVE CInv'
    <3>1. /\ pc = "readHead" /\ pc' = "tag" /\ journal' = txn' /\ UNCHANGED index
          /\ txn' = [txn EXCEPT !.releaseHead = FoundHead, !.phase = "tagging"]
      BY <1>10, <2>1 DEF ReadHead
    <3>2. Carries
      BY <1>10, <2>1, ReadHeadCarries
    <3> QED BY <1>1, <3>1, <3>2, BodyExactly DEF Whenever, Unmoved, Body, Changing
  <2>2. ~HeadAccepted => GiveUp /\ UNCHANGED <<index, journal>>
    BY <1>10 DEF ReadHead
  <2> QED BY <2>1, <2>2, <1>3
<1>11. ASSUME NEW t \in Tags, Tag(t) PROVE CInv'
  <2>1. CASE GiveUp
    BY <1>3, <1>11, <2>1 DEF Tag
  <2>2. CASE ~GiveUp
    <3>1. pc = "tag" /\ pc' \in {"tag", "pushing"} /\ UNCHANGED <<index, txn, journal>>
      BY <1>11, <2>2 DEF Tag
    <3> QED BY <1>1, <3>1, BodyExactly DEF Whenever, Tagging, Unmoved, Body, Changing, Carries
  <2> QED BY <2>1, <2>2
<1> QED BY <1>5, <1>6, <1>7, <1>8, <1>9, <1>10, <1>11

\* A commit of a hook or of someone else has its parent's file, and the index with it.
LEMMA ChangeCreated ==
    ASSUME IInv, CInv, NEW c \in Changes, Make(c, head, log[head].created), head' = c, index' = c,
           UNCHANGED <<files, journal>>
    PROVE  /\ Inherited' /\ Removable' /\ log'[c].created = log[head].created
           /\ \A d \in Commits : Made(d) => log'[d] = log[d]
<1>1. c \in Commits /\ head \in Commits /\ Made(head) /\ log[head].created \in BOOLEAN
  BY CommitsIn DEF IInv, TypeOK, Known
<1>2. /\ Inherited' /\ log'[c].created = log[head].created /\ log'[c].on = log[head].on \cup {c}
      /\ \A d \in Commits : Made(d) => d # c /\ log'[d] = log[d]
  BY <1>1, MakeInherits DEF CInv
<1>3. Removable'
  <2>1. SUFFICES ASSUME journal # None, journal.phase \notin External PROVE Removable'
    BY DEF Removable
  <2>2. journal.source \in Commits /\ Made(journal.source)
    BY <2>1, TransactionParts DEF IInv, TypeOK, Known
  <2>3. log'[journal.source] = log[journal.source] /\ journal.source # c
    BY <1>2, <2>2
  <2>4. Released(journal.source)' <=> Released(journal.source)
    BY <2>3 DEF Released
  <2>5. journal.source \in log'[head'].on <=> journal.source \in log[head].on
    BY <1>2, <2>3
  <2> HIDE DEF Released
  <2> QED BY <2>1, <2>3, <2>4, <2>5 DEF CInv, Removable
<1> QED BY <1>2, <1>3

LEMMA HooksCreated == ASSUME IInv, RInv, KInv, CInv, RunHooks PROVE CInv'
<1>1. /\ pc \in {"beforeHooks", "afterHooks"} /\ UNCHANGED <<journal, txn, stranded>>
      /\ pc' = IF pc = "beforeHooks" THEN "update" ELSE "committing"
  BY DEF RunHooks
<1>2. /\ pc \in Body /\ pc' \in Changing \ {"readHead"} /\ txn.phase \notin External /\ index = head
      /\ ~Released(txn.source) /\ txn.source = journal.source
  BY <1>1, RunFacts DEF Body, Changing, IInv, Course, CInv, Held, RInv, Planned, Ahead, InTransaction
<1>3. ASSUME Inherited', Removable', index' = head' PROVE CInv'
  BY <1>1, <1>2, <1>3, BodyHooked DEF Carries
<1>4. CASE UNCHANGED <<log, head, index, files>>
  BY <1>1, <1>2, <1>3, <1>4, UnmovedParts DEF SameRecord, Unmoved
<1>5. CASE SetFile("created", TRUE) /\ UNCHANGED <<log, head, index>>
  <2>1. Inherited'
    BY <1>5, SameInherited DEF CInv
  <2>2. ~Released(journal.source)'
    BY <1>1, <1>2, <1>5 DEF Released
  <2>3. Removable'
    BY <1>1, <1>2, <1>5, <2>2 DEF CInv, Removable
  <2> QED BY <1>2, <1>3, <1>5, <2>1, <2>3
<1>6. ASSUME NEW c \in Changes, Make(c, head, log[head].created), head' = c, index' = c, UNCHANGED files PROVE CInv'
  BY <1>1, <1>3, <1>6, ChangeCreated
<1> QED BY <1>4, <1>5, <1>6 DEF RunHooks

LEMMA CommitCreated == ASSUME IInv, RInv, KInv, CInv, Commit PROVE CInv'
<1>1. pc = "commit" /\ UNCHANGED <<files, journal, stranded>>
  BY DEF Commit
<1>2. CASE GiveUp /\ UNCHANGED <<log, head, index>>
  BY <1>1, <1>2, GiveUpCreated DEF Unmoved
<1>3. ASSUME NEW c \in Releases, Make(c, head, files.created), head' = c, index' = c, pc' = "readHead"
      PROVE  CInv'
  <2>1. c \in Commits /\ head \in Commits /\ Made(head) /\ files.created \in BOOLEAN
    BY CommitsIn DEF IInv, TypeOK, Known, Trees
  <2>2. /\ head = txn.source /\ ~Released(head) /\ txn.source = journal.source /\ journal # None
        /\ journal.phase \notin External
    BY <1>1, RunFacts DEF RInv, Planned, Ahead, Changing, InTransaction, Body, IInv, Course
  <2>3. /\ Inherited' /\ log'[c].created = files.created /\ log'[c].on = log[head].on \cup {c}
        /\ head # c /\ log'[head] = log[head]
    BY <1>3, <2>1, <2>2, MakeInherits DEF CInv
  <2>4. ~Released(journal.source)'
    BY <1>1, <2>2, <2>3 DEF Released
  <2>5. Removable'
    BY <1>1, <1>3, <2>2, <2>3, <2>4 DEF CInv, Removable
  <2>6. Held'
    BY <1>1, <1>3, <2>2, <2>3 DEF Held
  <2>7. Removing'
    BY <1>3, NotRemoving DEF Restoring
  <2> QED BY <2>3, <2>5, <2>6, <2>7 DEF CInv
<1> QED BY <1>2, <1>3 DEF Commit

LEMMA PublicationCreated ==
    ASSUME IInv, RInv, KInv, CInv,
           \/ Pushing \/ Push \/ PushReturns \/ RemoteTags \/ Publishing \/ (\E t \in Tags : Publish(t))
           \/ WriteNotes \/ Write \/ Published \/ AfterRelease
    PROVE  CInv'
<1>1. pc \in Tagging /\ UNCHANGED <<log, head, index, stranded>> /\ files'.created = files.created
  BY DEF Pushing, Push, PushReturns, RemoteTags, Publishing, Publish, WriteNotes, Write, Published,
     AfterRelease, Unaffected, FileStep, JournalStep, Tagging, SetFile, IInv, TypeOK, Trees
<1>2. pc \in Body /\ Whenever /\ txn.release
  BY <1>1, BodyLabels, RunFacts DEF Whenever, RInv, Planned, Working, Ahead
<1>3. CASE GiveUp /\ UNCHANGED journal
  BY <1>1, <1>3, GiveUpCreated DEF Unmoved
<1>4. ASSUME pc' \in Tagging, Carries PROVE CInv'
  <2>1. pc' \in Body /\ pc' \notin Changing /\ pc' # "clear"
    BY <1>4, BodyLabels DEF Tagging
  <2> QED BY <1>1, <1>2, <1>4, <2>1, BodyExactly DEF Unmoved, Changing
<1>5. ASSUME NEW phase \in External, Save(phase), pc' \in Tagging PROVE CInv'
  <2>1. phase \in Phases
    BY DEF External, Phases
  <2> QED BY <1>2, <1>4, <1>5, <2>1, SaveCarries
<1>6. CASE Pushing
  <2>1. pc' \in Tagging /\ (Save("external") \/ UNCHANGED <<txn, journal>>)
    BY <1>6 DEF Pushing, Tagging
  <2> QED BY <1>4, <1>5, <2>1 DEF External, Carries
<1>7. CASE Push \/ WriteNotes \/ Write \/ AfterRelease
  <2>1. UNCHANGED <<txn, journal>> /\ pc' \in Tagging
    BY <1>7 DEF Push, WriteNotes, Write, AfterRelease, FileStep, Unaffected, Tagging
  <2> QED BY <1>4, <2>1 DEF Carries
<1>8. CASE RemoteTags \/ PushReturns
  <2>1. UNCHANGED journal /\ (GiveUp \/ (UNCHANGED txn /\ pc' \in Tagging))
    BY <1>8 DEF RemoteTags, PushReturns, Unaffected, Tagging
  <2> QED BY <1>3, <1>4, <2>1 DEF Carries
<1>9. CASE Publishing \/ Published
  <2>1. (Save("external") \/ Save("published")) /\ pc' \in Tagging
    BY <1>9 DEF Publishing, Published, Tagging
  <2> QED BY <1>5, <2>1 DEF External
<1>10. ASSUME NEW t \in Tags, Publish(t) PROVE CInv'
  <2>1. UNCHANGED journal /\ (GiveUp \/ (UNCHANGED txn /\ pc' \in Tagging))
    BY <1>10 DEF Publish, Tagging
  <2> QED BY <1>3, <1>4, <2>1 DEF Carries
<1> QED BY <1>6, <1>7, <1>8, <1>9, <1>10

LEMMA FinishCreated == ASSUME IInv, CInv, Finish \/ FinishEmpty PROVE CInv'
<1>1. /\ pc \in {"finish", "finishEmpty"} /\ journal' = None /\ Return
      /\ UNCHANGED <<log, head, index, files, stranded>>
  BY DEF Finish, FinishEmpty
<1>2. pc' = "idle" /\ pc' \notin Body \cup Restoring \cup Early /\ pc' \notin Tagging
  BY <1>1, Labels, BodyLabels DEF Return
<1>3. Exactly
  BY <1>1 DEF CInv, Held, Whenever, Tagging, Exactly
<1>4. Inherited' /\ Removable' /\ (Exactly' <=> Exactly)
  BY <1>1, UnmovedParts DEF SameRecord, Unmoved
<1>5. Held'
  BY <1>2, <1>3, <1>4 DEF Held, Whenever, Exactly
<1> QED BY <1>2, <1>4, <1>5, NotRemoving DEF CInv

\* A rollback removes the file if it is untracked or committed since.
LEMMA RestoringOnCreated ==
    ASSUME IInv, RInv, KInv, pc \in Restoring, pc' \in Restoring, UNCHANGED journal, Inherited', Removable', Removing'
    PROVE  CInv'
<1>1. journal # None /\ journal.phase \notin External
  BY RestoringFacts
<1>2. /\ pc' \notin Tagging /\ pc' \notin {"snapshot", "clear", "writeEmpty", "finishEmpty", "readHead"}
      /\ pc' \notin {"mutating", "beforeHooks", "update", "afterHooks", "committing", "add"}
  BY DEF Restoring, Tagging
<1>3. Held'
  BY <1>1, <1>2, NotHeld
<1> QED BY <1>3 DEF CInv

\* What a rollback knows of its source.
LEMMA SourceRestored ==
    ASSUME IInv, RInv, KInv, CInv, pc \in Restoring \ {"rollback"}
    PROVE  /\ txn.source = journal.source /\ txn.source \in log[head].on
           /\ txn.source \in Commits /\ Made(txn.source) /\ log[txn.source].created \in BOOLEAN
           /\ txn.files.created = log[txn.source].created /\ txn.index = txn.source
           /\ Released(txn.source) =>
                 files.created = log[txn.source].created /\ log[head].created = log[txn.source].created
           /\ ~Released(txn.source) =>
                 ~log[txn.source].created /\ (files.created => index \in {"added", txn.source, head})
<1>1. /\ journal # None /\ journal.phase \notin External /\ txn.source = journal.source
      /\ txn.files = journal.files /\ txn.source \in Commits /\ Made(txn.source) /\ txn.index = txn.source
  BY RestoringFacts
<1>2. txn.source \in log[head].on
  BY <1>1 DEF KInv, Restored, Made
<1> QED BY <1>1, <1>2, SourceFile DEF CInv, Removable

LEMMA RemoveCreatedCreated == ASSUME IInv, RInv, KInv, CInv, RemoveCreated PROVE CInv'
<1>1. /\ pc = "removeCreated" /\ pc' = "restore" /\ UNCHANGED <<log, head, index, journal, txn, target>>
      /\ stranded' = (index = "added")
      /\ files'.created = IF (Untracked \/ Committed) /\ ~txn.files.created THEN FALSE ELSE files.created
  BY DEF RemoveCreated, SetFile, IInv, TypeOK, Trees
<1>2. pc \in Restoring \ {"rollback"} /\ pc' \in Restoring
  BY <1>1 DEF Restoring
<1>3. log[head].created = log[target].created
  BY <1>1 DEF CInv, Removing
<1>4. /\ head \in Commits /\ index \in Commits \cup {"added"} /\ files.created \in BOOLEAN
      /\ log[head].created \in BOOLEAN
  BY DEF IInv, TypeOK, Trees
<1>5. files'.created /\ ~log[txn.source].created => index = "added"
  <2>1. SUFFICES ASSUME files'.created, ~log[txn.source].created PROVE index = "added"
    OBVIOUS
  <2>2. files.created /\ ~Untracked /\ ~Committed
    BY <1>1, <1>2, <2>1, SourceRestored
  <2>3. ~log[head].created /\ index \in {"added", txn.source, head}
    BY <1>2, <1>3, <1>4, <2>1, <2>2, SourceRestored DEF Committed
  <2>4. txn.source \in Commits
    BY <1>2, SourceRestored
  <2> QED BY <1>4, <2>1, <2>2, <2>3, <2>4 DEF Untracked
<1>6. Removing'
  BY <1>1, <1>3, <1>5 DEF Removing
<1>7. Inherited'
  BY <1>1, SameInherited DEF CInv
<1>8. Removable'
  <2>1. Released(journal.source)' <=> Released(journal.source)
    BY <1>1 DEF Released
  <2>2. Released(txn.source) => files'.created = log[txn.source].created
    BY <1>1, <1>2, <1>4, SourceRestored
  <2>3. files'.created => files.created
    BY <1>1
  <2>4. txn.source = journal.source
    BY <1>2, SourceRestored
  <2> HIDE DEF Released
  <2> QED BY <1>1, <2>1, <2>2, <2>3, <2>4 DEF CInv, Removable
<1> QED BY <1>1, <1>2, <1>6, <1>7, <1>8, RestoringOnCreated

LEMMA RollbackCreated ==
    ASSUME IInv, RInv, KInv, CInv,
           \/ Rollback \/ ReadTarget \/ (\E t \in Tags : Untag(t))
           \/ (\E file \in {"manifest", "output"} : Restore(file)) \/ RestoreIndex
    PROVE  CInv'
<1>1. pc \in Restoring /\ UNCHANGED <<log, head, journal, stranded>> /\ files'.created = files.created
  BY DEF Rollback, ReadTarget, Untag, Restore, RestoreIndex, Unaffected, FileStep, Restoring, SetFile,
     IInv, TypeOK, Trees
<1>2. CASE Return /\ UNCHANGED index
  BY <1>1, <1>2, ReturnCreated DEF Unmoved
<1>3. ASSUME pc' \in Restoring, UNCHANGED index, Removing' PROVE CInv'
  BY <1>1, <1>3, UnmovedParts, RestoringOnCreated DEF SameRecord, Unmoved
<1>4. CASE Rollback
  <2>1. UNCHANGED index /\ (Return \/ pc' = "readTarget")
    BY <1>4 DEF Rollback, Unaffected
  <2> QED BY <1>2, <1>3, <2>1, NotRemoving DEF Restoring
<1>5. CASE ReadTarget
  <2>1. UNCHANGED index /\ pc' = "untag" /\ target' = head
    BY <1>5 DEF ReadTarget, Unaffected
  <2>2. Removing'
    BY <1>1, <2>1 DEF Removing
  <2> QED BY <1>3, <2>1, <2>2 DEF Restoring
<1>6. ASSUME NEW t \in Tags, Untag(t) PROVE CInv'
  <2>1. UNCHANGED index /\ pc = "untag"
        /\ (Return \/ (pc' \in {"untag", "removeCreated"} /\ UNCHANGED <<txn, target>>))
    BY <1>6 DEF Untag
  <2>2. pc' \in {"untag", "removeCreated"} /\ UNCHANGED <<txn, target>> => Removing'
    BY <1>1, <2>1 DEF CInv, Removing
  <2> QED BY <1>2, <1>3, <2>1, <2>2 DEF Restoring
<1>7. ASSUME NEW file \in {"manifest", "output"}, Restore(file) PROVE CInv'
  <2>1. UNCHANGED <<index, txn, target>> /\ pc = "restore" /\ pc' \in {"restore", "resetRef"}
    BY <1>7 DEF Restore, FileStep
  <2>2. Removing'
    BY <1>1, <2>1 DEF CInv, Removing
  <2> QED BY <1>3, <2>1, <2>2 DEF Restoring
<1>8. CASE RestoreIndex
  <2>1. pc = "restoreIndex" /\ pc' = "forget" /\ index' = txn.index /\ UNCHANGED txn
    BY <1>8 DEF RestoreIndex
  <2>2. pc \in Restoring \ {"rollback"} /\ pc' \in Restoring
    BY <2>1 DEF Restoring
  <2>3. Removing'
    BY <1>1, <2>1 DEF CInv, Removing
  <2>4. Inherited'
    BY <1>1, SameInherited DEF CInv
  <2>5. Removable'
    <3>1. Released(journal.source)' <=> Released(journal.source)
      BY <1>1 DEF Released
    <3>2. index' = journal.source
      BY <2>1, <2>2, SourceRestored
    <3> HIDE DEF Released
    <3> QED BY <1>1, <3>1, <3>2 DEF CInv, Removable
  <2> QED BY <1>1, <2>2, <2>3, <2>4, <2>5, RestoringOnCreated
<1> QED BY <1>4, <1>5, <1>6, <1>7, <1>8

LEMMA ResetRefCreated == ASSUME IInv, RInv, KInv, CInv, ResetRef PROVE CInv'
<1>1. pc = "resetRef" /\ pc \in Restoring \ {"rollback"} /\ UNCHANGED <<log, index, files, journal, stranded>>
  BY DEF ResetRef, Restoring
<1>2. CASE Return /\ UNCHANGED head
  BY <1>1, <1>2, ReturnCreated DEF Unmoved
<1>3. CASE /\ pc' = "restoreIndex" /\ UNCHANGED txn
           /\ (target = txn.source /\ UNCHANGED head) \/ head' = txn.source
  <2>1. log[head'].created = log[txn.source].created
    BY <1>1, <1>3 DEF CInv, Removing
  <2>2. Removing'
    BY <1>1, <1>3, <2>1 DEF CInv, Removing
  <2>3. Inherited'
    BY <1>1, SameInherited DEF CInv
  <2>4. Removable'
    <3>1. Released(journal.source)' <=> Released(journal.source)
      BY <1>1 DEF Released
    <3>2. /\ Released(journal.source) => files.created = log[journal.source].created
          /\ ~Released(journal.source) /\ files.created => index = "added"
      BY <1>1, SourceRestored DEF CInv, Removing
    <3> HIDE DEF Released
    <3> QED BY <1>1, <3>1, <3>2 DEF CInv, Removable
  <2>5. pc' \in Restoring
    BY <1>3 DEF Restoring
  <2> QED BY <1>1, <2>2, <2>3, <2>4, <2>5, RestoringOnCreated
<1> QED BY <1>2, <1>3 DEF ResetRef

LEMMA ForgetCreated == ASSUME IInv, RInv, KInv, CInv, Forget PROVE CInv'
<1>1. /\ pc = "forget" /\ pc \in Restoring \ {"rollback"} /\ journal' = None
      /\ UNCHANGED <<log, head, index, files, stranded>> /\ pc' \in {"idle", "derive"}
  BY DEF Forget, Restoring, Return
<1>2. log[head].created = log[txn.source].created /\ (files.created /\ ~log[txn.source].created => stranded)
  BY <1>1 DEF CInv, Removing
<1>3. files.created \in BOOLEAN
  BY DEF IInv, TypeOK, Trees
<1>4. Exactly \/ stranded
  <2>1. CASE Released(txn.source)
    BY <1>1, <1>2, <2>1, SourceRestored DEF Exactly
  <2>2. CASE ~Released(txn.source)
    BY <1>1, <1>2, <1>3, <2>2, SourceRestored DEF Exactly
  <2> QED BY <2>1, <2>2
<1>5. Inherited' /\ Removable' /\ (Exactly' <=> Exactly)
  BY <1>1, UnmovedParts DEF SameRecord, Unmoved
<1>6. pc' \notin Tagging /\ pc' \notin Restoring
  BY <1>1 DEF Tagging, Restoring
<1>7. Held'
  BY <1>1, <1>4, <1>5, <1>6 DEF Held, Whenever, Exactly
<1> QED BY <1>5, <1>6, <1>7, NotRemoving DEF CInv

\* Faults, and others.
LEMMA ElsewhenCreated ==
    ASSUME IInv, RInv, KInv, CInv, Inherited', \A d \in Commits : Made(d) => log'[d] = log[d],
           UNCHANGED <<head, index, files, stranded, journal, pc, txn, target>>
    PROVE  CInv'
<1>1. log'[head] = log[head]
  BY DEF IInv, TypeOK, Known
<1>2. Held'
  BY <1>1 DEF CInv, Held, Whenever
<1>3. Removable'
  <2>1. SUFFICES ASSUME journal # None, journal.phase \notin External PROVE Removable'
    BY DEF Removable
  <2>2. journal.source \in Commits /\ Made(journal.source)
    BY <2>1, TransactionParts DEF IInv, TypeOK, Known
  <2>3. log'[journal.source] = log[journal.source]
    BY <2>2
  <2>4. Released(journal.source)' <=> Released(journal.source)
    BY <2>3 DEF Released
  <2> HIDE DEF Released
  <2> QED BY <1>1, <2>1, <2>3, <2>4 DEF CInv, Removable
<1>4. Removing'
  <2>1. pc \in Restoring \ {"rollback"} => log'[txn.source] = log[txn.source]
    BY RestoringFacts
  <2>2. pc \in Untagging => log'[target] = log[target]
    BY DEF IInv, Targeted, Settings, Restoring, Untagging
  <2> QED BY <1>1, <2>1, <2>2 DEF CInv, Removing, Restoring, Untagging
<1> QED BY <1>2, <1>3, <1>4 DEF CInv

LEMMA FaultCreated == ASSUME IInv, RInv, KInv, CInv, Faulty \/ Arrive PROVE CInv'
<1>1. CASE CommandFails
  BY <1>1, GiveUpCreated DEF CommandFails, Unmoved
<1>2. CASE Crash
  BY <1>2, ReturnCreated DEF Crash, Unmoved
<1>3. CASE SaveFails
  <2>1. Return /\ UNCHANGED <<log, head, index, files, stranded>>
        /\ journal' = IF pc = "snapshot" THEN Recorded ELSE journal
    BY <1>3 DEF SaveFails
  <2>2. CASE pc # "snapshot"
    BY <2>1, <2>2, ReturnCreated DEF Unmoved
  <2>3. CASE pc = "snapshot"
    <3>1. Inherited' /\ Removable' /\ Exactly'
      BY <2>1, <2>3, RecordedCreated
    <3>2. pc' = "idle" /\ pc' \notin Body \cup Restoring \cup Early /\ pc' \notin Tagging
      BY <2>1, Labels, BodyLabels DEF Return
    <3>3. Held'
      BY <3>1, <3>2 DEF Held, Whenever, Exactly
    <3> QED BY <3>1, <3>2, <3>3, NotRemoving DEF CInv
  <2> QED BY <2>2, <2>3
<1>4. ASSUME NEW p \in inflight, Lose(p) \/ Receive(p) PROVE CInv'
  <2>1. UNCHANGED <<log, head, index, files, stranded, journal, pc, txn, target>>
    BY <1>4 DEF Lose, Receive
  <2>2. Inherited'
    BY <2>1, SameInherited DEF CInv
  <2> QED BY <2>1, <2>2, ElsewhenCreated
<1> QED BY <1>1, <1>2, <1>3, <1>4 DEF Faulty, Arrive

LEMMA CommitChangeCreated == ASSUME IInv, RInv, KInv, CInv, CommitChange PROVE CInv'
<1>1. PICK c \in Changes : Make(c, head, log[head].created) /\ head' = c /\ index' = c
  BY DEF CommitChange
<1>2. /\ pc \notin Body \cup {"snapshot"} /\ index = head
      /\ UNCHANGED <<files, journal, pc, txn, target, stranded>>
  BY DEF CommitChange
<1>3. /\ Inherited' /\ Removable' /\ log'[head'].created = log[head].created
      /\ \A d \in Commits : Made(d) => log'[d] = log[d]
  BY <1>1, <1>2, ChangeCreated
<1>4. pc \notin Tagging /\ pc \notin {"clear", "writeEmpty", "finishEmpty", "readHead"} \cup Changing
  BY <1>2, BodyLabels DEF Changing
<1>5. Held'
  BY <1>2, <1>3, <1>4 DEF CInv, Held, Whenever, Changing
<1>6. Removing'
  <2>1. pc \in Restoring \ {"rollback"} => log'[txn.source] = log[txn.source]
    BY <1>3, RestoringFacts
  <2>2. pc \in Untagging => log'[target] = log[target]
    BY <1>3 DEF IInv, Targeted, Settings, Restoring, Untagging
  <2>3. index # "added"
    BY <1>2, CommitsAssumption DEF IInv, TypeOK
  <2> QED BY <1>2, <1>3, <2>1, <2>2, <2>3 DEF CInv, Removing, Restoring, Untagging
<1> QED BY <1>3, <1>5, <1>6 DEF CInv

LEMMA HeadMovesCreated == ASSUME IInv, RInv, KInv, CInv, Reset \/ Pull \/ Clone PROVE CInv'
<1>1. pc = "idle" /\ pc' = "idle" /\ UNCHANGED log
  BY DEF Reset, Pull, Clone, Idle, OtherThanCheckout
<1>2. pc' \notin Body \cup Restoring \cup Early /\ pc' \notin Tagging
  BY <1>1, Labels, BodyLabels
<1>3. Inherited' /\ Removing'
  BY <1>1, <1>2, SameInherited, NotRemoving DEF CInv
<1>4. Exactly' /\ index' = head' /\ (UNCHANGED journal \/ journal' = None)
  <2>1. files \in Trees
    BY DEF IInv, TypeOK
  <2>2. ASSUME NEW c, CheckOut(c), UNCHANGED <<log, journal>> PROVE Exactly' /\ index' = head' /\ UNCHANGED journal
    BY <2>1, <2>2 DEF CheckOut, Exactly, Trees
  <2>3. CASE Reset \/ Pull
    BY <2>2, <2>3 DEF Reset, Pull, OtherThanCheckout
  <2>4. CASE Clone
    BY <2>4 DEF Clone, Exactly
  <2> QED BY <2>3, <2>4
<1>5. Held'
  BY <1>2, <1>4 DEF Held, Whenever, Exactly
<1>6. Removable'
  <2>1. SUFFICES ASSUME journal' # None, journal'.phase \notin External PROVE Removable'
    BY DEF Removable
  <2>2. journal # None /\ journal.phase \notin External /\ journal' = journal
    BY <1>4, <2>1
  <2>3. journal.source \in Commits /\ head' \in Commits
    <3>1. journal \in Transactions /\ log \in [Commits -> [on : SUBSET Commits, created : BOOLEAN]]
          /\ head \in Commits /\ remote.branch \in Commits
      BY <2>2 DEF IInv, TypeOK
    <3>2. head' \in log[head].on \cup {remote.branch}
      BY DEF Reset, Pull, Clone, CheckOut
    <3> QED BY <3>1, <3>2, TransactionParts
  <2>4. Released(journal.source)' <=> Released(journal.source)
    BY <1>1, <2>2 DEF Released
  <2>5. Released(journal.source) /\ journal.source \in log[head'].on => log[head'].created = log[journal.source].created
    BY <2>3 DEF CInv, Inherited
  <2> HIDE DEF Released
  <2> QED BY <1>1, <1>4, <2>2, <2>4, <2>5 DEF CInv, Removable, Exactly
<1> QED BY <1>3, <1>5, <1>6 DEF CInv

LEMMA OriginCreated ==
    ASSUME IInv, RInv, KInv, CInv, PushChange \/ MergeRelease \/ \E t \in Tags : SetTag(t) \/ PushTag(t) PROVE CInv'
<1>1. UNCHANGED <<head, index, files, stranded, journal, pc, txn, target>>
  BY DEF PushChange, MergeRelease, PushTag, SetTag, OtherThanOrigin, OtherThanCheckout
<1>2. CASE UNCHANGED log
  BY <1>1, <1>2, SameInherited, ElsewhenCreated DEF CInv
<1>3. CASE PushChange \/ MergeRelease
  <2>1. remote.branch \in Commits /\ Made(remote.branch) /\ log[remote.branch].created \in BOOLEAN
    BY DEF IInv, TypeOK, Known
  <2>2. \E c \in Commits, x \in BOOLEAN :
            /\ Make(c, remote.branch, x)
            /\ (c \in Changes /\ x = log[remote.branch].created) \/ (c \in Releases /\ ~Released(remote.branch))
    BY <1>3, <2>1, CommitsIn DEF PushChange, MergeRelease
  <2>3. Inherited' /\ \A d \in Commits : Made(d) => log'[d] = log[d]
    BY <2>1, <2>2, MakeInherits DEF CInv
  <2> QED BY <1>1, <2>3, ElsewhenCreated
<1> QED BY <1>2, <1>3 DEF SetTag, PushTag

-------------------------------------------------------------------------------
LEMMA InitCreated == Init => CInv
<1> SUFFICES ASSUME Init PROVE CInv
  OBVIOUS
<1>1. /\ \A c \in Commits : ~log[c].created
      /\ head = Root /\ pc = "idle" /\ journal = None /\ files.created = FALSE
  BY DEF Init
<1>2. pc \notin Body \cup Restoring \cup Early /\ pc \notin Tagging
  BY <1>1, Labels, BodyLabels
<1>3. Inherited
  <2>1. \A c \in Commits : log[c].created = FALSE
    BY DEF Init
  <2> QED BY <2>1 DEF Inherited
<1>4. Held
  BY <1>1, <1>2, CommitsIn DEF Held, Whenever, Init
<1> QED BY <1>1, <1>2, <1>3, <1>4 DEF CInv, Removable, Removing, Restoring

LEMMA StepCreated == IInv /\ RInv /\ KInv /\ CInv /\ [Next]_vars => CInv'
<1> SUFFICES ASSUME IInv, RInv, KInv, CInv, [Next]_vars PROVE CInv'
  OBVIOUS
<1>1. CASE UNCHANGED vars
  BY <1>1, SameInherited, ElsewhenCreated DEF vars, CInv
<1>2. CASE Start \/ Execute
  BY <1>2, StartsCreated, SnapshotCreated, ChangesCreated, HooksCreated, CommitCreated, PublicationCreated,
     FinishCreated, RollbackCreated, RemoveCreatedCreated, ResetRefCreated, ForgetCreated DEF Execute
<1>3. CASE Faulty \/ Arrive
  BY <1>3, FaultCreated
<1>4. CASE Intervene
  BY <1>4, CommitChangeCreated, HeadMovesCreated, OriginCreated DEF Intervene
<1> QED BY <1>1, <1>2, <1>3, <1>4 DEF Next

LEMMA CreatedHolds == Spec => []CInv
<1>1. IInv /\ RInv /\ KInv /\ CInv /\ [Next]_vars => CInv'
  BY StepCreated
<1> QED BY <1>1, ReleaseHolds, SettledHolds, InitCreated, PTL DEF Spec

-------------------------------------------------------------------------------
\* Between two runs a checkout without a journal is whole, whatever failed, wherever a
\* run stopped and whatever others did meanwhile: its manifests and its index agree
\* with HEAD, a file that a hook created is there if HEAD has it, no tag is left on a
\* commit that a rollback took off the branch, and there are no release notes without
\* the payload that names them.  But a hook's file may stay, if the last rollback found
\* it in the index only, and a commit that someone made during a rollback, after its
\* last look at HEAD, may have its parent's index.
THEOREM RecoveryIsWhole == Spec => []RestoredOrJournaled
<1>1. IInv /\ KInv /\ CInv => RestoredOrJournaled
  BY DEF KInv, Settled, Payload, Untagged, Agrees, Version, CInv, Held, RestoredOrJournaled
<1> QED BY <1>1, ReleaseHolds, SettledHolds, CreatedHolds, PTL
===============================================================================

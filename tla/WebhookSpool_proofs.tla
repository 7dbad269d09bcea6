-------------------------- MODULE WebhookSpool_proofs --------------------------
(***************************************************************************)
(* Proofs about WebhookSpool, for every set of admissions, every bound and *)
(* either answer to whether a sync or a removal may fail.                  *)
(*                                                                         *)
(* The inductive invariant IInv has three layers.  DirInv speaks of the    *)
(* directory and the history only: what every name may hold after a power  *)
(* loss, and how that relates to what was promised and to what ended.      *)
(* Admitting and Acknowledging say what the operation that holds s.mu has  *)
(* established so far.  Memory and Counted tie the process's own variables *)
(* to the directory.  A file operation has one of five effects on the      *)
(* directory (none, a record or a marker put or removed, a sync, a power   *)
(* loss), and one lemma for each says when DirInv survives it; the lemma   *)
(* of an action only has to say which effect it has.                       *)
(***************************************************************************)
EXTENDS WebhookSpool, FiniteSetTheorems, SequenceTheorems, NaturalsInduction, TLAPS

-------------------------------------------------------------------------------
\* The order of admissions, names, and least and greatest names.

\* The entries of a sequence, and their order in it.
Within(s, a) == \E i \in DOMAIN s : s[i] = a

Precedes(s, a, b) == \E i, j \in DOMAIN s : i < j /\ s[i] = a /\ s[j] = b

\* An entry admitted now follows every earlier one: Admit appends to the history
\* of admissions.
LEMMA AppendOrder ==
    ASSUME NEW s \in Seq(Entries), NEW x \in Entries
    PROVE  /\ Append(s, x) \in Seq(Entries)
           /\ \A a : Within(Append(s, x), a) <=> a = x \/ Within(s, a)
           /\ \A a, b : Precedes(Append(s, x), a, b) => Within(s, a) /\ (Precedes(s, a, b) \/ b = x)
<1> DEFINE t == Append(s, x)
           n == Len(s)
<1>1. /\ t \in Seq(Entries) /\ Len(t) = n + 1 /\ n \in Nat
      /\ DOMAIN s = 1..n /\ DOMAIN t = 1..n + 1
      /\ \A i \in 1..n : t[i] = s[i]
      /\ t[n + 1] = x
  BY AppendProperties, LenProperties
<1> HIDE DEF t, n
<1>2. ASSUME NEW a PROVE Within(t, a) <=> a = x \/ Within(s, a)
  BY <1>1 DEF Within
<1>3. ASSUME NEW a, NEW b, Precedes(t, a, b) PROVE Within(s, a) /\ (Precedes(s, a, b) \/ b = x)
  <2>1. PICK i \in 1..n + 1, j \in 1..n + 1 : i < j /\ t[i] = a /\ t[j] = b
    BY <1>1, <1>3 DEF Precedes
  <2>2. i \in 1..n /\ s[i] = a /\ (j \in 1..n \/ j = n + 1)
    BY <1>1, <2>1
  <2> QED BY <1>1, <2>1, <2>2 DEF Precedes, Within
<1> QED BY <1>1, <1>2, <1>3 DEF t, n

LEMMA FileNames ==
    /\ \A n \in Names : record(n) \in Files /\ marker(n) \in Files
    /\ \A m, n \in Names : /\ record(m) = record(n) <=> m = n
                           /\ marker(m) = marker(n) <=> m = n
                           /\ record(m) # marker(n)
BY DEF record, marker, Files

LEMMA NameTypes ==
    /\ Names \subseteq Nat /\ MaxSeq \in Nat
    /\ \A n \in Nat : n \in Names <=> n < MaxSeq
BY MaxSeqAssumption DEF Names

LEMMA NextNames == \A n \in Names : n + 1 \in 0..MaxSeq
BY MaxSeqAssumption DEF Names

\* Min picks a least element: claimNext and Admit take the first name that fits
\* (claimNext, and the loop of Admit that looks for a free number).
LEMMA Smallest ==
    ASSUME NEW S \in SUBSET Nat, S # {}
    PROVE  Min(S) \in S /\ \A k \in S : Min(S) <= k
<1> DEFINE R == OpToRel(<, Nat)
<1>1. IsWellFoundedOn(R, Nat)
  BY NatLessThanWellFounded
<1>2. \A x, y \in Nat : <<y, x>> \in R <=> y < x
  BY DEF OpToRel
<1> HIDE DEF R
<1>3. \E m \in S : \A k \in S : ~ (<<k, m>> \in R)
  BY <1>1, WFMin
<1>4. \E m \in S : \A k \in S : m <= k
  <2>1. PICK m \in S : \A k \in S : ~ (<<k, m>> \in R)
    BY <1>3
  <2>2. \A k \in S : ~ (k < m)
    BY <1>2, <2>1, Zenon
  <2> QED BY <2>2
<1> QED BY <1>4 DEF Min

\* Max picks a greatest name: recount continues behind the last record.
LEMMA Largest ==
    ASSUME NEW S \in SUBSET Names, S # {}
    PROVE  Max(S) \in S /\ \A k \in S : Max(S) >= k
<1> DEFINE T == {MaxSeq - k : k \in S}
<1>1. T \in SUBSET Nat /\ T # {}
  BY NameTypes, \A k \in S : MaxSeq - k \in Nat
<1> HIDE DEF T
<1>2. PICK t \in T : \A u \in T : t <= u
  BY <1>1, Smallest
<1> USE DEF T
<1>3. PICK m \in S : t = MaxSeq - m
  BY <1>2
<1>4. \A k \in S : m >= k
  BY <1>2, <1>3, NameTypes
<1> QED BY <1>3, <1>4 DEF Max

\* The name that Admit gives is one that no record has, from next on.
LEMMA NextNameType ==
    ASSUME next \in 0..MaxSeq, NextName < MaxSeq
    PROVE  NextName \in Names /\ NextName >= next /\ ~Live(NextName)
<1> DEFINE S == {n \in next..MaxSeq : n = MaxSeq \/ ~Live(n)}
<1>1. S \in SUBSET Nat /\ MaxSeq \in S
  BY NameTypes
<1>2. NextName \in S
  BY <1>1, Smallest DEF NextName
<1> QED BY <1>2, NameTypes

-------------------------------------------------------------------------------
\* The inductive invariant.

\* The steps of an admission, of writing a marker, and those after the record went.
Admits == {"admitSync", "admitRollback", "admitRollbackSync"}

Marking == {"markerSync", "markerRollback"}

Emptied == {"recordSync", "removeMarker", "markerCleanSync", "restoreMarker", "restoreSync"}

Up == process \in {"open", "started", "closing"}

DirTypes == /\ cache \in [Files -> Entries \cup Statuses \cup {None}]
            /\ disk \in [Files -> SUBSET (Entries \cup Statuses \cup {None})]

OpTypes == op = Free \/ op \in [at : Labels, name : Names, content : Entries \cup Statuses]

RestTypes ==
    /\ process \in {"down", "opening", "open", "started", "closing"}
    /\ next \in 0..MaxSeq
    /\ records \in 0..MaxSeq
    /\ uncounted \in SUBSET Names
    /\ claimed \in SUBSET Names
    /\ held \in [Names -> Entries \cup {None}]
    /\ fate \in [Entries -> Fates]
    /\ offered \in Seq(Entries)
    /\ outcome \in [Names -> Statuses \cup {None}]
    /\ decided \in SUBSET Entries
    /\ terminal \in SUBSET Entries

\* What the process reads is one of the possibilities of a power loss, and a name
\* holds what its kind of file holds.
Directory ==
    \A n \in Names :
        /\ cache[record(n)] \in disk[record(n)] /\ disk[record(n)] \subseteq Entries \cup {None}
        /\ cache[marker(n)] \in disk[marker(n)] /\ disk[marker(n)] \subseteq Statuses \cup {None}

\* An admission that has not been tried left no trace, and no entry is ever
\* possible under two names.
Fresh ==
    /\ \A e \in Entries : fate[e] = "new" =>
          /\ ~Within(offered, e) /\ e \notin decided /\ e \notin terminal
          /\ \A n \in Names : e \notin disk[record(n)]
    /\ \A e \in Entries, m, n \in Names : e \in disk[record(m)] /\ e \in disk[record(n)] => m = n

\* A record of a promised entry that a power loss could bring back has its marker
\* in the way, as far as the process can see.
Hidden ==
    \A e \in Promised, n \in Names :
        e \in disk[record(n)] /\ cache[record(n)] # e => Marked(n)

\* The order of names is the order of admission, for every record that may come
\* back and not only for those that are there.
Ordered ==
    \A e \in Promised, f \in Entries, m, n \in Names :
        Precedes(offered, e, f) /\ e \in disk[record(m)] /\ f \in disk[record(n)] => m < n

\* An entry whose marker was synced is never possible without a marker.
MarkerDurable == \A e \in terminal, n \in Names : e \in disk[record(n)] => None \notin disk[marker(n)]

DirInv == Directory /\ Fresh /\ Hidden /\ Ordered /\ MarkerDurable /\ PromiseKept

\* An admission under way: its record is the last one offered, its number is
\* below next, and nobody holds it or has marked it.
Admitting ==
    op.at \in Admits =>
        /\ process = "started"
        /\ op.content \in Entries /\ fate[op.content] = "offered"
        /\ \A f \in Entries : ~Precedes(offered, op.content, f)
        /\ cache[marker(op.name)] = None /\ held[op.name] = None /\ op.name < next
        /\ cache[record(op.name)] = IF op.at = "admitRollbackSync" THEN None ELSE op.content

\* An acknowledgement or a reconciliation under way: while the marker is being
\* written the record is still the held one, the marker is there until the
\* record's removal has been synced, and only then may it go.
Acknowledging ==
    op.at \in Labels \ Admits =>
        /\ process \in {"opening", "started", "closing"}
        /\ process # "opening" => held[op.name] # None
        /\ op.content \in Statuses
        /\ op.at \in Marking =>
              /\ process # "opening"
              /\ cache[record(op.name)] = held[op.name]
              /\ \A e \in disk[record(op.name)] : e \notin terminal
              /\ \A e \in disk[record(op.name)] : e \in Promised => e = cache[record(op.name)]
        /\ op.at \in Marking \cup {"removeRecord", "recordSync", "removeMarker"} => Marked(op.name)
        /\ op.at \in Emptied => cache[record(op.name)] = None
        /\ op.at \in Emptied \ {"recordSync"} => disk[record(op.name)] = {None}

\* Nothing is held or claimed before Start, and no marker is left once recounted.
Idle ==
    /\ process \in {"down", "opening", "open"} =>
          /\ claimed = {}
          /\ \A n \in Names : held[n] = None /\ outcome[n] = None
    /\ process \in {"down", "open"} => op = Free
    /\ process = "open" => \A n \in Names : ~Marked(n)

\* The number s.next and all after it are unused.
Unused == Up => \A n \in Names : n >= next => ~Live(n) /\ ~Marked(n)

\* What the consumer holds was admitted, is in its file or gone, and stays
\* claimed as long as it is there.
Handed ==
    \A n \in Names : held[n] # None =>
        /\ n < next /\ fate[held[n]] # "new"
        /\ cache[record(n)] \in {held[n], None}
        /\ n \in claimed \/ ~Live(n)

\* A promised record that a power loss may bring back is numbered below next.
Numbered == Up => \A e \in Promised, n \in Names : e \in disk[record(n)] => n < next

Memory == Idle /\ Unused /\ Handed /\ Numbered

LiveNames == {n \in Names : Live(n)}

Awaited == IF op.at \in {"admitSync", "admitRollback"} THEN 1 ELSE 0

\* s.records lags behind by the admission whose sync is awaited, and by at most the
\* records that were left out of it or taken off it although they stay: the name of an
\* admission under way is not one of them yet, because its number is above theirs.
Counted ==
    Up => /\ records <= Cardinality(LiveNames) - Awaited
          /\ Cardinality(LiveNames) - Awaited <= records + Cardinality(uncounted)
          /\ \A n \in uncounted : n < next
          /\ Awaited = 1 => op.name \notin uncounted

IInv == /\ DirTypes /\ OpTypes /\ RestTypes /\ DirInv
        /\ Admitting /\ Acknowledging /\ Memory /\ Counted

-------------------------------------------------------------------------------
\* What a file operation does to the directory, name by name, and to op.

\* The four effects on the directory.
Stay == \A m \in Names : /\ cache'[record(m)] = cache[record(m)] /\ cache'[marker(m)] = cache[marker(m)]
                         /\ disk'[record(m)] = disk[record(m)] /\ disk'[marker(m)] = disk[marker(m)]

PutRecord(n, c) ==
    \A m \in Names : /\ cache'[record(m)] = IF m = n THEN c ELSE cache[record(m)]
                     /\ cache'[marker(m)] = cache[marker(m)]
                     /\ disk'[record(m)] = IF m = n THEN disk[record(m)] \cup {c} ELSE disk[record(m)]
                     /\ disk'[marker(m)] = disk[marker(m)]

PutMarker(n, c) ==
    \A m \in Names : /\ cache'[marker(m)] = IF m = n THEN c ELSE cache[marker(m)]
                     /\ cache'[record(m)] = cache[record(m)]
                     /\ disk'[marker(m)] = IF m = n THEN disk[marker(m)] \cup {c} ELSE disk[marker(m)]
                     /\ disk'[record(m)] = disk[record(m)]

Synced ==
    \A m \in Names : /\ cache'[record(m)] = cache[record(m)] /\ cache'[marker(m)] = cache[marker(m)]
                     /\ disk'[record(m)] = {cache[record(m)]} /\ disk'[marker(m)] = {cache[marker(m)]}

\* Each name keeps some of its possibilities; one that changes is settled.  No
\* operation, a sync and a power loss all do this.
Shrinks ==
    \A m \in Names :
        /\ disk'[record(m)] \subseteq disk[record(m)] /\ cache'[record(m)] \in disk'[record(m)]
        /\ disk'[marker(m)] \subseteq disk[marker(m)] /\ cache'[marker(m)] \in disk'[marker(m)]
        /\ \/ cache'[record(m)] = cache[record(m)] /\ cache'[marker(m)] = cache[marker(m)]
           \/ disk'[record(m)] = {cache'[record(m)]}

LEMMA StayEffect == ASSUME DirTypes, UNCHANGED directory PROVE DirTypes' /\ Stay
BY DEF DirTypes, directory, Stay

LEMMA PutRecordEffect ==
    ASSUME DirTypes, NEW n \in Names, NEW c \in Entries \cup Statuses \cup {None}, Put(record(n), c)
    PROVE  DirTypes' /\ PutRecord(n, c)
BY FileNames DEF DirTypes, Put, PutRecord

LEMMA PutMarkerEffect ==
    ASSUME DirTypes, NEW n \in Names, NEW c \in Entries \cup Statuses \cup {None}, Put(marker(n), c)
    PROVE  DirTypes' /\ PutMarker(n, c)
BY FileNames DEF DirTypes, Put, PutMarker

LEMMA SyncEffect == ASSUME DirTypes, SyncDirectory PROVE DirTypes' /\ Synced
<1> USE DEF DirTypes, SyncDirectory
<1>1. DirTypes'
  OBVIOUS
<1>2. Synced
  BY FileNames DEF Synced
<1> QED BY <1>1, <1>2

LEMMA FreeAt == Free.at = "free" /\ "free" \notin Labels
BY DEF Free, Labels

LEMMA LockEffect ==
    ASSUME NEW at \in Labels, NEW n \in Names, NEW c \in Entries \cup Statuses, Lock(at, n, c)
    PROVE  OpTypes' /\ op'.at = at /\ op'.name = n /\ op'.content = c /\ op' # Free
BY FreeAt DEF Lock, OpTypes

LEMMA GotoEffect ==
    ASSUME OpTypes, op # Free, NEW at \in Labels, Goto(at)
    PROVE  OpTypes' /\ op'.at = at /\ op'.name = op.name /\ op'.content = op.content /\ op' # Free
BY FreeAt DEF Goto, OpTypes

LEMMA UnlockEffect == ASSUME Unlock PROVE OpTypes' /\ op' = Free /\ op'.at = "free"
BY FreeAt DEF Unlock, OpTypes

\* What At says of an operation that holds the lock.
LEMMA OpFacts ==
    ASSUME OpTypes
    PROVE  /\ op # Free <=> op.at \in Labels
           /\ op # Free => op.name \in Names /\ op.content \in Entries \cup Statuses
           /\ \A at : At(at) /\ at # "free" <=> op.at = at /\ at \in Labels
BY FreeAt DEF OpTypes, At

LEMMA StayShrinks == ASSUME Directory, Stay PROVE Shrinks /\ LiveNames' = LiveNames
BY DEF Directory, Stay, Shrinks, LiveNames, Live

LEMMA SyncShrinks == ASSUME Directory, Synced PROVE Shrinks /\ LiveNames' = LiveNames
BY DEF Directory, Synced, Shrinks, LiveNames, Live

LEMMA PutMarkerLive == ASSUME NEW n \in Names, NEW c, PutMarker(n, c) PROVE LiveNames' = LiveNames
BY DEF PutMarker, LiveNames, Live

\* The number of records is a number, at most that of names.
LEMMA LiveCount ==
    \A S \in SUBSET Names : IsFiniteSet(S) /\ Cardinality(S) \in Nat /\ Cardinality(S) <= MaxSeq
<1>1. IsFiniteSet(Names) /\ Cardinality(Names) = MaxSeq
  BY FS_Interval, MaxSeqAssumption DEF Names
<1> QED BY <1>1, FS_Subset, FS_CardinalityType, MaxSeqAssumption

LEMMA LiveNat == Cardinality(LiveNames) \in Nat /\ Cardinality(LiveNames) <= MaxSeq
BY LiveCount DEF LiveNames

\* A record that is left out of the count is one more than before.
LEMMA CountedOnce ==
    ASSUME uncounted \in SUBSET Names, NEW n \in Names, n \notin uncounted
    PROVE  Cardinality(uncounted \cup {n}) = Cardinality(uncounted) + 1 /\ Cardinality(uncounted) \in Nat
BY LiveCount, FS_AddElement

LEMMA LiveRemoved ==
    ASSUME NEW n \in Names, PutRecord(n, None)
    PROVE  /\ LiveNames' = LiveNames \ {n}
           /\ Cardinality(LiveNames') = IF Live(n) THEN Cardinality(LiveNames) - 1 ELSE Cardinality(LiveNames)
           /\ Cardinality(LiveNames') \in Nat
<1>1. LiveNames' = LiveNames \ {n} /\ (n \in LiveNames <=> Live(n))
  BY DEF PutRecord, LiveNames, Live
<1>2. IsFiniteSet(LiveNames) /\ LiveNames' \in SUBSET Names
  BY <1>1, LiveCount DEF LiveNames
<1> QED BY <1>1, <1>2, FS_RemoveElement, LiveCount

LEMMA LiveAdded ==
    ASSUME NEW n \in Names, NEW e \in Entries, PutRecord(n, e), ~Live(n)
    PROVE  /\ LiveNames' = LiveNames \cup {n}
           /\ Cardinality(LiveNames') = Cardinality(LiveNames) + 1
<1>1. LiveNames' = LiveNames \cup {n} /\ n \notin LiveNames
  BY NoneAssumption DEF PutRecord, LiveNames, Live
<1>2. IsFiniteSet(LiveNames)
  BY LiveCount DEF LiveNames
<1> QED BY <1>1, <1>2, FS_AddElement

-------------------------------------------------------------------------------
\* When each effect keeps what the directory promises.

\* The histories stay as they are or lose a promise: what Discard takes back, or a
\* refusal ends, is no longer promised.
HistStay ==
    /\ offered' = offered /\ terminal' = terminal
    /\ \A e \in Entries : fate'[e] = "new" => fate[e] = "new" /\ e \notin decided'
    /\ \A e \in Entries : fate'[e] = "promised" => fate[e] = "promised" /\ (e \in decided => e \in decided')

LEMMA HistSame ==
    ASSUME Fresh, fate' = fate, offered' = offered, terminal' = terminal, decided' = decided PROVE HistStay
BY DEF Fresh, HistStay

\* A sync, or a power loss in any state, keeps what the directory promises.
LEMMA ShrinkKeeps == ASSUME DirInv, Shrinks, HistStay PROVE DirInv'
<1> USE DEF DirInv, Shrinks, HistStay
<1>1. Directory'
  BY DEF Directory
<1>2. Fresh'
  BY DEF Fresh
<1>3. Hidden'
  BY DEF Hidden, Promised, Marked
<1>4. Ordered'
  BY DEF Ordered, Promised
<1>5. MarkerDurable'
  BY DEF MarkerDurable
<1>6. PromiseKept'
  BY DEF PromiseKept, Promised
<1> QED BY <1>1, <1>2, <1>3, <1>4, <1>5, <1>6

\* Removing a record keeps it if what was promised there is marked: the rollback
\* of Admit, Discard, and the removal of an acknowledged record.
LEMMA RecordGoneKeeps ==
    ASSUME DirInv, NEW n \in Names, PutRecord(n, None), HistStay, terminal \subseteq Entries,
           \A e \in disk[record(n)] : e \in Entries /\ fate'[e] = "promised" => Marked(n)
    PROVE  DirInv'
<1> USE NoneAssumption DEF DirInv, PutRecord, HistStay
<1>1. Directory'
  BY DEF Directory
<1>7. /\ \A e \in Entries, m \in Names : e \in disk'[record(m)] <=> e \in disk[record(m)]
      /\ \A m \in Names : disk'[marker(m)] = disk[marker(m)]
  OBVIOUS
<1>2. Fresh'
  <2> HIDE DEF PutRecord
  <2> QED BY <1>7 DEF Fresh
<1>3. Hidden'
  BY DEF Hidden, Promised, Marked
<1>4. Ordered'
  BY DEF Ordered, Promised
<1>5. MarkerDurable'
  <2> SUFFICES ASSUME NEW e \in terminal, NEW m \in Names, e \in disk'[record(m)]
               PROVE  None \notin disk'[marker(m)]
    BY DEF MarkerDurable
  <2>1. e \in Entries
    OBVIOUS
  <2> HIDE DEF PutRecord
  <2> QED BY <1>7, <2>1 DEF MarkerDurable
<1>6. PromiseKept'
  <2> SUFFICES ASSUME NEW e \in Entries, fate'[e] = "promised", e \notin decided'
               PROVE  \E m \in Names : disk'[record(m)] = {e} /\ disk'[marker(m)] = {None}
    BY DEF PromiseKept, Promised
  <2>1. PICK m \in Names : disk[record(m)] = {e} /\ disk[marker(m)] = {None}
    BY DEF PromiseKept, Promised
  <2>2. m # n
    BY <2>1 DEF Directory, Marked
  <2> QED BY <2>1, <2>2
<1> QED BY <1>1, <1>2, <1>3, <1>4, <1>5, <1>6

\* Writing a marker keeps it if an outcome was decided for the one entry that is
\* certain to be there.
LEMMA MarkerSetKeeps ==
    ASSUME DirInv, NEW n \in Names, NEW s \in Statuses, PutMarker(n, s), HistStay,
           \A e \in Entries : disk[record(n)] = {e} /\ fate'[e] = "promised" => e \in decided'
    PROVE  DirInv'
<1> USE NoneAssumption DEF DirInv, PutMarker, HistStay
<1>1. Directory'
  BY DEF Directory
<1>2. Fresh'
  BY DEF Fresh
<1>3. Hidden'
  BY DEF Hidden, Promised, Marked
<1>4. Ordered'
  BY DEF Ordered, Promised
<1>5. MarkerDurable'
  BY DEF MarkerDurable
<1>6. PromiseKept'
  <2> SUFFICES ASSUME NEW e \in Entries, fate'[e] = "promised", e \notin decided'
               PROVE  \E m \in Names : disk'[record(m)] = {e} /\ disk'[marker(m)] = {None}
    BY DEF PromiseKept, Promised
  <2>1. PICK m \in Names : disk[record(m)] = {e} /\ disk[marker(m)] = {None}
    BY DEF PromiseKept, Promised
  <2>2. m # n
    BY <2>1
  <2> QED BY <2>1, <2>2
<1> QED BY <1>1, <1>2, <1>3, <1>4, <1>5, <1>6

\* Removing a marker keeps it if nothing terminal, and no promised entry but the
\* visible one, can come back from under it.
LEMMA MarkerGoneKeeps ==
    ASSUME DirInv, NEW n \in Names, PutMarker(n, None), HistStay,
           \A e \in disk[record(n)] : e \notin terminal,
           \A e \in disk[record(n)] : e \in Entries /\ fate[e] = "promised" => e = cache[record(n)]
    PROVE  DirInv'
<1> USE NoneAssumption DEF DirInv, PutMarker, HistStay
<1>1. Directory'
  BY DEF Directory
<1>2. Fresh'
  BY DEF Fresh
<1>3. Hidden'
  BY DEF Hidden, Promised, Marked
<1>4. Ordered'
  BY DEF Ordered, Promised
<1>5. MarkerDurable'
  BY DEF MarkerDurable
<1>6. PromiseKept'
  BY DEF PromiseKept, Promised
<1> QED BY <1>1, <1>2, <1>3, <1>4, <1>5, <1>6

\* A new record under an unused name keeps it, because its number is above that
\* of every promised record that may still come back.
LEMMA AdmittedKeeps ==
    ASSUME DirInv, NEW n \in Names, NEW e \in Entries, PutRecord(n, e), fate[e] = "new",
           fate' = [fate EXCEPT ![e] = "offered"], fate \in [Entries -> Fates],
           offered' = Append(offered, e), offered \in Seq(Entries),
           decided' = decided, terminal' = terminal, ~Live(n), ~Marked(n),
           \A p \in Promised, m \in Names : p \in disk[record(m)] => m < n
    PROVE  DirInv' /\ \A f \in Entries : ~Precedes(offered', e, f)
<1> USE NoneAssumption DEF DirInv, PutRecord
<1>1. Directory'
  BY DEF Directory
<1>2. /\ \A a : Within(offered', a) <=> a = e \/ Within(offered, a)
      /\ \A a, b : Precedes(offered', a, b) => Within(offered, a) /\ (Precedes(offered, a, b) \/ b = e)
  BY AppendOrder
<1>3. /\ \A a \in Entries : fate'[a] = IF a = e THEN "offered" ELSE fate[a]
      /\ Promised' = Promised
  BY DEF Promised
<1>4. /\ ~Within(offered, e) /\ e \notin decided /\ e \notin terminal
      /\ \A m \in Names : e \notin disk[record(m)]
  BY DEF Fresh
<1>11. \A a \in Entries, m \in Names : a \in disk'[record(m)] <=> a \in disk[record(m)] \/ (a = e /\ m = n)
  OBVIOUS
<1>5. Fresh'
  <2> HIDE DEF PutRecord
  <2>1. \A a \in Entries : fate'[a] = "new" => a # e /\ fate[a] = "new"
    BY <1>3
  <2>2. \A a \in Entries, m, k \in Names : a \in disk'[record(m)] /\ a \in disk'[record(k)] => m = k
    BY <1>4, <1>11 DEF Fresh
  <2> QED BY <1>2, <1>11, <2>1, <2>2 DEF Fresh
<1>6. Hidden'
  <2>1. \A p \in Promised : p \notin disk[record(n)]
    BY DEF Hidden, Live, Promised
  <2>2. \A p \in Promised : p \in Entries /\ p # e
    BY DEF Promised
  <2> SUFFICES ASSUME NEW p \in Promised, NEW m \in Names, p \in disk'[record(m)], cache'[record(m)] # p
               PROVE  cache'[marker(m)] # None
    BY <1>3 DEF Hidden, Marked
  <2>3. p \in disk[record(m)] /\ m # n
    BY <1>11, <2>1, <2>2
  <2>4. cache[record(m)] # p
    BY <2>3
  <2> QED BY <2>3, <2>4 DEF Hidden, Marked
<1>7. Ordered'
  <2> SUFFICES ASSUME NEW p \in Promised, NEW f \in Entries, NEW m \in Names, NEW k \in Names,
                      Precedes(offered', p, f), p \in disk'[record(m)], f \in disk'[record(k)]
               PROVE  m < k
    BY <1>3 DEF Ordered
  <2>1. p # e /\ p \in disk[record(m)] /\ m < n
    BY <1>2, <1>4 DEF Promised
  <2>2. CASE f = e
    <3>1. k = n
      BY <1>4, <2>2
    <3> QED BY <2>1, <3>1
  <2>3. CASE f # e
    <3>1. f \in disk[record(k)] /\ Precedes(offered, p, f)
      BY <1>2, <2>3
    <3> QED BY <2>1, <3>1 DEF Ordered
  <2> QED BY <2>2, <2>3
<1>8. MarkerDurable'
  BY <1>4 DEF MarkerDurable
<1>9. PromiseKept'
  <2> SUFFICES ASSUME NEW p \in Promised, p \notin decided
               PROVE  \E m \in Names : disk'[record(m)] = {p} /\ disk'[marker(m)] = {None}
    BY <1>3 DEF PromiseKept
  <2>1. PICK m \in Names : disk[record(m)] = {p} /\ disk[marker(m)] = {None}
    BY DEF PromiseKept
  <2>2. m # n
    BY <2>1 DEF Directory, Live, Promised
  <2> QED BY <2>1, <2>2
<1>10. \A f \in Entries : ~Precedes(offered', e, f)
  BY <1>2, <1>4
<1> QED BY <1>1, <1>5, <1>6, <1>7, <1>8, <1>9, <1>10

\* A synced admission becomes a promise: its record is the only possibility.
LEMMA PromisedKeeps ==
    ASSUME DirInv, NEW n \in Names, NEW e \in Entries, Synced,
           cache[record(n)] = e, cache[marker(n)] = None, fate[e] = "offered",
           \A f \in Entries : ~Precedes(offered, e, f),
           fate' = [fate EXCEPT ![e] = "promised"], fate \in [Entries -> Fates],
           offered' = offered, decided' = decided, terminal' = terminal
    PROVE  DirInv'
<1> USE NoneAssumption DEF DirInv, Synced
<1>1. Directory'
  BY DEF Directory
<1>2. \A a \in Entries : fate'[a] = IF a = e THEN "promised" ELSE fate[a]
  OBVIOUS
<1>3. Promised' = Promised \cup {e}
  BY <1>2 DEF Promised
<1>4. Fresh'
  BY <1>2 DEF Fresh, Directory
<1>5. Hidden'
  BY DEF Hidden, Marked
<1>6. Ordered'
  BY <1>3 DEF Ordered, Directory
<1>7. MarkerDurable'
  BY DEF MarkerDurable, Directory
<1>8. PromiseKept'
  BY <1>3 DEF PromiseKept, Directory
<1> QED BY <1>1, <1>4, <1>5, <1>6, <1>7, <1>8

\* A synced marker makes its entry terminal.
LEMMA TerminalKeeps ==
    ASSUME DirInv, NEW n \in Names, Synced, cache[record(n)] \in Entries, cache[marker(n)] # None,
           fate' = fate, offered' = offered, decided' = decided,
           terminal' = terminal \cup {cache[record(n)]}, fate[cache[record(n)]] # "new"
    PROVE  DirInv'
<1> USE NoneAssumption DEF DirInv, Synced
<1>1. Directory'
  BY DEF Directory
<1>2. Fresh'
  BY DEF Fresh, Directory
<1>3. Hidden'
  BY DEF Hidden, Marked
<1>4. Ordered'
  BY DEF Ordered, Directory, Promised
<1>5. MarkerDurable'
  BY DEF MarkerDurable, Directory, Fresh
<1>6. PromiseKept'
  BY DEF PromiseKept, Directory, Promised
<1> QED BY <1>1, <1>2, <1>3, <1>4, <1>5, <1>6

-------------------------------------------------------------------------------
\* When a step keeps what the process remembers.

\* A step that admits nothing and hands nothing out: names lose records, claims
\* are dropped only where the record is gone, and a marker appears only on a name
\* that was in use.
Calm ==
    /\ \/ process' = process
       \/ process = "opening" /\ process' = "down" /\ op' = Free
    /\ next' = next /\ held' = held /\ outcome' = outcome
    /\ \A e \in Entries : fate'[e] \in {"new", "promised"} => fate[e] = fate'[e]
    /\ claimed' \subseteq claimed
    /\ process \in {"down", "open"} => op' = Free
    /\ \A n \in Names :
          /\ cache'[record(n)] \in {cache[record(n)], None}
          /\ n \in claimed => n \in claimed' \/ cache'[record(n)] = None
          /\ \/ cache'[marker(n)] \in {cache[marker(n)], None}
             \/ ~Up
             \/ n < next /\ process # "open"
          /\ \A e \in Entries : e \in disk'[record(n)] => e \in disk[record(n)]

\* Such a step keeps Memory.
LEMMA CalmKeeps == ASSUME RestTypes, Memory, Calm PROVE Memory'
<1> USE DEF Calm
<1>1. Idle'
  BY DEF Memory, Idle, Marked, Up
<1>2. Unused'
  <2> SUFFICES ASSUME Up', NEW n \in Names, n >= next
               PROVE  cache'[record(n)] = None /\ cache'[marker(n)] = None
    BY DEF Unused, Live, Marked
  <2>1. Up /\ ~(n < next)
    BY NameTypes DEF Up, RestTypes
  <2> QED BY <2>1 DEF Memory, Unused, Live, Marked
<1>3. Handed'
  BY DEF Memory, RestTypes, Handed, Live
<1>4. Numbered'
  BY DEF Memory, Numbered, Promised, Up
<1> QED BY <1>1, <1>2, <1>3, <1>4 DEF Memory

LEMMA CountKeeps ==
    ASSUME Counted, process' = process \/ process' = "down", records' = records,
           uncounted' = uncounted, next' = next, LiveNames' = LiveNames,
           Awaited' = Awaited, Awaited' = 0 \/ op'.name = op.name
    PROVE  Counted'
BY DEF Counted, Up

\* An operation that has ended promises nothing.
LEMMA FreeOp == ASSUME op'.at = "free" PROVE Admitting' /\ Acknowledging'
BY DEF Admitting, Acknowledging, Admits, Labels

-------------------------------------------------------------------------------
\* Admissions and claims.

LEMMA AdmitRefusedStep ==
    ASSUME IInv, NEW e \in Entries, AdmitRefused(e) PROVE IInv'
<1>1. op = Free /\ op' = op /\ OpTypes' /\ fate[e] = "new" /\ fate' = [fate EXCEPT ![e] = "refused"]
  BY DEF AdmitRefused, IInv, OpTypes
<1>2. /\ UNCHANGED <<process, records, uncounted, claimed, held, outcome, offered, decided, terminal>>
      /\ UNCHANGED directory
  BY DEF AdmitRefused, consumer
<1>3. next' \in 0..MaxSeq /\ next' >= next
  BY NextNameType, NextNames, NameTypes DEF AdmitRefused, IInv, RestTypes
<1>4. fate' \in [Entries -> Fates] /\ Promised' = Promised
  BY <1>1 DEF IInv, RestTypes, Fates, Promised
<1>5. DirTypes' /\ Stay /\ Shrinks /\ LiveNames' = LiveNames
  BY <1>2, StayEffect, StayShrinks DEF IInv, DirInv
<1>6. DirInv'
  BY <1>1, <1>2, <1>5, ShrinkKeeps DEF IInv, DirInv, Fresh, HistStay, RestTypes
<1>7. RestTypes'
  BY <1>2, <1>3, <1>4 DEF IInv, RestTypes
<1>8. Admitting' /\ Acknowledging' /\ Awaited' = Awaited /\ Awaited' = 0
  BY <1>1, FreeAt, FreeOp DEF Awaited
<1>9. Idle'
  BY <1>1, <1>2, <1>5 DEF IInv, Memory, Idle, Marked, Stay
<1>10. Unused'
  BY <1>2, <1>3, <1>5, NameTypes DEF IInv, Memory, Unused, Live, Marked, Up, Stay, RestTypes
<1>11. Handed'
  <2> SUFFICES ASSUME NEW m \in Names, held[m] # None
               PROVE  /\ m < next' /\ fate'[held[m]] # "new"
                      /\ cache[record(m)] \in {held[m], None} /\ (m \in claimed \/ cache[record(m)] = None)
    BY <1>2, <1>5 DEF Handed, Live, Stay
  <2>1. /\ m < next /\ held[m] \in Entries /\ fate[held[m]] # "new"
        /\ cache[record(m)] \in {held[m], None} /\ (m \in claimed \/ cache[record(m)] = None)
    BY DEF IInv, Memory, RestTypes, Handed, Live
  <2>2. m \in Nat /\ next \in Nat /\ next' \in Nat
    BY <1>3, NameTypes DEF IInv, RestTypes
  <2>3. fate'[held[m]] # "new"
    BY <1>1, <2>1 DEF IInv, RestTypes
  <2>4. m < next'
    BY <1>3, <2>1, <2>2
  <2> QED BY <2>1, <2>3, <2>4
<1>12. Numbered'
  BY <1>2, <1>3, <1>4, <1>5, NameTypes DEF IInv, Memory, Numbered, Up, Stay, RestTypes
<1>13. Counted'
  BY <1>2, <1>3, <1>5, <1>8, NameTypes DEF IInv, Counted, Up, RestTypes
<1> QED BY <1>1, <1>5, <1>6, <1>7, <1>8, <1>9, <1>10, <1>11, <1>12, <1>13 DEF IInv, Memory

LEMMA AdmitStep ==
    ASSUME IInv, NEW e \in Entries, Admit(e) PROVE IInv'
<1> DEFINE n == NextName
<1>1. op = Free /\ fate[e] = "new" /\ process = "started" /\ n \in Names /\ n >= next /\ ~Live(n)
  BY NextNameType DEF Admit, IInv, RestTypes
<1>2. fate' = [fate EXCEPT ![e] = "offered"] /\ offered' = Append(offered, e) /\ next' = n + 1
  BY DEF Admit
<1>3. UNCHANGED <<process, records, uncounted, claimed, held, outcome, decided, terminal>>
  BY DEF Admit, consumer
<1>4. DirTypes' /\ PutRecord(n, e)
  BY <1>1, PutRecordEffect DEF Admit, IInv
<1>5. OpTypes' /\ op'.at = "admitSync" /\ op'.name = n /\ op'.content = e
  BY <1>1, LockEffect DEF Admit, Labels
<1> HIDE DEF n
<1>6. Cardinality(LiveNames') = Cardinality(LiveNames) + 1 /\ Awaited = 0 /\ Awaited' = 1
  BY <1>1, <1>4, <1>5, LiveAdded, FreeAt DEF Awaited
<1>7. n \in Nat /\ next \in Nat /\ next' \in Nat /\ next' \in 0..MaxSeq /\ next' > next /\ next' > n
  BY <1>1, <1>2, NameTypes, NextNames DEF IInv, RestTypes
<1>8. Up /\ ~Marked(n)
  BY <1>1, <1>7 DEF IInv, Memory, Unused, Up
<1>9. \A m \in Names : held[m] # None => m < next /\ m # n
  <2>1. \A m \in Names : held[m] # None => m < next
    BY DEF IInv, Memory, Handed
  <2> QED BY <1>1, <1>7, <2>1
<1>10. \A p \in Promised, m \in Names : p \in disk[record(m)] => m < next /\ m < n
  <2>1. \A p \in Promised, m \in Names : p \in disk[record(m)] => m < next
    BY <1>8 DEF IInv, Memory, Numbered
  <2>2. \A m \in Names : m \in Nat
    BY NameTypes
  <2> QED BY <1>1, <1>7, <2>1, <2>2
<1>11. DirInv' /\ \A f \in Entries : ~Precedes(offered', e, f)
  BY <1>1, <1>2, <1>3, <1>4, <1>8, <1>10, AdmittedKeeps DEF IInv, RestTypes
<1>12. /\ offered' \in Seq(Entries) /\ fate' \in [Entries -> Fates] /\ fate'[e] = "offered"
       /\ Promised' = Promised /\ e \notin Promised
  BY <1>1, <1>2 DEF IInv, RestTypes, Promised, Fates
<1>13. RestTypes'
  BY <1>3, <1>7, <1>12 DEF IInv, RestTypes
<1>14. Admitting'
  BY <1>1, <1>3, <1>4, <1>5, <1>7, <1>8, <1>9, <1>11, <1>12 DEF Admitting, PutRecord, Marked
<1>15. Acknowledging'
  BY <1>5 DEF Acknowledging, Admits
<1>16. Idle'
  BY <1>1, <1>3 DEF Idle
<1>17. Unused'
  <2> SUFFICES ASSUME NEW m \in Names, m >= next' PROVE cache'[record(m)] = None /\ cache'[marker(m)] = None
    BY DEF Unused, Live, Marked
  <2>1. m # n /\ m >= next
    BY <1>7, NameTypes
  <2> QED BY <1>4, <1>8, <2>1 DEF IInv, Memory, Unused, Live, Marked, PutRecord
<1>18. Handed'
  <2> SUFFICES ASSUME NEW m \in Names, held[m] # None
               PROVE  /\ m < next' /\ fate'[held[m]] # "new"
                      /\ cache'[record(m)] \in {held[m], None} /\ (m \in claimed \/ cache'[record(m)] = None)
    BY <1>3 DEF Handed, Live
  <2>1. m < next /\ m # n /\ m \in Nat
    BY <1>9, NameTypes
  <2>2. m < next'
    BY <1>7, <2>1
  <2>3. cache'[record(m)] = cache[record(m)]
    BY <1>4, <2>1 DEF PutRecord
  <2>4. fate[held[m]] # "new" /\ fate'[held[m]] # "new"
    BY <1>1, <1>2 DEF IInv, Memory, RestTypes, Handed
  <2> QED BY <2>2, <2>3, <2>4 DEF IInv, Memory, Handed, Live
<1>19. Numbered'
  <2> SUFFICES ASSUME NEW p \in Promised, NEW m \in Names, p \in disk'[record(m)] PROVE m < next'
    BY <1>12 DEF Numbered
  <2>1. p \in disk[record(m)]
    BY <1>4, <1>12 DEF PutRecord
  <2> QED BY <1>7, <1>10, <2>1, NameTypes
<1>20. Counted'
  <2>1. \A m \in uncounted : m < next /\ m \in Nat
    BY <1>8, NameTypes DEF IInv, Counted, RestTypes
  <2>2. n \notin uncounted /\ \A m \in uncounted : m < next'
    BY <1>1, <1>7, <2>1
  <2>3. /\ records <= Cardinality(LiveNames) - Awaited
        /\ Cardinality(LiveNames) - Awaited <= records + Cardinality(uncounted)
    BY <1>8 DEF IInv, Counted
  <2>4. Cardinality(LiveNames') - Awaited' = Cardinality(LiveNames) - Awaited
    BY <1>6, LiveNat
  <2> QED BY <1>3, <1>5, <2>2, <2>3, <2>4 DEF Counted
<1> QED BY <1>4, <1>5, <1>11, <1>13, <1>14, <1>15, <1>16, <1>17, <1>18, <1>19, <1>20
           DEF IInv, Memory

LEMMA AdmitSyncStep ==
    ASSUME IInv, AdmitSync PROVE IInv'
<1> DEFINE n == op.name
           e == op.content
<1>1. op.at = "admitSync" /\ op # Free /\ n \in Names
  BY OpFacts DEF IInv, AdmitSync, Labels
<1>2. UNCHANGED <<process, next, uncounted, claimed, held, outcome, offered, decided, terminal>>
  BY DEF AdmitSync, consumer
<1>3. /\ process = "started" /\ e \in Entries /\ fate[e] = "offered"
      /\ cache[record(n)] = e /\ cache[marker(n)] = None /\ n < next
      /\ \A f \in Entries : ~Precedes(offered, e, f)
  BY <1>1 DEF IInv, Admitting, Admits
<1> HIDE DEF n, e
<1>4. ASSUME SyncDirectory, records' = records + 1, fate' = [fate EXCEPT ![e] = "promised"], Unlock
      PROVE  IInv'
  <2>1. DirTypes' /\ Synced /\ Shrinks /\ LiveNames' = LiveNames
    BY <1>4, SyncEffect, SyncShrinks DEF IInv, DirInv
  <2>2. OpTypes' /\ op'.at = "free" /\ op' = Free
    BY <1>4, UnlockEffect
  <2>3. DirInv'
    BY <1>1, <1>2, <1>3, <1>4, <2>1, PromisedKeeps DEF IInv, RestTypes
  <2>4. Awaited = 1 /\ Awaited' = 0
    BY <1>1, <2>2 DEF Awaited
  <2>5. records' \in 0..MaxSeq /\ Counted'
    BY <1>2, <1>3, <1>4, <2>1, <2>4, LiveNat, LiveCount, NameTypes DEF IInv, Counted, Up, RestTypes
  <2>6. RestTypes'
    BY <1>2, <1>4, <2>5 DEF IInv, RestTypes, Fates
  <2>7. Idle' /\ Unused'
    BY <1>2, <1>3, <2>1 DEF IInv, Memory, Idle, Unused, Up, Live, Marked, Synced
  <2>9. Handed'
    BY <1>2, <1>3, <1>4, <2>1 DEF IInv, Memory, RestTypes, Handed, Live, Synced
  <2>8. Numbered'
    <3> SUFFICES ASSUME NEW p \in Entries, fate'[p] = "promised", NEW m \in Names, p \in disk'[record(m)]
                 PROVE  m < next
      BY <1>2 DEF Numbered, Promised
    <3>1. p \in disk[record(m)] /\ cache[record(m)] = p
      BY <2>1 DEF IInv, DirInv, Directory, Synced
    <3>2. p = e => m = n
      BY <1>1, <1>3, <3>1 DEF IInv, DirInv, Fresh, Directory
    <3>3. p # e => p \in Promised
      BY <1>4 DEF IInv, RestTypes, Promised
    <3> QED BY <1>3, <3>1, <3>2, <3>3 DEF IInv, Memory, Numbered, Up
  <2> QED BY <2>1, <2>2, <2>3, <2>5, <2>6, <2>7, <2>8, <2>9, FreeOp DEF IInv, Memory
<1>5. ASSUME Goto("admitRollback"), UNCHANGED <<directory, records, fate>>
      PROVE  IInv'
  <2>1. DirTypes' /\ Stay /\ Shrinks /\ LiveNames' = LiveNames
    BY <1>5, StayEffect, StayShrinks DEF IInv, DirInv
  <2>2. OpTypes' /\ op'.at = "admitRollback" /\ op'.name = n /\ op'.content = e
    BY <1>1, <1>5, GotoEffect DEF IInv, Labels, n, e
  <2>3. DirInv'
    BY <1>2, <1>5, <2>1, HistSame, ShrinkKeeps DEF IInv, DirInv
  <2>4. RestTypes'
    BY <1>2, <1>5 DEF IInv, RestTypes
  <2>5. Admitting' /\ Acknowledging'
    BY <1>1, <1>2, <1>3, <1>5, <2>1, <2>2 DEF IInv, Admitting, Acknowledging, Admits, Stay, n
  <2>6. Calm
    BY <1>2, <1>3, <1>5, <2>1 DEF Calm, Stay
  <2>7. Counted'
    BY <1>1, <1>2, <1>5, <2>1, <2>2, CountKeeps DEF IInv, Awaited, n
  <2> QED BY <2>1, <2>2, <2>3, <2>4, <2>5, <2>6, <2>7, CalmKeeps DEF IInv
<1> QED BY <1>4, <1>5 DEF AdmitSync, e

LEMMA AdmitRollbackStep ==
    ASSUME IInv, AdmitRollback PROVE IInv'
<1> DEFINE n == op.name
           e == op.content
<1>1. op.at = "admitRollback" /\ op # Free /\ n \in Names
  BY OpFacts DEF IInv, AdmitRollback, Labels
<1>2. UNCHANGED <<process, next, records, claimed, held, outcome, offered, decided, terminal>>
  BY DEF AdmitRollback, consumer, counters
<1>3. /\ process = "started" /\ e \in Entries /\ fate[e] = "offered"
      /\ cache[record(n)] = e /\ cache[marker(n)] = None /\ held[n] = None /\ n < next
      /\ \A f \in Entries : ~Precedes(offered, e, f)
  BY <1>1 DEF IInv, Admitting, Admits
<1> HIDE DEF n, e
<1>4. ASSUME Put(record(n), None), Goto("admitRollbackSync"), uncounted' = uncounted, fate' = fate
      PROVE  IInv'
  <2>1. DirTypes' /\ PutRecord(n, None)
    BY <1>1, <1>4, PutRecordEffect DEF IInv
  <2>2. OpTypes' /\ op'.at = "admitRollbackSync" /\ op'.name = n /\ op'.content = e
    BY <1>1, <1>4, GotoEffect DEF IInv, Labels, n, e
  <2>3. \A p \in disk[record(n)] : p \in Entries /\ fate[p] = "promised" => Marked(n)
    BY <1>1, <1>3 DEF IInv, DirInv, Hidden, Promised
  <2>4. DirInv'
    BY <1>1, <1>2, <1>4, <2>1, <2>3, HistSame, RecordGoneKeeps DEF IInv, DirInv, RestTypes
  <2>5. RestTypes'
    BY <1>2, <1>4 DEF IInv, RestTypes
  <2>6. Admitting' /\ Acknowledging'
    BY <1>1, <1>2, <1>3, <1>4, <2>1, <2>2 DEF Admitting, Acknowledging, Admits, PutRecord
  <2>7. Calm
    BY <1>2, <1>3, <1>4, <2>1, NoneAssumption DEF Calm, PutRecord
  <2>8. Cardinality(LiveNames') = Cardinality(LiveNames) - 1 /\ Awaited = 1 /\ Awaited' = 0
    BY <1>1, <1>3, <2>1, <2>2, LiveRemoved, NoneAssumption DEF Awaited, Live
  <2>9. Counted'
    BY <1>2, <1>4, <2>8, LiveNat, LiveCount DEF IInv, Counted, Up, RestTypes
  <2> QED BY <2>1, <2>2, <2>4, <2>5, <2>6, <2>7, <2>9, CalmKeeps DEF IInv
<1>5. ASSUME Unlock, fate' = [fate EXCEPT ![e] = "refused"], uncounted' = uncounted \cup {n},
             UNCHANGED directory
      PROVE  IInv'
  <2>1. DirTypes' /\ Stay /\ Shrinks /\ LiveNames' = LiveNames
    BY <1>5, StayEffect, StayShrinks DEF IInv, DirInv
  <2>2. OpTypes' /\ op'.at = "free" /\ op' = Free
    BY <1>5, UnlockEffect
  <2>3. DirInv'
    BY <1>2, <1>3, <1>5, <2>1, ShrinkKeeps DEF IInv, DirInv, Fresh, HistStay, RestTypes
  <2>4. RestTypes'
    BY <1>1, <1>2, <1>5 DEF IInv, RestTypes, Fates
  <2>5. Calm
    BY <1>2, <1>3, <1>5, <2>1 DEF Calm, Stay, IInv, RestTypes
  <2>6. Awaited = 1 /\ Awaited' = 0
    BY <1>1, <2>2 DEF Awaited
  <2>7. Counted'
    <3>1. /\ records <= Cardinality(LiveNames) - 1
          /\ Cardinality(LiveNames) - 1 <= records + Cardinality(uncounted)
          /\ \A m \in uncounted : m < next
          /\ n \notin uncounted
      BY <1>3, <2>6 DEF IInv, Counted, Up, n
    <3>2. Cardinality(uncounted') = Cardinality(uncounted) + 1 /\ Cardinality(uncounted) \in Nat
      <4>1. uncounted \in SUBSET Names
        BY DEF IInv, RestTypes
      <4>2. Cardinality(uncounted \cup {n}) = Cardinality(uncounted) + 1 /\ Cardinality(uncounted) \in Nat
        BY <1>1, <3>1, <4>1, CountedOnce
      <4> QED BY <1>5, <4>2
    <3>3. /\ records' <= Cardinality(LiveNames') - Awaited'
          /\ Cardinality(LiveNames') - Awaited' <= records' + Cardinality(uncounted')
      BY <1>2, <2>1, <2>6, <3>1, <3>2, LiveNat, NameTypes DEF IInv, RestTypes
    <3> QED BY <1>2, <1>3, <1>5, <2>6, <3>1, <3>3 DEF Counted
  <2> QED BY <2>1, <2>2, <2>3, <2>4, <2>5, <2>7, FreeOp, CalmKeeps DEF IInv
<1> QED BY <1>4, <1>5 DEF AdmitRollback, n, e

LEMMA AdmitRollbackSyncStep ==
    ASSUME IInv, AdmitRollbackSync PROVE IInv'
<1> DEFINE e == op.content
<1>1. op.at = "admitRollbackSync" /\ op # Free
  BY OpFacts DEF IInv, AdmitRollbackSync, Labels
<1>2. UNCHANGED <<process, next, records, uncounted, claimed, held, outcome, offered, decided, terminal>>
  BY DEF AdmitRollbackSync, consumer, counters
<1>3. process = "started" /\ e \in Entries /\ fate[e] = "offered"
  BY <1>1 DEF IInv, Admitting, Admits
<1>4. fate' = [fate EXCEPT ![e] = "refused"]
  BY DEF AdmitRollbackSync
<1> HIDE DEF e
<1>5. DirTypes' /\ (Synced \/ Stay) /\ Shrinks /\ LiveNames' = LiveNames
  BY SyncEffect, SyncShrinks, StayEffect, StayShrinks DEF AdmitRollbackSync, IInv, DirInv
<1>6. OpTypes' /\ op'.at = "free" /\ op' = Free
  BY UnlockEffect DEF AdmitRollbackSync
<1>7. DirInv'
  BY <1>2, <1>3, <1>4, <1>5, ShrinkKeeps DEF IInv, DirInv, Fresh, HistStay, RestTypes
<1>8. RestTypes'
  BY <1>2, <1>4 DEF IInv, RestTypes, Fates
<1>9. Calm
  BY <1>2, <1>3, <1>4, <1>5 DEF Calm, Stay, Synced, IInv, RestTypes, DirInv, Directory
<1>10. Counted'
  BY <1>1, <1>2, <1>5, <1>6, CountKeeps DEF IInv, Awaited
<1> QED BY <1>5, <1>6, <1>7, <1>8, <1>9, <1>10, FreeOp, CalmKeeps DEF IInv

LEMMA ClaimNextStep ==
    ASSUME IInv, ClaimNext PROVE IInv'
<1> DEFINE n == Min(Claimable)
<1>1. op = Free /\ process = "started" /\ n \in Claimable
  BY Smallest, NameTypes DEF ClaimNext, Claimable
<1>2. /\ claimed' = claimed \cup {n} /\ held' = [held EXCEPT ![n] = cache[record(n)]]
      /\ UNCHANGED <<process, directory, next, records, uncounted, outcome, op>>
      /\ UNCHANGED <<fate, offered, decided, terminal>>
  BY DEF ClaimNext, counters, history
<1> HIDE DEF n
<1>3. /\ n \in Names /\ Live(n) /\ n < next
      /\ cache[record(n)] \in Entries
  BY <1>1, NameTypes DEF Claimable, IInv, Memory, Unused, Up, Live, DirInv, Directory, RestTypes
<1>4. DirTypes' /\ Stay /\ Shrinks /\ LiveNames' = LiveNames
  BY <1>2, StayEffect, StayShrinks DEF IInv, DirInv
<1>5. DirInv'
  BY <1>2, <1>4, HistSame, ShrinkKeeps DEF IInv, DirInv
<1>6. RestTypes'
  BY <1>2, <1>3 DEF IInv, RestTypes
<1>7. OpTypes' /\ Admitting' /\ Acknowledging' /\ Counted'
  BY <1>1, <1>2, <1>4, FreeAt, FreeOp, CountKeeps DEF IInv, OpTypes, Awaited
<1>8. Idle' /\ Unused' /\ Numbered'
  BY <1>1, <1>2, <1>4 DEF IInv, Memory, Idle, Unused, Numbered, Promised, Up, Live, Marked, Stay
<1>9. Handed'
  <2>1. fate[cache[record(n)]] # "new"
    BY <1>3 DEF IInv, DirInv, Directory, Fresh
  <2> QED BY <1>2, <1>3, <1>4, <2>1 DEF IInv, Memory, RestTypes, Handed, Live, Stay
<1> QED BY <1>4, <1>5, <1>6, <1>7, <1>8, <1>9 DEF IInv, Memory

LEMMA UnclaimStep ==
    ASSUME IInv, NEW n \in Names, Unclaim(n) PROVE IInv'
<1>1. /\ op = Free /\ claimed' = claimed \ {n} /\ held' = [held EXCEPT ![n] = None]
      /\ UNCHANGED <<process, directory, next, records, uncounted, outcome, op>>
      /\ UNCHANGED <<fate, offered, decided, terminal>>
  BY DEF Unclaim, counters, history
<1>2. DirTypes' /\ Stay /\ Shrinks /\ LiveNames' = LiveNames
  BY <1>1, StayEffect, StayShrinks DEF IInv, DirInv
<1>3. DirInv'
  BY <1>1, <1>2, HistSame, ShrinkKeeps DEF IInv, DirInv
<1>4. RestTypes'
  BY <1>1 DEF IInv, RestTypes
<1>5. OpTypes' /\ Admitting' /\ Acknowledging' /\ Counted'
  BY <1>1, <1>2, FreeAt, FreeOp, CountKeeps DEF IInv, OpTypes, Awaited
<1>6. Idle' /\ Unused' /\ Numbered'
  BY <1>1, <1>2
     DEF IInv, Memory, RestTypes, Idle, Unused, Numbered, Promised, Up, Live, Marked, Stay
<1>7. Handed'
  BY <1>1, <1>2 DEF IInv, Memory, RestTypes, Handed, Live, Stay
<1> QED BY <1>2, <1>3, <1>4, <1>5, <1>6, <1>7 DEF IInv, Memory

-------------------------------------------------------------------------------
\* Acknowledgements.

LEMMA AcknowledgesFacts ==
    ASSUME IInv, NEW n \in Names, NEW status \in Statuses, Acknowledges(n, status)
    PROVE  /\ op = Free /\ process \in {"started", "closing"} /\ Up
           /\ held[n] \in Entries /\ n < next /\ cache[record(n)] \in {held[n], None}
           /\ decided' = decided \cup {held[n]} /\ decided' \subseteq Entries
           /\ fate[held[n]] # "new"
BY DEF IInv, Memory, RestTypes, Handed, Acknowledges, Up

\* An outcome is only decided for an entry that was admitted.
LEMMA DecidedGrows ==
    ASSUME IInv, NEW e \in Entries, fate[e] # "new", decided' = decided \cup {e},
           fate' = fate, offered' = offered, terminal' = terminal
    PROVE  HistStay
BY DEF IInv, DirInv, Fresh, HistStay

\* Without a marker nothing terminal is there, and nothing promised is hidden.
LEMMA Unmarked ==
    ASSUME DirInv, NEW n \in Names, ~Marked(n)
    PROVE  /\ \A e \in disk[record(n)] : e \notin terminal
           /\ \A e \in disk[record(n)] : e \in Promised => e = cache[record(n)]
BY DEF DirInv, Directory, MarkerDurable, Hidden, Marked

LEMMA AckTerminalStep ==
    ASSUME IInv, NEW n \in Names, NEW status \in Statuses, AckTerminal(n, status) PROVE IInv'
<1> DEFINE e == held[n]
<1>1. /\ op = Free /\ process \in {"started", "closing"} /\ Up
      /\ e \in Entries /\ n < next /\ cache[record(n)] \in {e, None}
      /\ decided' = decided \cup {e} /\ decided' \subseteq Entries /\ fate[e] # "new"
  BY AcknowledgesFacts DEF AckTerminal
<1>2. UNCHANGED <<process, next, records, uncounted, fate, offered, terminal>> /\ Promised' = Promised
  BY DEF AckTerminal, counters, Promised
<1>3. HistStay
  BY <1>1, <1>2, DecidedGrows
<1> HIDE DEF e
<1>4. ASSUME Live(n), ~Marked(n), Put(marker(n), status), Lock("markerSync", n, status),
             outcome' = [outcome EXCEPT ![n] = status], UNCHANGED <<claimed, held>>
      PROVE  IInv'
  <2>1. cache[record(n)] = e
    BY <1>1, <1>4 DEF Live
  <2>2. DirTypes' /\ PutMarker(n, status) /\ LiveNames' = LiveNames
    BY <1>4, PutMarkerEffect, PutMarkerLive DEF IInv
  <2>3. OpTypes' /\ op'.at = "markerSync" /\ op'.name = n /\ op'.content = status
    BY <1>4, LockEffect DEF Labels
  <2>4. \A p \in Entries : disk[record(n)] = {p} => p = e
    BY <2>1 DEF IInv, DirInv, Directory
  <2>5. DirInv'
    BY <1>1, <1>3, <2>2, <2>4, MarkerSetKeeps DEF IInv
  <2>6. RestTypes'
    BY <1>1, <1>2, <1>4 DEF IInv, RestTypes
  <2>7. Admitting'
    BY <2>3 DEF Admitting, Admits
  <2>8. /\ \A p \in disk'[record(n)] : p \notin terminal'
        /\ \A p \in disk'[record(n)] : p \in Promised' => p = cache'[record(n)]
    BY <1>2, <1>4, <2>2, Unmarked DEF IInv, PutMarker
  <2>9. Acknowledging'
    <3>1. /\ process' \in {"started", "closing"} /\ held'[n] = e /\ e # None
          /\ cache'[record(n)] = e /\ cache'[marker(n)] = status /\ status # None
      BY <1>1, <1>2, <1>4, <2>1, <2>2, NoneAssumption DEF PutMarker, e
    <3> QED BY <2>3, <2>8, <3>1 DEF Acknowledging, Admits, Marking, Emptied, Marked
  <2>10. Idle' /\ Handed' /\ Numbered'
    BY <1>1, <1>2, <1>4, <2>2
       DEF IInv, Memory, Idle, Handed, Numbered, Up, Live, Marked, PutMarker
  <2>11. Unused'
    <3>1. \A m \in Names : m >= next => m # n /\ ~Live(m) /\ ~Marked(m)
      BY <1>1, NameTypes DEF IInv, Memory, RestTypes, Unused
    <3> QED BY <1>2, <2>2, <3>1 DEF Unused, Live, Marked, PutMarker
  <2>12. Counted'
    BY <1>1, <1>2, <2>2, <2>3, FreeAt, CountKeeps DEF IInv, Awaited
  <2> QED BY <2>2, <2>3, <2>5, <2>6, <2>7, <2>9, <2>10, <2>11, <2>12 DEF IInv, Memory
<1>5. ASSUME Marked(n), Lock(IF Live(n) THEN "removeRecord" ELSE "recordSync", n, cache[marker(n)]),
             UNCHANGED <<directory, claimed, consumer>>
      PROVE  IInv'
  <2>1. DirTypes' /\ Stay /\ Shrinks /\ LiveNames' = LiveNames
    BY <1>5, StayEffect, StayShrinks DEF IInv, DirInv
  <2>2. cache[marker(n)] \in Statuses
    BY <1>5 DEF IInv, DirInv, Directory, Marked
  <2>3. /\ OpTypes' /\ op'.name = n /\ op'.content = cache[marker(n)]
        /\ op'.at = IF Live(n) THEN "removeRecord" ELSE "recordSync"
    BY <1>5, <2>2, LockEffect DEF Labels
  <2>4. DirInv'
    BY <1>3, <2>1, ShrinkKeeps DEF IInv
  <2>5. UNCHANGED <<claimed, held, outcome>>
    BY <1>5 DEF consumer
  <2>6. RestTypes'
    BY <1>1, <1>2, <2>5 DEF IInv, RestTypes
  <2>7. Admitting' /\ Awaited' = Awaited /\ Awaited' = 0
    BY <1>1, <2>3, FreeAt DEF Admitting, Admits, Awaited
  <2>8. Acknowledging'
    BY <1>1, <1>2, <1>5, <2>1, <2>2, <2>3, <2>5, NoneAssumption
       DEF Acknowledging, Admits, Marking, Emptied, Marked, Live, Stay, e
  <2>9. Calm
    BY <1>1, <1>2, <2>1, <2>5 DEF Calm, Stay
  <2>10. Counted'
    BY <1>2, <2>1, <2>7, CountKeeps DEF IInv
  <2> QED BY <2>1, <2>3, <2>4, <2>6, <2>7, <2>8, <2>9, <2>10, CalmKeeps DEF IInv
<1>6. ASSUME ~Live(n), ~Marked(n), claimed' = claimed \ {n}, held' = [held EXCEPT ![n] = None],
             outcome' = [outcome EXCEPT ![n] = None], UNCHANGED <<directory, op>>
      PROVE  IInv'
  <2>1. DirTypes' /\ Stay /\ Shrinks /\ LiveNames' = LiveNames
    BY <1>6, StayEffect, StayShrinks DEF IInv, DirInv
  <2>2. OpTypes' /\ op'.at = "free" /\ op' = Free
    BY <1>1, <1>6, FreeAt DEF OpTypes
  <2>3. DirInv'
    BY <1>3, <2>1, ShrinkKeeps DEF IInv
  <2>4. RestTypes'
    BY <1>1, <1>2, <1>6 DEF IInv, RestTypes
  <2>5. Counted'
    BY <1>1, <1>2, <2>1, <2>2, CountKeeps DEF IInv, Awaited
  <2>6. Idle' /\ Unused' /\ Numbered'
    BY <1>1, <1>2, <2>1 DEF IInv, Memory, Idle, Unused, Numbered, Up, Live, Marked, Stay
  <2>7. Handed'
    BY <1>2, <1>6, <2>1 DEF IInv, Memory, RestTypes, Handed, Live, Stay
  <2> QED BY <2>1, <2>2, <2>3, <2>4, <2>5, <2>6, <2>7, FreeOp DEF IInv, Memory
<1> QED BY <1>4, <1>5, <1>6 DEF AckTerminal

LEMMA AckTerminalFailsStep ==
    ASSUME IInv, NEW n \in Names, NEW status \in Statuses, AckTerminalFails(n, status) PROVE IInv'
<1>1. /\ op = Free /\ process \in {"started", "closing"} /\ held[n] \in Entries
      /\ decided' = decided \cup {held[n]} /\ decided' \subseteq Entries /\ fate[held[n]] # "new"
  BY AcknowledgesFacts DEF AckTerminalFails
<1>2. /\ UNCHANGED <<process, next, records, uncounted, claimed, held, op, fate, offered, terminal>>
      /\ UNCHANGED directory /\ outcome' = [outcome EXCEPT ![n] = status]
  BY DEF AckTerminalFails, counters
<1>3. HistStay
  BY <1>1, <1>2, DecidedGrows
<1>4. DirTypes' /\ Stay /\ Shrinks /\ LiveNames' = LiveNames
  BY <1>2, StayEffect, StayShrinks DEF IInv, DirInv
<1>5. DirInv'
  BY <1>3, <1>4, ShrinkKeeps DEF IInv
<1>6. RestTypes'
  BY <1>1, <1>2 DEF IInv, RestTypes
<1>7. OpTypes' /\ Admitting' /\ Acknowledging'
  BY <1>1, <1>2, FreeAt, FreeOp DEF OpTypes
<1>8. Counted'
  BY <1>2, <1>4, CountKeeps DEF IInv, Awaited
<1>9. Idle' /\ Unused' /\ Handed' /\ Numbered'
  BY <1>1, <1>2, <1>4
     DEF IInv, Memory, Idle, Unused, Handed, Numbered, Promised, Up, Live, Marked, Stay
<1> QED BY <1>4, <1>5, <1>6, <1>7, <1>8, <1>9 DEF IInv, Memory

\* Once its sync succeeds the marker is durable and the entry terminal.
LEMMA MarkerSyncStep ==
    ASSUME IInv, MarkerSync PROVE IInv'
<1> DEFINE n == op.name
<1>1. op.at = "markerSync" /\ op # Free /\ n \in Names
  BY OpFacts DEF IInv, MarkerSync, Labels
<1>2. UNCHANGED <<process, next, records, uncounted, claimed, held, outcome, fate, offered, decided>>
  BY DEF MarkerSync, consumer, counters
<1>3. /\ process \in {"started", "closing"} /\ held[n] # None /\ op.content \in Statuses
      /\ cache[record(n)] = held[n] /\ Marked(n)
      /\ \A e \in disk[record(n)] : e \notin terminal
      /\ \A e \in disk[record(n)] : e \in Promised => e = cache[record(n)]
  BY <1>1 DEF IInv, Acknowledging, Marking, Admits, Labels
<1>4. held[n] \in Entries /\ fate[held[n]] # "new"
  BY <1>1, <1>3 DEF IInv, RestTypes, Memory, Handed
<1> HIDE DEF n
<1>5. ASSUME SyncDirectory, terminal' = terminal \cup {held[n]}, Goto("removeRecord")
      PROVE  IInv'
  <2>1. DirTypes' /\ Synced /\ Shrinks /\ LiveNames' = LiveNames
    BY <1>5, SyncEffect, SyncShrinks DEF IInv, DirInv
  <2>2. OpTypes' /\ op'.at = "removeRecord" /\ op'.name = n /\ op'.content = op.content
    BY <1>1, <1>5, GotoEffect DEF IInv, Labels, n
  <2>3. DirInv'
    BY <1>1, <1>2, <1>3, <1>4, <1>5, <2>1, TerminalKeeps DEF IInv, Marked
  <2>4. RestTypes'
    BY <1>2, <1>4, <1>5 DEF IInv, RestTypes
  <2>5. Admitting' /\ Awaited' = Awaited /\ Awaited' = 0
    BY <1>1, <2>2 DEF Admitting, Admits, Awaited
  <2>6. Acknowledging'
    BY <1>1, <1>2, <1>3, <2>1, <2>2 DEF Acknowledging, Admits, Marking, Emptied, Marked, Synced
  <2>7. Calm
    BY <1>2, <1>3, <2>1 DEF Calm, Synced, IInv, DirInv, Directory
  <2>8. Counted'
    BY <1>2, <2>1, <2>5, CountKeeps DEF IInv
  <2> QED BY <2>1, <2>2, <2>3, <2>4, <2>5, <2>6, <2>7, <2>8, CalmKeeps DEF IInv
<1>6. ASSUME Goto("markerRollback"), UNCHANGED <<directory, terminal>>
      PROVE  IInv'
  <2>1. DirTypes' /\ Stay /\ Shrinks /\ LiveNames' = LiveNames
    BY <1>6, StayEffect, StayShrinks DEF IInv, DirInv
  <2>2. OpTypes' /\ op'.at = "markerRollback" /\ op'.name = n /\ op'.content = op.content
    BY <1>1, <1>6, GotoEffect DEF IInv, Labels, n
  <2>3. DirInv'
    BY <1>2, <1>6, <2>1, HistSame, ShrinkKeeps DEF IInv, DirInv
  <2>4. RestTypes'
    BY <1>2, <1>6 DEF IInv, RestTypes
  <2>5. Admitting' /\ Awaited' = Awaited /\ Awaited' = 0
    BY <1>1, <2>2 DEF Admitting, Admits, Awaited
  <2>6. Acknowledging'
    BY <1>1, <1>2, <1>3, <1>6, <2>1, <2>2
       DEF Acknowledging, Admits, Marking, Emptied, Marked, Promised, Stay
  <2>7. Calm
    BY <1>2, <1>3, <2>1 DEF Calm, Stay
  <2>8. Counted'
    BY <1>2, <2>1, <2>5, CountKeeps DEF IInv
  <2> QED BY <2>1, <2>2, <2>3, <2>4, <2>5, <2>6, <2>7, <2>8, CalmKeeps DEF IInv
<1> QED BY <1>5, <1>6 DEF MarkerSync, n

LEMMA MarkerRollbackStep ==
    ASSUME IInv, MarkerRollback PROVE IInv'
<1> DEFINE n == op.name
<1>1. op.at = "markerRollback" /\ op # Free /\ n \in Names
  BY OpFacts DEF IInv, MarkerRollback, Labels
<1>2. /\ UNCHANGED <<process, next, records, uncounted, claimed, held, outcome>>
      /\ UNCHANGED <<fate, offered, decided, terminal>>
  BY DEF MarkerRollback, consumer, counters, history
<1>3. /\ process \in {"started", "closing"} /\ held[n] # None /\ op.content \in Statuses
      /\ \A e \in disk[record(n)] : e \notin terminal
      /\ \A e \in disk[record(n)] : e \in Promised => e = cache[record(n)]
  BY <1>1 DEF IInv, Acknowledging, Marking, Admits, Labels
<1>4. RestTypes'
  BY <1>2 DEF IInv, RestTypes
<1> HIDE DEF n
<1>5. ASSUME Put(marker(n), None), Goto("markerRollbackSync")
      PROVE  IInv'
  <2>1. DirTypes' /\ PutMarker(n, None) /\ LiveNames' = LiveNames
    BY <1>1, <1>5, PutMarkerEffect, PutMarkerLive DEF IInv
  <2>2. OpTypes' /\ op'.at = "markerRollbackSync" /\ op'.name = n /\ op'.content = op.content
    BY <1>1, <1>5, GotoEffect DEF IInv, Labels, n
  <2>3. DirInv'
    BY <1>1, <1>2, <1>3, <2>1, HistSame, MarkerGoneKeeps DEF IInv, DirInv, Promised
  <2>4. Admitting' /\ Awaited' = Awaited /\ Awaited' = 0
    BY <1>1, <2>2 DEF Admitting, Admits, Awaited
  <2>5. Acknowledging'
    BY <1>2, <1>3, <2>2 DEF Acknowledging, Admits, Marking, Emptied
  <2>6. Calm
    BY <1>2, <1>3, <2>1 DEF Calm, PutMarker
  <2>7. Counted'
    BY <1>2, <2>1, <2>4, CountKeeps DEF IInv
  <2> QED BY <1>4, <2>1, <2>2, <2>3, <2>4, <2>5, <2>6, <2>7, CalmKeeps DEF IInv
<1>6. ASSUME Unlock, UNCHANGED directory
      PROVE  IInv'
  <2>1. DirTypes' /\ Stay /\ Shrinks /\ LiveNames' = LiveNames
    BY <1>6, StayEffect, StayShrinks DEF IInv, DirInv
  <2>2. OpTypes' /\ op' = Free /\ op'.at = "free"
    BY <1>6, UnlockEffect
  <2>3. DirInv'
    BY <1>2, <2>1, HistSame, ShrinkKeeps DEF IInv, DirInv
  <2>4. Calm
    BY <1>2, <1>3, <2>1 DEF Calm, Stay
  <2>5. Counted'
    BY <1>1, <1>2, <2>1, <2>2, CountKeeps DEF IInv, Awaited
  <2> QED BY <1>4, <2>1, <2>2, <2>3, <2>4, <2>5, FreeOp, CalmKeeps DEF IInv
<1> QED BY <1>5, <1>6 DEF MarkerRollback, n

LEMMA MarkerRollbackSyncStep ==
    ASSUME IInv, MarkerRollbackSync PROVE IInv'
<1>1. op.at = "markerRollbackSync"
  BY OpFacts DEF IInv, MarkerRollbackSync, Labels
<1>2. /\ UNCHANGED <<process, next, records, uncounted, claimed, held, outcome>>
      /\ UNCHANGED <<fate, offered, decided, terminal>>
  BY DEF MarkerRollbackSync, consumer, counters, history
<1>3. DirTypes' /\ (Synced \/ Stay) /\ Shrinks /\ LiveNames' = LiveNames
  BY SyncEffect, SyncShrinks, StayEffect, StayShrinks DEF MarkerRollbackSync, IInv, DirInv
<1>4. OpTypes' /\ op' = Free /\ op'.at = "free"
  BY UnlockEffect DEF MarkerRollbackSync
<1>5. DirInv'
  BY <1>2, <1>3, HistSame, ShrinkKeeps DEF IInv, DirInv
<1>6. RestTypes'
  BY <1>2 DEF IInv, RestTypes
<1>7. Calm
  BY <1>2, <1>3, <1>4 DEF Calm, Stay, Synced, IInv, DirInv, Directory
<1>8. Counted'
  BY <1>1, <1>2, <1>3, <1>4, CountKeeps DEF IInv, Awaited
<1> QED BY <1>3, <1>4, <1>5, <1>6, <1>7, <1>8, FreeOp, CalmKeeps DEF IInv

\* An operation that gives up leaves everything to the next attempt.
LEMMA FailEffect ==
    ASSUME IInv, op # Free, op.at \notin Admits, Fail, UNCHANGED <<directory, claimed, records>>,
           UNCHANGED <<next, uncounted, held, outcome, fate, offered, decided, terminal>>
    PROVE  IInv'
<1>1. DirTypes' /\ Stay /\ Shrinks /\ LiveNames' = LiveNames
  BY StayEffect, StayShrinks DEF IInv, DirInv
<1>2. OpTypes' /\ op' = Free /\ op'.at = "free"
  BY UnlockEffect DEF Fail
<1>3. process' = process \/ (process = "opening" /\ process' = "down")
  BY DEF Fail
<1>4. DirInv'
  BY <1>1, HistSame, ShrinkKeeps DEF IInv, DirInv
<1>5. RestTypes'
  BY <1>3 DEF IInv, RestTypes
<1>6. Calm
  BY <1>1, <1>2, <1>3 DEF Calm, Stay
<1>7. Counted'
  BY <1>1, <1>2, <1>3, CountKeeps DEF IInv, Awaited, Admits
<1> QED BY <1>1, <1>2, <1>4, <1>5, <1>6, <1>7, FreeOp, CalmKeeps DEF IInv

LEMMA AckFacts ==
    ASSUME IInv, op # Free, op.at \notin Admits
    PROVE  /\ op.name \in Names /\ op.at \in Labels \ Admits /\ op.content \in Statuses
           /\ process \in {"opening", "started", "closing"}
           /\ process # "opening" => held[op.name] # None /\ op.name < next
           /\ op.at \in {"removeRecord", "recordSync", "removeMarker"} => Marked(op.name)
           /\ op.at \in Emptied => cache[record(op.name)] = None
           /\ op.at \in Emptied \ {"recordSync"} => disk[record(op.name)] = {None}
BY OpFacts DEF IInv, Acknowledging, Memory, Handed

\* The count is lowered exactly when a record was there.
LEMMA RemoveRecordStep ==
    ASSUME IInv, RemoveRecord PROVE IInv'
<1> DEFINE n == op.name
<1>1. op.at = "removeRecord" /\ op # Free /\ op.at \notin Admits
  BY OpFacts DEF IInv, RemoveRecord, Labels, Admits
<1>2. /\ UNCHANGED <<next, uncounted, held, outcome>>
      /\ UNCHANGED <<fate, offered, decided, terminal>>
  BY DEF RemoveRecord, consumer, history
<1>3. /\ n \in Names /\ op.content \in Statuses /\ Marked(n)
      /\ process \in {"opening", "started", "closing"}
      /\ process # "opening" => held[n] # None
  BY <1>1, AckFacts
<1> HIDE DEF n
<1>4. ASSUME Put(record(n), None), claimed' = claimed \ {n},
             records' = IF Live(n) /\ records > 0 THEN records - 1 ELSE records,
             Goto("recordSync"), UNCHANGED process
      PROVE  IInv'
  <2>1. DirTypes' /\ PutRecord(n, None)
    BY <1>3, <1>4, PutRecordEffect DEF IInv
  <2>2. OpTypes' /\ op'.at = "recordSync" /\ op'.name = n /\ op'.content = op.content
    BY <1>1, <1>4, GotoEffect DEF IInv, Labels, n
  <2>3. DirInv'
    BY <1>2, <1>3, <2>1, HistSame, RecordGoneKeeps DEF IInv, DirInv, RestTypes
  <2>4. RestTypes'
    <3>1. records \in Nat /\ records <= MaxSeq /\ records' \in 0..MaxSeq
      BY <1>4, NameTypes DEF IInv, RestTypes
    <3> QED BY <1>2, <1>4, <3>1 DEF IInv, RestTypes
  <2>5. Admitting' /\ Awaited = 0 /\ Awaited' = 0
    BY <1>1, <2>2 DEF Admitting, Admits, Awaited
  <2>6. Acknowledging'
    BY <1>2, <1>3, <1>4, <2>1, <2>2
       DEF Acknowledging, Admits, Marking, Emptied, Marked, PutRecord
  <2>7. Calm
    BY <1>2, <1>3, <1>4, <2>1, NoneAssumption DEF Calm, PutRecord
  <2>8. /\ Cardinality(LiveNames') = IF Live(n) THEN Cardinality(LiveNames) - 1 ELSE Cardinality(LiveNames)
        /\ Cardinality(LiveNames) \in Nat /\ Cardinality(LiveNames') \in Nat /\ records \in Nat
    BY <1>3, <2>1, LiveRemoved, LiveNat, NameTypes DEF IInv, RestTypes
  <2>9. Counted'
    <3>1. Cardinality(uncounted) \in Nat
      BY LiveCount DEF IInv, RestTypes
    <3> QED BY <1>2, <1>4, <2>5, <2>8, <3>1 DEF IInv, Counted, Up
  <2> QED BY <2>1, <2>2, <2>3, <2>4, <2>5, <2>6, <2>7, <2>9, CalmKeeps DEF IInv
<1>5. ASSUME Fail, UNCHANGED <<directory, claimed, records>>
      PROVE  IInv'
  BY <1>1, <1>2, <1>5, FailEffect
<1> QED BY <1>4, <1>5 DEF RemoveRecord, n

LEMMA Quiet ==
    ASSUME UNCHANGED <<counters, claimed, consumer, history>>
    PROVE  /\ UNCHANGED <<next, records, uncounted, claimed, held, outcome>>
           /\ UNCHANGED <<fate, offered, decided, terminal>>
BY DEF counters, consumer, history

LEMMA RecordSyncStep ==
    ASSUME IInv, RecordSync PROVE IInv'
<1> DEFINE n == op.name
<1>1. op.at = "recordSync" /\ op # Free /\ op.at \notin Admits
  BY OpFacts DEF IInv, RecordSync, Labels, Admits
<1>2. /\ UNCHANGED <<next, records, uncounted, claimed, held, outcome>>
      /\ UNCHANGED <<fate, offered, decided, terminal>>
  BY Quiet DEF RecordSync
<1>3. /\ n \in Names /\ op.content \in Statuses /\ Marked(n) /\ cache[record(n)] = None
      /\ process \in {"opening", "started", "closing"}
      /\ process # "opening" => held[n] # None
  BY <1>1, AckFacts DEF Emptied
<1> HIDE DEF n
<1>4. ASSUME SyncDirectory, Goto("removeMarker"), UNCHANGED process
      PROVE  IInv'
  <2>1. DirTypes' /\ Synced /\ Shrinks /\ LiveNames' = LiveNames
    BY <1>4, SyncEffect, SyncShrinks DEF IInv, DirInv
  <2>2. OpTypes' /\ op'.at = "removeMarker" /\ op'.name = n /\ op'.content = op.content
    BY <1>1, <1>4, GotoEffect DEF IInv, Labels, n
  <2>3. DirInv'
    BY <1>2, <2>1, HistSame, ShrinkKeeps DEF IInv, DirInv
  <2>4. RestTypes'
    BY <1>2, <1>4 DEF IInv, RestTypes
  <2>5. Admitting' /\ Awaited' = Awaited /\ Awaited' = 0
    BY <1>1, <2>2 DEF Admitting, Admits, Awaited
  <2>6. Acknowledging'
    BY <1>2, <1>3, <1>4, <2>1, <2>2 DEF Acknowledging, Admits, Marking, Emptied, Marked, Synced
  <2>7. Calm
    BY <1>2, <1>3, <1>4, <2>1 DEF Calm, Synced, IInv, DirInv, Directory
  <2>8. Counted'
    BY <1>2, <1>4, <2>1, <2>5, CountKeeps DEF IInv
  <2> QED BY <2>1, <2>2, <2>3, <2>4, <2>5, <2>6, <2>7, <2>8, CalmKeeps DEF IInv
<1>5. ASSUME Fail, UNCHANGED directory
      PROVE  IInv'
  BY <1>1, <1>2, <1>5, FailEffect
<1> QED BY <1>4, <1>5 DEF RecordSync

\* The marker goes only after the removal of its record is durable.
LEMMA RemoveMarkerStep ==
    ASSUME IInv, RemoveMarker PROVE IInv'
<1> DEFINE n == op.name
<1>1. op.at = "removeMarker" /\ op # Free /\ op.at \notin Admits
  BY OpFacts DEF IInv, RemoveMarker, Labels, Admits
<1>2. /\ UNCHANGED <<next, records, uncounted, claimed, held, outcome>>
      /\ UNCHANGED <<fate, offered, decided, terminal>>
  BY Quiet DEF RemoveMarker
<1>3. /\ n \in Names /\ op.content \in Statuses
      /\ cache[record(n)] = None /\ disk[record(n)] = {None}
      /\ process \in {"opening", "started", "closing"}
      /\ process # "opening" => held[n] # None
  BY <1>1, AckFacts DEF Emptied
<1> HIDE DEF n
<1>4. ASSUME Put(marker(n), None), Goto("markerCleanSync"), UNCHANGED process
      PROVE  IInv'
  <2>1. DirTypes' /\ PutMarker(n, None) /\ LiveNames' = LiveNames
    BY <1>3, <1>4, PutMarkerEffect, PutMarkerLive DEF IInv
  <2>2. OpTypes' /\ op'.at = "markerCleanSync" /\ op'.name = n /\ op'.content = op.content
    BY <1>1, <1>4, GotoEffect DEF IInv, Labels, n
  <2>3. None \notin terminal /\ None \notin Entries
    BY NoneAssumption DEF IInv, RestTypes
  <2>4. DirInv'
    BY <1>2, <1>3, <2>1, <2>3, HistSame, MarkerGoneKeeps DEF IInv, DirInv
  <2>5. RestTypes'
    BY <1>2, <1>4 DEF IInv, RestTypes
  <2>6. Admitting' /\ Awaited' = Awaited /\ Awaited' = 0
    BY <1>1, <2>2 DEF Admitting, Admits, Awaited
  <2>7. Acknowledging'
    BY <1>2, <1>3, <1>4, <2>1, <2>2 DEF Acknowledging, Admits, Marking, Emptied, PutMarker
  <2>8. Calm
    BY <1>2, <1>3, <1>4, <2>1 DEF Calm, PutMarker
  <2>9. Counted'
    BY <1>2, <1>4, <2>1, <2>6, CountKeeps DEF IInv
  <2> QED BY <2>1, <2>2, <2>4, <2>5, <2>6, <2>7, <2>8, <2>9, CalmKeeps DEF IInv
<1>5. ASSUME Fail, UNCHANGED directory
      PROVE  IInv'
  BY <1>1, <1>2, <1>5, FailEffect
<1> QED BY <1>4, <1>5 DEF RemoveMarker, n

LEMMA MarkerCleanSyncStep ==
    ASSUME IInv, MarkerCleanSync PROVE IInv'
<1> DEFINE n == op.name
<1>1. op.at = "markerCleanSync" /\ op # Free /\ op.at \notin Admits
  BY OpFacts DEF IInv, MarkerCleanSync, Labels, Admits
<1>2. /\ UNCHANGED <<process, next, records, uncounted>>
      /\ UNCHANGED <<fate, offered, decided, terminal>>
  BY DEF MarkerCleanSync, counters, history
<1>3. /\ n \in Names /\ op.content \in Statuses
      /\ cache[record(n)] = None /\ disk[record(n)] = {None}
      /\ process \in {"opening", "started", "closing"}
      /\ process # "opening" => held[n] # None
  BY <1>1, AckFacts DEF Emptied
<1> HIDE DEF n
<1>4. ASSUME SyncDirectory, claimed' = claimed \ {n}, held' = [held EXCEPT ![n] = None],
             outcome' = [outcome EXCEPT ![n] = None], Unlock
      PROVE  IInv'
  <2>1. DirTypes' /\ Synced /\ Shrinks /\ LiveNames' = LiveNames
    BY <1>4, SyncEffect, SyncShrinks DEF IInv, DirInv
  <2>2. OpTypes' /\ op' = Free /\ op'.at = "free"
    BY <1>4, UnlockEffect
  <2>3. DirInv'
    BY <1>2, <2>1, HistSame, ShrinkKeeps DEF IInv, DirInv
  <2>4. RestTypes'
    BY <1>2, <1>4 DEF IInv, RestTypes
  <2>5. Counted'
    BY <1>1, <1>2, <2>1, <2>2, CountKeeps DEF IInv, Awaited
  <2>6. Idle' /\ Unused'
    BY <1>2, <1>4, <2>1, <2>2
       DEF IInv, Memory, RestTypes, Idle, Unused, Up, Live, Marked, Synced
  <2>7. Handed'
    BY <1>2, <1>3, <1>4, <2>1 DEF IInv, Memory, RestTypes, Handed, Live, Synced
  <2>8. Numbered'
    BY <1>2, <2>1 DEF IInv, Memory, DirInv, Directory, Numbered, Promised, Up, Synced
  <2> QED BY <2>1, <2>2, <2>3, <2>4, <2>5, <2>6, <2>7, <2>8, FreeOp DEF IInv, Memory
<1>5. ASSUME Goto("restoreMarker"), UNCHANGED <<directory, claimed, consumer>>
      PROVE  IInv'
  <2>1. DirTypes' /\ Stay /\ Shrinks /\ LiveNames' = LiveNames
    BY <1>5, StayEffect, StayShrinks DEF IInv, DirInv
  <2>2. OpTypes' /\ op'.at = "restoreMarker" /\ op'.name = n /\ op'.content = op.content
    BY <1>1, <1>5, GotoEffect DEF IInv, Labels, n
  <2>3. UNCHANGED <<claimed, held, outcome>>
    BY <1>5 DEF consumer
  <2>4. DirInv'
    BY <1>2, <2>1, HistSame, ShrinkKeeps DEF IInv, DirInv
  <2>5. RestTypes'
    BY <1>2, <2>3 DEF IInv, RestTypes
  <2>6. Admitting' /\ Awaited' = Awaited /\ Awaited' = 0
    BY <1>1, <2>2 DEF Admitting, Admits, Awaited
  <2>7. Acknowledging'
    BY <1>2, <1>3, <2>1, <2>2, <2>3 DEF Acknowledging, Admits, Marking, Emptied, Stay
  <2>8. Calm
    BY <1>2, <1>3, <2>1, <2>3 DEF Calm, Stay
  <2>9. Counted'
    BY <1>2, <2>1, <2>6, CountKeeps DEF IInv
  <2> QED BY <2>1, <2>2, <2>4, <2>5, <2>6, <2>7, <2>8, <2>9, CalmKeeps DEF IInv
<1> QED BY <1>4, <1>5 DEF MarkerCleanSync, n

LEMMA RestoreMarkerStep ==
    ASSUME IInv, RestoreMarker PROVE IInv'
<1> DEFINE n == op.name
<1>1. op.at = "restoreMarker" /\ op # Free /\ op.at \notin Admits
  BY OpFacts DEF IInv, RestoreMarker, Labels, Admits
<1>2. /\ UNCHANGED <<next, records, uncounted, claimed, held, outcome>>
      /\ UNCHANGED <<fate, offered, decided, terminal>>
  BY Quiet DEF RestoreMarker
<1>3. /\ n \in Names /\ op.content \in Statuses
      /\ cache[record(n)] = None /\ disk[record(n)] = {None}
      /\ process \in {"opening", "started", "closing"}
      /\ process # "opening" => held[n] # None /\ n < next
  BY <1>1, AckFacts DEF Emptied
<1> HIDE DEF n
<1>4. ASSUME Put(marker(n), op.content), Goto("restoreSync"), UNCHANGED process
      PROVE  IInv'
  <2>1. DirTypes' /\ PutMarker(n, op.content) /\ LiveNames' = LiveNames
    BY <1>3, <1>4, PutMarkerEffect, PutMarkerLive DEF IInv
  <2>2. OpTypes' /\ op'.at = "restoreSync" /\ op'.name = n /\ op'.content = op.content
    BY <1>1, <1>4, GotoEffect DEF IInv, Labels, n
  <2>3. \A e \in Entries : disk[record(n)] # {e}
    BY <1>3, NoneAssumption
  <2>4. DirInv'
    BY <1>2, <1>3, <2>1, <2>3, HistSame, MarkerSetKeeps DEF IInv, DirInv
  <2>5. RestTypes'
    BY <1>2, <1>4 DEF IInv, RestTypes
  <2>6. Admitting' /\ Awaited' = Awaited /\ Awaited' = 0
    BY <1>1, <2>2 DEF Admitting, Admits, Awaited
  <2>7. Acknowledging'
    BY <1>2, <1>3, <1>4, <2>1, <2>2 DEF Acknowledging, Admits, Marking, Emptied, PutMarker
  <2>8. Calm
    BY <1>2, <1>3, <1>4, <2>1 DEF Calm, PutMarker, Up
  <2>9. Counted'
    BY <1>2, <1>4, <2>1, <2>6, CountKeeps DEF IInv
  <2> QED BY <2>1, <2>2, <2>4, <2>5, <2>6, <2>7, <2>8, <2>9, CalmKeeps DEF IInv
<1>5. ASSUME Fail, UNCHANGED directory
      PROVE  IInv'
  BY <1>1, <1>2, <1>5, FailEffect
<1> QED BY <1>4, <1>5 DEF RestoreMarker, n

LEMMA RestoreSyncStep ==
    ASSUME IInv, RestoreSync PROVE IInv'
<1>1. op.at = "restoreSync" /\ op # Free
  BY OpFacts DEF IInv, RestoreSync, Labels
<1>2. /\ UNCHANGED <<next, records, uncounted, claimed, held, outcome>>
      /\ UNCHANGED <<fate, offered, decided, terminal>>
  BY Quiet DEF RestoreSync
<1>3. DirTypes' /\ (Synced \/ Stay) /\ Shrinks /\ LiveNames' = LiveNames
  BY SyncEffect, SyncShrinks, StayEffect, StayShrinks DEF RestoreSync, IInv, DirInv
<1>4. OpTypes' /\ op' = Free /\ op'.at = "free"
  BY UnlockEffect DEF RestoreSync, Fail
<1>5. process' = process \/ (process = "opening" /\ process' = "down")
  BY DEF RestoreSync, Fail
<1>6. DirInv'
  BY <1>2, <1>3, HistSame, ShrinkKeeps DEF IInv, DirInv
<1>7. RestTypes'
  BY <1>2, <1>5 DEF IInv, RestTypes
<1>8. Calm
  BY <1>2, <1>3, <1>4, <1>5 DEF Calm, Stay, Synced, IInv, DirInv, Directory
<1>9. Counted'
  BY <1>1, <1>2, <1>3, <1>4, <1>5, CountKeeps DEF IInv, Awaited
<1> QED BY <1>3, <1>4, <1>6, <1>7, <1>8, <1>9, FreeOp, CalmKeeps DEF IInv

-------------------------------------------------------------------------------
\* The life of the process.

LEMMA OpenStep ==
    ASSUME IInv, Open PROVE IInv'
<1>1. /\ process = "down" /\ process' = "opening"
      /\ UNCHANGED <<next, records, uncounted, claimed, held, outcome, op>>
      /\ UNCHANGED <<fate, offered, decided, terminal>> /\ UNCHANGED directory
  BY DEF Open, counters, consumer, history
<1>2. op = Free
  BY <1>1 DEF IInv, Memory, Idle
<1>3. DirTypes' /\ Stay /\ Shrinks /\ LiveNames' = LiveNames
  BY <1>1, StayEffect, StayShrinks DEF IInv, DirInv
<1>4. DirInv'
  BY <1>1, <1>3, HistSame, ShrinkKeeps DEF IInv, DirInv
<1>5. RestTypes' /\ OpTypes'
  BY <1>1 DEF IInv, RestTypes, OpTypes
<1>6. Admitting' /\ Acknowledging'
  BY <1>1, <1>2, FreeAt, FreeOp
<1>7. Idle' /\ Unused' /\ Handed' /\ Numbered' /\ Counted'
  BY <1>1, <1>3 DEF IInv, Memory, Idle, Unused, Handed, Numbered, Counted, Up, Stay
<1> QED BY <1>3, <1>4, <1>5, <1>6, <1>7 DEF IInv, Memory

LEMMA StartStep ==
    ASSUME IInv, Start PROVE IInv'
<1>1. /\ process = "open" /\ process' = "started"
      /\ UNCHANGED <<next, records, uncounted, claimed, held, outcome, op>>
      /\ UNCHANGED <<fate, offered, decided, terminal>> /\ UNCHANGED directory
  BY DEF Start, counters, consumer, history
<1>2. op = Free
  BY <1>1 DEF IInv, Memory, Idle
<1>3. DirTypes' /\ Stay /\ Shrinks /\ LiveNames' = LiveNames
  BY <1>1, StayEffect, StayShrinks DEF IInv, DirInv
<1>4. DirInv'
  BY <1>1, <1>3, HistSame, ShrinkKeeps DEF IInv, DirInv
<1>5. RestTypes' /\ OpTypes'
  BY <1>1 DEF IInv, RestTypes, OpTypes
<1>6. Admitting' /\ Acknowledging'
  BY <1>1, <1>2, FreeAt, FreeOp
<1>7. Idle' /\ Unused' /\ Handed'
  BY <1>1, <1>3 DEF IInv, Memory, Idle, Unused, Handed, Up, Live, Marked, Stay
<1>8. Numbered' /\ Counted'
  BY <1>1, <1>3 DEF IInv, Memory, Numbered, Counted, Awaited, Promised, Up, Stay
<1> QED BY <1>3, <1>4, <1>5, <1>6, <1>7, <1>8 DEF IInv, Memory

LEMMA CloseStep ==
    ASSUME IInv, Close PROVE IInv'
<1>1. /\ process = "started" /\ process' = "closing" /\ op = Free
      /\ UNCHANGED <<next, records, uncounted, claimed, held, outcome, op>>
      /\ UNCHANGED <<fate, offered, decided, terminal>> /\ UNCHANGED directory
  BY DEF Close, counters, consumer, history
<1>3. DirTypes' /\ Stay /\ Shrinks /\ LiveNames' = LiveNames
  BY <1>1, StayEffect, StayShrinks DEF IInv, DirInv
<1>4. DirInv'
  BY <1>1, <1>3, HistSame, ShrinkKeeps DEF IInv, DirInv
<1>5. RestTypes' /\ OpTypes'
  BY <1>1 DEF IInv, RestTypes, OpTypes
<1>6. Admitting' /\ Acknowledging'
  BY <1>1, FreeAt, FreeOp
<1>7. Idle' /\ Unused' /\ Handed'
  BY <1>1, <1>3 DEF IInv, Memory, Idle, Unused, Handed, Up, Live, Marked, Stay
<1>8. Numbered' /\ Counted'
  BY <1>1, <1>3 DEF IInv, Memory, Numbered, Counted, Awaited, Promised, Up, Stay
<1> QED BY <1>3, <1>4, <1>5, <1>6, <1>7, <1>8 DEF IInv, Memory

LEMMA ReconcileStep ==
    ASSUME IInv, NEW n \in Names, Reconcile(n) PROVE IInv'
<1>1. /\ process = "opening" /\ op = Free /\ Marked(n)
      /\ UNCHANGED <<process, next, records, uncounted, claimed, held, outcome>>
      /\ UNCHANGED <<fate, offered, decided, terminal>> /\ UNCHANGED directory
  BY DEF Reconcile, counters, consumer, history
<1>2. DirTypes' /\ Stay /\ Shrinks /\ LiveNames' = LiveNames
  BY <1>1, StayEffect, StayShrinks DEF IInv, DirInv
<1>3. cache[marker(n)] \in Statuses
  BY <1>1 DEF IInv, DirInv, Directory, Marked
<1>4. OpTypes' /\ op'.at = "removeRecord" /\ op'.name = n /\ op'.content = cache[marker(n)]
  BY <1>3, LockEffect DEF Reconcile, Labels
<1>5. DirInv'
  BY <1>1, <1>2, HistSame, ShrinkKeeps DEF IInv, DirInv
<1>6. RestTypes'
  BY <1>1 DEF IInv, RestTypes
<1>7. Admitting' /\ Awaited' = Awaited /\ Awaited' = 0
  BY <1>1, <1>4, FreeAt DEF Admitting, Admits, Awaited
<1>8. Acknowledging'
  BY <1>1, <1>2, <1>3, <1>4 DEF Acknowledging, Admits, Marking, Emptied, Marked, Stay
<1>9. Calm
  BY <1>1, <1>2 DEF Calm, Stay
<1>10. Counted'
  BY <1>1, <1>2, <1>7, CountKeeps DEF IInv
<1> QED BY <1>2, <1>4, <1>5, <1>6, <1>7, <1>8, <1>9, <1>10, CalmKeeps DEF IInv

\* With no marker left Hidden leaves every promised record visible, so that the
\* number recount continues from is above all of them.
LEMMA RecountStep ==
    ASSUME IInv, Recount PROVE IInv'
<1>1. /\ process = "opening" /\ process' = "open" /\ op = Free
      /\ UNCHANGED <<claimed, held, outcome, op>>
      /\ UNCHANGED <<fate, offered, decided, terminal>> /\ UNCHANGED directory
      /\ \A n \in Names : ~Marked(n)
      /\ next' = IF LiveNames = {} THEN 0 ELSE Max(LiveNames) + 1
      /\ records' = Cardinality(LiveNames) /\ uncounted' = {}
  BY DEF Recount, LiveNames, consumer, history
<1>2. DirTypes' /\ Stay /\ Shrinks /\ LiveNames' = LiveNames
  BY <1>1, StayEffect, StayShrinks DEF IInv, DirInv
<1>3. next' \in 0..MaxSeq /\ \A n \in LiveNames : n < next'
  <2>1. CASE LiveNames = {}
    BY <1>1, <2>1, NameTypes
  <2>2. CASE LiveNames # {}
    <3>1. LiveNames \in SUBSET Names
      BY DEF LiveNames
    <3>2. Max(LiveNames) \in Names /\ \A n \in LiveNames : Max(LiveNames) >= n
      BY <2>2, <3>1, Largest
    <3>3. next' = Max(LiveNames) + 1
      BY <1>1, <2>2
    <3>4. next' \in 0..MaxSeq
      BY <3>2, <3>3, NextNames
    <3>5. \A n \in LiveNames : n \in Nat /\ Max(LiveNames) \in Nat
      BY <3>1, <3>2, NameTypes
    <3> HIDE DEF LiveNames
    <3>6. \A n \in LiveNames : n < next'
      BY <3>2, <3>3, <3>5
    <3> QED BY <3>4, <3>6
  <2> QED BY <2>1, <2>2
<1>4. records' \in 0..MaxSeq
  BY <1>1, LiveNat, NameTypes
<1>5. DirInv'
  BY <1>1, <1>2, HistSame, ShrinkKeeps DEF IInv, DirInv
<1>6. RestTypes' /\ OpTypes'
  BY <1>1, <1>3, <1>4 DEF IInv, RestTypes, OpTypes
<1>7. Admitting' /\ Acknowledging'
  BY <1>1, FreeAt, FreeOp
<1>8. Idle' /\ Handed'
  BY <1>1, <1>2 DEF IInv, Memory, Idle, Handed, Marked, Stay
<1>9. Unused'
  <2>1. \A n \in Names : n >= next' => n \notin LiveNames
    BY <1>3, NameTypes
  <2> QED BY <1>1, <1>2, <2>1 DEF Unused, LiveNames, Live, Marked, Stay
<1>10. Numbered'
  <2> SUFFICES ASSUME NEW p \in Promised, NEW n \in Names, p \in disk[record(n)]
               PROVE  n < next'
    BY <1>1, <1>2 DEF Numbered, Promised, Stay
  <2>1. cache[record(n)] = p
    BY <1>1 DEF IInv, DirInv, Hidden
  <2>2. n \in LiveNames
    BY <2>1, NoneAssumption DEF LiveNames, Live, Promised
  <2> QED BY <1>3, <2>2
<1>11. Counted'
  BY <1>1, <1>2, LiveNat, FreeAt, FS_EmptySet DEF Counted, Awaited
<1> QED BY <1>2, <1>5, <1>6, <1>7, <1>8, <1>9, <1>10, <1>11 DEF IInv, Memory

LEMMA DiscardStep ==
    ASSUME IInv, NEW n \in Names, Discard(n) PROVE IInv'
<1> DEFINE e == cache[record(n)]
           Gone == Put(record(n), None) /\ fate' = [fate EXCEPT ![e] = "discarded"] /\ decided' = decided \ {e}
                   /\ uncounted' = uncounted
           Kept == UNCHANGED <<directory, fate, decided>> /\ uncounted' = uncounted \cup {n}
<1>1. /\ process = "open" /\ Live(n) /\ n \notin uncounted
      /\ UNCHANGED <<process, next, claimed, held, outcome, op, offered, terminal>>
      /\ records' = IF records > 0 THEN records - 1 ELSE records
  BY DEF Discard, consumer
<1>2. op = Free /\ \A m \in Names : ~Marked(m)
  BY <1>1 DEF IInv, Memory, Idle
<1>3. Gone \/ Kept
  BY DEF Discard
<1>4. e \in Entries /\ e \in disk[record(n)]
  BY <1>1 DEF IInv, DirInv, Directory, Live
<1>5. records \in Nat /\ records' \in 0..MaxSeq
  BY <1>1, NameTypes DEF IInv, RestTypes
<1>6. Admitting' /\ Acknowledging' /\ OpTypes'
  BY <1>1, <1>2, FreeAt, FreeOp DEF IInv, OpTypes
<1>7. Awaited = 0 /\ Awaited' = 0 /\ Up /\ Up' /\ Cardinality(LiveNames) \in Nat
  BY <1>1, <1>2, LiveNat, FreeAt DEF Awaited, Up
<1>8. /\ records <= Cardinality(LiveNames)
      /\ Cardinality(LiveNames) <= records + Cardinality(uncounted)
      /\ Cardinality(uncounted) \in Nat
      /\ \A m \in uncounted : m < next
      /\ n < next
  <2>1. n < next
    BY <1>1, <1>7, NameTypes DEF IInv, Memory, Unused, RestTypes
  <2>2. Cardinality(uncounted) \in Nat
    BY LiveCount DEF IInv, RestTypes
  <2> QED BY <1>7, <2>1, <2>2 DEF IInv, Counted
<1> HIDE DEF e
<1>9. CASE Gone
  <2>1. DirTypes' /\ PutRecord(n, None)
    BY <1>9, PutRecordEffect DEF IInv
  <2>2. \A f \in Entries : fate'[f] = IF f = e THEN "discarded" ELSE fate[f]
    BY <1>9 DEF IInv, RestTypes
  <2>3. HistStay
    BY <1>1, <1>9, <2>2 DEF IInv, DirInv, Fresh, HistStay
  <2>4. \A p \in disk[record(n)] : p \in Entries /\ fate'[p] = "promised" => p = e
    BY <1>2, <2>2 DEF IInv, DirInv, Hidden, Promised, e
  <2>5. DirInv'
    BY <2>1, <2>2, <2>3, <2>4, RecordGoneKeeps DEF IInv, RestTypes
  <2>6. RestTypes'
    BY <1>1, <1>5, <1>9 DEF IInv, RestTypes, Fates
  <2>7. Calm
    <3>1. \A f \in Entries : fate'[f] \in {"new", "promised"} => fate[f] = fate'[f]
      BY <2>2
    <3>2. \A m \in Names : /\ cache'[record(m)] \in {cache[record(m)], None}
                           /\ cache'[marker(m)] = cache[marker(m)]
                           /\ \A f \in Entries : f \in disk'[record(m)] => f \in disk[record(m)]
      BY <2>1, NoneAssumption DEF PutRecord
    <3> QED BY <1>1, <1>2, <3>1, <3>2 DEF Calm
  <2>8. Cardinality(LiveNames') = Cardinality(LiveNames) - 1 /\ Cardinality(LiveNames') \in Nat
    BY <1>1, <2>1, LiveRemoved
  <2>9. /\ records' <= Cardinality(LiveNames') - Awaited'
        /\ Cardinality(LiveNames') - Awaited' <= records' + Cardinality(uncounted')
    <3>1. Cardinality(uncounted') = Cardinality(uncounted)
      BY <1>9
    <3>2. records' <= Cardinality(LiveNames) - 1
      BY <1>1, <1>5, <1>7, <1>8, <2>8
    <3>3. Cardinality(LiveNames) - 1 <= records' + Cardinality(uncounted)
      BY <1>1, <1>5, <1>7, <1>8
    <3> QED BY <1>7, <2>8, <3>1, <3>2, <3>3
  <2>10. Counted'
    BY <1>1, <1>7, <1>8, <1>9, <2>9 DEF Counted
  <2> QED BY <1>6, <2>1, <2>5, <2>6, <2>7, <2>10, CalmKeeps DEF IInv
<1>10. CASE Kept
  <2>1. DirTypes' /\ Stay /\ Shrinks /\ LiveNames' = LiveNames
    BY <1>10, StayEffect, StayShrinks DEF IInv, DirInv
  <2>2. DirInv'
    BY <1>1, <1>10, <2>1, HistSame, ShrinkKeeps DEF IInv, DirInv
  <2>3. RestTypes'
    BY <1>1, <1>5, <1>10 DEF IInv, RestTypes
  <2>4. Calm
    BY <1>1, <1>2, <1>10, <2>1 DEF Calm, Stay
  <2>5. Cardinality(uncounted') = Cardinality(uncounted) + 1
    BY <1>1, <1>10, CountedOnce DEF IInv, RestTypes
  <2>6. /\ records' <= Cardinality(LiveNames') - Awaited'
        /\ Cardinality(LiveNames') - Awaited' <= records' + Cardinality(uncounted')
    BY <1>1, <1>5, <1>7, <1>8, <2>1, <2>5
  <2>7. Counted'
    BY <1>1, <1>7, <1>8, <1>10, <2>6 DEF Counted
  <2> QED BY <1>6, <2>1, <2>2, <2>3, <2>4, <2>7, CalmKeeps DEF IInv
<1> QED BY <1>3, <1>9, <1>10

LEMMA ExitStep ==
    ASSUME IInv, Exit PROVE IInv'
<1>1. /\ process' = "down" /\ next' = 0 /\ records' = 0 /\ uncounted' = {} /\ claimed' = {}
      /\ held' = [n \in Names |-> None] /\ outcome' = [n \in Names |-> None]
      /\ UNCHANGED <<fate, offered, decided, terminal>> /\ UNCHANGED directory
  BY DEF Exit, history
<1>2. DirTypes' /\ Stay /\ Shrinks /\ LiveNames' = LiveNames
  BY <1>1, StayEffect, StayShrinks DEF IInv, DirInv
<1>3. OpTypes' /\ op' = Free /\ op'.at = "free"
  BY UnlockEffect DEF Exit
<1>4. DirInv'
  BY <1>1, <1>2, HistSame, ShrinkKeeps DEF IInv, DirInv
<1>5. RestTypes'
  BY <1>1, NameTypes DEF IInv, RestTypes
<1>6. Idle' /\ Unused' /\ Handed' /\ Numbered' /\ Counted'
  BY <1>1, <1>3 DEF Idle, Unused, Handed, Numbered, Counted, Up
<1> QED BY <1>2, <1>3, <1>4, <1>5, <1>6, FreeOp DEF IInv, Memory

LEMMA PowerLossStep ==
    ASSUME IInv, PowerLoss PROVE IInv'
<1>1. /\ process = "down"
      /\ UNCHANGED <<process, next, records, uncounted, claimed, held, outcome, op>>
      /\ UNCHANGED <<fate, offered, decided, terminal>>
  BY DEF PowerLoss, counters, consumer, history
<1>2. op = Free
  BY <1>1 DEF IInv, Memory, Idle
<1>3. \A f \in Files : cache'[f] \in disk[f] /\ disk'[f] = {cache'[f]}
  BY DEF PowerLoss
<1>4. DirTypes'
  BY DEF PowerLoss, IInv, DirTypes
<1>5. Shrinks
  BY <1>3, FileNames DEF Shrinks
<1>6. DirInv'
  BY <1>1, <1>5, HistSame, ShrinkKeeps DEF IInv, DirInv
<1>7. RestTypes' /\ OpTypes'
  BY <1>1 DEF IInv, RestTypes, OpTypes
<1>8. Admitting' /\ Acknowledging'
  BY <1>1, <1>2, FreeAt, FreeOp
<1>9. Idle' /\ Unused' /\ Handed' /\ Numbered' /\ Counted'
  BY <1>1 DEF IInv, Memory, Idle, Unused, Handed, Numbered, Counted, Up
<1> QED BY <1>4, <1>6, <1>7, <1>8, <1>9 DEF IInv, Memory

LEMMA StutterStep ==
    ASSUME IInv, UNCHANGED vars PROVE IInv'
<1>1. /\ UNCHANGED <<process, next, records, uncounted, claimed, held, outcome, op>>
      /\ UNCHANGED <<fate, offered, decided, terminal>> /\ cache' = cache /\ disk' = disk
  BY DEF vars, directory, counters, consumer, history
<1>2. DirTypes' /\ OpTypes' /\ RestTypes'
  BY <1>1 DEF IInv, DirTypes, OpTypes, RestTypes
<1>3. DirInv'
  BY <1>1, StayEffect, StayShrinks, HistSame, ShrinkKeeps DEF IInv, DirInv, directory
<1>4. Admitting' /\ Acknowledging'
  BY <1>1 DEF IInv, Admitting, Acknowledging, Marked, Promised
<1>5. Idle' /\ Unused' /\ Handed'
  BY <1>1 DEF IInv, Memory, Idle, Unused, Handed, Live, Marked, Up
<1>6. Numbered' /\ Counted'
  BY <1>1 DEF IInv, Memory, Numbered, Counted, Awaited, LiveNames, Live, Promised, Up
<1> QED BY <1>2, <1>3, <1>4, <1>5, <1>6 DEF IInv, Memory

-------------------------------------------------------------------------------
\* The invariant, and the properties it implies.

LEMMA InitHolds == Init => IInv
<1> SUFFICES ASSUME Init PROVE IInv
  OBVIOUS
<1>1. \A n \in Names : /\ cache[record(n)] = None /\ disk[record(n)] = {None}
                       /\ cache[marker(n)] = None /\ disk[marker(n)] = {None}
  BY FileNames DEF Init
<1>2. DirTypes /\ OpTypes /\ RestTypes
  BY NameTypes DEF Init, DirTypes, OpTypes, RestTypes, Fates
<1>3. Directory
  BY <1>1 DEF Directory
<1>7. Fresh
  <2>1. offered = <<>> /\ decided = {} /\ terminal = {}
    BY DEF Init
  <2>2. \A e \in Entries, n \in Names : e \notin disk[record(n)]
    BY <1>1, NoneAssumption
  <2> QED BY <2>1, <2>2 DEF Fresh, Within
<1>4. Hidden /\ Ordered /\ MarkerDurable /\ PromiseKept
  BY DEF Init, Hidden, Ordered, MarkerDurable, PromiseKept, Promised
<1>5. Admitting /\ Acknowledging
  BY FreeAt DEF Init, Admitting, Acknowledging, Admits
<1>6. Idle /\ Unused /\ Handed /\ Numbered /\ Counted
  BY <1>1 DEF Init, Idle, Unused, Handed, Numbered, Counted, Up, Marked
<1> QED BY <1>2, <1>3, <1>4, <1>5, <1>6, <1>7 DEF IInv, DirInv, Memory

\* Every action keeps the invariant.
LEMMA StepHolds == IInv /\ [Next]_vars => IInv'
<1> SUFFICES ASSUME IInv, [Next]_vars PROVE IInv'
  OBVIOUS
<1>1. ASSUME NEW e \in Entries, Admit(e) \/ AdmitRefused(e) PROVE IInv'
  BY <1>1, AdmitStep, AdmitRefusedStep
<1>2. CASE ClaimNext
  BY <1>2, ClaimNextStep
<1>3. ASSUME NEW n \in Names, Unclaim(n) \/ Discard(n) \/ Reconcile(n) PROVE IInv'
  BY <1>3, UnclaimStep, DiscardStep, ReconcileStep
<1>4. ASSUME NEW n \in Names, NEW status \in Statuses, AckTerminal(n, status) \/ AckTerminalFails(n, status)
      PROVE  IInv'
  BY <1>4, AckTerminalStep, AckTerminalFailsStep
<1>5. CASE FileSystemStep
  BY <1>5, AdmitSyncStep, AdmitRollbackStep, AdmitRollbackSyncStep, MarkerSyncStep, MarkerRollbackStep,
     MarkerRollbackSyncStep, RemoveRecordStep, RecordSyncStep, RemoveMarkerStep, MarkerCleanSyncStep,
     RestoreMarkerStep, RestoreSyncStep DEF FileSystemStep
<1>6. CASE Open \/ Recount \/ Start \/ Close \/ Exit \/ PowerLoss
  BY <1>6, OpenStep, RecountStep, StartStep, CloseStep, ExitStep, PowerLossStep
<1>7. CASE UNCHANGED vars
  BY <1>7, StutterStep
<1> QED BY <1>1, <1>2, <1>3, <1>4, <1>5, <1>6, <1>7 DEF Next

LEMMA InvHolds == Spec => []IInv
BY InitHolds, StepHolds, PTL DEF Spec

\* The variables of the spool keep their types: next and the record count stay
\* within the names, and op only ever names a step of an operation.
THEOREM TypeCorrect == Spec => []TypeOK
<1>1. IInv => TypeOK
  BY DEF IInv, DirTypes, OpTypes, RestTypes, TypeOK
<1> QED BY <1>1, InvHolds, PTL

\* An entry whose Admit returned success, so that its sender was answered 202, is
\* on disk after any power loss, under one name and with no marker that would hide
\* it, until AckTerminal is called for it, whatever syncs and removals fail.
THEOREM AdmittedSurvive == Spec => []PromiseKept
<1>1. IInv => PromiseKept
  BY DEF IInv, DirInv
<1> QED BY <1>1, InvHolds, PTL

\* An entry whose terminal marker was synced by writeTerminalMarkerLocked is never
\* handed out again: after any power loss, and between any two file operations of
\* the cleanup and its rollbacks, its record never shows without its marker.
THEOREM TerminalNotReplayed == Spec => []TerminalStays
<1>1. IInv => TerminalStays
  BY DEF IInv, DirInv, Directory, MarkerDurable, TerminalStays, Marked
<1> QED BY <1>1, InvHolds, PTL

\* Sequence numbers follow the order of admission among promised entries, although
\* recount starts from the names it finds and records may come back.
THEOREM NumbersFollowAdmission == Spec => []AdmissionOrder
<1>1. IInv => AdmissionOrder
  <2> SUFFICES ASSUME IInv, NEW i \in DOMAIN offered, NEW j \in DOMAIN offered,
                      NEW m \in Names, NEW n \in Names, i < j, offered[i] \in Promised,
                      cache[record(m)] = offered[i], cache[record(n)] = offered[j]
               PROVE  m < n
    BY DEF AdmissionOrder
  <2>1. Precedes(offered, offered[i], offered[j]) /\ offered[j] \in Entries
    BY ElementOfSeq DEF Precedes, IInv, RestTypes
  <2> QED BY <2>1 DEF IInv, DirInv, Directory, Ordered
<1> QED BY <1>1, InvHolds, PTL

\* claimNext never hands out a name whose closures a consumer still has, although
\* removing the record drops the claim before the acknowledgement has ended.
THEOREM OneConsumerHolds == Spec => []OneConsumer
<1>1. IInv => OneConsumer
  BY DEF IInv, Memory, Handed, OneConsumer, Claimable
<1> QED BY <1>1, InvHolds, PTL

\* s.records, by which Admit bounds the backlog, is never more than the number of
\* records while s.mu is free, so that Admit cannot refuse for records that are gone;
\* and it is less by at most one for each refused record that Admit's rollback could
\* not remove and each discarded one that could not be quarantined.
THEOREM BookkeepingHolds == Spec => []BookkeepingExact
<1>1. IInv => RecordsExact
  BY FreeAt, LiveNat, LiveCount, NameTypes
     DEF IInv, Counted, Awaited, Up, RecordsExact, LiveNames, RestTypes
<1>2. IInv => OneConsumer
  BY DEF IInv, Memory, Handed, OneConsumer, Claimable
<1> QED BY <1>1, <1>2, InvHolds, PTL DEF BookkeepingExact
===============================================================================

----------------------------- MODULE WebhookSpool -----------------------------
(***************************************************************************)
(* The durable webhook backlog of internal/app/spool.go: one file per      *)
(* admitted webhook, named by a sequence number, and a terminal marker     *)
(* file beside it while an outcome is being recorded.                      *)
(*                                                                         *)
(* The directory is seen twice: "cache" is what the running process reads, *)
(* "disk" the contents each name may have after a power loss.  A rename or *)
(* a removal changes the cache and only makes its result possible on disk; *)
(* a successful directory sync makes the cache the one possibility.  File  *)
(* contents are synced before their rename, so no name ever shows a torn   *)
(* file.  Every operation runs under s.mu but may fail, and the process or *)
(* the machine may stop, between two of its file operations; op is the     *)
(* operation that holds the lock.                                          *)
(*                                                                         *)
(* Left out: byte accounting, temporary files (a failed write leaves no    *)
(* visible name), files damaged by others, and the lock file that keeps a  *)
(* second process away.                                                    *)
(*                                                                         *)
(* An action's variants are the same step with a plausible defect; each    *)
(* breaks a property, and none is part of Next.                            *)
(***************************************************************************)
EXTENDS Integers, FiniteSets, Sequences, FiniteSetsExt

CONSTANTS
    Entries,            \* admission attempts, one per validated webhook
    Statuses,           \* the terminal statuses, "completed" and "failed"
    MaxSeq,             \* bound on sequence numbers, 0..MaxSeq-1
    MaxRecords,         \* defaultWebhookSpoolMaxRecords
    SyncMayFail,        \* whether a directory sync may fail
    RemoveMayFail,      \* whether removing or quarantining a file may fail
    None

ASSUME MaxSeqAssumption == MaxSeq \in Nat \ {0}
ASSUME MaxRecordsAssumption == MaxRecords \in Nat \ {0}
ASSUME FaultsAssumption == {SyncMayFail, RemoveMayFail} \subseteq BOOLEAN

ASSUME NoneAssumption == None \notin Entries \cup Statuses

Names == 0..(MaxSeq - 1)
record(n) == <<n, "record">>
marker(n) == <<n, "marker">>
Files == Names \X {"record", "marker"}

VARIABLES
    process,       \* "down", "opening", "open" (until Start), "started", "closing"
    cache, disk,   \* the directory
    next,          \* s.next
    records,       \* s.records
    uncounted,     \* history: names s.records left out or took off although they stay
    claimed,       \* s.claimed
    held,          \* the entry whose closures the consumer keeps, for each name
    outcome,       \* the status the consumer acknowledges a held name with
    op,            \* the operation that holds s.mu
    fate,          \* history: what became of each admission
    offered,       \* history: the entries Admit gave a name to, in order
    decided,       \* history: the entries AckTerminal was called for, unless discarded
    terminal       \* history: the entries whose marker was synced

directory == <<cache, disk>>
counters  == <<next, records, uncounted>>
consumer  == <<held, outcome>>
history   == <<fate, offered, decided, terminal>>
vars      == <<process, directory, counters, claimed, consumer, op, history>>

Free == [at |-> "free"]
Labels == {"admitSync", "admitRollback", "admitRollbackSync", "markerSync",
           "markerRollback", "markerRollbackSync", "removeRecord", "recordSync",
           "removeMarker", "markerCleanSync", "restoreMarker", "restoreSync"}
Fates == {"new", "offered", "promised", "refused", "discarded"}

TypeOK ==
    /\ process \in {"down", "opening", "open", "started", "closing"}
    /\ cache \in [Files -> Entries \cup Statuses \cup {None}]
    /\ disk \in [Files -> SUBSET (Entries \cup Statuses \cup {None})]
    /\ next \in 0..MaxSeq
    /\ records \in 0..MaxSeq
    /\ uncounted \in SUBSET Names
    /\ claimed \in SUBSET Names
    /\ held \in [Names -> Entries \cup {None}]
    /\ op = Free \/ op \in [at : Labels, name : Names, content : Entries \cup Statuses]
    /\ fate \in [Entries -> Fates]
    /\ offered \in Seq(Entries)
    /\ outcome \in [Names -> Statuses \cup {None}]
    /\ decided \in SUBSET Entries
    /\ terminal \in SUBSET Entries

Init ==
    /\ process = "down"
    /\ cache = [f \in Files |-> None]
    /\ disk = [f \in Files |-> {None}]
    /\ next = 0
    /\ records = 0
    /\ uncounted = {}
    /\ claimed = {}
    /\ held = [n \in Names |-> None]
    /\ op = Free
    /\ fate = [e \in Entries |-> "new"]
    /\ offered = <<>>
    /\ outcome = [n \in Names |-> None]
    /\ decided = {}
    /\ terminal = {}

-------------------------------------------------------------------------------
(* File operations and the lock. *)

Live(n)   == cache[record(n)] # None
Marked(n) == cache[marker(n)] # None

\* A rename onto f, or its removal (content None).
Put(f, content) ==
    /\ cache' = [cache EXCEPT ![f] = content]
    /\ disk' = [disk EXCEPT ![f] = @ \cup {content}]

SyncDirectory ==
    /\ disk' = [f \in Files |-> {cache[f]}]
    /\ UNCHANGED cache

Lock(at, n, content) == op' = [at |-> at, name |-> n, content |-> content]
At(at)   == op # Free /\ op.at = at
Goto(at) == op' = [op EXCEPT !.at = at]
Unlock   == op' = Free

\* The operation returns an error, with which NewWebhookSpool gives up.
Fail ==
    /\ Unlock
    /\ process' = IF process = "opening" THEN "down" ELSE process

-------------------------------------------------------------------------------
(* Admit. *)

Full == records >= MaxRecords

\* The first sequence number, from next on, that no file has.
NextName == Min({n \in next..MaxSeq : n = MaxSeq \/ ~Live(n)})

\* Admit returns an error before any file has its final name: the spool is
\* closing or full, or the temporary file cannot be written, which uses up a
\* sequence number.
AdmitRefused(e) ==
    /\ op = Free /\ fate[e] = "new"
    /\ \/ process = "closing" /\ UNCHANGED next
       \/ process = "started" /\ Full /\ UNCHANGED next
       \/ process = "started" /\ ~Full /\ NextName < MaxSeq /\ next' = NextName + 1
    /\ fate' = [fate EXCEPT ![e] = "refused"]
    /\ UNCHANGED <<process, directory, records, uncounted, claimed, consumer, op, offered, decided,
                   terminal>>

\* The record is written, synced and renamed to its sequence number.
Admit(e) ==
    /\ op = Free /\ fate[e] = "new" /\ process = "started"
    /\ ~Full /\ NextName < MaxSeq
    /\ Put(record(NextName), e)
    /\ next' = NextName + 1
    /\ Lock("admitSync", NextName, e)
    /\ fate' = [fate EXCEPT ![e] = "offered"]
    /\ offered' = Append(offered, e)
    /\ UNCHANGED <<process, records, uncounted, claimed, consumer, decided, terminal>>

\* Variant: a failed sync is not noticed.
AdmitSyncIgnored ==
    /\ At("admitSync")
    /\ SyncDirectory \/ (SyncMayFail /\ UNCHANGED directory)
    /\ records' = records + 1
    /\ fate' = [fate EXCEPT ![op.content] = "promised"]
    /\ Unlock
    /\ UNCHANGED <<process, next, uncounted, claimed, consumer, offered, decided, terminal>>

AdmitSync ==
    /\ At("admitSync")
    /\ \/ /\ SyncDirectory
          /\ records' = records + 1
          /\ fate' = [fate EXCEPT ![op.content] = "promised"]
          /\ Unlock
       \/ SyncMayFail /\ Goto("admitRollback") /\ UNCHANGED <<directory, records, fate>>
    /\ UNCHANGED <<process, next, uncounted, claimed, consumer, offered, decided, terminal>>

\* A record whose directory entry is not known to be durable is taken back.
AdmitRollback ==
    /\ At("admitRollback")
    /\ \/ /\ Put(record(op.name), None)
          /\ Goto("admitRollbackSync")
          /\ UNCHANGED <<uncounted, fate>>
       \/ /\ RemoveMayFail
          /\ Unlock
          /\ fate' = [fate EXCEPT ![op.content] = "refused"]
          /\ uncounted' = uncounted \cup {op.name}
          /\ UNCHANGED directory
    /\ UNCHANGED <<process, next, records, claimed, consumer, offered, decided, terminal>>

\* The result of the second sync is ignored.
AdmitRollbackSync ==
    /\ At("admitRollbackSync")
    /\ SyncDirectory \/ (SyncMayFail /\ UNCHANGED directory)
    /\ fate' = [fate EXCEPT ![op.content] = "refused"]
    /\ Unlock
    /\ UNCHANGED <<process, counters, claimed, consumer, offered, decided, terminal>>

-------------------------------------------------------------------------------
(* Claims. *)

Claimable == {n \in Names : Live(n) /\ n \notin claimed /\ ~Marked(n)}

\* Variant: the newest record goes first.
ClaimNewest ==
    LET n == Max(Claimable) IN
    /\ op = Free /\ process = "started" /\ Claimable # {}
    /\ claimed' = claimed \cup {n}
    /\ held' = [held EXCEPT ![n] = cache[record(n)]]
    /\ UNCHANGED <<process, directory, counters, outcome, op, history>>

\* claimNext, called by the drainer, and the consumer's closures over the entry.
ClaimNext ==
    LET n == Min(Claimable) IN
    /\ op = Free /\ process = "started" /\ Claimable # {}
    /\ claimed' = claimed \cup {n}
    /\ held' = [held EXCEPT ![n] = cache[record(n)]]
    /\ UNCHANGED <<process, directory, counters, outcome, op, history>>

\* unclaim, after a rejected Enqueue or a cancelled run.
Unclaim(n) ==
    /\ op = Free /\ held[n] # None /\ outcome[n] = None
    /\ claimed' = claimed \ {n}
    /\ held' = [held EXCEPT ![n] = None]
    /\ UNCHANGED <<process, directory, counters, outcome, op, history>>

-------------------------------------------------------------------------------
(* AckTerminal, called again until it succeeds, and the reconciliation of    *)
(* markers by NewWebhookSpool, which share their second half.                *)

\* AckTerminal up to its first file operation: an earlier marker is kept, a
\* missing record skips its removal, and both missing end the call.
Acknowledges(n, status) ==
    /\ op = Free /\ process \in {"started", "closing"}
    /\ held[n] # None /\ outcome[n] \in {None, status}
    /\ decided' = decided \cup {held[n]}

\* Variant: a marker that exists already is an error.
AckTerminalAfresh(n, status) ==
    /\ Acknowledges(n, status)
    /\ Live(n) /\ ~Marked(n)
    /\ Put(marker(n), status)
    /\ Lock("markerSync", n, status)
    /\ outcome' = [outcome EXCEPT ![n] = status]
    /\ UNCHANGED <<process, counters, claimed, held, fate, offered, terminal>>

AckTerminal(n, status) ==
    /\ Acknowledges(n, status)
    /\ \/ /\ Live(n) /\ ~Marked(n)
          /\ Put(marker(n), status)
          /\ Lock("markerSync", n, status)
          /\ outcome' = [outcome EXCEPT ![n] = status]
          /\ UNCHANGED <<claimed, held>>
       \/ /\ Marked(n)
          /\ Lock(IF Live(n) THEN "removeRecord" ELSE "recordSync", n, cache[marker(n)])
          /\ UNCHANGED <<directory, claimed, consumer>>
       \/ /\ ~Live(n) /\ ~Marked(n)
          /\ claimed' = claimed \ {n}
          /\ held' = [held EXCEPT ![n] = None]
          /\ outcome' = [outcome EXCEPT ![n] = None]
          /\ UNCHANGED <<directory, op>>
    /\ UNCHANGED <<process, counters, fate, offered, terminal>>

\* Variant: an acknowledgement that fails lets go of its claim.
AckTerminalFailsUnclaiming(n, status) ==
    /\ Acknowledges(n, status)
    /\ Live(n) /\ ~Marked(n)
    /\ outcome' = [outcome EXCEPT ![n] = status]
    /\ claimed' = claimed \ {n}
    /\ UNCHANGED <<process, directory, counters, held, op, fate, offered, terminal>>

\* AckTerminal fails to write the marker's temporary file.
AckTerminalFails(n, status) ==
    /\ Acknowledges(n, status)
    /\ Live(n) /\ ~Marked(n)
    /\ outcome' = [outcome EXCEPT ![n] = status]
    /\ UNCHANGED <<process, directory, counters, claimed, held, op, fate, offered, terminal>>

\* writeTerminalMarkerLocked: the sync after the rename, and its rollback.
MarkerSync ==
    /\ At("markerSync")
    /\ \/ /\ SyncDirectory
          /\ terminal' = terminal \cup {held[op.name]}
          /\ Goto("removeRecord")
       \/ SyncMayFail /\ Goto("markerRollback") /\ UNCHANGED <<directory, terminal>>
    /\ UNCHANGED <<process, counters, claimed, consumer, fate, offered, decided>>

MarkerRollback ==
    /\ At("markerRollback")
    /\ \/ Put(marker(op.name), None) /\ Goto("markerRollbackSync")
       \/ RemoveMayFail /\ Unlock /\ UNCHANGED directory
    /\ UNCHANGED <<process, counters, claimed, consumer, history>>

MarkerRollbackSync ==
    /\ At("markerRollbackSync")
    /\ SyncDirectory \/ (SyncMayFail /\ UNCHANGED directory)
    /\ Unlock
    /\ UNCHANGED <<process, counters, claimed, consumer, history>>

\* Variant: the count is lowered at startup too.
RemoveRecordUncounted ==
    /\ At("removeRecord")
    /\ Put(record(op.name), None)
    /\ claimed' = claimed \ {op.name}
    /\ records' = records - 1
    /\ Goto("recordSync")
    /\ UNCHANGED <<process, next, uncounted, consumer, history>>

\* The removal of the record; a marker found at startup may have none.
RemoveRecord ==
    /\ At("removeRecord")
    /\ \/ /\ Put(record(op.name), None)
          /\ claimed' = claimed \ {op.name}
          /\ records' = IF Live(op.name) /\ records > 0 THEN records - 1 ELSE records
          /\ Goto("recordSync")
          /\ UNCHANGED process
       \/ RemoveMayFail /\ Fail /\ UNCHANGED <<directory, claimed, records>>
    /\ UNCHANGED <<next, uncounted, consumer, history>>

\* Variant: a failed sync goes unnoticed.
RecordSyncIgnored ==
    /\ At("recordSync")
    /\ SyncDirectory \/ (SyncMayFail /\ UNCHANGED directory)
    /\ Goto("removeMarker")
    /\ UNCHANGED <<process, counters, claimed, consumer, history>>

\* The marker stays until this sync proves the removal durable.
RecordSync ==
    /\ At("recordSync")
    /\ \/ SyncDirectory /\ Goto("removeMarker") /\ UNCHANGED process
       \/ SyncMayFail /\ Fail /\ UNCHANGED directory
    /\ UNCHANGED <<counters, claimed, consumer, history>>

\* removeTerminalMarkerLocked; a failed sync puts the marker back.
RemoveMarker ==
    /\ At("removeMarker")
    /\ \/ Put(marker(op.name), None) /\ Goto("markerCleanSync") /\ UNCHANGED process
       \/ RemoveMayFail /\ Fail /\ UNCHANGED directory
    /\ UNCHANGED <<counters, claimed, consumer, history>>

MarkerCleanSync ==
    /\ At("markerCleanSync")
    /\ \/ /\ SyncDirectory
          /\ claimed' = claimed \ {op.name}
          /\ held' = [held EXCEPT ![op.name] = None]
          /\ outcome' = [outcome EXCEPT ![op.name] = None]
          /\ Unlock
       \/ SyncMayFail /\ Goto("restoreMarker") /\ UNCHANGED <<directory, claimed, consumer>>
    /\ UNCHANGED <<process, counters, history>>

\* The marker is written again, not rolled back whatever its sync does.
RestoreMarker ==
    /\ At("restoreMarker")
    /\ \/ Put(marker(op.name), op.content) /\ Goto("restoreSync") /\ UNCHANGED process
       \/ Fail /\ UNCHANGED directory
    /\ UNCHANGED <<counters, claimed, consumer, history>>

RestoreSync ==
    /\ At("restoreSync")
    /\ SyncDirectory \/ (SyncMayFail /\ UNCHANGED directory)
    /\ Fail
    /\ UNCHANGED <<counters, claimed, consumer, history>>

-------------------------------------------------------------------------------
(* The life of the process. *)

\* NewWebhookSpool begins, holding the ownership lock.
Open ==
    /\ process = "down"
    /\ process' = "opening"
    /\ UNCHANGED <<directory, counters, claimed, consumer, op, history>>

\* reconcileTerminalLocked: each marker's record is removed before the marker.
Reconcile(n) ==
    /\ process = "opening" /\ op = Free
    /\ Marked(n)
    /\ Lock("removeRecord", n, cache[marker(n)])
    /\ UNCHANGED <<process, directory, counters, claimed, consumer, history>>

\* Variant: the next sequence number is not taken from the names.
RecountFromZero ==
    /\ process = "opening" /\ op = Free
    /\ \A n \in Names : ~Marked(n)
    /\ process' = "open"
    /\ next' = 0
    /\ records' = Cardinality({n \in Names : Live(n)})
    /\ uncounted' = {}
    /\ UNCHANGED <<directory, claimed, consumer, op, history>>

\* recount, once no marker is left.
Recount ==
    LET names == {n \in Names : Live(n)} IN
    /\ process = "opening" /\ op = Free
    /\ \A n \in Names : ~Marked(n)
    /\ process' = "open"
    /\ next' = IF names = {} THEN 0 ELSE Max(names) + 1
    /\ records' = Cardinality(names)
    /\ uncounted' = {}
    /\ UNCHANGED <<directory, claimed, consumer, op, history>>

\* Variant: a discarded record stays counted.
DiscardUncounted(n) ==
    /\ process = "open" /\ Live(n) /\ n \notin uncounted
    /\ Put(record(n), None)
    /\ fate' = [fate EXCEPT ![cache[record(n)]] = "discarded"]
    /\ decided' = decided \ {cache[record(n)]}
    /\ UNCHANGED <<process, counters, claimed, consumer, op, offered, terminal>>

\* Discard of a record found at startup, once: a rename to a name no scan reads.
\* The rename may fail unnoticed, or find no free name; the count is lowered all
\* the same, and the record stays.
Discard(n) ==
    /\ process = "open" /\ Live(n) /\ n \notin uncounted
    /\ records' = IF records > 0 THEN records - 1 ELSE records
    /\ \/ /\ Put(record(n), None)
          /\ fate' = [fate EXCEPT ![cache[record(n)]] = "discarded"]
          /\ decided' = decided \ {cache[record(n)]}
          /\ UNCHANGED uncounted
       \/ /\ RemoveMayFail
          /\ uncounted' = uncounted \cup {n}
          /\ UNCHANGED <<directory, fate, decided>>
    /\ UNCHANGED <<process, next, claimed, consumer, op, offered, terminal>>

Start ==
    /\ process = "open"
    /\ process' = "started"
    /\ UNCHANGED <<directory, counters, claimed, consumer, op, history>>

Close ==
    /\ process = "started" /\ op = Free
    /\ process' = "closing"
    /\ UNCHANGED <<directory, counters, claimed, consumer, op, history>>

\* The process ends: Close has waited for the queue, or it is killed.  What it
\* kept in memory is gone; the directory is as it was.
Exit ==
    /\ process # "down"
    /\ process' = "down"
    /\ next' = 0
    /\ records' = 0
    /\ uncounted' = {}
    /\ claimed' = {}
    /\ held' = [n \in Names |-> None]
    /\ outcome' = [n \in Names |-> None]
    /\ Unlock
    /\ UNCHANGED <<directory, history>>

\* The machine stops: every name may have any content that was possible.
PowerLoss ==
    /\ process = "down"
    /\ cache' \in [Files -> UNION {disk[f] : f \in Files}]
    /\ \A f \in Files : cache'[f] \in disk[f]
    /\ disk' = [f \in Files |-> {cache'[f]}]
    /\ UNCHANGED <<process, counters, claimed, consumer, op, history>>

FileSystemStep ==
    \/ AdmitSync \/ AdmitRollback \/ AdmitRollbackSync
    \/ MarkerSync \/ MarkerRollback \/ MarkerRollbackSync
    \/ RemoveRecord \/ RecordSync \/ RemoveMarker \/ MarkerCleanSync
    \/ RestoreMarker \/ RestoreSync

Next ==
    \/ \E e \in Entries : Admit(e) \/ AdmitRefused(e)
    \/ ClaimNext
    \/ \E n \in Names : Unclaim(n) \/ Discard(n) \/ Reconcile(n)
    \/ \E n \in Names, status \in Statuses :
           AckTerminal(n, status) \/ AckTerminalFails(n, status)
    \/ FileSystemStep
    \/ Open \/ Recount \/ Start \/ Close \/ Exit \/ PowerLoss

Spec == Init /\ [][Next]_vars

-------------------------------------------------------------------------------
Promised == {e \in Entries : fate[e] = "promised"}

\* Every entry whose Admit succeeded, so that its sender was answered 202, is in
\* the directory after any power loss until an outcome is acknowledged for it,
\* and no marker, stale or rolled back, can hide it.
PromiseKept ==
    \A e \in Promised \ decided :
        \E n \in Names : disk[record(n)] = {e} /\ disk[marker(n)] = {None}

\* Once a terminal marker was synced its entry is never handed out again: after
\* any power loss a record that is back has its marker with it, and neither sync
\* failure of the cleanup opens a window in which it does not.
TerminalStays ==
    \A e \in terminal, n \in Names :
        /\ e \in disk[record(n)] => None \notin disk[marker(n)]
        /\ cache[record(n)] = e => Marked(n)

\* Sequence numbers, by which claimNext picks, follow the order of admission: no
\* later entry gets a lower number than an admitted one that is still there,
\* although a restart computes the next number afresh from the names it finds and
\* a power loss may bring a refused or discarded name back.
AdmissionOrder ==
    \A i, j \in DOMAIN offered : \A m, n \in Names :
        /\ i < j /\ offered[i] \in Promised
        /\ cache[record(m)] = offered[i] /\ cache[record(n)] = offered[j]
        => m < n

\* A name whose closures are still in use is not claimable, although a failing
\* acknowledgement drops the claim as soon as the record is gone.
OneConsumer == \A n \in Claimable : held[n] = None

\* The record count that admission is bounded by never exceeds the number of
\* records, whichever step of an admission, an acknowledgement, a discard or a
\* reconciliation failed; and it falls short of it by at most one for each refused
\* record that could not be removed (spool.go:672) and each discarded one that could
\* not be quarantined (spool.go:919) since the process started.
RecordsExact ==
    LET live == Cardinality({n \in Names : Live(n)}) IN
    process \in {"open", "started", "closing"} /\ op = Free =>
        /\ records <= live
        /\ live <= records + Cardinality(uncounted)

\* The spool's memory agrees with its directory and with its consumer.
BookkeepingExact == OneConsumer /\ RecordsExact

-------------------------------------------------------------------------------
(***************************************************************************)
(* The spool implements DurableBacklog.  A decided entry is done once its  *)
(* marker was synced, or when no consumer has it any more and no power     *)
(* loss can bring its record back without its marker.                      *)
(***************************************************************************)
Replayable(e) == \E n \in Names : e \in disk[record(n)] /\ None \in disk[marker(n)]

Holders(e) == {n \in Names : held[n] = e}

\* The record of an admission under way is not there yet.
UnderWay(n) == (At("admitSync") \/ At("admitRollback")) /\ op.name = n

Visible(e) == \E n \in Names : cache[record(n)] = e /\ ~Marked(n) /\ ~UnderWay(n)

Ended(e) == e \in decided /\ ~Replayable(e) /\ (e \in terminal \/ Holders(e) = {})

BacklogState(e) ==
    IF \A i \in DOMAIN offered : offered[i] # e THEN "absent"
    ELSE IF Ended(e) THEN "done"
    ELSE IF Holders(e) # {}
      THEN IF \E n \in Holders(e) : outcome[n] # None THEN "acking" ELSE "claimed"
    ELSE IF e \in Promised \cup decided \/ Visible(e) THEN "pending" ELSE "uncertain"

Backlog == INSTANCE DurableBacklog WITH
    backlog <- [e \in Entries |-> BacklogState(e)],
    promised <- Promised

\* Every behaviour of the spool is one of DurableBacklog: no admitted entry is
\* lost or handed to two consumers, and none that ended comes back.
ImplementsBacklog == Backlog!BacklogSpec

\* Goroutines run, a failed acknowledgement is tried again, and the file system
\* does not fail for ever.
Advances(at, to) == At(at) /\ FileSystemStep /\ op' = [op EXCEPT !.at = to]

FairSpec ==
    /\ Spec
    /\ WF_vars(FileSystemStep)
    /\ SF_vars(Advances("markerSync", "removeRecord"))
    /\ SF_vars(Advances("removeRecord", "recordSync"))
    /\ SF_vars(Advances("recordSync", "removeMarker"))
    /\ SF_vars(Advances("removeMarker", "markerCleanSync"))
    /\ SF_vars(MarkerCleanSync /\ Unlock)
    /\ \A n \in Names, status \in Statuses : SF_vars(AckTerminal(n, status))

\* An acknowledgement that is retried ends, whichever of its steps failed how
\* often, with the record gone for good and its number free of markers.
RetriesConverge ==
    \A n \in Names :
        outcome[n] # None ~> outcome[n] = None /\ (process # "down" => ~Live(n) /\ ~Marked(n))
===============================================================================

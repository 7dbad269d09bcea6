------------------------ MODULE WebhookSpool_refinement ------------------------
(***************************************************************************)
(* WebhookSpool implements DurableBacklog, for every set of admissions,    *)
(* every bound and whatever syncs and removals fail.                       *)
(*                                                                         *)
(* BacklogState, the refinement mapping, looks at one entry at a time.     *)
(* Same(e) says that a step changes nothing the mapping looks at for e;    *)
(* the lemma of an action shows Same for every entry but the one it is     *)
(* about, and how the state of that one changes.  JInv adds to the         *)
(* invariant of WebhookSpool_proofs what ties the consumer's memory to the *)
(* history: who holds an entry, which names may be marked, and that what   *)
(* was offered covers all there is.                                        *)
(***************************************************************************)
EXTENDS WebhookSpool_proofs

-------------------------------------------------------------------------------
\* What the mapping needs besides IInv.

\* Whatever is promised, decided, held or possible on disk was offered.
Traced ==
    \A e \in Entries :
        (e \in Promised \cup decided \/ \E n \in Names : held[n] = e \/ e \in disk[record(n)])
            => Within(offered, e)

\* A claim is kept by a consumer, which has an outcome only for what was decided,
\* and whose record is there, unmarked, until then.
Pursued ==
    /\ \A n \in claimed : held[n] # None
    /\ \A n \in Names : outcome[n] # None => held[n] \in decided
    /\ \A n \in Names : held[n] # None /\ outcome[n] = None => Live(n) /\ ~Marked(n)

\* A held entry is held under one name and possible under no other, and nothing
\* else that matters may come back under its name.
Sole ==
    \A m, n \in Names : held[n] # None =>
        /\ held[m] = held[n] \/ held[n] \in disk[record(m)] => m = n
        /\ \A f \in Promised \cup decided : f \in disk[record(n)] => f = held[n]

\* Once started, only a consumer with an outcome has a marker, and only it runs
\* the steps of an acknowledgement.
Signed ==
    /\ process \in {"started", "closing"} => \A n \in Names : Marked(n) => outcome[n] # None
    /\ op.at \in Labels \ Admits /\ process # "opening" => outcome[op.name] # None
    /\ op.at = "markerCleanSync" => ~Marked(op.name)

\* A decided entry whose record could come back has its marker in the way.
DecidedHidden ==
    \A e \in decided, n \in Names : e \in disk[record(n)] /\ cache[record(n)] # e => Marked(n)

\* Nothing was decided about an admission under way.
Unknown == op.at \in Admits => op.content \notin decided /\ \A n \in Names : held[n] # op.content

JInv == Traced /\ Pursued /\ Sole /\ Signed /\ DecidedHidden /\ Unknown

-------------------------------------------------------------------------------
\* The mapping, one entry at a time.

LEMMA Elsewhere == \A e \in Entries : (Holders(e) = {} <=> \A n \in Names : held[n] # e)
BY DEF Holders

\* An admission whose record is not there yet.
LEMMA UnderWayAt ==
    ASSUME OpTypes
    PROVE  \A n \in Names : UnderWay(n) <=> op.at \in {"admitSync", "admitRollback"} /\ op.name = n
BY FreeAt DEF UnderWay, At, OpTypes, Labels

LEMMA UnderWayWas ==
    ASSUME OpTypes'
    PROVE  \A n \in Names : UnderWay(n)' <=> op'.at \in {"admitSync", "admitRollback"} /\ op'.name = n
BY FreeAt DEF UnderWay, At, OpTypes, Labels

\* What the mapping looks at.
ReplaySame(e) == Replayable(e)' <=> Replayable(e)

VisibleSame(e) == Visible(e)' <=> Visible(e)

Same(e) ==
    /\ Within(offered', e) <=> Within(offered, e)
    /\ e \in decided' <=> e \in decided
    /\ e \in terminal' <=> e \in terminal
    /\ e \in Promised' <=> e \in Promised
    /\ \A n \in Names : /\ held'[n] = e <=> held[n] = e
                        /\ held[n] = e => (outcome'[n] = None <=> outcome[n] = None)
    /\ (e \in decided \ terminal /\ \A n \in Names : held[n] # e) => ReplaySame(e)
    /\ (e \notin Promised \cup decided /\ \A n \in Names : held[n] # e) => VisibleSame(e)

\* Ended, as MarkerDurable lets one see it.
Over(e) == e \in decided /\ (e \in terminal \/ (~Replayable(e) /\ \A n \in Names : held[n] # e))

\* The states of the backlog, in terms of what the mapping looks at.
MappingIs ==
    \A e \in Entries :
        /\ ~Within(offered, e) <=> BacklogState(e) = "absent"
        /\ Within(offered, e) /\ Over(e) <=> BacklogState(e) = "done"
        /\ Within(offered, e) /\ ~Over(e) /\ (\E n \in Names : held[n] = e /\ outcome[n] # None)
              <=> BacklogState(e) = "acking"
        /\ Within(offered, e) /\ ~Over(e) /\ (\E n \in Names : held[n] = e)
              /\ (\A n \in Names : held[n] = e => outcome[n] = None) <=> BacklogState(e) = "claimed"
        /\ Within(offered, e) /\ ~Over(e) /\ (\A n \in Names : held[n] # e)
              /\ (e \in Promised \cup decided \/ Visible(e)) <=> BacklogState(e) = "pending"
        /\ Within(offered, e) /\ ~Over(e) /\ (\A n \in Names : held[n] # e)
              /\ ~(e \in Promised \cup decided \/ Visible(e)) <=> BacklogState(e) = "uncertain"
        /\ BacklogState(e) \in Backlog!States

LEMMA StateIs == MarkerDurable => MappingIs
<1> SUFFICES ASSUME MarkerDurable, NEW e \in Entries PROVE MappingIs!(e)
  BY DEF MappingIs
<1>1. e \in terminal => ~Replayable(e)
  BY DEF MarkerDurable, Replayable
<1>2. Ended(e) <=> Over(e)
  BY <1>1, Elsewhere DEF Ended, Over
<1> QED BY <1>2 DEF BacklogState, Within, Holders, Backlog!States

LEMMA StateWas == MarkerDurable' => MappingIs'
BY StateIs, PTL

LEMMA SameState ==
    ASSUME MarkerDurable, MarkerDurable', NEW e \in Entries, Same(e)
    PROVE  BacklogState(e)' = BacklogState(e)
<1>1. MappingIs /\ MappingIs'
  BY StateIs, StateWas
<1>2. Over(e)' <=> Over(e)
  BY DEF Same, ReplaySame, Over
<1> QED BY <1>1, <1>2 DEF MappingIs, Same, VisibleSame, Backlog!States

Step == [Backlog!BacklogNext]_(Backlog!backlogVars)

\* A step that changes nothing the mapping looks at is none of the backlog.
LEMMA SameIsStep ==
    ASSUME MarkerDurable, MarkerDurable', \A e \in Entries : Same(e),
           offered' = offered, decided' = decided, Promised' = Promised
    PROVE  Step
<1>1. \A e \in Entries : BacklogState(e)' = BacklogState(e)
  BY SameState
<1> QED BY <1>1 DEF Step, Backlog!backlogVars

LEMMA OneBecomes ==
    ASSUME MarkerDurable, MarkerDurable', NEW e \in Entries, NEW from, NEW to,
           BacklogState(e) = from, BacklogState(e)' = to,
           \A f \in Entries : f # e => Same(f)
    PROVE  Backlog!Become(e, from, to)
<1>1. \A f \in Entries : f # e => BacklogState(f)' = BacklogState(f)
  BY SameState
<1> QED BY <1>1 DEF Backlog!Become

-------------------------------------------------------------------------------
\* What each effect on the directory leaves the mapping to see.

\* Replays of unfinished entries, and the sight of uncertain ones.
ReplayKept == \A e \in decided \ terminal : (\A n \in Names : held[n] # e) => ReplaySame(e)

VisibleKept == \A e \in Entries \ (Promised \cup decided) : (\A n \in Names : held[n] # e) => VisibleSame(e)

\* No admission awaits its sync.
Aside == op.at \notin {"admitSync", "admitRollback"} /\ op'.at \notin {"admitSync", "admitRollback"}

LEMMA StayKept == ASSUME Stay PROVE ReplayKept
BY DEF ReplayKept, ReplaySame, Replayable, Stay

LEMMA RecordGoneKept == ASSUME NEW n \in Names, PutRecord(n, None), decided \subseteq Entries PROVE ReplayKept
BY NoneAssumption DEF ReplayKept, ReplaySame, Replayable, PutRecord

LEMMA MarkerKept ==
    ASSUME NEW n \in Names, NEW c, PutMarker(n, c),
           c = None => \A e \in decided : e \in disk[record(n)] => e = held[n]
    PROVE  ReplayKept
BY DEF ReplayKept, ReplaySame, Replayable, PutMarker

\* While consumers run, a sync settles nothing that has no consumer: what could
\* come back is there, and has no marker.
LEMMA SyncKept ==
    ASSUME Directory, Pursued, Sole, Signed, DecidedHidden, RestTypes,
           process \in {"started", "closing"}, Synced
    PROVE  ReplayKept
<1> SUFFICES ASSUME NEW e \in decided, \A n \in Names : held[n] # e PROVE ReplaySame(e)
  BY DEF ReplayKept
<1>1. \A n \in Names : Marked(n) => e \notin disk[record(n)]
  BY NoneAssumption DEF Signed, Pursued, Sole, RestTypes
<1>2. \A n \in Names : e \in disk[record(n)] => cache[record(n)] = e /\ cache[marker(n)] = None
  BY <1>1 DEF DecidedHidden, Marked
<1> QED BY <1>2 DEF ReplaySame, Replayable, Synced, Directory

LEMMA CacheKept ==
    ASSUME OpTypes, OpTypes', Aside,
           \A n \in Names : cache'[record(n)] = cache[record(n)] /\ cache'[marker(n)] = cache[marker(n)]
    PROVE  VisibleKept
BY UnderWayAt, UnderWayWas DEF Aside, VisibleKept, VisibleSame, Visible, Marked

LEMMA RecordGoneUnseen ==
    ASSUME OpTypes, OpTypes', Aside, NEW n \in Names, PutRecord(n, None), Marked(n)
    PROVE  VisibleKept
BY UnderWayAt, UnderWayWas, NoneAssumption DEF Aside, VisibleKept, VisibleSame, Visible, Marked, PutRecord

LEMMA MarkerUnseen ==
    ASSUME OpTypes, OpTypes', Aside, NEW n \in Names, NEW c, PutMarker(n, c),
           cache[record(n)] \in {held[n], None}
    PROVE  VisibleKept
BY UnderWayAt, UnderWayWas, NoneAssumption DEF Aside, VisibleKept, VisibleSame, Visible, Marked, PutMarker

\* What most steps leave alone.
Untouched == /\ offered' = offered /\ decided' = decided /\ terminal' = terminal /\ Promised' = Promised
             /\ held' = held /\ outcome' = outcome

LEMMA UntouchedSame == ASSUME Untouched, ReplayKept, VisibleKept PROVE \A e \in Entries : Same(e)
BY DEF Untouched, ReplayKept, VisibleKept, Same

LEMMA QuietStep ==
    ASSUME IInv, MarkerDurable', Untouched, ReplayKept, VisibleKept
    PROVE  Step
BY UntouchedSame, SameIsStep DEF Untouched, IInv, DirInv

-------------------------------------------------------------------------------
\* When a step keeps JInv.

\* A step of the files, the lock or the process: no consumer, decision or offer
\* changes, and no name may hold what it could not hold before.
Light ==
    /\ held' = held /\ outcome' = outcome /\ claimed' \subseteq claimed
    /\ offered' = offered /\ decided' = decided /\ Promised' = Promised
    /\ \A n \in Names, e \in Entries : e \in disk'[record(n)] => e \in disk[record(n)]

LEMMA LightKeeps ==
    ASSUME JInv, RestTypes, Light,
           \A n \in Names : held[n] # None /\ outcome[n] = None =>
               cache'[record(n)] = cache[record(n)] /\ cache'[marker(n)] = cache[marker(n)]
    PROVE  Traced' /\ Pursued' /\ Sole'
<1> USE DEF JInv, Light
<1>1. Traced'
  BY DEF Traced
<1>2. Pursued'
  BY DEF Pursued, Live, Marked
<1>3. Sole'
  BY NoneAssumption DEF Sole, RestTypes, Promised
<1> QED BY <1>1, <1>2, <1>3

\* Nothing comes back unmarked after a sync or a power loss either.
LEMMA ShrinkHides == ASSUME DecidedHidden, Shrinks, decided' = decided PROVE DecidedHidden'
BY DEF DecidedHidden, Shrinks, Marked

LEMMA RecordGoneHides ==
    ASSUME DecidedHidden, NEW n \in Names, PutRecord(n, None), decided' = decided, decided \subseteq Entries,
           \A e \in decided : e \in disk[record(n)] => Marked(n)
    PROVE  DecidedHidden'
BY NoneAssumption DEF DecidedHidden, PutRecord, Marked

LEMMA MarkerSetHides ==
    ASSUME DecidedHidden, NEW n \in Names, NEW c, c # None, PutMarker(n, c),
           \A e \in decided' : e \in decided \/ e = cache[record(n)], Fresh, Directory, decided' \subseteq Entries
    PROVE  DecidedHidden'
<1> SUFFICES ASSUME NEW e \in decided', NEW m \in Names, e \in disk[record(m)], cache[record(m)] # e
             PROVE  cache'[marker(m)] # None
  BY DEF DecidedHidden, PutMarker, Marked
<1>1. e \in decided
  BY DEF Fresh, Directory
<1> QED BY <1>1 DEF DecidedHidden, PutMarker, Marked

LEMMA MarkerGoneHides ==
    ASSUME DecidedHidden, NEW n \in Names, PutMarker(n, None), decided' = decided,
           \A e \in decided : e \in disk[record(n)] => e = cache[record(n)]
    PROVE  DecidedHidden'
BY DEF DecidedHidden, PutMarker, Marked

\* An operation that has ended, in a process that is up or down.
LEMMA FreeSigned ==
    ASSUME JInv, op'.at = "free", outcome' = outcome,
           process' \in {"started", "closing"} => process \in {"started", "closing"},
           \A n \in Names : cache'[marker(n)] = cache[marker(n)]
    PROVE  Signed' /\ Unknown'
BY DEF JInv, Signed, Unknown, Marked, Labels, Admits

\* What an operation of an acknowledgement knows of its consumer.
LEMMA AckHolder ==
    ASSUME IInv, JInv, op # Free, op.at \notin Admits
    PROVE  /\ op.name \in Names /\ op.at \in Labels \ Admits /\ op.content \in Statuses
           /\ process \in {"opening", "started", "closing"}
           /\ process # "opening" => /\ held[op.name] \in decided /\ outcome[op.name] # None
                                     /\ cache[record(op.name)] \in {held[op.name], None}
           /\ process = "opening" => \A n \in Names : held[n] = None /\ outcome[n] = None
           /\ \A n \in Names : held[n] # None /\ outcome[n] = None => n # op.name
           /\ op.at \in {"removeRecord", "recordSync", "removeMarker"} => Marked(op.name)
           /\ op.at \in Emptied => cache[record(op.name)] = None
           /\ op.at \in Emptied \ {"recordSync"} => disk[record(op.name)] = {None}
<1>1. /\ op.name \in Names /\ op.at \in Labels \ Admits /\ op.content \in Statuses
      /\ process \in {"opening", "started", "closing"}
      /\ op.at \in {"removeRecord", "recordSync", "removeMarker"} => Marked(op.name)
      /\ op.at \in Emptied => cache[record(op.name)] = None
      /\ op.at \in Emptied \ {"recordSync"} => disk[record(op.name)] = {None}
  BY AckFacts
<1>2. process # "opening" => held[op.name] \in decided /\ outcome[op.name] # None
  BY <1>1 DEF JInv, Signed, Pursued
<1>3. process = "opening" => \A n \in Names : held[n] = None /\ outcome[n] = None
  BY DEF IInv, Memory, Idle
<1>4. process # "opening" => cache[record(op.name)] \in {held[op.name], None}
  BY <1>1, <1>2, NoneAssumption DEF IInv, Memory, Handed, RestTypes
<1> QED BY <1>1, <1>2, <1>3, <1>4

\* An operation of an acknowledgement goes on, or ends.
AckOp == /\ op'.at \in Labels \ Admits => op'.name = op.name
         /\ op'.at \notin Admits
         /\ process' = process \/ (process' = "down" /\ op'.at = "free")
         /\ \A n \in Names : n # op.name => cache'[marker(n)] \in {cache[marker(n)], None}

LEMMA AckSigned ==
    ASSUME IInv, JInv, op # Free, op.at \notin Admits, AckOp, outcome' = outcome,
           op'.at = "markerCleanSync" => cache'[marker(op.name)] = None
    PROVE  Signed' /\ Unknown'
<1>1. /\ op.name \in Names /\ op.at \in Labels \ Admits
      /\ process # "opening" => outcome[op.name] # None
      /\ process \in {"opening", "started", "closing"}
  BY AckHolder
<1>2. Signed'
  <2>1. process' \in {"started", "closing"} => \A n \in Names : cache'[marker(n)] # None => outcome[n] # None
    BY <1>1 DEF JInv, Signed, AckOp, Marked
  <2>2. op'.at \in Labels \ Admits /\ process' # "opening" => outcome[op'.name] # None
    BY <1>1, FreeAt DEF AckOp
  <2>3. op'.at = "markerCleanSync" => cache'[marker(op'.name)] = None
    BY DEF AckOp, Labels, Admits
  <2> QED BY <2>1, <2>2, <2>3 DEF Signed, Marked
<1>3. Unknown'
  BY DEF AckOp, Unknown
<1> QED BY <1>2, <1>3

-------------------------------------------------------------------------------
\* The steps of an acknowledgement.

LEMMA HistoryFixed ==
    ASSUME UNCHANGED <<fate, offered, decided, terminal, held, outcome>>
    PROVE  Untouched /\ Promised' = Promised
BY DEF Untouched, Promised

\* A step that fails, or that only takes the lock one step on.
LEMMA AckStays ==
    ASSUME IInv, IInv', JInv, op # Free, op.at \notin Admits, AckOp, op'.at # "markerCleanSync", Stay,
           claimed' \subseteq claimed, UNCHANGED <<fate, offered, decided, terminal, held, outcome>>
    PROVE  JInv' /\ Step
<1>1. Untouched /\ Promised' = Promised
  BY HistoryFixed
<1>2. Light
  BY <1>1 DEF Light, Stay
<1>3. Traced' /\ Pursued' /\ Sole'
  BY <1>2, LightKeeps DEF Stay, IInv
<1>4. Signed' /\ Unknown'
  BY AckSigned
<1>5. DecidedHidden'
  BY StayShrinks, ShrinkHides DEF JInv, IInv, DirInv
<1>6. Aside
  BY DEF Aside, AckOp, Admits
<1>7. Step
  BY <1>1, <1>6, StayKept, CacheKept, QuietStep DEF IInv, DirInv, Stay
<1> QED BY <1>3, <1>4, <1>5, <1>7 DEF JInv

LEMMA GotoIsAck ==
    ASSUME OpTypes, op # Free, NEW at \in Labels \ Admits, Goto(at), process' = process,
           \A n \in Names : n # op.name => cache'[marker(n)] \in {cache[marker(n)], None}
    PROVE  AckOp /\ op'.at = at /\ op'.name = op.name
BY GotoEffect DEF AckOp

LEMMA UnlockIsAck ==
    ASSUME Unlock, process' \in {process, "down"},
           \A n \in Names : n # op.name => cache'[marker(n)] \in {cache[marker(n)], None}
    PROVE  AckOp /\ op'.at = "free"
BY UnlockEffect DEF AckOp, Labels, Admits

LEMMA FailIsAck ==
    ASSUME Fail, \A n \in Names : n # op.name => cache'[marker(n)] \in {cache[marker(n)], None}
    PROVE  AckOp /\ op'.at = "free"
BY UnlockIsAck DEF Fail

LEMMA MarkerRollbackRefines ==
    ASSUME IInv, IInv', JInv, MarkerRollback PROVE JInv' /\ Step
<1> DEFINE n == op.name
<1>1. op.at = "markerRollback" /\ op # Free /\ op.at \notin Admits
  BY OpFacts DEF IInv, MarkerRollback, Labels, Admits
<1>2. /\ UNCHANGED <<process, next, records, uncounted, claimed, held, outcome>>
      /\ UNCHANGED <<fate, offered, decided, terminal>>
  BY DEF MarkerRollback, consumer, counters, history
<1>3. /\ n \in Names /\ process \in {"started", "closing"} /\ held[n] \in decided
      /\ cache[record(n)] = held[n]
      /\ \A m \in Names : held[m] # None /\ outcome[m] = None => m # n
  BY <1>1, AckHolder DEF IInv, Acknowledging, Marking
<1> HIDE DEF n
<1>4. CASE Unlock /\ UNCHANGED directory
  <2>1. Stay
    BY <1>4, StayEffect DEF IInv
  <2>2. AckOp /\ op'.at = "free"
    BY <1>2, <1>4, <2>1, UnlockIsAck DEF Stay
  <2> QED BY <1>1, <1>2, <2>1, <2>2, AckStays
<1>5. CASE Put(marker(n), None) /\ Goto("markerRollbackSync")
  <2>1. PutMarker(n, None)
    BY <1>3, <1>5, PutMarkerEffect DEF IInv
  <2>2. AckOp /\ op'.at = "markerRollbackSync"
    BY <1>1, <1>2, <1>5, <2>1, GotoIsAck DEF IInv, Labels, Admits, PutMarker
  <2>3. Untouched /\ Promised' = Promised
    BY <1>2, HistoryFixed
  <2>4. Light
    BY <1>2, <2>1, <2>3 DEF Light, PutMarker
  <2>5. Traced' /\ Pursued' /\ Sole'
    BY <1>3, <2>1, <2>4, LightKeeps DEF PutMarker, IInv
  <2>6. Signed' /\ Unknown'
    BY <1>1, <1>2, <2>2, AckSigned
  <2>7. \A e \in decided : e \in disk[record(n)] => e = held[n]
    BY <1>3, NoneAssumption DEF JInv, Sole, IInv, RestTypes
  <2>8. DecidedHidden'
    BY <1>2, <1>3, <2>1, <2>7, MarkerGoneHides DEF JInv
  <2>9. Aside
    BY <1>1, <2>2 DEF Aside
  <2>10. Step
    BY <1>3, <2>1, <2>3, <2>7, <2>9, MarkerKept, MarkerUnseen, QuietStep DEF IInv, DirInv
  <2> QED BY <2>5, <2>6, <2>8, <2>10 DEF JInv
<1> QED BY <1>4, <1>5 DEF MarkerRollback, n

LEMMA RemoveRecordRefines ==
    ASSUME IInv, IInv', JInv, RemoveRecord PROVE JInv' /\ Step
<1> DEFINE n == op.name
<1>1. op.at = "removeRecord" /\ op # Free /\ op.at \notin Admits
  BY OpFacts DEF IInv, RemoveRecord, Labels, Admits
<1>2. UNCHANGED <<fate, offered, decided, terminal, held, outcome>>
  BY DEF RemoveRecord, consumer, history
<1>3. /\ n \in Names /\ Marked(n)
      /\ \A m \in Names : held[m] # None /\ outcome[m] = None => m # n
  BY <1>1, AckHolder
<1> HIDE DEF n
<1>4. CASE Fail /\ UNCHANGED <<directory, claimed, records>>
  <2>1. Stay
    BY <1>4, StayEffect DEF IInv
  <2>2. AckOp /\ op'.at = "free"
    BY <1>4, <2>1, FailIsAck DEF Stay
  <2> QED BY <1>1, <1>2, <1>4, <2>1, <2>2, AckStays
<1>5. CASE Put(record(n), None) /\ claimed' = claimed \ {n} /\ Goto("recordSync") /\ process' = process
  <2>1. PutRecord(n, None)
    BY <1>3, <1>5, PutRecordEffect DEF IInv
  <2>2. AckOp /\ op'.at = "recordSync"
    BY <1>1, <1>5, <2>1, GotoIsAck DEF IInv, Labels, Admits, PutRecord
  <2>3. Untouched /\ Promised' = Promised
    BY <1>2, HistoryFixed
  <2>4. Light
    BY <1>2, <1>5, <2>1, <2>3, NoneAssumption DEF Light, PutRecord
  <2>5. Traced' /\ Pursued' /\ Sole'
    BY <1>3, <2>1, <2>4, LightKeeps DEF PutRecord, IInv
  <2>6. Signed' /\ Unknown'
    BY <1>1, <1>2, <2>2, AckSigned
  <2>7. DecidedHidden'
    BY <1>2, <1>3, <2>1, RecordGoneHides DEF JInv, IInv, RestTypes
  <2>8. Aside
    BY <1>1, <2>2 DEF Aside
  <2>9. Step
    BY <1>3, <2>1, <2>3, <2>8, RecordGoneKept, RecordGoneUnseen, QuietStep DEF IInv, DirInv, RestTypes
  <2> QED BY <2>5, <2>6, <2>7, <2>9 DEF JInv
<1> QED BY <1>4, <1>5 DEF RemoveRecord, n

\* Only names without a record lose their marker for good.
LEMMA RemoveMarkerRefines ==
    ASSUME IInv, IInv', JInv, RemoveMarker PROVE JInv' /\ Step
<1> DEFINE n == op.name
<1>1. op.at = "removeMarker" /\ op # Free /\ op.at \notin Admits
  BY OpFacts DEF IInv, RemoveMarker, Labels, Admits
<1>2. UNCHANGED <<fate, offered, decided, terminal, held, outcome>> /\ claimed' = claimed
  BY DEF RemoveMarker, consumer, history
<1>3. /\ n \in Names /\ cache[record(n)] = None /\ disk[record(n)] = {None}
      /\ \A m \in Names : held[m] # None /\ outcome[m] = None => m # n
  BY <1>1, AckHolder DEF Emptied
<1> HIDE DEF n
<1>4. CASE Fail /\ UNCHANGED directory
  <2>1. Stay
    BY <1>4, StayEffect DEF IInv
  <2>2. AckOp /\ op'.at = "free"
    BY <1>4, <2>1, FailIsAck DEF Stay
  <2> QED BY <1>1, <1>2, <2>1, <2>2, AckStays
<1>5. CASE Put(marker(n), None) /\ Goto("markerCleanSync") /\ process' = process
  <2>1. PutMarker(n, None)
    BY <1>3, <1>5, PutMarkerEffect DEF IInv
  <2>2. AckOp /\ op'.at = "markerCleanSync"
    BY <1>1, <1>5, <2>1, GotoIsAck DEF IInv, Labels, Admits, PutMarker
  <2>3. Untouched /\ Promised' = Promised
    BY <1>2, HistoryFixed
  <2>4. Light
    BY <1>2, <2>1, <2>3 DEF Light, PutMarker
  <2>5. Traced' /\ Pursued' /\ Sole'
    BY <1>3, <2>1, <2>4, LightKeeps DEF PutMarker, IInv
  <2>6. cache'[marker(op.name)] = None
    BY <1>3, <2>1 DEF PutMarker, n
  <2>7. Signed' /\ Unknown'
    BY <1>1, <1>2, <2>2, <2>6, AckSigned
  <2>8. \A e \in decided : e \notin disk[record(n)]
    BY <1>3, NoneAssumption DEF IInv, RestTypes
  <2>9. DecidedHidden'
    BY <1>2, <2>1, <2>8, MarkerGoneHides, <1>3 DEF JInv
  <2>10. Aside
    BY <1>1, <2>2 DEF Aside
  <2>11. Step
    BY <1>3, <2>1, <2>3, <2>8, <2>10, MarkerKept, MarkerUnseen, QuietStep DEF IInv, DirInv
  <2> QED BY <2>5, <2>7, <2>9, <2>11 DEF JInv
<1> QED BY <1>4, <1>5 DEF RemoveMarker, n

LEMMA RestoreMarkerRefines ==
    ASSUME IInv, IInv', JInv, RestoreMarker PROVE JInv' /\ Step
<1> DEFINE n == op.name
<1>1. op.at = "restoreMarker" /\ op # Free /\ op.at \notin Admits
  BY OpFacts DEF IInv, RestoreMarker, Labels, Admits
<1>2. UNCHANGED <<fate, offered, decided, terminal, held, outcome>> /\ claimed' = claimed
  BY DEF RestoreMarker, consumer, history
<1>3. /\ n \in Names /\ op.content \in Statuses /\ op.content # None
      /\ cache[record(n)] = None /\ disk[record(n)] = {None}
      /\ \A m \in Names : held[m] # None /\ outcome[m] = None => m # n
  BY <1>1, AckHolder, NoneAssumption DEF Emptied
<1> HIDE DEF n
<1>4. CASE Fail /\ UNCHANGED directory
  <2>1. Stay
    BY <1>4, StayEffect DEF IInv
  <2>2. AckOp /\ op'.at = "free"
    BY <1>4, <2>1, FailIsAck DEF Stay
  <2> QED BY <1>1, <1>2, <2>1, <2>2, AckStays
<1>5. CASE Put(marker(n), op.content) /\ Goto("restoreSync") /\ process' = process
  <2>1. PutMarker(n, op.content)
    BY <1>3, <1>5, PutMarkerEffect DEF IInv
  <2>2. AckOp /\ op'.at = "restoreSync"
    BY <1>1, <1>5, <2>1, GotoIsAck DEF IInv, Labels, Admits, PutMarker, n
  <2>3. Untouched /\ Promised' = Promised
    BY <1>2, HistoryFixed
  <2>4. Light
    BY <1>2, <2>1, <2>3 DEF Light, PutMarker
  <2>5. Traced' /\ Pursued' /\ Sole'
    BY <1>3, <2>1, <2>4, LightKeeps DEF PutMarker, IInv
  <2>6. Signed' /\ Unknown'
    BY <1>1, <1>2, <2>2, AckSigned
  <2>7. \A e \in decided : e \notin disk[record(n)]
    BY <1>3, NoneAssumption DEF IInv, RestTypes
  <2>8. DecidedHidden'
    BY <1>2, <1>3, <2>1, <2>7, MarkerSetHides DEF JInv, IInv, DirInv, RestTypes
  <2>9. Aside
    BY <1>1, <2>2 DEF Aside
  <2>10. Step
    BY <1>3, <2>1, <2>3, <2>9, MarkerKept, MarkerUnseen, QuietStep DEF IInv, DirInv
  <2> QED BY <2>5, <2>6, <2>8, <2>10 DEF JInv
<1> QED BY <1>4, <1>5 DEF RestoreMarker, n

-------------------------------------------------------------------------------
\* Syncs.

\* At startup a sync may prove several outcomes at once; while consumers run it
\* proves none that they have not been told of.
LEMMA SyncReconciles ==
    ASSUME IInv, IInv', JInv, Synced, Untouched, Aside
    PROVE  Step
<1>1. MappingIs /\ MappingIs' /\ MarkerDurable /\ MarkerDurable'
  BY StateIs, StateWas DEF IInv, DirInv
<1>2. VisibleKept
  BY CacheKept DEF IInv, Synced
<1> DEFINE found == {e \in decided : BacklogState(e) = "pending" /\ BacklogState(e)' = "done"}
<1>3. ASSUME NEW e \in Entries, e \notin found PROVE BacklogState(e)' = BacklogState(e)
  <2>1. CASE e \in decided /\ e \notin terminal /\ (\A n \in Names : held[n] # e) /\ ~ReplaySame(e)
    <3>1. Replayable(e)' => Replayable(e)
      BY DEF Replayable, Synced, IInv, DirInv, Directory
    <3>2. Within(offered, e)
      BY <2>1 DEF JInv, Traced
    <3>3. ~Over(e) /\ Over(e)'
      BY <2>1, <3>1 DEF Over, Untouched, ReplaySame
    <3>4. BacklogState(e) = "pending" /\ BacklogState(e)' = "done"
      BY <1>1, <2>1, <3>2, <3>3 DEF MappingIs, Untouched
    <3> QED BY <1>3, <2>1, <3>4
  <2>2. CASE ~(e \in decided /\ e \notin terminal /\ (\A n \in Names : held[n] # e) /\ ~ReplaySame(e))
    <3>1. Same(e)
      BY <1>2, <2>2 DEF Same, Untouched, VisibleKept
    <3> QED BY <1>1, <3>1, SameState
  <2> QED BY <2>1, <2>2
<1>4. decided \subseteq Entries /\ found \in SUBSET decided
  BY DEF IInv, RestTypes
<1>5. /\ \A e \in found : BacklogState(e) = "pending"
      /\ \A e \in Entries : BacklogState(e)' = IF e \in found THEN "done" ELSE BacklogState(e)
  BY <1>3
<1> HIDE DEF found
<1>6. Backlog!Reconcile(found)
  BY <1>4, <1>5 DEF Backlog!Reconcile, Untouched
<1> QED BY <1>4, <1>6 DEF Step, Backlog!BacklogNext

\* A sync of an acknowledgement or a reconciliation, whatever it returns.
LEMMA AckSyncs ==
    ASSUME IInv, IInv', JInv, op # Free, op.at \notin Admits, AckOp,
           op'.at = "markerCleanSync" => cache'[marker(op.name)] = None, Synced \/ Stay,
           claimed' \subseteq claimed, UNCHANGED <<fate, offered, decided, terminal, held, outcome>>
    PROVE  JInv' /\ Step
<1>1. Untouched /\ Promised' = Promised
  BY HistoryFixed
<1>2. Light
  BY <1>1 DEF Light, Stay, Synced, IInv, DirInv, Directory
<1>3. Traced' /\ Pursued' /\ Sole'
  BY <1>2, LightKeeps DEF Stay, Synced, IInv
<1>4. Signed' /\ Unknown'
  BY AckSigned
<1>5. DecidedHidden'
  BY StayShrinks, SyncShrinks, ShrinkHides DEF JInv, IInv, DirInv
<1>6. Aside
  BY DEF Aside, AckOp, Admits
<1>7. CASE Stay
  BY <1>1, <1>3, <1>4, <1>5, <1>6, <1>7, StayKept, CacheKept, QuietStep DEF JInv, IInv, DirInv, Stay
<1>8. CASE Synced
  BY <1>1, <1>3, <1>4, <1>5, <1>6, <1>8, SyncReconciles DEF JInv
<1> QED BY <1>7, <1>8

LEMMA MarkerRollbackSyncRefines ==
    ASSUME IInv, IInv', JInv, MarkerRollbackSync PROVE JInv' /\ Step
<1>1. op.at = "markerRollbackSync" /\ op # Free /\ op.at \notin Admits
  BY OpFacts DEF IInv, MarkerRollbackSync, Labels, Admits
<1>2. /\ UNCHANGED <<fate, offered, decided, terminal, held, outcome>> /\ claimed' = claimed
      /\ process' = process /\ Unlock
  BY DEF MarkerRollbackSync, consumer, history
<1>3. Synced \/ Stay
  BY SyncEffect, StayEffect DEF MarkerRollbackSync, IInv
<1>4. AckOp /\ op'.at = "free"
  BY <1>2, <1>3, UnlockIsAck DEF Synced, Stay
<1> QED BY <1>1, <1>2, <1>3, <1>4, AckSyncs

LEMMA RecordSyncRefines ==
    ASSUME IInv, IInv', JInv, RecordSync PROVE JInv' /\ Step
<1>1. op.at = "recordSync" /\ op # Free /\ op.at \notin Admits
  BY OpFacts DEF IInv, RecordSync, Labels, Admits
<1>2. UNCHANGED <<fate, offered, decided, terminal, held, outcome>> /\ claimed' = claimed
  BY DEF RecordSync, consumer, history
<1>3. Synced \/ Stay
  BY SyncEffect, StayEffect DEF RecordSync, IInv
<1>4. AckOp /\ op'.at \in {"free", "removeMarker"}
  <2>1. CASE SyncDirectory /\ Goto("removeMarker") /\ process' = process
    BY <1>1, <1>3, <2>1, GotoIsAck DEF IInv, Labels, Admits, Synced, Stay
  <2>2. CASE Fail
    BY <1>3, <2>2, FailIsAck DEF Synced, Stay
  <2> QED BY <2>1, <2>2 DEF RecordSync
<1> QED BY <1>1, <1>2, <1>3, <1>4, AckSyncs

LEMMA RestoreSyncRefines ==
    ASSUME IInv, IInv', JInv, RestoreSync PROVE JInv' /\ Step
<1>1. op.at = "restoreSync" /\ op # Free /\ op.at \notin Admits
  BY OpFacts DEF IInv, RestoreSync, Labels, Admits
<1>2. UNCHANGED <<fate, offered, decided, terminal, held, outcome>> /\ claimed' = claimed /\ Fail
  BY DEF RestoreSync, consumer, history
<1>3. Synced \/ Stay
  BY SyncEffect, StayEffect DEF RestoreSync, IInv
<1>4. AckOp /\ op'.at = "free"
  BY <1>2, <1>3, FailIsAck DEF Synced, Stay
<1> QED BY <1>1, <1>2, <1>3, <1>4, AckSyncs

\* A synced marker ends its entry, and only that one.
LEMMA MarkerSyncRefines ==
    ASSUME IInv, IInv', JInv, MarkerSync PROVE JInv' /\ Step
<1> DEFINE n == op.name
<1>1. op.at = "markerSync" /\ op # Free /\ op.at \notin Admits
  BY OpFacts DEF IInv, MarkerSync, Labels, Admits
<1>2. UNCHANGED <<process, claimed, held, outcome, fate, offered, decided>> /\ Promised' = Promised
  BY DEF MarkerSync, consumer, Promised
<1>3. /\ n \in Names /\ process \in {"started", "closing"} /\ held[n] \in decided /\ outcome[n] # None
      /\ cache[record(n)] = held[n] /\ held[n] \notin terminal
  BY <1>1, AckHolder DEF IInv, Acknowledging, Marking, DirInv, Directory
<1>4. CASE SyncMayFail /\ Goto("markerRollback") /\ UNCHANGED <<directory, terminal>>
  <2>1. Stay
    BY <1>4, StayEffect DEF IInv
  <2>2. AckOp /\ op'.at = "markerRollback"
    BY <1>1, <1>2, <1>4, <2>1, GotoIsAck DEF IInv, Labels, Admits, Stay
  <2> QED BY <1>1, <1>2, <1>4, <2>1, <2>2, AckStays
<1>5. CASE SyncDirectory /\ terminal' = terminal \cup {held[n]} /\ Goto("removeRecord")
  <2> HIDE DEF n
  <2>0. PICK e \in Entries : e = held[n]
    BY <1>3 DEF IInv, RestTypes
  <2>1. Synced /\ Shrinks
    BY <1>5, SyncEffect, SyncShrinks DEF IInv, DirInv
  <2>2. AckOp /\ op'.at = "removeRecord"
    BY <1>1, <1>2, <1>5, <2>1, GotoIsAck DEF IInv, Labels, Admits, Synced
  <2>3. Light
    BY <1>2, <2>1 DEF Light, Synced, IInv, DirInv, Directory
  <2>4. Traced' /\ Pursued' /\ Sole'
    BY <2>1, <2>3, LightKeeps DEF Synced, IInv
  <2>5. Signed' /\ Unknown'
    BY <1>1, <1>2, <2>2, AckSigned
  <2>6. DecidedHidden'
    BY <1>2, <2>1, ShrinkHides DEF JInv
  <2>7. ReplayKept
    BY <1>3, <2>1, SyncKept DEF IInv, DirInv, JInv
  <2>8. VisibleKept
    BY <1>1, <2>1, <2>2, CacheKept DEF IInv, Synced, Aside
  <2>9. \A f \in Entries : f # e => Same(f)
    BY <1>2, <1>5, <2>0, <2>7, <2>8 DEF Same, ReplayKept, VisibleKept
  <2>10. e \in decided /\ e \notin terminal /\ e \in terminal' /\ Within(offered, e) /\ held[n] = e
    BY <1>3, <1>5, <2>0 DEF JInv, Traced
  <2>11. MappingIs /\ MappingIs' /\ MarkerDurable /\ MarkerDurable'
    BY StateIs, StateWas DEF IInv, DirInv
  <2>12. BacklogState(e) = "acking"
    BY <1>3, <2>10, <2>11 DEF MappingIs, Over
  <2>13. BacklogState(e)' = "done"
    BY <1>2, <2>10, <2>11 DEF MappingIs, Over
  <2>14. Backlog!Finish(e)
    BY <1>2, <2>9, <2>10, <2>11, <2>12, <2>13, OneBecomes DEF Backlog!Finish
  <2> QED BY <2>4, <2>5, <2>6, <2>10, <2>14 DEF JInv, Step, Backlog!BacklogNext
<1> QED BY <1>4, <1>5 DEF MarkerSync, n

\* A consumer lets go of a name whose record cannot come back: its entry is done,
\* if its marker had not made it so before.
LEMMA LetsGo ==
    ASSUME IInv, IInv', JInv, NEW n \in Names, NEW e \in decided, held[n] = e, outcome[n] # None,
           held' = [held EXCEPT ![n] = None], outcome' = [outcome EXCEPT ![n] = None],
           claimed' = claimed \ {n}, process \in {"started", "closing"}, process' = process,
           offered' = offered, decided' = decided, terminal' = terminal, Promised' = Promised,
           \A m \in Names : e \notin disk[record(m)], cache[marker(n)] = None,
           Synced \/ Stay, op' = Free, Aside
    PROVE  JInv' /\ Step
<1>1. /\ \A m \in Names : /\ held'[m] = IF m = n THEN None ELSE held[m]
                          /\ outcome'[m] = IF m = n THEN None ELSE outcome[m]
      /\ e \in Entries /\ e # None /\ op'.at = "free"
  BY NoneAssumption, FreeAt DEF IInv, RestTypes
<1>2. \A m \in Names, f \in Entries : f \in disk'[record(m)] => f \in disk[record(m)]
  BY DEF Synced, Stay, IInv, DirInv, Directory
<1>3. Traced'
  BY <1>1, <1>2, NoneAssumption DEF JInv, Traced
<1>4. Pursued'
  BY <1>1 DEF JInv, Pursued, Live, Marked, Synced, Stay
<1>5. Sole'
  BY <1>1, <1>2, NoneAssumption DEF JInv, Sole, IInv, RestTypes, Promised
<1>6. Signed' /\ Unknown'
  BY <1>1 DEF JInv, Signed, Unknown, Marked, Synced, Stay, Labels, Admits
<1>7. DecidedHidden'
  BY SyncShrinks, StayShrinks, ShrinkHides DEF JInv, IInv, DirInv
<1>8. ReplayKept
  BY SyncKept, StayKept DEF IInv, DirInv, JInv
<1>9. VisibleKept
  BY CacheKept DEF IInv, Synced, Stay
<1>10. \A f \in Entries : f # e => Same(f)
  BY <1>1, <1>8, <1>9, NoneAssumption DEF Same, ReplayKept, VisibleKept
<1>11. MappingIs /\ MappingIs' /\ MarkerDurable /\ MarkerDurable'
  BY StateIs, StateWas DEF IInv, DirInv
<1>12. \A m \in Names : m # n => held[m] # e
  BY <1>1 DEF JInv, Sole
<1>13. Within(offered, e) /\ Over(e)' /\ (~Over(e) => e \notin terminal)
  BY <1>1, <1>2, <1>12 DEF Over, Replayable, JInv, Traced
<1>14. BacklogState(e) \in {"acking", "done"} /\ BacklogState(e)' = "done"
  BY <1>1, <1>11, <1>13 DEF MappingIs
<1>15. CASE BacklogState(e) = "acking"
  <2>1. Backlog!Finish(e)
    BY <1>1, <1>10, <1>11, <1>14, <1>15, OneBecomes DEF Backlog!Finish
  <2> QED BY <1>1, <1>3, <1>4, <1>5, <1>6, <1>7, <2>1 DEF JInv, Step, Backlog!BacklogNext
<1>16. CASE BacklogState(e) = "done"
  <2>1. \A f \in Entries : BacklogState(f)' = BacklogState(f)
    BY <1>10, <1>11, <1>14, <1>16, SameState
  <2>2. Step
    BY <2>1 DEF Step, Backlog!backlogVars
  <2> QED BY <1>3, <1>4, <1>5, <1>6, <1>7, <2>2 DEF JInv
<1> QED BY <1>14, <1>15, <1>16

\* The last sync of an acknowledgement: the name is free again, and its entry is
\* done if its marker was not enough for that.
LEMMA MarkerCleanSyncRefines ==
    ASSUME IInv, IInv', JInv, MarkerCleanSync PROVE JInv' /\ Step
<1> DEFINE n == op.name
<1>1. op.at = "markerCleanSync" /\ op # Free /\ op.at \notin Admits
  BY OpFacts DEF IInv, MarkerCleanSync, Labels, Admits
<1>2. UNCHANGED <<process, fate, offered, decided, terminal>> /\ Promised' = Promised
  BY DEF MarkerCleanSync, history, Promised
<1>3. /\ n \in Names /\ disk[record(n)] = {None} /\ cache[record(n)] = None /\ cache[marker(n)] = None
      /\ process \in {"opening", "started", "closing"}
      /\ process # "opening" => held[n] \in decided /\ outcome[n] # None
      /\ process = "opening" => \A m \in Names : held[m] = None /\ outcome[m] = None
  BY <1>1, AckHolder DEF Emptied, JInv, Signed, Marked
<1>4. CASE Goto("restoreMarker") /\ UNCHANGED <<directory, claimed, consumer>>
  <2>1. Stay /\ UNCHANGED <<held, outcome>>
    BY <1>4, StayEffect DEF IInv, consumer
  <2>2. AckOp /\ op'.at = "restoreMarker"
    BY <1>1, <1>2, <1>4, <2>1, GotoIsAck DEF IInv, Labels, Admits, Stay
  <2> QED BY <1>1, <1>2, <1>4, <2>1, <2>2, AckStays
<1>5. CASE /\ SyncDirectory /\ claimed' = claimed \ {n} /\ held' = [held EXCEPT ![n] = None]
           /\ outcome' = [outcome EXCEPT ![n] = None] /\ Unlock
  <2> HIDE DEF n
  <2>1. Synced /\ Shrinks
    BY <1>5, SyncEffect, SyncShrinks DEF IInv, DirInv
  <2>2. AckOp /\ op'.at = "free" /\ op' = Free
    BY <1>2, <1>5, <2>1, UnlockIsAck, UnlockEffect DEF Synced
  <2>3. CASE process = "opening"
    <3>1. held' = held /\ outcome' = outcome
      BY <1>3, <1>5, <2>3 DEF IInv, RestTypes
    <3> QED BY <1>1, <1>2, <1>5, <2>1, <2>2, <3>1, AckSyncs
  <2>4. CASE process # "opening"
    <3>1. PICK e \in decided : e = held[n]
      BY <1>3, <2>4
    <3>2. \A m \in Names : e \notin disk[record(m)]
      BY <1>3, <3>1, NoneAssumption DEF JInv, Sole, IInv, RestTypes
    <3>3. Aside
      BY <1>1, <2>2 DEF Aside
    <3> QED BY <1>2, <1>3, <1>5, <2>1, <2>2, <2>4, <3>1, <3>2, <3>3, LetsGo
  <2> QED BY <2>3, <2>4
<1> QED BY <1>4, <1>5 DEF MarkerCleanSync, n

-------------------------------------------------------------------------------
\* AckTerminal.

\* An outcome is decided for a record that is there, unmarked.  It is a decision
\* the first time only.
LEMMA OutcomeDecided ==
    ASSUME IInv, IInv', JInv, NEW n \in Names, NEW status \in Statuses,
           Acknowledges(n, status), Live(n), ~Marked(n),
           outcome' = [outcome EXCEPT ![n] = status], held' = held, claimed' = claimed,
           offered' = offered, terminal' = terminal, Promised' = Promised,
           ReplayKept, VisibleKept,
           \A m \in Names : /\ m # n => cache'[marker(m)] = cache[marker(m)]
                            /\ cache'[record(m)] = cache[record(m)]
                            /\ disk'[record(m)] = disk[record(m)]
    PROVE  Traced' /\ Pursued' /\ Sole' /\ Step
<1>1. held[n] \in Entries /\ decided' = decided \cup {held[n]} /\ cache[record(n)] = held[n]
  BY AcknowledgesFacts DEF Live
<1>2. PICK e \in Entries : e = held[n]
  BY <1>1
<1>3. /\ \A m \in Names : outcome'[m] = IF m = n THEN status ELSE outcome[m]
      /\ status # None /\ e # None
  BY NoneAssumption DEF IInv, RestTypes
<1>4. e \in disk[record(n)] /\ e \notin terminal /\ \A m \in Names : held[m] = e => m = n
  BY <1>1, <1>2, <1>3 DEF IInv, DirInv, Directory, MarkerDurable, Marked, JInv, Sole
<1>5. Traced'
  BY <1>1, <1>2, <1>4 DEF JInv, Traced
<1>6. Pursued'
  BY <1>1, <1>2, <1>3, <1>4 DEF JInv, Pursued, Live, Marked
<1>7. Sole'
  BY <1>1, <1>2, <1>3 DEF JInv, Sole
<1>8. Within(offered, e) /\ ~Over(e) /\ ~Over(e)'
  BY <1>2, <1>4 DEF JInv, Traced, Over
<1>9. MappingIs /\ MappingIs' /\ MarkerDurable /\ MarkerDurable'
  BY StateIs, StateWas DEF IInv, DirInv
<1>10. \A f \in Entries : f # e => Same(f)
  BY <1>1, <1>2, <1>3 DEF Same, ReplayKept, VisibleKept
<1>11. CASE outcome[n] = None
  <2>1. BacklogState(e) = "claimed" /\ BacklogState(e)' = "acking"
    BY <1>2, <1>3, <1>4, <1>8, <1>9, <1>11 DEF MappingIs
  <2>2. Backlog!Decide(e)
    BY <1>1, <1>2, <1>9, <1>10, <2>1, OneBecomes DEF Backlog!Decide
  <2> QED BY <1>5, <1>6, <1>7, <2>2 DEF Step, Backlog!BacklogNext
<1>12. CASE outcome[n] # None
  <2>1. e \in decided /\ decided' = decided
    BY <1>1, <1>2, <1>12 DEF JInv, Pursued
  <2>2. Same(e)
    BY <1>2, <1>3, <1>4, <1>12, <2>1 DEF Same
  <2>3. \A f \in Entries : Same(f)
    BY <1>10, <2>2
  <2> QED BY <1>5, <1>6, <1>7, <1>9, <2>1, <2>3, SameIsStep
<1> QED BY <1>11, <1>12

LEMMA AckTerminalFailsRefines ==
    ASSUME IInv, IInv', JInv, NEW n \in Names, NEW status \in Statuses, AckTerminalFails(n, status)
    PROVE  JInv' /\ Step
<1>1. /\ Acknowledges(n, status) /\ Live(n) /\ ~Marked(n) /\ outcome' = [outcome EXCEPT ![n] = status]
      /\ UNCHANGED <<process, directory, claimed, held, op, fate, offered, terminal>>
  BY DEF AckTerminalFails
<1>2. Stay /\ Promised' = Promised
  BY <1>1, StayEffect DEF IInv, Promised
<1>3. /\ op = Free /\ op' = Free /\ op.at = "free" /\ process \in {"started", "closing"}
      /\ held[n] \in Entries /\ decided' = decided \cup {held[n]} /\ cache[record(n)] \in {held[n], None}
  BY <1>1, AcknowledgesFacts, FreeAt
<1>4. ReplayKept /\ VisibleKept
  BY <1>2, <1>3, StayKept, CacheKept DEF IInv, Aside, Stay
<1>5. Traced' /\ Pursued' /\ Sole' /\ Step
  BY <1>1, <1>2, <1>4, OutcomeDecided DEF Stay
<1>6. Signed' /\ Unknown'
  BY <1>1, <1>2, <1>3, NoneAssumption DEF JInv, Signed, Unknown, Marked, Stay, Labels, Admits, IInv, RestTypes
<1>7. DecidedHidden'
  <2>1. \A m \in Names : held[n] \in disk[record(m)] => m = n
    BY <1>3, NoneAssumption DEF JInv, Sole
  <2>2. cache[record(n)] = held[n]
    BY <1>1, <1>3 DEF Live
  <2> QED BY <1>2, <1>3, <2>1, <2>2 DEF JInv, DecidedHidden, Marked, Stay
<1> QED BY <1>5, <1>6, <1>7 DEF JInv

LEMMA AckTerminalRefines ==
    ASSUME IInv, IInv', JInv, NEW n \in Names, NEW status \in Statuses, AckTerminal(n, status)
    PROVE  JInv' /\ Step
<1>1. UNCHANGED <<process, fate, offered, terminal>> /\ Promised' = Promised /\ Acknowledges(n, status)
  BY DEF AckTerminal, Promised
<1>2. /\ op = Free /\ op.at = "free" /\ process \in {"started", "closing"}
      /\ held[n] \in Entries /\ decided' = decided \cup {held[n]} /\ cache[record(n)] \in {held[n], None}
  BY <1>1, AcknowledgesFacts, FreeAt
<1>3. CASE /\ Live(n) /\ ~Marked(n) /\ Put(marker(n), status) /\ Lock("markerSync", n, status)
           /\ outcome' = [outcome EXCEPT ![n] = status] /\ UNCHANGED <<claimed, held>>
  <2>1. PutMarker(n, status) /\ status # None
    BY <1>3, PutMarkerEffect, NoneAssumption DEF IInv
  <2>2. op'.at = "markerSync" /\ op'.name = n
    BY <1>3, LockEffect DEF Labels
  <2>3. ReplayKept /\ VisibleKept
    BY <1>2, <2>1, <2>2, MarkerKept, MarkerUnseen DEF IInv, Aside
  <2>4. Traced' /\ Pursued' /\ Sole' /\ Step
    BY <1>1, <1>3, <2>1, <2>3, OutcomeDecided DEF PutMarker
  <2>5. Signed' /\ Unknown'
    BY <1>1, <1>2, <1>3, <2>1, <2>2
       DEF JInv, Signed, Unknown, Marked, PutMarker, Labels, Admits, IInv, RestTypes
  <2>6. cache[record(n)] = held[n] /\ decided' \subseteq Entries
    BY <1>2, <1>3 DEF Live, IInv, RestTypes
  <2>7. DecidedHidden'
    BY <1>2, <2>1, <2>6, MarkerSetHides DEF JInv, IInv, DirInv
  <2> QED BY <2>4, <2>5, <2>7 DEF JInv
<1>4. CASE /\ Marked(n) /\ Lock(IF Live(n) THEN "removeRecord" ELSE "recordSync", n, cache[marker(n)])
           /\ UNCHANGED <<directory, claimed, consumer>>
  <2>1. Stay /\ held' = held /\ outcome' = outcome
    BY <1>4, StayEffect DEF IInv, consumer
  <2>2. cache[marker(n)] \in Statuses
    BY <1>4 DEF IInv, DirInv, Directory, Marked
  <2>3. op'.at \in {"removeRecord", "recordSync"} /\ op'.name = n
    BY <1>4, <2>2, LockEffect DEF Labels
  <2>4. outcome[n] # None /\ decided' = decided
    BY <1>2, <1>4 DEF JInv, Signed, Pursued
  <2>5. Light /\ Untouched
    BY <1>1, <1>4, <2>1, <2>4 DEF Light, Untouched, Stay
  <2>6. Traced' /\ Pursued' /\ Sole'
    BY <2>1, <2>5, LightKeeps DEF Stay, IInv
  <2>7. Signed' /\ Unknown'
    BY <1>1, <2>1, <2>3, <2>4 DEF JInv, Signed, Unknown, Marked, Stay, Labels, Admits
  <2>8. DecidedHidden'
    BY <2>1, <2>4, StayShrinks, ShrinkHides DEF JInv, IInv, DirInv
  <2>9. Step
    BY <1>2, <2>1, <2>3, <2>5, StayKept, CacheKept, QuietStep DEF IInv, DirInv, Aside, Stay
  <2> QED BY <2>6, <2>7, <2>8, <2>9 DEF JInv
<1>5. CASE /\ ~Live(n) /\ ~Marked(n) /\ claimed' = claimed \ {n} /\ held' = [held EXCEPT ![n] = None]
           /\ outcome' = [outcome EXCEPT ![n] = None] /\ UNCHANGED <<directory, op>>
  <2>1. Stay
    BY <1>5, StayEffect DEF IInv
  <2>2. outcome[n] # None
    BY <1>2, <1>5, NoneAssumption DEF JInv, Pursued
  <2>3. PICK e \in decided : e = held[n] /\ decided' = decided
    BY <1>2, <2>2 DEF JInv, Pursued
  <2>4. \A m \in Names : e \notin disk[record(m)]
    <3>1. e \notin disk[record(n)]
      BY <1>2, <1>5, <2>3, NoneAssumption DEF JInv, DecidedHidden, Live
    <3> QED BY <1>2, <2>3, <3>1, NoneAssumption DEF JInv, Sole
  <2>5. op' = Free /\ Aside
    BY <1>2, <1>5 DEF Aside
  <2> QED BY <1>1, <1>2, <1>5, <2>1, <2>2, <2>3, <2>4, <2>5, LetsGo DEF Marked
<1> QED BY <1>3, <1>4, <1>5 DEF AckTerminal

-------------------------------------------------------------------------------
\* Admissions.

\* An admission under way: nobody has anything to do with it yet, and its name is
\* nobody's; until it is taken back, its record is there, and not seen.
LEMMA AdmitFacts ==
    ASSUME IInv, JInv, op # Free, op.at \in Admits
    PROVE  /\ op.name \in Names /\ op.content \in Entries /\ process = "started"
           /\ fate[op.content] = "offered" /\ op.content \notin Promised \cup decided
           /\ held[op.name] = None /\ cache[marker(op.name)] = None
           /\ \A m \in Names : held[m] # op.content
           /\ op.at # "admitRollbackSync" =>
                 /\ cache[record(op.name)] = op.content /\ Within(offered, op.content)
                 /\ \A m \in Names : op.content \in disk[record(m)] => m = op.name
<1>1. /\ op.name \in Names /\ op.content \in Entries /\ process = "started"
      /\ fate[op.content] = "offered" /\ op.content \notin Promised \cup decided
      /\ held[op.name] = None /\ cache[marker(op.name)] = None
      /\ \A m \in Names : held[m] # op.content
      /\ op.at # "admitRollbackSync" => cache[record(op.name)] = op.content
  BY OpFacts DEF IInv, Admitting, JInv, Unknown, Promised
<1>2. op.at # "admitRollbackSync" => op.content \in disk[record(op.name)]
  BY <1>1 DEF IInv, DirInv, Directory
<1>3. \A m \in Names : op.at # "admitRollbackSync" /\ op.content \in disk[record(m)] => m = op.name
  BY <1>1, <1>2 DEF IInv, DirInv, Fresh
<1> QED BY <1>1, <1>2, <1>3 DEF JInv, Traced

LEMMA AdmitSigned ==
    ASSUME JInv, op.at \in Admits, op'.at \in Admits, op'.content = op.content, process' = process,
           decided' = decided, held' = held, outcome' = outcome,
           \A m \in Names : cache'[marker(m)] = cache[marker(m)]
    PROVE  Signed' /\ Unknown'
BY DEF JInv, Signed, Unknown, Marked, Admits

\* The one entry whose sight an admission's step may change is its own.
LEMMA AdmitUnseen ==
    ASSUME IInv, IInv', JInv, op # Free, op.at \in {"admitSync", "admitRollback"}, NEW f \in Entries, f # op.content,
           op'.at \in {"free", "admitRollbackSync"} \/ op'.name = op.name,
           \A m \in Names : /\ cache'[marker(m)] = cache[marker(m)]
                            /\ cache'[record(m)] = cache[record(m)] \/ (m = op.name /\ cache'[record(m)] = None)
    PROVE  VisibleSame(f)
<1>1. op.name \in Names /\ cache[record(op.name)] = op.content /\ op'.name = op'.name
  BY AdmitFacts DEF Admits
<1>2. \A m \in Names : m # op.name => ~UnderWay(m) /\ ~UnderWay(m)'
  BY UnderWayAt, UnderWayWas DEF IInv
<1> QED BY <1>1, <1>2, NoneAssumption DEF VisibleSame, Visible, Marked

LEMMA AdmitSyncRefines ==
    ASSUME IInv, IInv', JInv, AdmitSync PROVE JInv' /\ Step
<1> DEFINE n == op.name
<1>1. op.at = "admitSync" /\ op # Free
  BY OpFacts DEF IInv, AdmitSync, Labels
<1>2. UNCHANGED <<process, claimed, held, outcome, offered, decided, terminal>>
  BY DEF AdmitSync, consumer
<1>3. PICK e \in Entries : e = op.content
  BY <1>1, AdmitFacts DEF Admits
<1>4. /\ n \in Names /\ process = "started" /\ fate[e] = "offered" /\ e \notin Promised \cup decided
      /\ held[n] = None /\ cache[marker(n)] = None /\ (\A m \in Names : held[m] # e)
      /\ cache[record(n)] = e /\ Within(offered, e)
      /\ \A m \in Names : e \in disk[record(m)] => m = n
  BY <1>1, <1>3, AdmitFacts DEF Admits
<1>5. MappingIs /\ MappingIs' /\ MarkerDurable /\ MarkerDurable'
  BY StateIs, StateWas DEF IInv, DirInv
<1>6. CASE Goto("admitRollback") /\ UNCHANGED <<directory, records, fate>>
  <2>1. Stay /\ Promised' = Promised
    BY <1>6, StayEffect DEF IInv, Promised
  <2>2. op'.at = "admitRollback" /\ op'.name = op.name /\ op'.content = op.content
    BY <1>1, <1>6, GotoEffect DEF IInv, Labels
  <2>3. Untouched /\ Light
    BY <1>2, <2>1 DEF Untouched, Light, Stay
  <2>4. Traced' /\ Pursued' /\ Sole'
    BY <2>1, <2>3, LightKeeps DEF Stay, IInv
  <2>5. Signed' /\ Unknown'
    BY <1>1, <1>2, <2>1, <2>2, AdmitSigned DEF Admits, Stay
  <2>6. DecidedHidden'
    BY <1>2, <2>1, StayShrinks, ShrinkHides DEF JInv, IInv, DirInv
  <2>7. \A m \in Names : UnderWay(m)' <=> UnderWay(m)
    BY <1>1, <2>2, UnderWayAt, UnderWayWas DEF IInv
  <2>8. VisibleKept
    BY <2>1, <2>7 DEF VisibleKept, VisibleSame, Visible, Marked, Stay
  <2>9. Step
    BY <2>1, <2>3, <2>8, StayKept, QuietStep DEF IInv, DirInv
  <2> QED BY <2>4, <2>5, <2>6, <2>9 DEF JInv
<1>7. CASE SyncDirectory /\ fate' = [fate EXCEPT ![op.content] = "promised"] /\ Unlock
  <2> HIDE DEF n
  <2>1. Synced /\ Shrinks
    BY <1>7, SyncEffect, SyncShrinks DEF IInv, DirInv
  <2>2. op'.at = "free" /\ Promised' = Promised \cup {e}
    BY <1>3, <1>7, UnlockEffect DEF IInv, RestTypes, Promised
  <2>3. \A m \in Names, f \in Entries : f \in disk'[record(m)] => f \in disk[record(m)]
    BY <2>1 DEF Synced, IInv, DirInv, Directory
  <2>4. Traced'
    BY <1>2, <1>4, <2>2, <2>3 DEF JInv, Traced
  <2>5. Pursued'
    BY <1>2, <2>1 DEF JInv, Pursued, Live, Marked, Synced
  <2>6. Sole'
    BY <1>2, <1>4, <2>2, <2>3, NoneAssumption DEF JInv, Sole, IInv, RestTypes, Promised
  <2>7. Signed' /\ Unknown'
    BY <1>2, <2>1, <2>2, FreeSigned DEF Synced
  <2>8. DecidedHidden'
    BY <1>2, <2>1, ShrinkHides DEF JInv
  <2>9. ReplayKept
    BY <1>4, <2>1, SyncKept DEF IInv, DirInv, JInv
  <2>10. \A f \in Entries : f # e => VisibleSame(f)
    BY <1>1, <1>3, <2>1, <2>2, AdmitUnseen DEF Synced
  <2>11. \A f \in Entries : f # e => Same(f)
    BY <1>2, <2>2, <2>9, <2>10 DEF Same, ReplayKept
  <2>12. ~Visible(e)
    <3>1. \A m \in Names : cache[record(m)] = e => m = n
      BY <1>4 DEF IInv, DirInv, Directory
    <3> QED BY <1>1, <3>1, UnderWayAt DEF Visible, IInv, n
  <2>13. BacklogState(e) = "uncertain"
    BY <1>4, <1>5, <2>12 DEF MappingIs, Over
  <2>14. BacklogState(e)' = "pending"
    BY <1>2, <1>4, <1>5, <2>2 DEF MappingIs, Over
  <2>15. Backlog!Promise(e)
    BY <1>2, <1>5, <2>2, <2>11, <2>13, <2>14, OneBecomes DEF Backlog!Promise
  <2> QED BY <2>4, <2>5, <2>6, <2>7, <2>8, <2>15 DEF JInv, Step, Backlog!BacklogNext
<1> QED BY <1>6, <1>7 DEF AdmitSync

\* A record that cannot be taken back turns up although its admission was refused.
LEMMA AdmitRollbackRefines ==
    ASSUME IInv, IInv', JInv, AdmitRollback PROVE JInv' /\ Step
<1> DEFINE n == op.name
<1>1. op.at = "admitRollback" /\ op # Free
  BY OpFacts DEF IInv, AdmitRollback, Labels
<1>2. UNCHANGED <<process, claimed, held, outcome, offered, decided, terminal>>
  BY DEF AdmitRollback, consumer
<1>3. PICK e \in Entries : e = op.content
  BY <1>1, AdmitFacts DEF Admits
<1>4. /\ n \in Names /\ fate[e] = "offered" /\ e \notin Promised \cup decided
      /\ held[n] = None /\ cache[marker(n)] = None /\ (\A m \in Names : held[m] # e)
      /\ cache[record(n)] = e /\ Within(offered, e)
      /\ \A m \in Names : e \in disk[record(m)] => m = n
  BY <1>1, <1>3, AdmitFacts DEF Admits
<1>5. MappingIs /\ MappingIs' /\ MarkerDurable /\ MarkerDurable'
  BY StateIs, StateWas DEF IInv, DirInv
<1>6. \A m \in Names : cache[record(m)] = e => m = n
  BY <1>4 DEF IInv, DirInv, Directory
<1>7. ~Visible(e)
  BY <1>1, <1>6, UnderWayAt DEF Visible, IInv
<1>8. CASE Put(record(n), None) /\ Goto("admitRollbackSync") /\ fate' = fate
  <2>1. PutRecord(n, None) /\ Promised' = Promised
    BY <1>4, <1>8, PutRecordEffect DEF IInv, Promised
  <2>2. op'.at = "admitRollbackSync" /\ op'.content = op.content
    BY <1>1, <1>8, GotoEffect DEF IInv, Labels
  <2> HIDE DEF n
  <2>3. Untouched /\ Light
    BY <1>2, <2>1, NoneAssumption DEF Untouched, Light, PutRecord
  <2>4. Traced' /\ Pursued' /\ Sole'
    BY <1>4, <2>1, <2>3, LightKeeps DEF PutRecord, IInv
  <2>5. Signed' /\ Unknown'
    BY <1>1, <1>2, <2>1, <2>2, AdmitSigned DEF Admits, PutRecord
  <2>6. \A f \in decided : f \in disk[record(n)] => Marked(n)
    BY <1>4 DEF JInv, DecidedHidden
  <2>7. DecidedHidden'
    BY <1>2, <1>4, <2>1, <2>6, RecordGoneHides DEF JInv, IInv, RestTypes
  <2>8. VisibleKept
    <3>1. \A f \in Entries : f # e => VisibleSame(f)
      BY <1>1, <1>3, <2>1, <2>2, AdmitUnseen DEF PutRecord, n
    <3>2. ~Visible(e)'
      BY <1>6, <2>1, NoneAssumption DEF Visible, PutRecord
    <3> QED BY <1>7, <3>1, <3>2 DEF VisibleKept, VisibleSame
  <2>9. Step
    BY <1>4, <2>1, <2>3, <2>8, RecordGoneKept, QuietStep DEF IInv, DirInv, RestTypes
  <2> QED BY <2>4, <2>5, <2>7, <2>9 DEF JInv
<1>9. CASE Unlock /\ fate' = [fate EXCEPT ![op.content] = "refused"] /\ UNCHANGED directory
  <2>1. Stay /\ Promised' = Promised
    BY <1>3, <1>4, <1>9, StayEffect DEF IInv, RestTypes, Promised
  <2>2. op'.at = "free"
    BY <1>9, UnlockEffect
  <2> HIDE DEF n
  <2>3. Untouched /\ Light
    BY <1>2, <2>1 DEF Untouched, Light, Stay
  <2>4. Traced' /\ Pursued' /\ Sole'
    BY <2>1, <2>3, LightKeeps DEF Stay, IInv
  <2>5. Signed' /\ Unknown'
    BY <1>2, <2>1, <2>2, FreeSigned DEF Stay
  <2>6. DecidedHidden'
    BY <1>2, <2>1, StayShrinks, ShrinkHides DEF JInv, IInv, DirInv
  <2>7. \A f \in Entries : f # e => VisibleSame(f)
    BY <1>1, <1>3, <2>1, <2>2, AdmitUnseen DEF Stay
  <2>8. \A f \in Entries : f # e => Same(f)
    BY <2>1, <2>3, <2>7, StayKept DEF Same, Untouched, ReplayKept
  <2>9. Visible(e)'
    BY <1>4, <2>1, <2>2, UnderWayWas DEF Visible, Marked, Stay, IInv
  <2>10. BacklogState(e) = "uncertain"
    BY <1>4, <1>5, <1>7 DEF MappingIs, Over
  <2>11. BacklogState(e)' = "pending"
    BY <1>2, <1>4, <1>5, <2>9 DEF MappingIs, Over
  <2>12. Backlog!Surface(e)
    BY <1>2, <1>5, <2>1, <2>8, <2>10, <2>11, OneBecomes DEF Backlog!Surface
  <2> QED BY <2>4, <2>5, <2>6, <2>12 DEF JInv, Step, Backlog!BacklogNext
<1> QED BY <1>8, <1>9 DEF AdmitRollback

LEMMA AdmitRollbackSyncRefines ==
    ASSUME IInv, IInv', JInv, AdmitRollbackSync PROVE JInv' /\ Step
<1>1. op.at = "admitRollbackSync" /\ op # Free
  BY OpFacts DEF IInv, AdmitRollbackSync, Labels
<1>2. UNCHANGED <<process, claimed, held, outcome, offered, decided, terminal>>
  BY DEF AdmitRollbackSync, consumer
<1>3. process = "started" /\ fate' = [fate EXCEPT ![op.content] = "refused"] /\ op.content \notin Promised
  BY <1>1, AdmitFacts DEF Admits, AdmitRollbackSync
<1>4. Promised' = Promised
  BY <1>3 DEF Promised, IInv, RestTypes
<1>5. (Synced \/ Stay) /\ Shrinks
  BY SyncEffect, StayEffect, SyncShrinks, StayShrinks DEF AdmitRollbackSync, IInv, DirInv
<1>6. op'.at = "free"
  BY UnlockEffect DEF AdmitRollbackSync
<1>7. Untouched /\ Light
  BY <1>2, <1>4, <1>5 DEF Untouched, Light, Synced, Stay, IInv, DirInv, Directory
<1>8. Traced' /\ Pursued' /\ Sole'
  BY <1>5, <1>7, LightKeeps DEF Synced, Stay, IInv
<1>9. Signed' /\ Unknown'
  BY <1>2, <1>5, <1>6, FreeSigned DEF Synced, Stay
<1>10. DecidedHidden'
  BY <1>2, <1>5, ShrinkHides DEF JInv
<1>11. ReplayKept
  BY <1>3, <1>5, SyncKept, StayKept DEF IInv, DirInv, JInv
<1>12. VisibleKept
  BY <1>1, <1>5, <1>6, CacheKept DEF IInv, Synced, Stay, Aside
<1>13. Step
  BY <1>7, <1>11, <1>12, QuietStep DEF IInv, DirInv
<1> QED BY <1>8, <1>9, <1>10, <1>13 DEF JInv

LEMMA AdmitRefusedRefines ==
    ASSUME IInv, IInv', JInv, NEW e \in Entries, AdmitRefused(e) PROVE JInv' /\ Step
<1>1. op = Free /\ op' = Free /\ op.at = "free" /\ op'.at = "free"
  BY FreeAt DEF AdmitRefused
<1>2. UNCHANGED <<process, claimed, held, outcome, offered, decided, terminal>>
  BY DEF AdmitRefused, consumer
<1>3. Promised' = Promised
  BY DEF AdmitRefused, Promised, IInv, RestTypes
<1>4. Stay /\ Shrinks
  BY StayEffect, StayShrinks DEF AdmitRefused, IInv, DirInv
<1>5. Untouched /\ Light
  BY <1>2, <1>3, <1>4 DEF Untouched, Light, Stay
<1>6. Traced' /\ Pursued' /\ Sole'
  BY <1>4, <1>5, LightKeeps DEF Stay, IInv
<1>7. Signed' /\ Unknown'
  BY <1>1, <1>2, <1>4, FreeSigned DEF Stay
<1>8. DecidedHidden'
  BY <1>2, <1>4, ShrinkHides DEF JInv
<1>9. Step
  BY <1>1, <1>4, <1>5, StayKept, CacheKept, QuietStep DEF IInv, DirInv, Aside, Stay
<1> QED BY <1>6, <1>7, <1>8, <1>9 DEF JInv

\* An entry is offered under a name nothing was known about.
LEMMA AdmitRefines ==
    ASSUME IInv, IInv', JInv, NEW e \in Entries, Admit(e) PROVE JInv' /\ Step
<1> DEFINE n == NextName
<1>1. op = Free /\ op.at = "free" /\ fate[e] = "new" /\ process = "started" /\ n \in Names /\ n >= next /\ ~Live(n)
  BY NextNameType, FreeAt DEF Admit, IInv, RestTypes
<1>2. fate' = [fate EXCEPT ![e] = "offered"] /\ offered' = Append(offered, e)
  BY DEF Admit
<1>3. UNCHANGED <<process, claimed, held, outcome, decided, terminal>>
  BY DEF Admit, consumer
<1>4. PutRecord(n, e)
  BY <1>1, PutRecordEffect DEF Admit, IInv
<1>5. op'.at = "admitSync" /\ op'.name = n /\ op'.content = e
  BY <1>1, LockEffect DEF Admit, Labels
<1> HIDE DEF n
<1>6. Promised' = Promised /\ e \notin Promised
  BY <1>1, <1>2 DEF IInv, RestTypes, Promised
<1>7. \A a : Within(offered', a) <=> a = e \/ Within(offered, a)
  BY <1>2, AppendOrder DEF IInv, RestTypes
<1>8. /\ ~Within(offered, e) /\ e \notin decided /\ e \notin terminal /\ e # None
      /\ \A m \in Names : e \notin disk[record(m)] /\ held[m] # e
  BY <1>1, NoneAssumption DEF IInv, DirInv, Fresh, JInv, Traced
<1>9. held[n] = None /\ ~Marked(n)
  <2>1. held[n] # None => n < next
    BY <1>1 DEF IInv, Memory, Handed
  <2>2. n \in Nat /\ next \in Nat
    BY <1>1, NameTypes DEF IInv, RestTypes
  <2> QED BY <1>1, <2>1, <2>2 DEF IInv, Memory, Unused, Up
<1>10. \A f \in Entries, m \in Names : f \in disk'[record(m)] <=> f \in disk[record(m)] \/ (f = e /\ m = n)
  BY <1>4 DEF PutRecord
<1>11. Traced'
  BY <1>3, <1>6, <1>7, <1>10 DEF JInv, Traced
<1>12. Pursued'
  BY <1>3, <1>4, <1>9 DEF JInv, Pursued, Live, Marked, PutRecord
<1>13. Sole'
  <2>1. \A m \in Names : held[m] # None => held[m] \in Entries
    BY DEF IInv, RestTypes
  <2>2. \A f \in Promised \cup decided : f \in Entries /\ f # e
    BY <1>6, <1>8 DEF Promised, IInv, RestTypes
  <2> QED BY <1>3, <1>6, <1>8, <1>10, <2>1, <2>2 DEF JInv, Sole
<1>14. Signed' /\ Unknown'
  BY <1>1, <1>3, <1>4, <1>5, <1>8 DEF JInv, Signed, Unknown, Marked, PutRecord, Admits
<1>15. DecidedHidden'
  <2>1. \A f \in decided : f \in Entries /\ f # e /\ f # None
    BY <1>8, NoneAssumption DEF IInv, RestTypes
  <2>2. \A f \in decided : f \notin disk[record(n)]
    BY <1>1, <1>9, <2>1 DEF JInv, DecidedHidden, Live
  <2> QED BY <1>3, <1>4, <1>10, <2>1, <2>2 DEF JInv, DecidedHidden, Marked, PutRecord
<1>16. \A f \in Entries : f # e => ReplaySame(f)
  BY <1>4, <1>10 DEF ReplaySame, Replayable, PutRecord
<1>17. \A m \in Names : ~UnderWay(m) /\ (UnderWay(m)' <=> m = n)
  BY <1>1, <1>5, UnderWayAt, UnderWayWas DEF IInv
<1>18. \A f \in Entries : f # e => VisibleSame(f)
  BY <1>1, <1>4, <1>17, NoneAssumption DEF VisibleSame, Visible, Marked, Live, PutRecord
<1>19. ~Visible(e)'
  <2>1. \A m \in Names : cache[record(m)] # e
    BY <1>8 DEF IInv, DirInv, Directory
  <2> QED BY <1>4, <1>17, <2>1 DEF Visible, PutRecord
<1>20. \A f \in Entries : f # e => Same(f)
  BY <1>3, <1>6, <1>7, <1>16, <1>18 DEF Same
<1>21. MappingIs /\ MappingIs' /\ MarkerDurable /\ MarkerDurable'
  BY StateIs, StateWas DEF IInv, DirInv
<1>22. BacklogState(e) = "absent"
  BY <1>8, <1>21 DEF MappingIs
<1>23. BacklogState(e)' = "uncertain"
  BY <1>3, <1>6, <1>7, <1>8, <1>19, <1>21 DEF MappingIs, Over
<1>24. Backlog!Offer(e)
  BY <1>2, <1>3, <1>6, <1>20, <1>21, <1>22, <1>23, OneBecomes DEF Backlog!Offer
<1> QED BY <1>11, <1>12, <1>13, <1>14, <1>15, <1>24 DEF JInv, Step, Backlog!BacklogNext

-------------------------------------------------------------------------------
\* Claims.

\* What may come back of a promised or decided entry is there, unmarked and
\* unclaimed, unless somebody holds it.
LEMMA ReplayableIsClaimable ==
    ASSUME IInv, JInv, process = "started", NEW f \in Entries, f \in Promised \cup decided,
           \A n \in Names : held[n] # f, NEW m \in Names, f \in disk[record(m)]
    PROVE  m \in Claimable
<1>1. held[m] = None
  BY DEF JInv, Sole
<1>2. ~Marked(m) /\ m \notin claimed
  BY <1>1, NoneAssumption DEF JInv, Signed, Pursued, IInv, RestTypes
<1>3. cache[record(m)] = f
  BY <1>2 DEF JInv, DecidedHidden, IInv, DirInv, Hidden
<1> QED BY <1>2, <1>3, NoneAssumption DEF Claimable, Live

LEMMA ClaimNextRefines ==
    ASSUME IInv, IInv', JInv, ClaimNext PROVE JInv' /\ Step
<1> DEFINE n == Min(Claimable)
<1>1. op = Free /\ op' = Free /\ process = "started" /\ n \in Claimable /\ (\A k \in Claimable : n <= k)
      /\ op.at = "free" /\ op'.at = "free"
  BY Smallest, NameTypes, FreeAt DEF ClaimNext, Claimable
<1>2. /\ claimed' = claimed \cup {n} /\ held' = [held EXCEPT ![n] = cache[record(n)]]
      /\ UNCHANGED <<process, directory, outcome>>
      /\ UNCHANGED <<fate, offered, decided, terminal>> /\ Promised' = Promised
  BY DEF ClaimNext, history, Promised
<1> HIDE DEF n
<1>3. n \in Names /\ Live(n) /\ ~Marked(n) /\ n \notin claimed
  BY <1>1 DEF Claimable
<1>4. PICK e \in Entries : e = cache[record(n)]
  BY <1>3 DEF IInv, DirInv, Directory, Live
<1>5. Stay /\ Shrinks
  BY <1>2, StayEffect, StayShrinks DEF IInv, DirInv
<1>6. held[n] = None /\ outcome[n] = None
  BY <1>3, NoneAssumption DEF IInv, Memory, RestTypes, Handed, JInv, Pursued
<1>7. /\ \A m \in Names : held'[m] = IF m = n THEN e ELSE held[m]
      /\ e # None
  BY <1>2, <1>4, NoneAssumption DEF IInv, RestTypes
<1>8. /\ e \in disk[record(n)] /\ Within(offered, e)
      /\ (\A m \in Names : e \in disk[record(m)] => m = n)
      /\ e \notin terminal
      /\ \A f \in Promised \cup decided : f \in disk[record(n)] => f = e
  BY <1>3, <1>4
     DEF IInv, DirInv, Directory, Fresh, Hidden, MarkerDurable, JInv, Traced, DecidedHidden, Marked
<1>9. \A m \in Names : held[m] # e
  BY <1>3, <1>6, <1>7, <1>8 DEF JInv, Sole
<1>10. Replayable(e) /\ Visible(e)
  <2>1. None \in disk[marker(n)]
    BY <1>3 DEF IInv, DirInv, Directory, Marked
  <2>2. ~UnderWay(n)
    BY <1>1, <1>3, UnderWayAt DEF IInv
  <2> QED BY <1>3, <1>4, <1>8, <2>1, <2>2 DEF Replayable, Visible
<1>11. Traced'
  BY <1>2, <1>5, <1>7, <1>8 DEF JInv, Traced, Stay
<1>12. Pursued'
  BY <1>2, <1>3, <1>5, <1>6, <1>7 DEF JInv, Pursued, Live, Marked, Stay
<1>13. Sole'
  <2>1. \A m, k \in Names : held'[k] # None /\ (held'[m] = held'[k] \/ held'[k] \in disk[record(m)]) => m = k
    BY <1>7, <1>8, <1>9 DEF JInv, Sole
  <2> QED BY <1>2, <1>5, <1>7, <1>8, <2>1 DEF JInv, Sole, Stay
<1>14. Signed' /\ Unknown'
  BY <1>1, <1>2, <1>5, FreeSigned, <1>1 DEF Stay
<1>15. DecidedHidden'
  BY <1>2, <1>5, ShrinkHides DEF JInv
<1>16. ReplayKept /\ VisibleKept
  BY <1>1, <1>5, StayKept, CacheKept DEF IInv, Aside, Stay
<1>17. \A f \in Entries : f # e => Same(f)
  BY <1>2, <1>6, <1>7, <1>16, NoneAssumption DEF Same, ReplayKept, VisibleKept
<1>18. MappingIs /\ MappingIs' /\ MarkerDurable /\ MarkerDurable'
  BY StateIs, StateWas DEF IInv, DirInv
<1>19. BacklogState(e) = "pending"
  BY <1>8, <1>9, <1>10, <1>18 DEF MappingIs, Over
<1>20. BacklogState(e)' = "claimed"
  BY <1>2, <1>3, <1>6, <1>7, <1>8, <1>9, <1>18 DEF MappingIs, Over
<1>21. Backlog!Oldest(e)
  <2> SUFFICES ASSUME NEW f \in Promised, Precedes(offered, f, e), BacklogState(f) = "pending"
               PROVE  FALSE
    BY DEF Backlog!Oldest, Backlog!Before, Precedes, Promised
  <2>1. f \in Entries /\ (\A m \in Names : held[m] # f) /\ ~Over(f)
    BY <1>18 DEF MappingIs, Promised
  <2>2. PICK m \in Names : f \in disk[record(m)]
    <3>1. CASE f \in decided
      BY <2>1, <3>1 DEF Over, Replayable
    <3>2. CASE f \notin decided
      BY <3>2 DEF IInv, DirInv, PromiseKept
    <3> QED BY <3>1, <3>2
  <2>3. m \in Claimable
    BY <1>1, <2>1, <2>2, ReplayableIsClaimable
  <2>4. m < n
    BY <1>3, <1>8, <2>1, <2>2 DEF IInv, DirInv, Ordered
  <2>5. n <= m /\ n \in Nat /\ m \in Nat
    BY <1>1, <1>3, <2>3, NameTypes
  <2> QED BY <2>4, <2>5
<1>22. Backlog!Claim(e)
  BY <1>2, <1>17, <1>18, <1>19, <1>20, <1>21, OneBecomes DEF Backlog!Claim
<1> QED BY <1>11, <1>12, <1>13, <1>14, <1>15, <1>22 DEF JInv, Step, Backlog!BacklogNext

LEMMA UnclaimRefines ==
    ASSUME IInv, IInv', JInv, NEW n \in Names, Unclaim(n) PROVE JInv' /\ Step
<1>1. /\ op = Free /\ op' = Free /\ op.at = "free" /\ op'.at = "free" /\ held[n] # None /\ outcome[n] = None
      /\ claimed' = claimed \ {n} /\ held' = [held EXCEPT ![n] = None]
      /\ UNCHANGED <<process, directory, outcome>>
      /\ UNCHANGED <<fate, offered, decided, terminal>> /\ Promised' = Promised
  BY FreeAt DEF Unclaim, history, Promised
<1>2. PICK e \in Entries : e = held[n]
  BY <1>1 DEF IInv, RestTypes
<1>3. Live(n) /\ ~Marked(n) /\ cache[record(n)] = e
  BY <1>1, <1>2 DEF JInv, Pursued, IInv, Memory, Handed, Live
<1>4. Stay /\ Shrinks
  BY <1>1, StayEffect, StayShrinks DEF IInv, DirInv
<1>5. /\ \A m \in Names : held'[m] = IF m = n THEN None ELSE held[m]
      /\ e # None
  BY <1>1, <1>2 DEF IInv, RestTypes
<1>6. /\ Within(offered, e) /\ (\A m \in Names : held[m] = e => m = n) /\ e \notin terminal
  BY <1>1, <1>2, <1>3, <1>5
     DEF IInv, DirInv, Directory, MarkerDurable, JInv, Traced, Sole, Marked
<1>7. Replayable(e)' /\ Visible(e)'
  <2>1. None \in disk[marker(n)] /\ e \in disk[record(n)]
    BY <1>3 DEF IInv, DirInv, Directory, Marked
  <2>2. ~UnderWay(n)'
    BY <1>1, UnderWayWas DEF IInv
  <2> QED BY <1>3, <1>4, <2>1, <2>2 DEF Replayable, Visible, Marked, Stay
<1>8. Traced'
  BY <1>1, <1>4, <1>5, NoneAssumption DEF JInv, Traced, Stay
<1>9. Pursued'
  BY <1>1, <1>4, <1>5 DEF JInv, Pursued, Live, Marked, Stay
<1>10. Sole'
  BY <1>1, <1>4, <1>5 DEF JInv, Sole, Stay
<1>11. Signed' /\ Unknown'
  BY <1>1, <1>4, FreeSigned DEF Stay
<1>12. DecidedHidden'
  BY <1>1, <1>4, ShrinkHides DEF JInv
<1>13. ReplayKept /\ VisibleKept
  BY <1>1, <1>4, StayKept, CacheKept DEF IInv, Aside, Stay
<1>14. \A f \in Entries : f # e => Same(f)
  BY <1>1, <1>2, <1>5, <1>13, NoneAssumption DEF Same, ReplayKept, VisibleKept
<1>15. MappingIs /\ MappingIs' /\ MarkerDurable /\ MarkerDurable'
  BY StateIs, StateWas DEF IInv, DirInv
<1>16. BacklogState(e) = "claimed"
  BY <1>1, <1>2, <1>6, <1>15 DEF MappingIs, Over
<1>17. BacklogState(e)' = "pending"
  BY <1>1, <1>5, <1>6, <1>7, <1>15 DEF MappingIs, Over
<1>18. Backlog!Unclaim(e)
  BY <1>1, <1>14, <1>15, <1>16, <1>17, OneBecomes DEF Backlog!Unclaim
<1> QED BY <1>8, <1>9, <1>10, <1>11, <1>12, <1>18 DEF JInv, Step, Backlog!BacklogNext

-------------------------------------------------------------------------------
\* The life of the process.

\* The directory is read, and at most a reconciliation begun.
LEMMA ProcessStays ==
    ASSUME IInv, IInv', JInv, UNCHANGED <<claimed, held, outcome, fate, offered, decided, terminal>>,
           UNCHANGED directory, op.at = "free",
           op'.at = "free" \/ (op'.at = "removeRecord" /\ process' = "opening"),
           process' \in {"started", "closing"} =>
               process \in {"started", "closing"} \/ \A n \in Names : ~Marked(n)
    PROVE  JInv' /\ Step
<1>1. Stay /\ Shrinks
  BY StayEffect, StayShrinks DEF IInv, DirInv
<1>2. Untouched /\ Promised' = Promised
  BY HistoryFixed
<1>3. Light
  BY <1>1, <1>2 DEF Light, Stay
<1>4. Traced' /\ Pursued' /\ Sole'
  BY <1>1, <1>3, LightKeeps DEF Stay, IInv
<1>5. Signed' /\ Unknown'
  BY <1>1 DEF JInv, Signed, Unknown, Marked, Stay, Labels, Admits
<1>6. DecidedHidden'
  BY <1>1, ShrinkHides DEF JInv
<1>7. Step
  BY <1>1, <1>2, StayKept, CacheKept, QuietStep DEF IInv, DirInv, Aside, Stay
<1> QED BY <1>4, <1>5, <1>6, <1>7 DEF JInv

LEMMA StartupRefines ==
    ASSUME IInv, IInv', JInv, Open \/ Recount \/ Start \/ Close \/ \E n \in Names : Reconcile(n)
    PROVE  JInv' /\ Step
<1>1. CASE Open
  <2>1. /\ process = "down" /\ process' = "opening" /\ op' = op
        /\ UNCHANGED <<claimed, held, outcome, fate, offered, decided, terminal>> /\ UNCHANGED directory
    BY <1>1 DEF Open, consumer, history
  <2>2. op = Free
    BY <2>1 DEF IInv, Memory, Idle
  <2> QED BY <2>1, <2>2, FreeAt, ProcessStays
<1>2. CASE Recount
  <2>1. /\ process' = "open" /\ op = Free /\ op' = op
        /\ UNCHANGED <<claimed, held, outcome, fate, offered, decided, terminal>> /\ UNCHANGED directory
    BY <1>2 DEF Recount, consumer, history
  <2> QED BY <2>1, FreeAt, ProcessStays
<1>3. CASE Start
  <2>1. /\ process = "open" /\ process' = "started" /\ op' = op
        /\ UNCHANGED <<claimed, held, outcome, fate, offered, decided, terminal>> /\ UNCHANGED directory
    BY <1>3 DEF Start, consumer, history
  <2>2. op = Free /\ \A n \in Names : ~Marked(n)
    BY <2>1 DEF IInv, Memory, Idle
  <2> QED BY <2>1, <2>2, FreeAt, ProcessStays
<1>4. CASE Close
  <2>1. /\ process = "started" /\ process' = "closing" /\ op = Free /\ op' = op
        /\ UNCHANGED <<claimed, held, outcome, fate, offered, decided, terminal>> /\ UNCHANGED directory
    BY <1>4 DEF Close, consumer, history
  <2> QED BY <2>1, FreeAt, ProcessStays
<1>5. ASSUME NEW n \in Names, Reconcile(n) PROVE JInv' /\ Step
  <2>1. /\ process = "opening" /\ process' = "opening" /\ op = Free /\ Marked(n)
        /\ UNCHANGED <<claimed, held, outcome, fate, offered, decided, terminal>> /\ UNCHANGED directory
    BY <1>5 DEF Reconcile, consumer, history
  <2>2. cache[marker(n)] \in Statuses
    BY <2>1 DEF IInv, DirInv, Directory, Marked
  <2>3. op'.at = "removeRecord"
    BY <1>5, <2>2, LockEffect DEF Reconcile, Labels
  <2> QED BY <2>1, <2>3, FreeAt, ProcessStays
<1> QED BY <1>1, <1>2, <1>3, <1>4, <1>5

\* A record that is quarantined is discarded.
LEMMA QuarantineRefines ==
    ASSUME IInv, IInv', JInv, NEW n \in Names, Discard(n), Put(record(n), None),
           fate' = [fate EXCEPT ![cache[record(n)]] = "discarded"], decided' = decided \ {cache[record(n)]}
    PROVE  JInv' /\ Step
<1>1. /\ process = "open" /\ Live(n) /\ UNCHANGED <<process, claimed, held, outcome, op, offered, terminal>>
      /\ fate' = [fate EXCEPT ![cache[record(n)]] = "discarded"] /\ decided' = decided \ {cache[record(n)]}
  BY DEF Discard, consumer
<1>2. /\ op = Free /\ op.at = "free" /\ op'.at = "free"
      /\ \A m \in Names : ~Marked(m) /\ held[m] = None /\ outcome[m] = None
      /\ claimed = {}
  BY <1>1, FreeAt DEF IInv, Memory, Idle
<1>3. PutRecord(n, None)
  BY PutRecordEffect DEF IInv
<1>4. PICK e \in Entries : e = cache[record(n)]
  BY <1>1 DEF IInv, DirInv, Directory, Live
<1>5. Promised' = Promised \ {e} /\ decided' = decided \ {e}
  BY <1>1, <1>4 DEF IInv, RestTypes, Promised
<1>6. /\ e \in disk[record(n)] /\ Within(offered, e)
      /\ (\A m \in Names : e \in disk[record(m)] => m = n)
  BY <1>4 DEF IInv, DirInv, Directory, Fresh, JInv, Traced
<1>7. e \notin terminal
  BY <1>2, <1>6 DEF IInv, DirInv, Directory, MarkerDurable, Marked
<1>8. Replayable(e) /\ Visible(e)
  <2>1. None \in disk[marker(n)]
    BY <1>2 DEF IInv, DirInv, Directory, Marked
  <2>2. ~UnderWay(n)
    BY <1>2, UnderWayAt DEF IInv
  <2> QED BY <1>2, <1>4, <1>6, <2>1, <2>2 DEF Replayable, Visible
<1>9. \A m \in Names : ~UnderWay(m) /\ ~UnderWay(m)'
  BY <1>2, UnderWayAt, UnderWayWas DEF IInv
<1>10. ~Visible(e)'
  <2>1. \A m \in Names : cache[record(m)] = e => m = n
    BY <1>6 DEF IInv, DirInv, Directory
  <2> QED BY <1>3, <2>1, NoneAssumption DEF Visible, PutRecord
<1>11. \A m \in Names, f \in Entries : f \in disk'[record(m)] => f \in disk[record(m)]
  BY <1>3, NoneAssumption DEF PutRecord
<1>12. Traced'
  BY <1>1, <1>5, <1>11 DEF JInv, Traced
<1>13. Pursued' /\ Sole'
  BY <1>1, <1>2 DEF Pursued, Sole
<1>14. Signed' /\ Unknown'
  BY <1>1, <1>2, <1>3, FreeSigned DEF PutRecord
<1>15. DecidedHidden'
  <2>1. \A f \in decided : f \in Entries
    BY DEF IInv, RestTypes
  <2>2. \A f \in decided : f \in disk[record(n)] => f = e
    BY <1>2, <1>4 DEF JInv, DecidedHidden
  <2> QED BY <1>2, <1>3, <1>5, <1>11, <2>1, <2>2 DEF JInv, DecidedHidden, Marked, PutRecord
<1>16. ReplayKept
  BY <1>3, RecordGoneKept DEF IInv, RestTypes
<1>17. \A f \in Entries : f # e => VisibleSame(f)
  BY <1>3, <1>4, <1>9, NoneAssumption DEF VisibleSame, Visible, Marked, PutRecord
<1>18. \A f \in Entries : f # e => Same(f)
  BY <1>1, <1>5, <1>16, <1>17 DEF Same, ReplayKept
<1>19. MappingIs /\ MappingIs' /\ MarkerDurable /\ MarkerDurable'
  BY StateIs, StateWas DEF IInv, DirInv
<1>20. BacklogState(e) = "pending"
  BY <1>2, <1>6, <1>7, <1>8, <1>19, NoneAssumption DEF MappingIs, Over
<1>21. BacklogState(e)' = "uncertain"
  BY <1>1, <1>2, <1>5, <1>6, <1>10, <1>19, NoneAssumption DEF MappingIs, Over
<1>22. Backlog!Discard(e)
  BY <1>1, <1>5, <1>18, <1>19, <1>20, <1>21, OneBecomes DEF Backlog!Discard
<1> QED BY <1>12, <1>13, <1>14, <1>15, <1>22 DEF JInv, Step, Backlog!BacklogNext

\* One that cannot be quarantined stays as it was.
LEMMA DiscardRefines ==
    ASSUME IInv, IInv', JInv, NEW n \in Names, Discard(n) PROVE JInv' /\ Step
<1>1. \/ /\ Put(record(n), None)
         /\ fate' = [fate EXCEPT ![cache[record(n)]] = "discarded"] /\ decided' = decided \ {cache[record(n)]}
      \/ UNCHANGED directory /\ UNCHANGED <<fate, decided>>
  BY DEF Discard
<1>2. CASE UNCHANGED directory /\ UNCHANGED <<fate, decided>>
  <2>1. /\ process = "open" /\ process' = "open" /\ op' = op
        /\ UNCHANGED <<claimed, held, outcome, fate, offered, decided, terminal>> /\ UNCHANGED directory
    BY <1>2 DEF Discard, consumer
  <2>2. op = Free
    BY <2>1 DEF IInv, Memory, Idle
  <2> QED BY <2>1, <2>2, FreeAt, ProcessStays
<1> QED BY <1>1, <1>2, QuarantineRefines

\* Nobody holds anything afterwards, and what could not come back still cannot:
\* an entry goes back to pending, has ended, or is out of sight.
LEMMA Restarts ==
    ASSUME IInv, IInv', JInv, \A n \in Names : held'[n] = None,
           \A e \in Entries : Replayable(e)' => Replayable(e),
           offered' = offered, decided' = decided, terminal' = terminal, Promised' = Promised
    PROVE  Backlog!Restart
<1>1. MappingIs /\ MappingIs'
  BY StateIs, StateWas DEF IInv, DirInv
<1> DEFINE ended == {e \in decided : Backlog!Unfinished(e) /\ BacklogState(e)' = "done"}
           hidden == {e \in Entries \ Promised : (Backlog!Unfinished(e) \/ BacklogState(e) = "uncertain")
                                                  /\ BacklogState(e)' = "uncertain"}
<1>2. \A e \in Entries : Over(e) => Over(e)'
  BY NoneAssumption DEF Over
<1>3. ASSUME NEW e \in Entries
      PROVE  /\ BacklogState(e) = "absent" <=> BacklogState(e)' = "absent"
             /\ BacklogState(e) = "done" => BacklogState(e)' = "done"
             /\ BacklogState(e)' \in {"absent", "done", "pending", "uncertain"}
             /\ BacklogState(e)' = "done" => e \in decided
             /\ BacklogState(e)' = "uncertain" => e \notin Promised
             /\ BacklogState(e) = "uncertain" => e \notin decided
             /\ BacklogState(e) \in {"absent", "uncertain", "pending", "claimed", "acking", "done"}
  <2>1. BacklogState(e) = "absent" <=> BacklogState(e)' = "absent"
    BY <1>1 DEF MappingIs
  <2>2. BacklogState(e) = "done" => BacklogState(e)' = "done"
    BY <1>1, <1>2 DEF MappingIs
  <2>3. BacklogState(e)' \in {"absent", "done", "pending", "uncertain"}
    BY <1>1, NoneAssumption DEF MappingIs
  <2>4. BacklogState(e)' = "done" => e \in decided
    BY <1>1 DEF MappingIs, Over
  <2>5. BacklogState(e)' = "uncertain" => e \notin Promised
    BY <1>1 DEF MappingIs
  <2>6. BacklogState(e) = "uncertain" => e \notin decided
    BY <1>1 DEF MappingIs
  <2> QED BY <1>1, <2>1, <2>2, <2>3, <2>4, <2>5, <2>6 DEF MappingIs, Backlog!States
<1>4. decided \subseteq Entries
  BY DEF IInv, RestTypes
<1>5. \A e \in Entries : Backlog!Unfinished(e) <=> BacklogState(e) \in {"pending", "claimed", "acking"}
  BY DEF Backlog!Unfinished
<1>6. ended \in SUBSET {e \in decided : Backlog!Unfinished(e)}
  OBVIOUS
<1>7. hidden \in SUBSET {e \in Entries \ Promised : Backlog!Unfinished(e) \/ BacklogState(e) = "uncertain"}
  OBVIOUS
<1>8. ASSUME NEW e \in Entries
      PROVE  BacklogState(e)' = CASE BacklogState(e) \in {"absent", "done"} -> BacklogState(e)
                                  [] e \in ended -> "done"
                                  [] e \in hidden \ ended -> "uncertain"
                                  [] OTHER -> "pending"
  BY <1>3, <1>5
<1> HIDE DEF ended, hidden
<1>9. [e \in Entries |-> BacklogState(e)]' =
         [e \in Entries |-> CASE [f \in Entries |-> BacklogState(f)][e] \in {"absent", "done"}
                                    -> [f \in Entries |-> BacklogState(f)][e]
                              [] e \in ended -> "done"
                              [] e \in hidden \ ended -> "uncertain"
                              [] OTHER -> "pending"]
  BY <1>8
<1> QED BY <1>4, <1>6, <1>7, <1>9 DEF Backlog!Restart

LEMMA ExitRefines ==
    ASSUME IInv, IInv', JInv, Exit PROVE JInv' /\ Step
<1>1. /\ process' = "down" /\ claimed' = {}
      /\ held' = [n \in Names |-> None] /\ outcome' = [n \in Names |-> None]
      /\ UNCHANGED <<fate, offered, decided, terminal>> /\ UNCHANGED directory
  BY DEF Exit, history
<1>2. Stay /\ Shrinks
  BY <1>1, StayEffect, StayShrinks DEF IInv, DirInv
<1>3. op'.at = "free" /\ Promised' = Promised
  BY <1>1, UnlockEffect DEF Exit, Promised
<1>4. \A n \in Names : held'[n] = None /\ outcome'[n] = None
  BY <1>1
<1>5. Traced'
  BY <1>1, <1>2, <1>3, <1>4, NoneAssumption DEF JInv, Traced, Stay
<1>6. Pursued' /\ Sole' /\ Signed' /\ Unknown'
  BY <1>1, <1>3, <1>4 DEF Pursued, Sole, Signed, Unknown, Labels, Admits
<1>7. DecidedHidden'
  BY <1>1, <1>2, ShrinkHides DEF JInv
<1>8. \A e \in Entries : Replayable(e)' => Replayable(e)
  BY <1>2 DEF Replayable, Stay
<1>9. Backlog!Restart
  BY <1>1, <1>3, <1>4, <1>8, Restarts
<1> QED BY <1>5, <1>6, <1>7, <1>9 DEF JInv, Step, Backlog!BacklogNext

LEMMA PowerLossRefines ==
    ASSUME IInv, IInv', JInv, PowerLoss PROVE JInv' /\ Step
<1>1. /\ process = "down"
      /\ UNCHANGED <<process, claimed, held, outcome, op>>
      /\ UNCHANGED <<fate, offered, decided, terminal>> /\ Promised' = Promised
  BY DEF PowerLoss, consumer, history, Promised
<1>2. op'.at = "free" /\ \A n \in Names : held'[n] = None /\ outcome'[n] = None
  BY <1>1, FreeAt DEF IInv, Memory, Idle
<1>3. \A f \in Files : cache'[f] \in disk[f] /\ disk'[f] = {cache'[f]}
  BY DEF PowerLoss
<1>4. /\ Shrinks
      /\ \A n \in Names : /\ disk'[record(n)] \subseteq disk[record(n)]
                          /\ disk'[marker(n)] \subseteq disk[marker(n)]
  BY <1>3, FileNames DEF Shrinks
<1>5. Traced'
  BY <1>1, <1>4 DEF JInv, Traced
<1>6. Pursued' /\ Sole' /\ Signed' /\ Unknown'
  BY <1>1, <1>2 DEF JInv, Pursued, Sole, Signed, Unknown, Labels, Admits
<1>7. DecidedHidden'
  BY <1>1, <1>4, ShrinkHides DEF JInv
<1>8. \A e \in Entries : Replayable(e)' => Replayable(e)
  BY <1>4 DEF Replayable
<1>9. Backlog!Restart
  BY <1>1, <1>2, <1>8, Restarts
<1> QED BY <1>5, <1>6, <1>7, <1>9 DEF JInv, Step, Backlog!BacklogNext

-------------------------------------------------------------------------------
\* The refinement.

LEMMA InitTracked == Init => JInv /\ Backlog!BacklogInit
<1> SUFFICES ASSUME Init PROVE JInv /\ Backlog!BacklogInit
  OBVIOUS
<1>1. /\ \A n \in Names : held[n] = None /\ outcome[n] = None
      /\ \A n \in Names : disk[record(n)] = {None} /\ cache[marker(n)] = None
      /\ Promised = {} /\ decided = {} /\ offered = <<>> /\ claimed = {} /\ op.at = "free"
  BY FileNames, FreeAt DEF Init, Promised
<1>2. \A e \in Entries : ~Within(offered, e)
  BY <1>1 DEF Within
<1>3. JInv
  <2>1. Traced
    BY <1>1, NoneAssumption DEF Traced
  <2>2. Pursued /\ Sole /\ DecidedHidden
    BY <1>1 DEF Pursued, Sole, DecidedHidden
  <2>3. Signed /\ Unknown
    BY <1>1 DEF Init, Signed, Unknown, Labels, Admits
  <2> QED BY <2>1, <2>2, <2>3 DEF JInv
<1>4. \A e \in Entries : BacklogState(e) = "absent"
  BY <1>2 DEF BacklogState, Within
<1> QED BY <1>1, <1>3, <1>4 DEF Backlog!BacklogInit

\* Each step of the spool is one of the backlog, or none.
LEMMA BacklogStep == IInv /\ IInv' /\ JInv /\ [Next]_vars => JInv' /\ Step
<1> SUFFICES ASSUME IInv, IInv', JInv, [Next]_vars PROVE JInv' /\ Step
  OBVIOUS
<1>1. ASSUME NEW e \in Entries, Admit(e) \/ AdmitRefused(e) PROVE JInv' /\ Step
  BY <1>1, AdmitRefines, AdmitRefusedRefines
<1>2. CASE ClaimNext
  BY <1>2, ClaimNextRefines
<1>3. ASSUME NEW n \in Names, Unclaim(n) \/ Discard(n) PROVE JInv' /\ Step
  BY <1>3, UnclaimRefines, DiscardRefines
<1>4. ASSUME NEW n \in Names, NEW status \in Statuses, AckTerminal(n, status) \/ AckTerminalFails(n, status)
      PROVE  JInv' /\ Step
  BY <1>4, AckTerminalRefines, AckTerminalFailsRefines
<1>5. CASE FileSystemStep
  BY <1>5, AdmitSyncRefines, AdmitRollbackRefines, AdmitRollbackSyncRefines, MarkerSyncRefines,
     MarkerRollbackRefines, MarkerRollbackSyncRefines, RemoveRecordRefines, RecordSyncRefines,
     RemoveMarkerRefines, MarkerCleanSyncRefines, RestoreMarkerRefines, RestoreSyncRefines DEF FileSystemStep
<1>6. CASE Open \/ Recount \/ Start \/ Close \/ \E n \in Names : Reconcile(n)
  BY <1>6, StartupRefines
<1>7. CASE Exit \/ PowerLoss
  BY <1>7, ExitRefines, PowerLossRefines
<1>8. CASE UNCHANGED vars
  <2>1. /\ UNCHANGED <<claimed, held, outcome, fate, offered, decided, terminal>>
        /\ UNCHANGED <<op, process, cache, disk>>
    BY <1>8 DEF vars, directory, consumer, history
  <2>2. JInv'
    BY <2>1 DEF JInv, Traced, Pursued, Sole, Signed, DecidedHidden, Unknown, Promised, Live, Marked
  <2>3. \A e \in Entries : BacklogState(e)' = BacklogState(e)
    BY <2>1 DEF BacklogState, Ended, Replayable, Holders, Visible, UnderWay, At, Marked, Promised
  <2>4. Step
    BY <2>1, <2>3 DEF Step, Backlog!backlogVars, Promised
  <2> QED BY <2>2, <2>4
<1> QED BY <1>1, <1>2, <1>3, <1>4, <1>5, <1>6, <1>7, <1>8 DEF Next

\* The spool keeps what DurableBacklog promises the service around it, whatever file
\* operations fail and wherever the process or the machine stops: an admitted entry is
\* pending until it is claimed, goes to one consumer at a time and not before an older
\* one, and once its outcome has become final it never comes back.
THEOREM BacklogImplemented == Spec => ImplementsBacklog
<1>1. Init => JInv /\ Backlog!BacklogInit
  BY InitTracked
<1>2. IInv /\ IInv' /\ JInv /\ [Next]_vars => JInv' /\ [Backlog!BacklogNext]_(Backlog!backlogVars)
  BY BacklogStep DEF Step
<1> QED BY <1>1, <1>2, InvHolds, PTL DEF Spec, ImplementsBacklog, Backlog!BacklogSpec
===============================================================================

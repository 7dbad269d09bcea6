------------------------- MODULE WebhookService_proofs -------------------------
(***************************************************************************)
(* Proofs about WebhookService for any records, keys and bounds: its type  *)
(* invariant, deduplication, at most one completed release of a workflow   *)
(* run, replay of interrupted jobs, the order of admission, and silence    *)
(* after the spool is closed.                                              *)
(*                                                                         *)
(* The inductive invariant has five parts.  Basic says where a record may  *)
(* be in the backlog for each stage of its handler and of its closures, in *)
(* each phase; QueueExact ties the queue to the stages; Held says who owns *)
(* the reservation of a key, and that nobody else does; Once and Ordered   *)
(* are the two histories those serve.                                      *)
(***************************************************************************)
EXTENDS WebhookService, FiniteSetTheorems, SequenceTheorems, TLAPS

-------------------------------------------------------------------------------
(* Sequences: who is in one, who is before whom, appending, removing. *)

Within(s, a) == \E i \in DOMAIN s : s[i] = a
Precedes(s, a, b) == \E i, j \in DOMAIN s : i < j /\ s[i] = a /\ s[j] = b
Distinct(s) == \A i, j \in DOMAIN s : s[i] = s[j] => i = j
Removed(s, i) == [j \in 1..Len(s) - 1 |-> s[IF j < i THEN j ELSE j + 1]]

\* An appended record comes last and disturbs no order.
LEMMA AppendOrder ==
    ASSUME NEW s \in Seq(Entries), NEW x \in Entries
    PROVE  /\ Append(s, x) \in Seq(Entries)
           /\ Len(Append(s, x)) = Len(s) + 1
           /\ \A a : Within(Append(s, x), a) <=> a = x \/ Within(s, a)
           /\ \A a, b : Precedes(Append(s, x), a, b) <=> Precedes(s, a, b) \/ (b = x /\ Within(s, a))
           /\ Distinct(s) /\ ~Within(s, x) => Distinct(Append(s, x))
<1> DEFINE t == Append(s, x)
           n == Len(s)
<1>1. /\ t \in Seq(Entries) /\ Len(t) = n + 1 /\ n \in Nat
      /\ DOMAIN s = 1..n /\ DOMAIN t = 1..n + 1
      /\ \A i \in 1..n : t[i] = s[i]
      /\ t[n + 1] = x
  BY AppendProperties, LenProperties
<1> HIDE DEF t, n
<1>2. ASSUME NEW a PROVE Within(t, a) <=> a = x \/ Within(s, a)
  BY <1>1 DEF Within
<1>3. ASSUME NEW a, NEW b PROVE Precedes(t, a, b) <=> Precedes(s, a, b) \/ (b = x /\ Within(s, a))
  <2>1. ASSUME Precedes(t, a, b) PROVE Precedes(s, a, b) \/ (b = x /\ Within(s, a))
    <3>1. PICK i \in 1..n + 1, j \in 1..n + 1 : i < j /\ t[i] = a /\ t[j] = b
      BY <1>1, <2>1 DEF Precedes
    <3>2. i \in 1..n /\ s[i] = a /\ (j \in 1..n \/ j = n + 1)
      BY <1>1, <3>1
    <3> QED BY <1>1, <3>1, <3>2 DEF Precedes, Within
  <2>2. ASSUME Precedes(s, a, b) PROVE Precedes(t, a, b)
    BY <1>1, <2>2 DEF Precedes
  <2>3. ASSUME b = x, Within(s, a) PROVE Precedes(t, a, b)
    <3>1. PICK i \in 1..n : s[i] = a
      BY <1>1, <2>3 DEF Within
    <3>2. i < n + 1 /\ i \in DOMAIN t /\ n + 1 \in DOMAIN t /\ t[i] = a /\ t[n + 1] = b
      BY <1>1, <2>3, <3>1
    <3> QED BY <3>2 DEF Precedes
  <2> QED BY <2>1, <2>2, <2>3
<1>4. ASSUME Distinct(s), ~Within(s, x) PROVE Distinct(t)
  BY <1>1, <1>4 DEF Distinct, Within
<1> QED BY <1>1, <1>2, <1>3, <1>4 DEF t, n

\* Removing a record keeps the others in their order.
LEMMA RemovedOrder ==
    ASSUME NEW s \in Seq(Entries), NEW p \in DOMAIN s, Distinct(s)
    PROVE  /\ Removed(s, p) \in Seq(Entries)
           /\ Len(Removed(s, p)) = Len(s) - 1
           /\ \A a : Within(Removed(s, p), a) <=> a # s[p] /\ Within(s, a)
           /\ \A a, b : Precedes(s, a, b) /\ a # s[p] /\ b # s[p] => Precedes(Removed(s, p), a, b)
           /\ Distinct(Removed(s, p))
<1> DEFINE t == Removed(s, p)
           n == Len(s)
<1>1. n \in Nat /\ DOMAIN s = 1..n /\ p \in 1..n /\ \A i \in 1..n : s[i] \in Entries
  BY LenProperties
<1>2. /\ DOMAIN t = 1..n - 1
      /\ \A j \in 1..n - 1 : t[j] = s[IF j < p THEN j ELSE j + 1]
  BY DEF Removed
<1>3. n - 1 \in Nat
  BY <1>1
<1>4. t \in Seq(Entries) /\ Len(t) = n - 1
  <2>1. \A j \in 1..n - 1 : s[IF j < p THEN j ELSE j + 1] \in Entries
    BY <1>1
  <2>2. t = [j \in 1..n - 1 |-> s[IF j < p THEN j ELSE j + 1]]
    BY DEF Removed
  <2> HIDE DEF t
  <2>3. t \in Seq(Entries)
    BY <1>3, <2>1, <2>2, IsASeq
  <2> QED BY <1>2, <1>3, <2>3, LenProperties
<1> HIDE DEF t, n
\* Every index but p has one in t, and every index of t is one of s other than p.
<1> DEFINE down(i) == IF i < p THEN i ELSE i - 1
           up(j) == IF j < p THEN j ELSE j + 1
<1>5. ASSUME NEW i \in 1..n, i # p
      PROVE  down(i) \in 1..n - 1 /\ t[down(i)] = s[i]
  <2>1. down(i) \in 1..n - 1 /\ up(down(i)) = i
    BY <1>1, <1>5
  <2> QED BY <1>2, <2>1
<1>6. ASSUME NEW j \in 1..n - 1
      PROVE  up(j) \in 1..n /\ up(j) # p /\ t[j] = s[up(j)]
  BY <1>1, <1>2
<1>7. ASSUME NEW i \in 1..n, NEW j \in 1..n, i < j, i # p, j # p PROVE down(i) < down(j)
  BY <1>1, <1>7
<1>8. ASSUME NEW i \in 1..n - 1, NEW j \in 1..n - 1, up(i) = up(j) PROVE i = j
  BY <1>1, <1>8
<1>13. \A i \in 1..n : s[i] = s[p] => i = p
  BY <1>1 DEF Distinct
<1> HIDE DEF down, up
<1>9. ASSUME NEW a PROVE Within(t, a) <=> a # s[p] /\ Within(s, a)
  <2>1. ASSUME Within(t, a) PROVE a # s[p] /\ Within(s, a)
    <3>1. PICK j \in 1..n - 1 : t[j] = a
      BY <1>2, <2>1 DEF Within
    <3>2. up(j) \in 1..n /\ up(j) # p /\ a = s[up(j)]
      BY <1>6, <3>1
    <3> QED BY <1>1, <1>13, <3>2 DEF Within
  <2>2. ASSUME a # s[p], Within(s, a) PROVE Within(t, a)
    <3>1. PICK i \in 1..n : s[i] = a
      BY <1>1, <2>2 DEF Within
    <3>2. i # p
      BY <2>2, <3>1
    <3>3. down(i) \in 1..n - 1 /\ t[down(i)] = a
      BY <1>5, <3>1, <3>2
    <3> QED BY <1>2, <3>3 DEF Within
  <2> QED BY <2>1, <2>2
<1>10. ASSUME NEW a, NEW b, Precedes(s, a, b), a # s[p], b # s[p] PROVE Precedes(t, a, b)
  <2>1. PICK i \in 1..n, j \in 1..n : i < j /\ s[i] = a /\ s[j] = b
    BY <1>1, <1>10 DEF Precedes
  <2>2. i # p /\ j # p
    BY <1>10, <2>1
  <2>3. down(i) \in 1..n - 1 /\ t[down(i)] = a /\ down(j) \in 1..n - 1 /\ t[down(j)] = b
    BY <1>5, <2>1, <2>2
  <2>4. down(i) < down(j)
    BY <1>7, <2>1, <2>2
  <2> QED BY <1>2, <2>3, <2>4 DEF Precedes
<1>11. Distinct(t)
  <2> SUFFICES ASSUME NEW i \in 1..n - 1, NEW j \in 1..n - 1, t[i] = t[j] PROVE i = j
    BY <1>2 DEF Distinct
  <2>1. up(i) \in 1..n /\ up(j) \in 1..n /\ s[up(i)] = s[up(j)]
    BY <1>6
  <2>2. up(i) = up(j)
    BY <1>1, <2>1 DEF Distinct
  <2> QED BY <1>8, <2>2
<1>12. Len(Removed(s, p)) = Len(s) - 1 /\ Removed(s, p) \in Seq(Entries)
  BY <1>4 DEF t, n
<1> QED BY <1>9, <1>10, <1>11, <1>12 DEF t

-------------------------------------------------------------------------------
(* The basic invariants. *)

\* The types of the variables but for the queue, which QueueExact gives.
Types ==
    /\ backlog \in [Entries -> States]
    /\ offered \in Seq(Entries)
    /\ promised \in SUBSET Entries
    /\ decided \in SUBSET Entries
    /\ phase \in Phases
    /\ seen \in [Keys -> {"absent", "in_flight", "succeeded"}]
    /\ http \in [Entries -> Handlers]
    /\ stage \in [Entries -> Stages]
    /\ business \in [Entries -> BOOLEAN]
    /\ restarts \in 0..MaxRestarts
    /\ lapses \in 0..MaxLapses
    /\ unguarded \in SUBSET Workflows
    /\ completions \in [Workflows -> Nat]
    /\ interrupted \in SUBSET Entries

\* The tasks between their acceptance and their end.
InQueueSet == {e \in Entries : stage[e] \in InQueue}

\* The queue holds those tasks, each of them once.
QueueExact ==
    /\ queue \in Seq(Entries)
    /\ IsFiniteSet(InQueueSet)
    /\ Len(queue) = Cardinality(InQueueSet)
    /\ \A e \in Entries : stage[e] \in InQueue <=> Within(queue, e)
    /\ Distinct(queue)

\* The reservations of the record's workflow run did not lapse in this process.
Guarded(e) == WorkflowOf[e] \notin unguarded

\* A handler has written nothing before its admission began, writes the record
\* offered last, and rolls back only a record nobody has been promised.
Handled ==
    \A e \in Entries :
        /\ http[e] \in {"new", "reserving", "undoing", "admitting"} => backlog[e] = "absent"
        /\ http[e] = "writing" => backlog[e] = "uncertain" /\ \A f \in Entries : ~Precedes(offered, e, f)
        /\ http[e] \in {"releasing", "released"} /\ Guarded(e) => backlog[e] \in {"absent", "uncertain"}

\* A record is offered once, and a promised one is in the backlog.
OfferedOnce ==
    /\ \A e \in Entries : backlog[e] = "absent" => ~Within(offered, e)
    /\ \A e \in promised : backlog[e] \notin {"absent", "uncertain"}

\* What the backlog holds of a record while its closures are at each stage; one
\* that a signal gave up is pending again before its reservations are released.
StagedAt(e) ==
    /\ stage[e] = "none" => ~business[e] /\ backlog[e] \notin {"claimed", "acking"}
    /\ stage[e] \in {"claimed", "queued", "running"} => ~business[e] /\ backlog[e] = "claimed"
    /\ stage[e] = "ackTask" => business[e] /\ backlog[e] \in {"acking", "done"}
    /\ stage[e] = "final" => IF business[e] THEN backlog[e] \in {"acking", "done"}
                                            ELSE backlog[e] = "claimed"
    /\ stage[e] \in {"ackFinal", "waitRetry", "queuedRetry", "ackRetry"} =>
           backlog[e] \in {"acking", "done"}
    /\ stage[e] \in {"releaseDelivery", "releaseWorkflow"} =>
           ~business[e] /\ (backlog[e] = "done" \/ (backlog[e] = "pending" /\ cancelled))

Staged == \A e \in Entries : StagedAt(e)

\* The drainer carries one claimed record at a time.
OneClaim == \A e, f \in Entries : stage[e] = "claimed" /\ stage[f] = "claimed" => e = f

\* What each phase of the life of the process excludes.
Phased ==
    /\ phase \in {"down", "starting"} =>
           /\ \A e \in Entries : http[e] \in {"new", "gone"} /\ stage[e] = "none"
           /\ \A k \in Keys : seen[k] = "absent"
           /\ \A w \in Workflows : completions[w] = 0
    /\ interrupted # {} => cancelled
    /\ phase \in {"stopped", "shut", "waited", "closed"} => \A e \in Entries : stage[e] # "claimed"
    /\ phase \in {"waited", "closed"} => queue = <<>>
    /\ phase = "closed" => SpoolFree

\* A record that a signal stopped is on its way back to the backlog.
Interrupts ==
    \A e \in interrupted :
        /\ backlog[e] \in {"claimed", "pending"}
        /\ stage[e] \in {"final", "releaseDelivery", "releaseWorkflow", "none", "claimed"}

Basic == Types /\ Handled /\ OfferedOnce /\ Staged /\ OneClaim /\ Phased /\ Interrupts

\* The queue after a step: unchanged, one record longer or shorter, or empty.
Others(e) == \A x \in Entries \ {e} : stage'[x] \in InQueue <=> stage[x] \in InQueue
Stays == queue' = queue /\ \A x \in Entries : stage'[x] \in InQueue <=> stage[x] \in InQueue
Joins(e) == /\ queue' = Append(queue, e) /\ stage[e] \notin InQueue /\ stage'[e] \in InQueue
            /\ Others(e)
Leaves(e) == LeaveQueue(e) /\ stage'[e] \notin InQueue /\ Others(e)
Empties == queue' = <<>> /\ \A x \in Entries : stage'[x] = "none"

Shape == Stays \/ (\E e \in Entries : Joins(e) \/ Leaves(e)) \/ Empties

\* Every record has a workflow run key, and a delivery key or None.
LEMMA KeyTypes == \A e \in Entries : DeliveryOf[e] \in Deliveries \cup {None} /\ WorkflowOf[e] \in Workflows
BY DeliveryAssumption

USE DEF StagedAt, Guarded, Become, Goto, Respond, Mark, Reserve, Release, Succeed, Lapse, Unfinished, Unreserved,
        OtherThanHTTP, OtherThanDrainer, OtherThanTask, OtherThanPhase, closures, service, backlogVars,
        Phases, Handlers, Acking, Queued, InQueue, Stages, States, cancelled, Listening, Draining, Running

-------------------------------------------------------------------------------
(* Each action keeps the basic invariants, and what it does to the queue. *)

\* A webhook reserves its delivery key, or is a duplicate.
LEMMA ReserveDeliveryStep ==
    ASSUME Basic, NEW e \in Entries, ReserveDelivery(e) PROVE Basic' /\ Shape
<1> USE DEF ReserveDelivery
<1>1. Basic'
  <2>1. Types'
    BY DEF Basic, Types
  <2>2. Handled' /\ OfferedOnce'
    BY DEF Basic, Types, Handled, OfferedOnce, Staged, Phased
  <2>3. Staged' /\ OneClaim' /\ Interrupts'
    BY DEF Basic, Types, Handled, OfferedOnce, Staged, OneClaim, Interrupts, Phased
  <2>4. Phased'
    BY DEF Basic, Types, Handled, Staged, Phased, SpoolFree
  <2> QED BY <2>1, <2>2, <2>3, <2>4 DEF Basic
<1>2. Shape
  <2>1. Stays
    BY DEF Basic, Types, Staged, Phased, Stays, Joins, Leaves, Others, Empties
  <2> QED BY <2>1 DEF Shape
<1> QED BY <1>1, <1>2

\* A webhook reserves its workflow run key, or must undo the first reservation.
LEMMA ReserveWorkflowStep ==
    ASSUME Basic, NEW e \in Entries, ReserveWorkflow(e) PROVE Basic' /\ Shape
<1> USE DEF ReserveWorkflow
<1>1. Basic'
  <2>1. Types'
    BY DEF Basic, Types
  <2>2. Handled' /\ OfferedOnce'
    BY DEF Basic, Types, Handled, OfferedOnce, Staged, Phased
  <2>3. Staged' /\ OneClaim' /\ Interrupts'
    BY DEF Basic, Types, Handled, OfferedOnce, Staged, OneClaim, Interrupts, Phased
  <2>4. Phased'
    BY DEF Basic, Types, Handled, Staged, Phased, SpoolFree
  <2> QED BY <2>1, <2>2, <2>3, <2>4 DEF Basic
<1>2. Shape
  <2>1. Stays
    BY DEF Basic, Types, Staged, Phased, Stays, Joins, Leaves, Others, Empties
  <2> QED BY <2>1 DEF Shape
<1> QED BY <1>1, <1>2

\* A duplicate workflow run gives its delivery key back.
LEMMA UndoDeliveryStep ==
    ASSUME Basic, NEW e \in Entries, UndoDelivery(e) PROVE Basic' /\ Shape
<1> USE DEF UndoDelivery
<1>1. Basic'
  BY DEF Basic, Types, Handled, OfferedOnce, Staged, OneClaim, Phased, Interrupts, SpoolFree
<1>2. Shape
  <2>1. Stays
    BY DEF Basic, Types, Staged, Phased, Stays, Joins, Leaves, Others, Empties
  <2> QED BY <2>1 DEF Shape
<1> QED BY <1>1, <1>2

\* Admission offers a record that was never offered, after all others.
LEMMA BeginAdmitStep ==
    ASSUME Basic, NEW e \in Entries, BeginAdmit(e) PROVE Basic' /\ Shape
<1> USE DEF BeginAdmit, Offer
<1>1. Basic'
  <2>1. offered' = Append(offered, e) /\ offered \in Seq(Entries) /\ ~Within(offered, e)
    BY DEF Basic, Types, Handled, OfferedOnce
  <2>2. /\ offered' \in Seq(Entries)
        /\ \A x \in Entries : Within(offered', x) <=> x = e \/ Within(offered, x)
        /\ \A x \in Entries : ~Precedes(offered', e, x)
    <3>1. \A x \in Entries : ~Precedes(offered, e, x)
      BY <2>1 DEF Precedes, Within
    <3> HIDE DEF BeginAdmit, Offer
    <3> QED BY <2>1, <3>1, AppendOrder
  <2> QED BY <2>2 DEF Basic, Types, Handled, OfferedOnce, Staged, OneClaim, Phased, Interrupts, SpoolFree
<1>2. Shape
  <2>1. Stays
    BY DEF Basic, Types, Staged, Phased, Stays, Joins, Leaves, Others, Empties
  <2> QED BY <2>1 DEF Shape
<1> QED BY <1>1, <1>2

\* The record that is being written becomes pending and promised.
LEMMA AdmitSucceedsStep ==
    ASSUME Basic, NEW e \in Entries, AdmitSucceeds(e) PROVE Basic' /\ Shape
<1> USE DEF AdmitSucceeds, Promise
<1>1. Basic'
  BY DEF Basic, Types, Handled, OfferedOnce, Staged, OneClaim, Phased, Interrupts, SpoolFree
<1>2. Shape
  <2>1. Stays
    BY DEF Basic, Types, Staged, Phased, Stays, Joins, Leaves, Others, Empties
  <2> QED BY <2>1 DEF Shape
<1> QED BY <1>1, <1>2

\* A refused record may surface, unpromised, at the price of a lapse.
LEMMA AdmitFailsStep ==
    ASSUME Basic, NEW e \in Entries, AdmitFails(e) PROVE Basic' /\ Shape
<1> USE DEF AdmitFails, Surface
<1>1. Basic'
  <2>1. Types'
    <3>1. unguarded' \in SUBSET Workflows
      <4>1. unguarded' = unguarded \/ unguarded' = unguarded \cup {WorkflowOf[e]}
        OBVIOUS
      <4>2. WorkflowOf[e] \in Workflows /\ unguarded \in SUBSET Workflows
        BY KeyTypes DEF Basic, Types
      <4> HIDE DEF AdmitFails
      <4> QED BY <4>1, <4>2
    <3>2. lapses' \in 0..MaxLapses
      BY BoundsAssumption DEF Basic, Types
    <3>3. backlog' \in [Entries -> States] /\ http' \in [Entries -> Handlers]
      BY DEF Basic, Types
    <3> QED BY <3>1, <3>2, <3>3 DEF Basic, Types
  <2>2. Handled' /\ OfferedOnce'
    BY DEF Basic, Types, Handled, OfferedOnce, Staged, Phased
  <2>3. Staged' /\ OneClaim' /\ Interrupts'
    BY DEF Basic, Types, Handled, OfferedOnce, Staged, OneClaim, Interrupts, Phased
  <2>4. Phased'
    BY DEF Basic, Types, Handled, Staged, Phased, SpoolFree
  <2> QED BY <2>1, <2>2, <2>3, <2>4 DEF Basic
<1>2. Shape
  <2>1. Stays
    BY DEF Basic, Types, Staged, Phased, Stays, Joins, Leaves, Others, Empties
  <2> QED BY <2>1 DEF Shape
<1> QED BY <1>1, <1>2

\* The two releases of a refused admission.
LEMMA ReleaseAdmissionStep ==
    ASSUME Basic, NEW e \in Entries, ReleaseAdmission(e) PROVE Basic' /\ Shape
<1> USE DEF ReleaseAdmission
<1>1. Basic'
  <2>1. Types'
    <3>1. seen' \in [Keys -> {"absent", "in_flight", "succeeded"}] /\ http' \in [Entries -> Handlers]
      BY DEF Basic, Types
    <3> QED BY <3>1 DEF Basic, Types
  <2>2. Handled' /\ OfferedOnce'
    BY DEF Basic, Types, Handled, OfferedOnce, Staged, Phased
  <2>3. Staged' /\ OneClaim' /\ Interrupts'
    BY DEF Basic, Types, Handled, OfferedOnce, Staged, OneClaim, Interrupts, Phased
  <2>4. Phased'
    BY DEF Basic, Types, Handled, Staged, Phased, SpoolFree
  <2> QED BY <2>1, <2>2, <2>3, <2>4 DEF Basic
<1>2. Shape
  <2>1. Stays
    BY DEF Basic, Types, Staged, Phased, Stays, Joins, Leaves, Others, Empties
  <2> QED BY <2>1 DEF Shape
<1> QED BY <1>1, <1>2

\* A claimed record has idle closures; nothing else is claimed.
LEMMA ClaimNextStep ==
    ASSUME Basic, NEW e \in Entries, ClaimNext(e) PROVE Basic' /\ Shape
<1> USE DEF ClaimNext, Claim
<1>1. Basic'
  BY DEF Basic, Types, Handled, OfferedOnce, Staged, OneClaim, Phased, Interrupts, SpoolFree
<1>2. Shape
  <2>1. Stays
    BY DEF Basic, Types, Staged, Phased, Stays, Joins, Leaves, Others, Empties
  <2> QED BY <2>1 DEF Shape
<1> QED BY <1>1, <1>2

\* A claimed record joins the queue or returns to the backlog.
LEMMA EnqueueClaimedStep ==
    ASSUME Basic, NEW e \in Entries, EnqueueClaimed(e) PROVE Basic' /\ Shape
<1> USE DEF EnqueueClaimed, Unclaim, QueueAccepts
<1>1. Basic'
  <2>1. Types'
    BY DEF Basic, Types
  <2>2. Handled' /\ OfferedOnce'
    BY DEF Basic, Types, Handled, OfferedOnce, Staged, Phased
  <2>3. Staged'
    BY DEF Basic, Types, Handled, OfferedOnce, Staged
  <2>6. OneClaim'
    BY DEF Basic, Types, OneClaim
  <2>7. Interrupts'
    BY DEF Basic, Types, Staged, Phased, Interrupts
  <2>4. Phased'
    BY DEF Basic, Types, Handled, Staged, Phased, SpoolFree
  <2> QED BY <2>1, <2>2, <2>3, <2>4, <2>6, <2>7 DEF Basic
<1>2. Shape
  <2>1. CASE QueueAccepts
    <3>1. Joins(e)
      BY <2>1 DEF QueueAccepts, Basic, Types, Staged, Phased, Stays, Joins, Leaves, Others, Empties
    <3> QED BY <3>1 DEF Shape
  <2>2. CASE ~QueueAccepts
    <3>1. Stays
      BY <2>2 DEF QueueAccepts, Basic, Types, Staged, Phased, Stays, Joins, Leaves, Others, Empties
    <3> QED BY <3>1 DEF Shape
  <2> QED BY <2>1, <2>2
<1> QED BY <1>1, <1>2

\* Starting a task leaves it in the queue.
LEMMA RunStep ==
    ASSUME Basic, NEW e \in Entries, Run(e) PROVE Basic' /\ Shape
<1> USE DEF Run
<1>1. Basic'
  BY DEF Basic, Types, Handled, OfferedOnce, Staged, OneClaim, Phased, Interrupts, SpoolFree
<1>2. Shape
  <2>1. Stays
    BY DEF Basic, Types, Staged, Phased, Stays, Joins, Leaves, Others, Empties
  <2> QED BY <2>1 DEF Shape
<1> QED BY <1>1, <1>2

\* An interrupted task is on its way to onFinalFailure.
LEMMA InterruptStep ==
    ASSUME Basic, NEW e \in Entries, Interrupt(e) PROVE Basic' /\ Shape
<1> USE DEF Interrupt
<1>1. Basic'
  BY DEF Basic, Types, Handled, OfferedOnce, Staged, OneClaim, Phased, Interrupts, SpoolFree
<1>2. Shape
  <2>1. Stays
    BY DEF Basic, Types, Staged, Phased, Stays, Joins, Leaves, Others, Empties
  <2> QED BY <2>1 DEF Shape
<1> QED BY <1>1, <1>2

\* A completed task decides its outcome and starts to acknowledge.
LEMMA BusinessCompletesStep ==
    ASSUME Basic, NEW e \in Entries, BusinessCompletes(e) PROVE Basic' /\ Shape
<1> USE DEF BusinessCompletes, Decide
<1>1. Basic'
  <2>1. completions' \in [Workflows -> Nat]
    <3>1. WorkflowOf[e] \in Workflows /\ completions[WorkflowOf[e]] + 1 \in Nat
      BY KeyTypes DEF Basic, Types
    <3>2. completions' = [completions EXCEPT ![WorkflowOf[e]] = completions[WorkflowOf[e]] + 1]
      OBVIOUS
    <3> QED BY <3>1, <3>2 DEF Basic, Types
  <2> QED BY <2>1 DEF Basic, Types, Handled, OfferedOnce, Staged, OneClaim, Phased, Interrupts, SpoolFree
<1>2. Shape
  <2>1. Stays
    BY DEF Basic, Types, Staged, Phased, Stays, Joins, Leaves, Others, Empties
  <2> QED BY <2>1 DEF Shape
<1> QED BY <1>1, <1>2

\* A failed task goes on to onFinalFailure.
LEMMA BusinessFailsStep ==
    ASSUME Basic, NEW e \in Entries, BusinessFails(e) PROVE Basic' /\ Shape
<1> USE DEF BusinessFails
<1>1. Basic'
  BY DEF Basic, Types, Handled, OfferedOnce, Staged, OneClaim, Phased, Interrupts, SpoolFree
<1>2. Shape
  <2>1. Stays
    BY DEF Basic, Types, Staged, Phased, Stays, Joins, Leaves, Others, Empties
  <2> QED BY <2>1 DEF Shape
<1> QED BY <1>1, <1>2

\* The three ways onFinalFailure begins.
LEMMA FinalFailureStep ==
    ASSUME Basic, NEW e \in Entries, FinalFailure(e) PROVE Basic' /\ Shape
<1> USE DEF FinalFailure, Unclaim, Decide
<1>1. Basic'
  <2>1. Types'
    BY DEF Basic, Types
  <2>2. Handled' /\ OfferedOnce'
    BY DEF Basic, Types, Handled, OfferedOnce, Staged, Phased
  <2>3. Staged'
    BY DEF Basic, Types, Handled, OfferedOnce, Staged
  <2>6. OneClaim'
    BY DEF Basic, Types, OneClaim
  <2>7. Interrupts'
    BY DEF Basic, Types, Staged, Phased, Interrupts
  <2>4. Phased'
    BY DEF Basic, Types, Handled, Staged, Phased, SpoolFree
  <2> QED BY <2>1, <2>2, <2>3, <2>4, <2>6, <2>7 DEF Basic
<1>2. Shape
  <2>1. Stays
    BY DEF Basic, Types, Staged, Phased, Stays, Joins, Leaves, Others, Empties
  <2> QED BY <2>1 DEF Shape
<1> QED BY <1>1, <1>2

\* An outcome becomes durable.
LEMMA AckDurableStep ==
    ASSUME Basic, NEW e \in Entries, AckDurable(e) PROVE Basic' /\ Shape
<1> USE DEF AckDurable, Finish
<1>1. Basic'
  BY DEF Basic, Types, Handled, OfferedOnce, Staged, OneClaim, Phased, Interrupts, SpoolFree
<1>2. Shape
  <2>1. Stays
    BY DEF Basic, Types, Staged, Phased, Stays, Joins, Leaves, Others, Empties
  <2> QED BY <2>1 DEF Shape
<1> QED BY <1>1, <1>2

\* A completed record leaves the queue, a failed one releases its keys.
LEMMA AckReturnsStep ==
    ASSUME Basic, NEW e \in Entries, AckReturns(e) PROVE Basic' /\ Shape
<1> USE DEF AckReturns
<1>1. Basic'
  <2>5. queue = <<>> => queue' = <<>>
    BY DEF LeaveQueue
  <2>1. Types'
    BY DEF Basic, Types
  <2>2. Handled' /\ OfferedOnce'
    BY DEF Basic, Types, Handled, OfferedOnce, Staged, Phased
  <2>3. Staged'
    <3>1. /\ backlog' = backlog /\ phase' = phase /\ backlog[e] = "done" /\ stage[e] \in Acking
          /\ business' = [business EXCEPT ![e] = FALSE]
          /\ stage' = [stage EXCEPT ![e] = IF business[e] THEN "none" ELSE "releaseDelivery"]
      BY DEF Basic, Types
    <3> HIDE DEF AckReturns
    <3> QED BY <3>1 DEF Basic, Types, Staged
  <2>6. OneClaim'
    BY DEF Basic, Types, OneClaim
  <2>7. Interrupts'
    BY DEF Basic, Types, Staged, Phased, Interrupts
  <2>4. Phased'
    BY <2>5 DEF Basic, Types, Handled, Staged, Phased, SpoolFree
  <2> QED BY <2>1, <2>2, <2>3, <2>4, <2>6, <2>7 DEF Basic
<1>2. Shape
  <2>1. CASE business[e]
    <3>1. Leaves(e)
      BY <2>1 DEF Basic, Types, Staged, Phased, Stays, Joins, Leaves, Others, Empties
    <3> QED BY <3>1 DEF Shape
  <2>2. CASE ~(business[e])
    <3>1. Stays
      BY <2>2 DEF Basic, Types, Staged, Phased, Stays, Joins, Leaves, Others, Empties
    <3> QED BY <3>1 DEF Shape
  <2> QED BY <2>1, <2>2
<1> QED BY <1>1, <1>2

\* A failed acknowledgement falls back, or waits for a retry out of the queue.
LEMMA AckFailsStep ==
    ASSUME Basic, NEW e \in Entries, AckFails(e) PROVE Basic' /\ Shape
<1> USE DEF AckFails
<1>1. Basic'
  <2>5. queue = <<>> => queue' = <<>>
    BY DEF LeaveQueue
  <2>1. Types'
    BY DEF Basic, Types
  <2>2. Handled' /\ OfferedOnce'
    BY DEF Basic, Types, Handled, OfferedOnce, Staged, Phased
  <2>3. Staged' /\ OneClaim' /\ Interrupts'
    BY DEF Basic, Types, Handled, OfferedOnce, Staged, OneClaim, Interrupts, Phased
  <2>4. Phased'
    BY <2>5 DEF Basic, Types, Handled, Staged, Phased, SpoolFree
  <2> QED BY <2>1, <2>2, <2>3, <2>4 DEF Basic
<1>2. Shape
  <2>1. CASE stage[e] # "ackTask"
    <3>1. Leaves(e)
      BY <2>1 DEF Basic, Types, Staged, Phased, Stays, Joins, Leaves, Others, Empties
    <3> QED BY <3>1 DEF Shape
  <2>2. CASE ~(stage[e] # "ackTask")
    <3>1. Stays
      BY <2>2 DEF Basic, Types, Staged, Phased, Stays, Joins, Leaves, Others, Empties
    <3> QED BY <3>1 DEF Shape
  <2> QED BY <2>1, <2>2
<1> QED BY <1>1, <1>2

\* The second of the two releases takes the record out of the queue.
LEMMA ReleaseRecordStep ==
    ASSUME Basic, NEW e \in Entries, ReleaseRecord(e) PROVE Basic' /\ Shape
<1> USE DEF ReleaseRecord
<1>1. Basic'
  <2>5. queue = <<>> => queue' = <<>>
    BY DEF LeaveQueue
  <2>1. Types'
    BY DEF Basic, Types
  <2>2. Handled' /\ OfferedOnce'
    BY DEF Basic, Types, Handled, OfferedOnce, Staged, Phased
  <2>3. Staged'
    <3>1. /\ backlog' = backlog /\ phase' = phase /\ business' = business
          /\ \/ stage[e] = "releaseDelivery" /\ stage' = [stage EXCEPT ![e] = "releaseWorkflow"]
             \/ stage[e] = "releaseWorkflow" /\ stage' = [stage EXCEPT ![e] = "none"]
      OBVIOUS
    <3> HIDE DEF ReleaseRecord
    <3> QED BY <3>1 DEF Basic, Types, Staged
  <2>6. OneClaim'
    BY DEF Basic, Types, OneClaim
  <2>7. Interrupts'
    BY DEF Basic, Types, Staged, Phased, Interrupts
  <2>4. Phased'
    BY <2>5 DEF Basic, Types, Handled, Staged, Phased, SpoolFree
  <2> QED BY <2>1, <2>2, <2>3, <2>4, <2>6, <2>7 DEF Basic
<1>2. Shape
  <2>1. CASE stage[e] = "releaseWorkflow"
    <3>1. Leaves(e)
      BY <2>1 DEF Basic, Types, Staged, Phased, Stays, Joins, Leaves, Others, Empties
    <3> QED BY <3>1 DEF Shape
  <2>2. CASE ~(stage[e] = "releaseWorkflow")
    <3>1. Stays
      BY <2>2 DEF Basic, Types, Staged, Phased, Stays, Joins, Leaves, Others, Empties
    <3> QED BY <3>1 DEF Shape
  <2> QED BY <2>1, <2>2
<1> QED BY <1>1, <1>2

\* A retry joins the queue.
LEMMA RetryFiresStep ==
    ASSUME Basic, NEW e \in Entries, RetryFires(e) PROVE Basic' /\ Shape
<1> USE DEF RetryFires
<1>1. Basic'
  BY DEF Basic, Types, Handled, OfferedOnce, Staged, OneClaim, Phased, Interrupts, SpoolFree, QueueAccepts
<1>2. Shape
  <2>1. Joins(e)
    BY DEF QueueAccepts, Basic, Types, Staged, Phased, Stays, Joins, Leaves, Others, Empties
  <2> QED BY <2>1 DEF Shape
<1> QED BY <1>1, <1>2

\* A retry runs, or is rejected and waits again.
LEMMA RunRetryStep ==
    ASSUME Basic, NEW e \in Entries, RunRetry(e) PROVE Basic' /\ Shape
<1> USE DEF RunRetry
<1>1. Basic'
  <2>5. queue = <<>> => queue' = <<>>
    BY DEF LeaveQueue
  <2>1. Types'
    BY DEF Basic, Types
  <2>2. Handled' /\ OfferedOnce'
    BY DEF Basic, Types, Handled, OfferedOnce, Staged, Phased
  <2>3. Staged'
    BY DEF Basic, Types, Handled, OfferedOnce, Staged
  <2>6. OneClaim'
    BY DEF Basic, Types, OneClaim
  <2>7. Interrupts'
    BY DEF Basic, Types, Staged, Phased, Interrupts
  <2>4. Phased'
    BY <2>5 DEF Basic, Types, Handled, Staged, Phased, SpoolFree
  <2> QED BY <2>1, <2>2, <2>3, <2>4, <2>6, <2>7 DEF Basic
<1>2. Shape
  <2>1. CASE cancelled
    <3>1. Leaves(e)
      BY <2>1 DEF Basic, Types, Staged, Phased, Stays, Joins, Leaves, Others, Empties
    <3> QED BY <3>1 DEF Shape
  <2>2. CASE ~(cancelled)
    <3>1. Stays
      BY <2>2 DEF Basic, Types, Staged, Phased, Stays, Joins, Leaves, Others, Empties
    <3> QED BY <3>1 DEF Shape
  <2> QED BY <2>1, <2>2
<1> QED BY <1>1, <1>2

\* A duplicate found at startup is discarded.
LEMMA DiscardDuplicateStep ==
    ASSUME Basic, NEW e \in Entries, DiscardDuplicate(e) PROVE Basic' /\ Shape
<1> USE DEF DiscardDuplicate, Discard
<1>1. Basic'
  BY DEF Basic, Types, Handled, OfferedOnce, Staged, OneClaim, Phased, Interrupts, SpoolFree
<1>2. Shape
  <2>1. Stays
    BY DEF Basic, Types, Staged, Phased, Stays, Joins, Leaves, Others, Empties
  <2> QED BY <2>1 DEF Shape
<1> QED BY <1>1, <1>2

\* A duplicate found at startup cannot be discarded.
LEMMA DiscardFailsStep ==
    ASSUME Basic, NEW e \in Entries, DiscardFails(e) PROVE Basic' /\ Shape
<1> USE DEF DiscardFails
<1>1. Basic'
  BY KeyTypes, BoundsAssumption
     DEF Basic, Types, Handled, OfferedOnce, Staged, OneClaim, Phased, Interrupts, SpoolFree
<1>2. Shape
  <2>1. Stays
    BY DEF Stays
  <2> QED BY <2>1 DEF Shape
<1> QED BY <1>1, <1>2

\* The service starts without having read its records.
LEMMA ServeUnscannedStep ==
    ASSUME Basic, ServeUnscanned PROVE Basic' /\ Shape
<1> USE DEF ServeUnscanned
<1>1. Basic'
  <2>1. Types'
    <3>1. unguarded' \in SUBSET Workflows
      BY KeyTypes DEF Basic, Types, Recovered
    <3>2. lapses' \in 0..MaxLapses
      BY BoundsAssumption DEF Basic, Types
    <3> QED BY <3>1, <3>2 DEF Basic, Types
  <2>2. Handled' /\ OfferedOnce'
    BY DEF Basic, Handled, OfferedOnce
  <2>3. Staged' /\ OneClaim' /\ Interrupts'
    BY DEF Basic, Staged, OneClaim, Interrupts, Phased
  <2>4. Phased'
    BY DEF Basic, Phased
  <2> QED BY <2>1, <2>2, <2>3, <2>4 DEF Basic
<1>2. Shape
  <2>1. Stays
    BY DEF Stays
  <2> QED BY <2>1 DEF Shape
<1> QED BY <1>1, <1>2

\* Startup reserves the keys of what it recovered.
LEMMA ServeStep ==
    ASSUME Basic, Serve PROVE Basic' /\ Shape
<1> USE DEF Serve
<1>1. Basic'
  BY DEF Basic, Types, Handled, OfferedOnce, Staged, OneClaim, Phased, Interrupts, SpoolFree
<1>2. Shape
  <2>1. Stays
    BY DEF Basic, Types, Staged, Phased, Stays, Joins, Leaves, Others, Empties
  <2> QED BY <2>1 DEF Shape
<1> QED BY <1>1, <1>2

\* The phases of startup and shutdown.
LEMMA AdvanceStep ==
    ASSUME Basic, Advance PROVE Basic' /\ Shape
<1> USE DEF Advance
<1>1. Basic'
  BY DEF Basic, Types, Handled, OfferedOnce, Staged, OneClaim, Phased, Interrupts, SpoolFree
<1>2. Shape
  <2>1. Stays
    BY DEF Basic, Types, Staged, Phased, Stays, Joins, Leaves, Others, Empties
  <2> QED BY <2>1 DEF Shape
<1> QED BY <1>1, <1>2

\* A signal cancels.
LEMMA SignalStep ==
    ASSUME Basic, Signal PROVE Basic' /\ Shape
<1> USE DEF Signal
<1>1. Basic'
  BY DEF Basic, Types, Handled, OfferedOnce, Staged, OneClaim, Phased, Interrupts, SpoolFree
<1>2. Shape
  <2>1. Stays
    BY DEF Basic, Types, Staged, Phased, Stays, Joins, Leaves, Others, Empties
  <2> QED BY <2>1 DEF Shape
<1> QED BY <1>1, <1>2

\* A restart empties everything but the backlog.
LEMMA EndStep ==
    ASSUME Basic, End PROVE Basic' /\ Shape
<1> USE DEF End, Restart
<1>1. Basic'
  <2>1. Types'
    BY BoundsAssumption DEF Basic, Types
  <2>2. Handled' /\ OfferedOnce'
    BY DEF Basic, Types, Handled, OfferedOnce
  <2>3. Staged' /\ OneClaim' /\ Interrupts'
    BY DEF Basic, Types, Handled, OfferedOnce, Staged, OneClaim, Interrupts, Phased
  <2>4. Phased'
    BY DEF Basic, Types, Handled, Staged, Phased, SpoolFree
  <2> QED BY <2>1, <2>2, <2>3, <2>4 DEF Basic
<1>2. Shape
  <2>1. Empties
    BY DEF Basic, Types, Staged, Phased, Stays, Joins, Leaves, Others, Empties
  <2> QED BY <2>1 DEF Shape
<1> QED BY <1>1, <1>2

\* A reservation expires.
LEMMA ExpireStep ==
    ASSUME Basic, NEW k \in Keys, Expire(k) PROVE Basic' /\ Shape
<1> USE DEF Expire
<1>1. Basic'
  BY KeyTypes, BoundsAssumption DEF Basic, Types, Handled, OfferedOnce, Staged, OneClaim, Phased, Interrupts, SpoolFree
<1>2. Shape
  <2>1. Stays
    BY DEF Stays
  <2> QED BY <2>1 DEF Shape
<1> QED BY <1>1, <1>2

\* A step that changes nothing.
LEMMA StutterStep ==
    ASSUME Basic, UNCHANGED vars PROVE Basic' /\ Shape
<1> USE DEF vars
<1>1. Basic'
  BY DEF Basic, Types, Handled, OfferedOnce, Staged, OneClaim, Phased, Interrupts, SpoolFree
<1>2. Shape
  <2>1. Stays
    BY DEF Stays
  <2> QED BY <2>1 DEF Shape
<1> QED BY <1>1, <1>2

\* Every step keeps the basic invariants and changes the queue in one of four ways.
LEMMA BasicStep ==
    ASSUME Basic, [Next]_vars PROVE Basic' /\ Shape
<1>1. ASSUME NEW e \in Entries, Handle(e) PROVE Basic' /\ Shape
  BY <1>1, ReserveDeliveryStep, ReserveWorkflowStep, UndoDeliveryStep, BeginAdmitStep,
     AdmitSucceedsStep, AdmitFailsStep, ReleaseAdmissionStep, Zenon DEF Handle
<1>2. ASSUME NEW e \in Entries, Work(e) PROVE Basic' /\ Shape
  BY <1>2, ClaimNextStep, EnqueueClaimedStep, RunStep, InterruptStep, FinalFailureStep,
     ReleaseRecordStep, RetryFiresStep, RunRetryStep, Zenon DEF Work
<1>3. ASSUME NEW e \in Entries,
             \/ BusinessReturns(e) \/ AckDurable(e) \/ AckReturns(e) \/ AckFails(e)
             \/ DiscardDuplicate(e) \/ DiscardFails(e)
      PROVE  Basic' /\ Shape
  BY <1>3, BusinessCompletesStep, BusinessFailsStep, AckDurableStep, AckReturnsStep,
     AckFailsStep, DiscardDuplicateStep, DiscardFailsStep, Zenon DEF BusinessReturns
<1> QED BY <1>1, <1>2, <1>3, ExpireStep, ServeStep, ServeUnscannedStep, AdvanceStep, SignalStep,
           EndStep, StutterStep, Zenon DEF Next

\* Such a change keeps the queue exact.
LEMMA QueueStep ==
    ASSUME Basic, Basic', QueueExact, Shape PROVE QueueExact'
<1> DEFINE Q == InQueueSet
           R == {x \in Entries : stage'[x] \in InQueue}
<1> HIDE DEF InQueue
<1>0. /\ queue \in Seq(Entries) /\ IsFiniteSet(Q) /\ Len(queue) = Cardinality(Q)
      /\ \A e \in Entries : e \in Q <=> Within(queue, e)
      /\ Distinct(queue)
  BY DEF QueueExact, InQueueSet
<1> DEFINE Good == /\ queue' \in Seq(Entries) /\ IsFiniteSet(R) /\ Len(queue') = Cardinality(R)
                   /\ \A e \in Entries : e \in R <=> Within(queue', e)
                   /\ Distinct(queue')
<1>1. Good => QueueExact'
  BY DEF QueueExact, InQueueSet
<1>2. ASSUME Stays PROVE Good
  <2>1. R = Q
    BY <1>2 DEF Stays, InQueueSet
  <2> HIDE DEF Q, R
  <2> QED BY <1>0, <1>2, <2>1 DEF Stays
<1>3. ASSUME NEW e \in Entries, Joins(e) PROVE Good
  <2>1. R = Q \cup {e} /\ e \notin Q
    BY <1>3 DEF Joins, Others, InQueueSet
  <2> HIDE DEF Q, R
  <2>2. queue' = Append(queue, e) /\ ~Within(queue, e)
    BY <1>0, <1>3, <2>1 DEF Joins
  <2>3. /\ queue' \in Seq(Entries) /\ Len(queue') = Len(queue) + 1 /\ Distinct(queue')
        /\ \A a : Within(queue', a) <=> a = e \/ Within(queue, a)
    BY <1>0, <2>2, AppendOrder
  <2>4. IsFiniteSet(R) /\ Cardinality(R) = Cardinality(Q) + 1
    BY <1>0, <2>1, FS_AddElement
  <2> QED BY <1>0, <2>1, <2>3, <2>4
<1>4. ASSUME NEW e \in Entries, Leaves(e) PROVE Good
  <2>1. PICK p \in DOMAIN queue : queue[p] = e /\ queue' = Removed(queue, p)
    BY <1>4 DEF Leaves, LeaveQueue, Removed
  <2>2. R = Q \ {e} /\ e \in Q
    <3>1. e \in Q
      BY <1>0, <2>1 DEF Within
    <3> QED BY <1>4, <3>1 DEF Leaves, Others, InQueueSet
  <2> HIDE DEF Q, R
  <2>3. /\ queue' \in Seq(Entries) /\ Len(queue') = Len(queue) - 1 /\ Distinct(queue')
        /\ \A a : Within(queue', a) <=> a # e /\ Within(queue, a)
    BY <1>0, <2>1, RemovedOrder
  <2>4. IsFiniteSet(R) /\ Cardinality(R) = Cardinality(Q) - 1
    BY <1>0, <2>2, FS_RemoveElement
  <2> QED BY <1>0, <2>2, <2>3, <2>4
<1>5. ASSUME Empties PROVE Good
  <2>1. R = {}
    BY <1>5 DEF Empties, InQueue, Acking, Queued
  <2> HIDE DEF R
  <2>2. queue' = <<>> /\ \A a : ~Within(queue', a)
    BY <1>5 DEF Empties, Within
  <2>3. Distinct(queue')
    BY <1>5 DEF Empties, Distinct
  <2> QED BY <2>1, <2>2, <2>3, FS_EmptySet
<1> HIDE DEF Good
<1> QED BY <1>1, <1>2, <1>3, <1>4, <1>5 DEF Shape

-------------------------------------------------------------------------------
(* Reservations and histories. *)

\* The handler, the record or the closures of e are responsible for reservation
\* k: from its reservation until the step that releases it or marks it succeeded.
Owns(e, k) ==
    /\ k \in KeysOf(e)
    /\ \/ http[e] \in {"reserving", "undoing"} /\ k = DeliveryOf[e]
       \/ http[e] \in {"admitting", "writing", "releasing"}
       \/ http[e] = "released" /\ k = WorkflowOf[e]
       \/ Unfinished(e)
       \/ stage[e] \notin {"none", "releaseWorkflow"}
       \/ stage[e] = "releaseWorkflow" /\ k = WorkflowOf[e]

\* Of the workflow runs whose reservation has not lapsed: each reserved key has one
\* owner, and a run that was completed is marked so or still held by its
\* acknowledgement.
HeldNow ==
    /\ \A e \in Entries, k \in Keys : Owns(e, k) /\ Guarded(e) => seen[k] = "in_flight"
    /\ \A e, f \in Entries, k \in Keys : Owns(e, k) /\ Owns(f, k) /\ Guarded(e) => e = f
    /\ \A e \in Entries : completions[WorkflowOf[e]] # 0 /\ Guarded(e) =>
           \/ seen[WorkflowOf[e]] = "succeeded"
           \/ \E f \in Entries : WorkflowOf[f] = WorkflowOf[e] /\ business[f]

\* That is so while the service is up.
Held == phase = "serving" => HeldNow

\* Such a run is completed once, and never runs twice or after that.
Once ==
    \A w \in Workflows \ unguarded :
        /\ completions[w] <= 1
        /\ \A e, f \in Entries :
               /\ WorkflowOf[e] = w /\ WorkflowOf[f] = w /\ stage[e] = "running"
               => completions[w] = 0 /\ (stage[f] = "running" => e = f)

\* Of two accepted records of one queue key the older one is finished before the
\* later one runs; until then it is ahead of it in the queue, unless a signal came.
Ordered ==
    \A e \in promised, f \in Entries :
        Precedes(offered, e, f) /\ QueueKey(e) = QueueKey(f) =>
            /\ stage[f] = "running" => backlog[e] \in {"acking", "done"}
            /\ stage[f] \in {"claimed", "queued"} /\ ~cancelled =>
                  \/ backlog[e] \in {"acking", "done"}
                  \/ /\ backlog[e] = "claimed"
                     /\ stage[e] \in InQueue
                     /\ stage[f] = "queued" => Precedes(queue, e, f)

\* A key is the key of one workflow run.
LEMMA KeysApart ==
    \A e, f \in Entries, k \in Keys :
        k \in KeysOf(e) /\ k \in KeysOf(f) => WorkflowOf[e] = WorkflowOf[f]
BY KeyTypes, KindsAssumption, DeliveryAssumption DEF KeysOf, Keys

\* What a step of e alone must do for the reservations to stay exclusive: it
\* takes only free keys, and touches only those it takes or owns.
Exclusive(e) ==
    /\ unguarded \subseteq unguarded'
    /\ \A x \in Entries \ {e}, k \in Keys : Owns(x, k)' => Owns(x, k)
    /\ \A k \in Keys : Owns(e, k)' /\ Guarded(e)' =>
           \/ Owns(e, k) /\ seen'[k] = seen[k]
           \/ seen[k] = "absent" /\ seen'[k] = "in_flight"
    /\ \A k \in Keys : seen'[k] # seen[k] => Owns(e, k) \/ seen[k] = "absent"
    /\ \A x \in Entries : business[x] /\ Guarded(x) =>
           business'[x] \/ seen'[WorkflowOf[x]] = "succeeded"
    /\ \A w \in Workflows : completions'[w] # 0 =>
           completions[w] # 0 \/ \E x \in Entries : WorkflowOf[x] = w /\ business'[x]

\* A step of one record that is exclusive keeps the reservations held.
LEMMA ExclusiveKeeps ==
    ASSUME HeldNow, NEW e \in Entries, Exclusive(e) PROVE HeldNow'
<1>0. \A x \in Entries : Guarded(x)' => Guarded(x)
  BY DEF Exclusive, Guarded
<1>1. ASSUME NEW x \in Entries, NEW k \in Keys, Owns(x, k)', Guarded(x)' PROVE seen'[k] = "in_flight"
  BY <1>0, <1>1 DEF HeldNow, Exclusive
<1>2. ASSUME NEW x \in Entries, NEW y \in Entries, NEW k \in Keys, Owns(x, k)', Owns(y, k)', Guarded(x)'
      PROVE  x = y
  <2>1. Guarded(x)' /\ Guarded(y)' /\ Guarded(x) /\ Guarded(y)
    BY <1>0, <1>2, KeysApart DEF Owns, KeysOf
  <2> HIDE DEF Guarded
  <2> QED BY <1>2, <2>1 DEF HeldNow, Exclusive
<1>3. ASSUME NEW y \in Entries, completions'[WorkflowOf[y]] # 0, Guarded(y)'
      PROVE  \/ seen'[WorkflowOf[y]] = "succeeded"
             \/ \E x \in Entries : WorkflowOf[x] = WorkflowOf[y] /\ business'[x]
  <2> DEFINE w == WorkflowOf[y]
  <2>1. w \in Keys /\ w \in Workflows /\ w \in KeysOf(y)
    BY KeyTypes, KindsAssumption DEF Keys, KeysOf
  <2>2. CASE completions[w] # 0
    <3>1. CASE seen[w] = "succeeded"
      <4>1. ~Owns(e, w)
        <5> SUFFICES ASSUME Owns(e, w) PROVE FALSE
          OBVIOUS
        <5>1. WorkflowOf[e] = WorkflowOf[y]
          BY <2>1, KeysApart DEF Owns
        <5>2. Guarded(e)
          BY <1>0, <1>3, <5>1
        <5> QED BY <2>1, <3>1, <5>2 DEF HeldNow
      <4> QED BY <2>1, <3>1, <4>1 DEF Exclusive
    <3>2. CASE \E x \in Entries : WorkflowOf[x] = w /\ business[x]
      <4>1. PICK x \in Entries : WorkflowOf[x] = w /\ business[x]
        BY <3>2
      <4>2. Guarded(x)
        BY <1>0, <1>3, <4>1
      <4> QED BY <4>1, <4>2 DEF Exclusive
    <3> QED BY <1>0, <1>3, <2>2, <3>1, <3>2 DEF HeldNow
  <2>3. CASE completions[w] = 0
    BY <1>3, <2>1, <2>3 DEF Exclusive
  <2> QED BY <2>2, <2>3
<1> QED BY <1>1, <1>2, <1>3 DEF HeldNow

\* Every step of a handler, the drainer or a closure is exclusive.
LEMMA ExclusiveStep ==
    ASSUME Basic, HeldNow, phase = "serving", NEW e \in Entries,
           Handle(e) \/ Work(e) \/ BusinessReturns(e) \/ AckDurable(e) \/ AckReturns(e) \/ AckFails(e)
    PROVE  Exclusive(e)
<1> USE DEF Basic, Types, Handled, Staged, Exclusive, Owns, KeysOf, Keys
<1>1. CASE ReserveDelivery(e)
  BY <1>1, KeyTypes, KindsAssumption, BoundsAssumption DEF ReserveDelivery, Available
<1>2. CASE ReserveWorkflow(e)
  BY <1>2, KeyTypes, KindsAssumption, BoundsAssumption DEF ReserveWorkflow, Available
<1>3. CASE UndoDelivery(e)
  BY <1>3, KeyTypes, KindsAssumption, BoundsAssumption DEF UndoDelivery
<1>4. CASE BeginAdmit(e)
  BY <1>4, KeyTypes, KindsAssumption, BoundsAssumption DEF BeginAdmit, Offer
<1>5. CASE AdmitSucceeds(e)
  BY <1>5, KeyTypes, KindsAssumption, BoundsAssumption DEF AdmitSucceeds, Promise
<1>6. CASE AdmitFails(e)
  BY <1>6, KeyTypes, KindsAssumption, BoundsAssumption DEF AdmitFails, Surface
<1>7. CASE ReleaseAdmission(e)
  BY <1>7, KeyTypes, KindsAssumption, BoundsAssumption DEF ReleaseAdmission
<1>8. CASE ClaimNext(e)
  BY <1>8, KeyTypes, KindsAssumption, BoundsAssumption DEF ClaimNext, Claim
<1>9. CASE EnqueueClaimed(e)
  BY <1>9, KeyTypes, KindsAssumption, BoundsAssumption DEF EnqueueClaimed, Unclaim
<1>10. CASE Run(e)
  BY <1>10, KeyTypes, KindsAssumption, BoundsAssumption DEF Run
<1>11. CASE Interrupt(e)
  BY <1>11, KeyTypes, KindsAssumption, BoundsAssumption DEF Interrupt
<1>12. CASE BusinessCompletes(e)
  BY <1>12, KeyTypes, KindsAssumption, BoundsAssumption DEF BusinessCompletes, Decide
<1>13. CASE BusinessFails(e)
  BY <1>13, KeyTypes, KindsAssumption, BoundsAssumption DEF BusinessFails
<1>14. CASE FinalFailure(e)
  BY <1>14, KeyTypes, KindsAssumption, BoundsAssumption DEF FinalFailure, Unclaim, Decide
<1>15. CASE AckDurable(e)
  BY <1>15, KeyTypes, KindsAssumption, BoundsAssumption DEF AckDurable, Finish
<1>16. CASE AckReturns(e)
  <2> USE <1>16, KeyTypes, KindsAssumption DEF AckReturns
  <2>1. \A x \in Entries \ {e}, k \in Keys : Owns(x, k)' => Owns(x, k)
    OBVIOUS
  <2>2. \A k \in KeysOf(e) : Owns(e, k)
    OBVIOUS
  <2>3. Guarded(e) => http[e] = "gone"
    OBVIOUS
  <2>4. CASE business[e]
    <3>1. Guarded(e) => \A k \in Keys : ~Owns(e, k)'
      BY <2>3, <2>4
    <3>2. \A k \in Keys : seen'[k] = IF k \in KeysOf(e) /\ seen[k] # "absent" THEN "succeeded" ELSE seen[k]
      BY <2>4
    <3>3. completions' = completions /\ business' = [business EXCEPT ![e] = FALSE]
      BY <2>4
    <3>4. Guarded(e) => seen'[WorkflowOf[e]] = "succeeded"
      <4> SUFFICES ASSUME Guarded(e) PROVE seen'[WorkflowOf[e]] = "succeeded"
        OBVIOUS
      <4>1. WorkflowOf[e] \in KeysOf(e) /\ WorkflowOf[e] \in Keys
        OBVIOUS
      <4>2. Owns(e, WorkflowOf[e])
        BY <2>2, <4>1
      <4> HIDE DEF Owns, AckReturns
      <4>3. seen[WorkflowOf[e]] = "in_flight"
        BY <4>1, <4>2 DEF HeldNow
      <4> QED BY <3>2, <4>1, <4>3
    <3>5. unguarded' = unguarded
      OBVIOUS
    <3> HIDE DEF Owns
    <3> QED BY <2>1, <2>2, <3>1, <3>2, <3>3, <3>4, <3>5
  <2>5. CASE ~business[e]
    BY <2>1, <2>2, <2>5
  <2> QED BY <2>4, <2>5
<1>17. CASE AckFails(e)
  BY <1>17, KeyTypes, KindsAssumption, BoundsAssumption DEF AckFails
<1>18. CASE ReleaseRecord(e)
  BY <1>18, KeyTypes, KindsAssumption, BoundsAssumption DEF ReleaseRecord
<1>19. CASE RetryFires(e)
  BY <1>19, KeyTypes, KindsAssumption, BoundsAssumption DEF RetryFires
<1>20. CASE RunRetry(e)
  BY <1>20, KeyTypes, KindsAssumption, BoundsAssumption DEF RunRetry
<1> QED BY <1>1, <1>2, <1>3, <1>4, <1>5, <1>6, <1>7, <1>8, <1>9, <1>10, <1>11, <1>12, <1>13,
           <1>14, <1>15, <1>16, <1>17, <1>18, <1>19, <1>20 DEF Handle, Work, BusinessReturns

\* Reservations stay held; startup takes those of the records it recovers.
LEMMA HeldStep ==
    ASSUME Basic, Held, [Next]_vars PROVE Held'
<1> SUFFICES ASSUME phase' = "serving" PROVE HeldNow'
  BY DEF Held
<1>2. ASSUME NEW e \in Entries,
             Handle(e) \/ Work(e) \/ BusinessReturns(e) \/ AckDurable(e) \/ AckReturns(e) \/ AckFails(e)
      PROVE  HeldNow'
  <2>1. phase' = phase
    BY <1>2 DEF Handle, Work, BusinessReturns, ReserveDelivery, ReserveWorkflow, UndoDelivery,
                BeginAdmit, AdmitSucceeds, AdmitFails, ReleaseAdmission, ClaimNext, EnqueueClaimed,
                Run, Interrupt, FinalFailure, ReleaseRecord, RetryFires, RunRetry,
                BusinessCompletes, BusinessFails, AckDurable, AckReturns, AckFails
  <2> QED BY <1>2, <2>1, ExclusiveStep, ExclusiveKeeps DEF Held
<1>3. ASSUME Serve PROVE HeldNow'
  <2>0. PICK firsts \in SUBSET Recovered :
            /\ \A e, f \in firsts : ~Clash(e, f)
            /\ \A e \in Recovered \ firsts : WorkflowOf[e] \in unguarded
            /\ Mark(UNION {KeysOf(e) : e \in firsts}, "in_flight")
    BY <1>3 DEF Serve
  <2>1. ASSUME NEW e \in Entries, NEW k \in Keys, Owns(e, k)', Guarded(e)'
        PROVE  k \in KeysOf(e) /\ e \in firsts
    <3>1. k \in KeysOf(e) /\ e \in Recovered
      BY <1>3, <2>1 DEF Serve, Basic, Phased, Staged, Owns, KeysOf, Recovered
    <3> QED BY <1>3, <2>0, <2>1, <3>1 DEF Serve
  <2>2. \A e \in Entries, k \in Keys : Owns(e, k)' /\ Guarded(e)' => seen'[k] = "in_flight"
    BY <2>0, <2>1
  <2>3. ASSUME NEW e \in Entries, NEW f \in Entries, NEW k \in Keys, Owns(e, k)', Owns(f, k)', Guarded(e)'
        PROVE  e = f
    <3>1. k \in KeysOf(e) /\ k \in KeysOf(f)
      BY <2>3 DEF Owns, KeysOf
    <3>2. Guarded(f)'
      BY <2>3, <3>1, KeysApart
    <3>3. e \in firsts /\ f \in firsts
      BY <2>1, <2>3, <3>2
    <3> QED BY <2>0, <3>1, <3>3 DEF Clash
  <2>4. \A w \in Workflows : completions'[w] = 0
    BY <1>3 DEF Serve, Basic, Phased
  <2> QED BY <2>2, <2>3, <2>4, KeyTypes DEF HeldNow
<1>4. ASSUME ServeUnscanned PROVE HeldNow'
  <2>1. ASSUME NEW e \in Entries, NEW k \in Keys, Owns(e, k)' PROVE ~Guarded(e)'
    <3>1. e \in Recovered
      BY <1>4, <2>1 DEF ServeUnscanned, Basic, Phased, Staged, Owns, Recovered
    <3> QED BY <1>4, <3>1 DEF ServeUnscanned
  <2>2. \A w \in Workflows : completions'[w] = 0
    BY <1>4 DEF ServeUnscanned, Basic, Phased
  <2> QED BY <2>1, <2>2, KeyTypes DEF HeldNow
<1>5. ASSUME NEW k \in Keys, Expire(k) PROVE HeldNow'
  <2>1. /\ phase = "serving" /\ HeldNow
        /\ UNCHANGED <<backlog, http, stage, business, completions>>
        /\ unguarded' = unguarded \cup {WorkflowOf[e] : e \in {x \in Entries : k \in KeysOf(x)}}
    BY <1>5 DEF Expire, Held
  <2>2. \A j \in Keys : j # k => seen'[j] = seen[j]
    BY <1>5 DEF Expire
  <2>3. \A e \in Entries : Guarded(e)' => Guarded(e) /\ k \notin KeysOf(e)
    BY <2>1
  <2>4. \A e \in Entries, j \in Keys : Owns(e, j)' = Owns(e, j) /\ (Owns(e, j) => j \in KeysOf(e))
    BY <2>1 DEF Owns, KeysOf
  <2>5. \A e \in Entries : WorkflowOf[e] \in Keys /\ WorkflowOf[e] \in KeysOf(e)
    BY KeyTypes, KindsAssumption DEF Keys, KeysOf
  <2> HIDE DEF Guarded, Unfinished
  <2> QED BY <2>1, <2>2, <2>3, <2>4, <2>5 DEF HeldNow
<1>6. ASSUME UNCHANGED vars PROVE HeldNow'
  <2>1. phase = "serving" /\ HeldNow
    BY <1>6 DEF vars, Held
  <2> QED BY <1>6, <2>1 DEF vars, HeldNow, Owns, KeysOf
<1>7. \A e \in Entries : ~DiscardDuplicate(e) /\ ~DiscardFails(e)
  BY DEF DiscardDuplicate, DiscardFails
<1>8. ~Advance /\ ~Signal /\ ~End
  BY DEF Advance, Signal, End
<1> QED BY <1>2, <1>3, <1>4, <1>5, <1>6, <1>7, <1>8 DEF Next

\* A step that completes and starts no release keeps Once.
LEMMA OnceKeeps ==
    ASSUME Types, Once,
           \/ unguarded \subseteq unguarded'
           \/ (\A e \in Entries : stage'[e] # "running") /\ completions' = [w \in Workflows |-> 0],
           \A w \in Workflows : completions'[w] \in {0, completions[w]},
           \A e \in Entries : stage'[e] = "running" => stage[e] = "running"
    PROVE  Once'
BY DEF Types, Once

\* A record runs only while it owns the reservation of its workflow run, which
\* excludes both another running record and an earlier completion.
LEMMA OnceStep ==
    ASSUME Basic, Held, Once, [Next]_vars PROVE Once'
<1> USE DEF Basic
<1>1. ASSUME NEW e \in Entries, Run(e) PROVE Once'
  <2>0. unguarded' = unguarded
    BY <1>1 DEF Run
  <2> DEFINE w == WorkflowOf[e]
  <2>1. phase = "serving" /\ stage[e] = "queued" /\ ~business[e]
    BY <1>1 DEF Run, Types, Phased, Staged
  <2>2. HeldNow
    BY <2>1 DEF Held, HeldNow
  <2>3. w \in Keys /\ \A x \in Entries : WorkflowOf[x] = w =>
            w \in KeysOf(x) /\ (stage[x] \in {"queued", "running"} \/ business[x] => Owns(x, w))
    BY KeyTypes, KindsAssumption DEF Staged, Keys, KeysOf, Owns, Types
  <2>4. ASSUME Guarded(e), NEW x \in Entries, WorkflowOf[x] = w,
               stage[x] \in {"queued", "running"} \/ business[x]
        PROVE  x = e
    BY <2>1, <2>2, <2>3, <2>4 DEF HeldNow
  <2>5. Guarded(e) => seen[w] = "in_flight"
    BY <2>1, <2>2, <2>3 DEF HeldNow
  <2>6. Guarded(e) => completions[w] = 0
    BY <2>1, <2>2, <2>4, <2>5, KeyTypes DEF HeldNow
  <2>7. stage' = [stage EXCEPT ![e] = "running"] /\ completions' = completions
    BY <1>1 DEF Run
  <2>8. \A x \in Entries : stage'[x] = "running" => x = e \/ stage[x] = "running"
    BY <2>7 DEF Types
  <2> QED BY <2>0, <2>4, <2>6, <2>7, <2>8 DEF Once
<1>2. ASSUME NEW e \in Entries, BusinessCompletes(e) PROVE Once'
  <2>0. unguarded' = unguarded
    BY <1>2 DEF BusinessCompletes
  <2> DEFINE w == WorkflowOf[e]
  <2>1. /\ stage[e] = "running" /\ stage' = [stage EXCEPT ![e] = "ackTask"]
        /\ completions' = [completions EXCEPT ![w] = completions[w] + 1]
    BY <1>2 DEF BusinessCompletes
  <2>2. w \in Workflows /\ (Guarded(e) => completions[w] = 0)
    BY <2>1, KeyTypes DEF Once
  <2>3. \A x \in Entries : stage'[x] = "running" =>
            stage[x] = "running" /\ (Guarded(e) => WorkflowOf[x] # w)
    BY <2>1, <2>2 DEF Types, Once
  <2>4. \A v \in Workflows : completions'[v] = IF v = w THEN completions[w] + 1 ELSE completions[v]
    BY <2>1, <2>2 DEF Types
  <2> QED BY <2>0, <2>2, <2>3, <2>4 DEF Once
<1>3. ASSUME \/ \E e \in Entries :
                   \/ Handle(e) \/ ClaimNext(e) \/ EnqueueClaimed(e) \/ Interrupt(e) \/ FinalFailure(e)
                   \/ ReleaseRecord(e) \/ RetryFires(e) \/ RunRetry(e) \/ BusinessFails(e)
                   \/ AckDurable(e) \/ AckReturns(e) \/ AckFails(e) \/ DiscardDuplicate(e)
                   \/ DiscardFails(e)
             \/ \E k \in Keys : Expire(k)
             \/ Serve \/ ServeUnscanned \/ Advance \/ Signal \/ End \/ UNCHANGED vars
      PROVE  Once'
  <2> USE <1>3 DEF Handle, ReserveDelivery, ReserveWorkflow, UndoDelivery,
                BeginAdmit, AdmitSucceeds, AdmitFails, ReleaseAdmission, ClaimNext, EnqueueClaimed,
                Interrupt, FinalFailure, ReleaseRecord, RetryFires, RunRetry,
                BusinessFails, AckDurable, AckReturns, AckFails, DiscardDuplicate, DiscardFails, Expire,
                Serve, ServeUnscanned, Advance, Signal, End, vars
  <2>1. \/ unguarded \subseteq unguarded'
        \/ (\A e \in Entries : stage'[e] # "running") /\ completions' = [w \in Workflows |-> 0]
    OBVIOUS
  <2>2. \A w \in Workflows : completions'[w] \in {0, completions[w]}
    OBVIOUS
  <2>3. \A e \in Entries : stage'[e] = "running" => stage[e] = "running"
    BY DEF Types
  <2> QED BY <2>1, <2>2, <2>3, OnceKeeps
<1> QED BY <1>1, <1>2, <1>3 DEF Next, Work, BusinessReturns

\* Records that stay in the queue keep their order.
LEMMA OrderKept ==
    ASSUME QueueExact, Basic, Shape
    PROVE  \A a, b \in Entries :
               Precedes(queue, a, b) /\ stage'[a] \in InQueue /\ stage'[b] \in InQueue
               => Precedes(queue', a, b)
<1> HIDE DEF InQueue
<1>1. queue \in Seq(Entries) /\ Distinct(queue)
  BY DEF QueueExact
<1>2. CASE Stays
  BY <1>2 DEF Stays
<1>3. ASSUME NEW e \in Entries, Joins(e)
      PROVE  \A a, b : Precedes(queue, a, b) => Precedes(queue', a, b)
  BY <1>1, <1>3, AppendOrder DEF Joins
<1>4. ASSUME NEW e \in Entries, Leaves(e)
      PROVE  \A a, b : Precedes(queue, a, b) /\ a # e /\ b # e => Precedes(queue', a, b)
  <2>1. PICK p \in DOMAIN queue : queue[p] = e /\ queue' = Removed(queue, p)
    BY <1>4 DEF Leaves, LeaveQueue, Removed
  <2> QED BY <1>1, <2>1, RemovedOrder
<1>5. CASE Empties
  BY <1>5 DEF Empties, InQueue, Acking, Queued
<1>6. \A e \in Entries : Leaves(e) => stage'[e] \notin InQueue
  BY DEF Leaves
<1> QED BY <1>2, <1>3, <1>4, <1>5, <1>6, Zenon DEF Shape

\* What a step must do for the order to survive when it starts nothing.
Settled(e) == backlog[e] \in {"acking", "done"}
Quiet ==
    /\ offered' = offered
    /\ promised' \subseteq promised
    /\ cancelled => cancelled'
    /\ \A x \in Entries :
          /\ stage'[x] \in {"claimed", "queued", "running"} => stage'[x] = stage[x]
          /\ Settled(x) => Settled(x)'
          /\ backlog[x] = "claimed" /\ stage[x] \in InQueue =>
                Settled(x)' \/ cancelled' \/ (backlog'[x] = "claimed" /\ stage'[x] \in InQueue)

\* A quiet step keeps the order of admission.
LEMMA QuietKeeps ==
    ASSUME QueueExact, Basic, Shape, Ordered, Quiet PROVE Ordered'
<1> SUFFICES ASSUME NEW e \in promised', NEW f \in Entries,
                    Precedes(offered, e, f), QueueKey(e) = QueueKey(f)
             PROVE  /\ stage'[f] = "running" => Settled(e)'
                    /\ stage'[f] \in {"claimed", "queued"} /\ ~cancelled' =>
                          \/ Settled(e)'
                          \/ /\ backlog'[e] = "claimed"
                             /\ stage'[e] \in InQueue
                             /\ stage'[f] = "queued" => Precedes(queue', e, f)
  BY DEF Ordered, Quiet, Settled, QueueKey
<1>1. e \in promised /\ e \in Entries
  BY DEF Quiet, Basic, Types
<1>2. /\ stage[f] = "running" => Settled(e)
      /\ stage[f] \in {"claimed", "queued"} /\ ~cancelled =>
            \/ Settled(e)
            \/ /\ backlog[e] = "claimed"
               /\ stage[e] \in InQueue
               /\ stage[f] = "queued" => Precedes(queue, e, f)
  BY <1>1 DEF Ordered, Settled
<1>3. Precedes(queue, e, f) /\ stage'[e] \in InQueue /\ stage'[f] \in InQueue => Precedes(queue', e, f)
  BY <1>1, OrderKept
<1> HIDE DEF Settled
<1> QED BY <1>1, <1>2, <1>3 DEF Quiet

\* Every step is quiet but for admission, claim, acceptance, start and end.
LEMMA QuietStep ==
    ASSUME Basic, [Next]_vars,
           \A e \in Entries : ~BeginAdmit(e) /\ ~AdmitSucceeds(e) /\ ~ClaimNext(e) /\ ~Run(e)
                             /\ ~(EnqueueClaimed(e) /\ QueueAccepts), ~End
    PROVE  Quiet
<1> USE DEF Basic, Types, Staged, Quiet, Settled
<1>1. ASSUME NEW e \in Entries, ReserveDelivery(e) PROVE Quiet
  BY <1>1 DEF ReserveDelivery
<1>2. ASSUME NEW e \in Entries, ReserveWorkflow(e) PROVE Quiet
  BY <1>2 DEF ReserveWorkflow
<1>3. ASSUME NEW e \in Entries, UndoDelivery(e) PROVE Quiet
  BY <1>3 DEF UndoDelivery
<1>4. ASSUME NEW e \in Entries, AdmitFails(e) PROVE Quiet
  BY <1>4 DEF AdmitFails, Surface
<1>5. ASSUME NEW e \in Entries, ReleaseAdmission(e) PROVE Quiet
  BY <1>5 DEF ReleaseAdmission
<1>6. ASSUME NEW e \in Entries, Interrupt(e) PROVE Quiet
  BY <1>6 DEF Interrupt
<1>7. ASSUME NEW e \in Entries, BusinessCompletes(e) PROVE Quiet
  BY <1>7 DEF BusinessCompletes, Decide
<1>8. ASSUME NEW e \in Entries, BusinessFails(e) PROVE Quiet
  BY <1>8 DEF BusinessFails
<1>9. ASSUME NEW e \in Entries, FinalFailure(e) PROVE Quiet
  BY <1>9 DEF FinalFailure, Unclaim, Decide
<1>10. ASSUME NEW e \in Entries, AckDurable(e) PROVE Quiet
  BY <1>10 DEF AckDurable, Finish
<1>11. ASSUME NEW e \in Entries, AckReturns(e) PROVE Quiet
  BY <1>11 DEF AckReturns
<1>12. ASSUME NEW e \in Entries, AckFails(e) PROVE Quiet
  BY <1>12 DEF AckFails
<1>13. ASSUME NEW e \in Entries, ReleaseRecord(e) PROVE Quiet
  BY <1>13 DEF ReleaseRecord
<1>14. ASSUME NEW e \in Entries, RetryFires(e) PROVE Quiet
  BY <1>14 DEF RetryFires
<1>15. ASSUME NEW e \in Entries, RunRetry(e) PROVE Quiet
  BY <1>15 DEF RunRetry
<1>16. ASSUME NEW e \in Entries, DiscardDuplicate(e) PROVE Quiet
  BY <1>16 DEF DiscardDuplicate, Discard, Phased
<1>17. ASSUME NEW e \in Entries, EnqueueClaimed(e), ~QueueAccepts PROVE Quiet
  BY <1>17 DEF EnqueueClaimed, Unclaim
<1>18. ASSUME Serve \/ ServeUnscanned PROVE Quiet
  BY <1>18 DEF Serve, ServeUnscanned
<1>19. ASSUME Advance PROVE Quiet
  BY <1>19 DEF Advance
<1>20. ASSUME Signal PROVE Quiet
  BY <1>20 DEF Signal
<1>21. ASSUME UNCHANGED vars PROVE Quiet
  BY <1>21 DEF vars
<1>22. ASSUME NEW k \in Keys, Expire(k) PROVE Quiet
  BY <1>22 DEF Expire
<1>23. ASSUME NEW e \in Entries, DiscardFails(e) PROVE Quiet
  BY <1>23 DEF DiscardFails
<1> HIDE DEF Basic, Types, Staged, Quiet, Settled
<1> QED BY <1>1, <1>2, <1>3, <1>4, <1>5, <1>6, <1>7, <1>8, <1>9, <1>10, <1>11, <1>12, <1>13,
           <1>14, <1>15, <1>16, <1>17, <1>18, <1>19, <1>20, <1>21, <1>22, <1>23, Zenon
        DEF Next, Handle, Work, BusinessReturns

\* Every step keeps the order of admission: an admitted record is the last one
\* offered, a claim passes over no pending promise, acceptance appends, and a
\* task starts only when it is the oldest of its key.
LEMMA OrderedStep ==
    ASSUME Basic, Basic', Shape, QueueExact, Ordered, [Next]_vars PROVE Ordered'
<1> USE DEF Basic
<1>1. ASSUME NEW x \in Entries, BeginAdmit(x) PROVE Ordered'
  <2>1. /\ offered' = Append(offered, x) /\ offered \in Seq(Entries)
        /\ stage[x] \notin {"claimed", "queued", "running"}
    BY <1>1 DEF BeginAdmit, Offer, Types, Staged
  <2>2. \A a, b : Precedes(offered', a, b) => Precedes(offered, a, b) \/ b = x
    BY <2>1, AppendOrder
  <2>3. /\ stage' = stage /\ queue' = queue /\ promised' = promised /\ phase' = phase
        /\ \A a \in Entries : a # x => backlog'[a] = backlog[a]
        /\ x \notin promised
    BY <1>1 DEF BeginAdmit, Offer, Types, OfferedOnce
  <2>4. \A a \in promised : a \in Entries
    BY DEF Types
  <2> QED BY <2>1, <2>2, <2>3, <2>4 DEF Ordered, QueueKey
<1>2. ASSUME NEW x \in Entries, AdmitSucceeds(x) PROVE Ordered'
  <2>1. /\ offered' = offered /\ stage' = stage /\ queue' = queue /\ phase' = phase
        /\ promised' = promised \cup {x}
        /\ \A a \in Entries : a # x => backlog'[a] = backlog[a]
        /\ \A f \in Entries : ~Precedes(offered, x, f)
    BY <1>2 DEF AdmitSucceeds, Promise, Types, Handled
  <2>2. \A a \in promised : a \in Entries
    BY DEF Types
  <2> QED BY <2>1, <2>2 DEF Ordered, QueueKey
<1>3. ASSUME NEW x \in Entries, ClaimNext(x) PROVE Ordered'
  <2>1. /\ offered' = offered /\ queue' = queue /\ promised' = promised /\ phase' = phase
        /\ backlog[x] = "pending" /\ backlog' = [backlog EXCEPT ![x] = "claimed"]
        /\ stage[x] = "none" /\ stage' = [stage EXCEPT ![x] = "claimed"]
        /\ \A a \in promised : Precedes(offered, a, x) => backlog[a] # "pending"
        /\ \A a \in Entries : stage[a] # "claimed"
    BY <1>3 DEF ClaimNext, Claim, Oldest, Before, Precedes
  <2>2. /\ \A a \in Entries : stage'[a] = IF a = x THEN "claimed" ELSE stage[a]
        /\ \A a \in Entries : backlog'[a] = IF a = x THEN "claimed" ELSE backlog[a]
    BY <2>1 DEF Types
  <2>3. \A a \in Entries : backlog[a] = "claimed" => stage[a] \in InQueue
    <3> SUFFICES ASSUME NEW a \in Entries, backlog[a] = "claimed" PROVE stage[a] \in InQueue
      OBVIOUS
    <3>1. StagedAt(a) /\ stage[a] \in Stages /\ stage[a] # "claimed"
      BY <2>1 DEF Staged, Types
    <3> QED BY <3>1
  <2>4. \A a \in promised : a \in Entries /\ backlog[a] \in {"pending", "claimed", "acking", "done"}
    BY DEF Types, OfferedOnce
  <2>5. ASSUME NEW a \in promised, NEW b \in Entries, Precedes(offered, a, b), QueueKey(a) = QueueKey(b)
        PROVE  /\ stage'[b] = "running" => backlog'[a] \in {"acking", "done"}
               /\ stage'[b] \in {"claimed", "queued"} /\ ~cancelled =>
                    \/ backlog'[a] \in {"acking", "done"}
                    \/ /\ backlog'[a] = "claimed"
                       /\ stage'[a] \in InQueue
                       /\ stage'[b] = "queued" => Precedes(queue, a, b)
    <3>1. CASE b = x
      <4>1. CASE a = x
        BY <2>1, <2>5, <3>1, <4>1
      <4>2. CASE a # x
        BY <2>1, <2>2, <2>3, <2>4, <2>5, <3>1, <4>2
      <4> QED BY <4>1, <4>2
    <3>2. CASE b # x
      <4>1. /\ stage[b] = "running" => backlog[a] \in {"acking", "done"}
            /\ stage[b] \in {"claimed", "queued"} /\ ~cancelled =>
                 \/ backlog[a] \in {"acking", "done"}
                 \/ /\ backlog[a] = "claimed"
                    /\ stage[a] \in InQueue
                    /\ stage[b] = "queued" => Precedes(queue, a, b)
        BY <2>5 DEF Ordered
      <4> QED BY <2>1, <2>2, <2>4, <3>2, <4>1
    <3> QED BY <3>1, <3>2
  <2> QED BY <2>1, <2>5 DEF Ordered, QueueKey
<1>4. ASSUME NEW x \in Entries, EnqueueClaimed(x), QueueAccepts PROVE Ordered'
  <2>1. /\ offered' = offered /\ promised' = promised /\ phase' = phase /\ backlog' = backlog
        /\ ~cancelled /\ queue' = Append(queue, x) /\ queue \in Seq(Entries)
        /\ stage[x] = "claimed" /\ stage' = [stage EXCEPT ![x] = "queued"]
    BY <1>4 DEF EnqueueClaimed, QueueAccepts, QueueExact
  <2>2. \A a \in Entries : stage'[a] = IF a = x THEN "queued" ELSE stage[a]
    BY <2>1 DEF Types
  <2>3. \A a, b : Precedes(queue', a, b) <=> Precedes(queue, a, b) \/ (b = x /\ Within(queue, a))
    BY <2>1, AppendOrder
  <2>4. \A a \in Entries : stage[a] \in InQueue => Within(queue, a)
    BY DEF QueueExact
  <2>5. backlog[x] = "claimed"
    BY <2>1 DEF Staged
  <2>6. ASSUME NEW a \in promised, NEW b \in Entries, Precedes(offered, a, b), QueueKey(a) = QueueKey(b)
        PROVE  /\ stage'[b] = "running" => backlog[a] \in {"acking", "done"}
               /\ stage'[b] \in {"claimed", "queued"} =>
                    \/ backlog[a] \in {"acking", "done"}
                    \/ /\ backlog[a] = "claimed"
                       /\ stage'[a] \in InQueue
                       /\ stage'[b] = "queued" => Precedes(queue', a, b)
    <3>0. a \in Entries
      BY DEF Types
    <3>1. /\ stage[b] = "running" => backlog[a] \in {"acking", "done"}
          /\ stage[b] \in {"claimed", "queued"} =>
                 \/ backlog[a] \in {"acking", "done"}
                 \/ /\ backlog[a] = "claimed"
                    /\ stage[a] \in InQueue
                    /\ stage[b] = "queued" => Precedes(queue, a, b)
      BY <2>1, <2>6 DEF Ordered
    <3>2. stage[a] \in InQueue => stage'[a] \in InQueue /\ Within(queue, a)
      BY <2>1, <2>2, <2>4, <3>0
    <3> HIDE DEF InQueue
    <3>3. CASE b = x
      BY <2>1, <2>2, <2>3, <3>1, <3>2, <3>3
    <3>4. CASE b # x
      BY <2>2, <2>3, <3>1, <3>2, <3>4
    <3> QED BY <3>3, <3>4
  <2> QED BY <2>1, <2>6 DEF Ordered, QueueKey
<1>5. ASSUME NEW x \in Entries, Run(x) PROVE Ordered'
  <2>1. /\ offered' = offered /\ promised' = promised /\ phase' = phase /\ backlog' = backlog
        /\ ~cancelled /\ queue' = queue
        /\ stage[x] = "queued" /\ stage' = [stage EXCEPT ![x] = "running"]
        /\ \A a : Precedes(queue, a, x) => QueueKey(a) # QueueKey(x)
    BY <1>5 DEF Run, Current, Precedes
  <2>2. \A a \in Entries : stage'[a] = IF a = x THEN "running" ELSE stage[a]
    BY <2>1 DEF Types
  <2>3. \A a \in promised : a \in Entries
    BY DEF Types
  <2>4. \A a \in Entries : stage[a] \in InQueue => stage'[a] \in InQueue
    BY <2>2
  <2> HIDE DEF InQueue
  <2> QED BY <2>1, <2>2, <2>3, <2>4 DEF Ordered, QueueKey
<1>6. ASSUME End PROVE Ordered'
  <2>1. \A f \in Entries : stage'[f] = "none"
    BY <1>6 DEF End
  <2> QED BY <2>1 DEF Ordered
<1>7. ASSUME \A e \in Entries : ~BeginAdmit(e) /\ ~AdmitSucceeds(e) /\ ~ClaimNext(e) /\ ~Run(e)
                               /\ ~(EnqueueClaimed(e) /\ QueueAccepts),
             ~End
      PROVE  Ordered'
  BY <1>7, QuietStep, QuietKeeps
<1> QED BY <1>1, <1>2, <1>3, <1>4, <1>5, <1>6, <1>7, Zenon

-------------------------------------------------------------------------------
(* The theorems. *)

\* The inductive invariant.
IInv == Basic /\ QueueExact /\ Held /\ Once /\ Ordered

\* It holds of a new service with an empty backlog.
LEMMA InitHolds == Init => IInv
<1> SUFFICES ASSUME Init PROVE IInv
  OBVIOUS
<1> USE DEF Init, BacklogInit
<1>1. Basic
  <2>1. Types
    BY BoundsAssumption DEF Types
  <2>2. Handled /\ OfferedOnce
    BY DEF Handled, OfferedOnce, Within
  <2>3. Staged /\ OneClaim /\ Interrupts
    BY DEF Staged, OneClaim, Interrupts
  <2>4. Phased
    BY DEF Phased
  <2> QED BY <2>1, <2>2, <2>3, <2>4 DEF Basic
<1>2. QueueExact
  <2>1. InQueueSet = {}
    BY DEF InQueueSet
  <2>2. queue = <<>> /\ Distinct(queue) /\ \A e : ~Within(queue, e)
    BY DEF Distinct, Within
  <2>3. \A e \in Entries : stage[e] \notin InQueue
    OBVIOUS
  <2> HIDE DEF Init
  <2> QED BY <2>1, <2>2, <2>3, FS_EmptySet DEF QueueExact
<1>3. Held /\ Once /\ Ordered
  BY DEF Held, Once, Ordered
<1> QED BY <1>1, <1>2, <1>3 DEF IInv

\* Every step keeps it.
LEMMA StepHolds == IInv /\ [Next]_vars => IInv'
BY BasicStep, QueueStep, HeldStep, OnceStep, OrderedStep DEF IInv

\* The inductive invariant holds in every state.
THEOREM InvHolds == Spec => []IInv
BY InitHolds, StepHolds, PTL DEF Spec

\* Every variable keeps its type, and the queue is exactly as long as there are
\* tasks that were accepted and have not ended.
THEOREM TypeCorrect == Spec => []TypeOK
<1>1. IInv => TypeOK
  BY DEF IInv, Basic, Types, QueueExact, InQueueSet, TypeOK
<1> QED BY <1>1, InvHolds, PTL

\* While the service is up, two records of one workflow run are never both
\* unfinished and an unfinished record keeps its reservations: rollbacks of
\* handlers, failing acknowledgements and startup release no key of another.  Only
\* the runs whose reservation lapsed in this process are excepted: an expired key, a
\* refused record or a duplicate that stayed, or a startup that could not scan.
THEOREM DeduplicationHolds == Spec => []LiveRecordsReserved
<1>1. IInv => LiveRecordsReserved
  <2> SUFFICES ASSUME HeldNow PROVE OneLiveRecord /\ ReservationCoversRecord
    BY DEF IInv, Held, LiveRecordsReserved, OneLiveRecord, ReservationCoversRecord
  <2>2. \A e \in Entries : WorkflowOf[e] \in KeysOf(e) /\ KeysOf(e) \subseteq Keys
    BY KeyTypes, KindsAssumption DEF KeysOf, Keys
  <2>3. \A e \in Entries : Unfinished(e) => \A k \in KeysOf(e) : Owns(e, k)
    BY DEF Owns
  <2> HIDE DEF Unfinished
  <2>4. OneLiveRecord
    <3> SUFFICES ASSUME NEW e \in Entries, NEW f \in Entries, WorkflowOf[e] = WorkflowOf[f],
                        WorkflowOf[e] \notin unguarded, Unfinished(e), Unfinished(f)
                 PROVE  e = f
      BY DEF OneLiveRecord
    <3>1. Owns(e, WorkflowOf[e]) /\ Owns(f, WorkflowOf[e]) /\ WorkflowOf[e] \in Keys
      BY <2>2, <2>3
    <3> QED BY <3>1 DEF HeldNow
  <2>5. ReservationCoversRecord
    BY <2>2, <2>3 DEF HeldNow, ReservationCoversRecord
  <2> QED BY <2>4, <2>5
<1> QED BY <1>1, InvHolds, PTL

\* One process completes the release of a workflow run at most once, however
\* often its webhook is delivered and whatever fails afterwards, unless the run's
\* reservation lapsed in that process.
THEOREM AtMostOneCompletion == Spec => []CompletedOnce
<1>1. IInv => CompletedOnce
  BY DEF IInv, Once, CompletedOnce
<1> QED BY <1>1, InvHolds, PTL

\* A job that a signal stopped is never acknowledged by the process that stopped
\* it: its record stays claimed or pending for the next one.
THEOREM InterruptedJobsSurvive == Spec => []InterruptedReplayable
<1>1. IInv => InterruptedReplayable
  BY DEF IInv, Basic, Interrupts, InterruptedReplayable
<1> QED BY <1>1, InvHolds, PTL

\* No release runs while an older accepted record of its repository and branch
\* could still run, through rejected claims, signals and restarts.
THEOREM AdmissionOrderKept == Spec => []NoOvertaking
<1>1. IInv => NoOvertaking
  BY DEF IInv, Ordered, NoOvertaking, Before, Precedes
<1> QED BY <1>1, InvHolds, PTL

\* After the spool was closed no handler, closure or retry of this process
\* changes the backlog, since the queue was awaited and no handler is admitting.
THEOREM ClosedMeansQuiet == Spec => QuietAfterClose
<1>1. ASSUME IInv, [Next]_vars PROVE phase = "closed" => phase' = "down" \/ UNCHANGED backlogVars
  <2> SUFFICES ASSUME phase = "closed", Next PROVE phase' = "down" \/ UNCHANGED backlogVars
    BY <1>1 DEF vars
  <2>1. \A e \in Entries :
           /\ stage[e] \in {"none", "waitRetry"} /\ http[e] # "writing"
           /\ http[e] = "admitting" => backlog[e] # "uncertain"
    <3>1. queue = <<>> /\ SpoolFree /\ \A e \in Entries : stage[e] # "claimed"
      BY <1>1 DEF IInv, Basic, Phased
    <3>2. \A e \in Entries : stage[e] \notin InQueue
      <4>1. \A e : ~Within(<<>>, e)
        BY DEF Within
      <4> QED BY <1>1, <3>1, <4>1 DEF IInv, QueueExact
    <3> QED BY <1>1, <3>1, <3>2 DEF IInv, Basic, Types, Handled, SpoolFree
  <2>2. ASSUME NEW e \in Entries,
               Handle(e) \/ Work(e) \/ BusinessReturns(e) \/ AckDurable(e) \/ AckReturns(e) \/ AckFails(e)
               \/ DiscardDuplicate(e) \/ DiscardFails(e)
        PROVE  UNCHANGED backlogVars
    BY <2>1, <2>2 DEF Handle, Work, BusinessReturns, ReserveDelivery, ReserveWorkflow, UndoDelivery,
                BeginAdmit, AdmitSucceeds, AdmitFails, ReleaseAdmission, ClaimNext, EnqueueClaimed,
                Run, Interrupt, FinalFailure, ReleaseRecord, RetryFires, RunRetry, Surface,
                BusinessCompletes, BusinessFails, AckDurable, AckReturns, AckFails, DiscardDuplicate, DiscardFails
  <2>3. ASSUME (\E k \in Keys : Expire(k)) \/ Serve \/ ServeUnscanned \/ Advance \/ Signal PROVE UNCHANGED backlogVars
    BY <2>3 DEF Expire, Serve, ServeUnscanned, Advance, Signal
  <2>4. ASSUME End PROVE phase' = "down"
    BY <2>4 DEF End
  <2> QED BY <2>2, <2>3, <2>4 DEF Next
<1>2. IInv /\ [Next]_vars => [phase = "closed" => phase' = "down" \/ UNCHANGED backlogVars]_vars
  BY <1>1
<1> QED BY InvHolds, <1>2, PTL DEF Spec, QuietAfterClose
================================================================================

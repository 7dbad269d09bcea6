---------------------------- MODULE WebhookService ----------------------------
(***************************************************************************)
(* The App server of internal/app/server.go around its durable backlog:    *)
(* HTTP handlers that reserve, admit and answer; the deduper of dedupe.go; *)
(* the spool's drainer; the closures a claimed record carries through the  *)
(* release queue; acknowledgement retries; shutdown, crash and restart.    *)
(*                                                                         *)
(* The spool is DurableBacklog, whose actions occur here as conjuncts, and *)
(* the queue is a sequence of the records its workers have not let go of:  *)
(* a record runs when it is the first of its key.  (RepositoryExecutor     *)
(* restricts the order further; nothing here relies on it.)  A stage is    *)
(* where the closures of a record are between two steps that another       *)
(* goroutine may come between.                                             *)
(*                                                                         *)
(* Left out: the ways a webhook is turned away before its first            *)
(* reservation, records that no longer decode (they are discarded at       *)
(* startup, or claimed if that fails), a listener that fails by itself,    *)
(* and a second claim of a record whose first closures are still returning *)
(* after a signal (the cancelled queue rejects it at once).                *)
(*                                                                         *)
(* An action's variants are the same step with a plausible defect; each    *)
(* breaks a property, and none is part of Next.                            *)
(***************************************************************************)
EXTENDS DurableBacklog, FiniteSets

CONSTANTS
    Deliveries, Workflows, QueueKeys,
    DeliveryOf,        \* x-github-delivery of each webhook, or None
    WorkflowOf,        \* its WorkflowRunKey
    QueueKeyOf,        \* the releaseQueueKey of a workflow run
    MaxPending,        \* DefaultQueueMaxPending
    MaxRestarts,       \* bound on process ends
    MaxLapses,         \* bound on the ways a reservation is lost, see Lapse
    None

ASSUME DeliveryAssumption ==
    /\ DeliveryOf \in [Entries -> Deliveries \cup {None}]
    /\ WorkflowOf \in [Entries -> Workflows]
    /\ \A e, f \in Entries :
           DeliveryOf[e] = DeliveryOf[f] /\ DeliveryOf[e] # None => WorkflowOf[e] = WorkflowOf[f]
ASSUME KeysAssumption == QueueKeyOf \in [Workflows -> QueueKeys]
ASSUME BoundsAssumption == MaxPending \in Nat \ {0} /\ {MaxRestarts, MaxLapses} \subseteq Nat
\* Keys carry the prefix of their kind, and the empty delivery key is None.
ASSUME KindsAssumption == Deliveries \cap Workflows = {} /\ None \notin Deliveries \cup Workflows

VARIABLES
    phase,         \* how far the process is through its life
    seen,          \* the deduper: the state of each key
    http,          \* the handler of each webhook
    stage,         \* the closures of each claimed record
    business,      \* businessComplete of those closures
    queue,         \* the tasks accepted and not done, in order of acceptance
    restarts,      \* process ends so far
    lapses,        \* how often a reservation lapsed
    unguarded,     \* history: the workflow runs whose reservation lapsed in this process
    completions,   \* history: releases of a workflow run completed by this process
    interrupted    \* history: records this process stopped because of a signal

closures == <<stage, business>>
service  == <<phase, seen, http, closures, queue, restarts, lapses, unguarded, completions,
              interrupted>>
vars     == <<backlogVars, service>>

Phases == {"down", "starting", "serving", "signalled", "stopped", "shut", "waited", "closed"}
Handlers == {"new", "reserving", "undoing", "admitting", "writing", "releasing", "released",
             "gone"}                              \* answered, or cut off
Acking == {"ackTask", "ackFinal", "ackRetry"}
Queued == {"queued", "running", "ackTask", "queuedRetry", "ackRetry"}   \* hold q.pending
InQueue == Acking \cup Queued \cup {"final", "releaseDelivery", "releaseWorkflow"}
Stages == InQueue \cup {"none", "claimed", "waitRetry"}

Keys == Deliveries \cup Workflows

TypeOK ==
    /\ backlog \in [Entries -> States]
    /\ offered \in Seq(Entries)
    /\ promised \in SUBSET Entries
    /\ decided \in SUBSET Entries
    /\ phase \in Phases
    /\ seen \in [Keys -> {"absent", "in_flight", "succeeded"}]
    /\ http \in [Entries -> Handlers]
    /\ stage \in [Entries -> Stages]
    /\ business \in [Entries -> BOOLEAN]
    /\ queue \in Seq(Entries)
    /\ Len(queue) = Cardinality({e \in Entries : stage[e] \in InQueue})
    /\ restarts \in 0..MaxRestarts
    /\ lapses \in 0..MaxLapses
    /\ unguarded \in SUBSET Workflows
    /\ completions \in [Workflows -> Nat]
    /\ interrupted \in SUBSET Entries

Init ==
    /\ BacklogInit
    /\ phase = "down"
    /\ seen = [k \in Keys |-> "absent"]
    /\ http = [e \in Entries |-> "new"]
    /\ stage = [e \in Entries |-> "none"]
    /\ business = [e \in Entries |-> FALSE]
    /\ queue = <<>>
    /\ restarts = 0 /\ lapses = 0 /\ unguarded = {}
    /\ completions = [w \in Workflows |-> 0]
    /\ interrupted = {}

\* The signal context, from which the queue's derives, is done.
cancelled == phase \in {"signalled", "stopped", "shut", "waited", "closed"}
Listening == phase \in {"serving", "signalled", "stopped"}
Draining  == phase \in {"serving", "signalled"}
Running   == phase \notin {"down", "starting"}

QueueKey(e) == QueueKeyOf[WorkflowOf[e]]
KeysOf(e)   == {DeliveryOf[e], WorkflowOf[e]} \ {None}

-------------------------------------------------------------------------------
(* The deduper.  A key of None is never reserved and always available. *)

Available(k)    == k = None \/ seen[k] = "absent"
Mark(ks, state) == seen' = [k \in Keys |-> IF k \in ks THEN state ELSE seen[k]]
Reserve(k)      == Mark({k}, "in_flight")
Release(ks)     == Mark(ks, "absent")
Succeed(ks)     == Mark({k \in ks : seen[k] # "absent"}, "succeeded")

\* The ways the code has of losing the reservation of an unfinished record, or of
\* letting a second record of its workflow run in: an expired key, a refused record
\* or a duplicate that could not be removed, and a failed scan at startup.
Lapse(ws) ==
    /\ lapses < MaxLapses
    /\ lapses' = lapses + 1
    /\ unguarded' = unguarded \cup ws

\* An entry older than the time to live is pruned; no handler takes that long.
Expire(k) ==
    /\ \A e \in Entries : k \in KeysOf(e) => http[e] \in {"new", "gone"}
    /\ Lapse({WorkflowOf[e] : e \in {x \in Entries : k \in KeysOf(x)}})
    /\ seen[k] # "absent"
    /\ Release({k})
    /\ UNCHANGED <<backlogVars, phase, http, closures, queue, restarts, completions, interrupted>>

-------------------------------------------------------------------------------
(* The HTTP handler, from the first reservation of a validated webhook on. *)

Respond(e, state) == http' = [http EXCEPT ![e] = state]
OtherThanHTTP == <<phase, closures, queue, restarts, lapses, unguarded, completions, interrupted>>

ReserveDelivery(e) ==
    /\ http[e] = "new" /\ Listening
    /\ IF Available(DeliveryOf[e])
         THEN Reserve(DeliveryOf[e]) /\ Respond(e, "reserving")
         ELSE Respond(e, "gone") /\ UNCHANGED seen
    /\ UNCHANGED <<backlogVars, OtherThanHTTP>>

ReserveWorkflow(e) ==
    /\ http[e] = "reserving"
    /\ IF Available(WorkflowOf[e])
         THEN Reserve(WorkflowOf[e]) /\ Respond(e, "admitting")
         ELSE Respond(e, "undoing") /\ UNCHANGED seen
    /\ UNCHANGED <<backlogVars, OtherThanHTTP>>

UndoDelivery(e) ==
    /\ http[e] = "undoing"
    /\ Release({DeliveryOf[e]})
    /\ Respond(e, "gone")
    /\ UNCHANGED <<backlogVars, OtherThanHTTP>>

\* Admit holds s.mu while the record is written.
SpoolFree == \A e \in Entries : http[e] # "writing"

\* spool.Admit, which may fail before or after the record has its name; a
\* closed spool always refuses.
BeginAdmit(e) ==
    /\ http[e] = "admitting" /\ phase # "closed" /\ SpoolFree
    /\ Offer(e)
    /\ Respond(e, "writing")
    /\ UNCHANGED <<seen, OtherThanHTTP>>

AdmitSucceeds(e) ==
    /\ http[e] = "writing"
    /\ Promise(e)
    /\ Respond(e, "gone")
    /\ UNCHANGED <<seen, OtherThanHTTP>>

\* A refused record may stay where scans see it, if its removal fails as well.
AdmitFails(e) ==
    /\ http[e] \in {"admitting", "writing"}
    /\ Respond(e, "releasing")
    /\ \/ UNCHANGED <<backlogVars, lapses, unguarded>>
       \/ Surface(e) /\ Lapse({WorkflowOf[e]})
    /\ UNCHANGED <<seen, phase, closures, queue, restarts, completions, interrupted>>

ReleaseAdmission(e) ==
    /\ \/ http[e] = "releasing" /\ Release({DeliveryOf[e]}) /\ Respond(e, "released")
       \/ http[e] = "released" /\ Release({WorkflowOf[e]}) /\ Respond(e, "gone")
    /\ UNCHANGED <<backlogVars, OtherThanHTTP>>

Handle(e) ==
    \/ ReserveDelivery(e) \/ ReserveWorkflow(e) \/ UndoDelivery(e)
    \/ BeginAdmit(e) \/ AdmitSucceeds(e) \/ AdmitFails(e) \/ ReleaseAdmission(e)

-------------------------------------------------------------------------------
(* The drainer: one goroutine that claims a record and enqueues its task. *)

OtherThanDrainer == <<phase, seen, http, restarts, lapses, unguarded, completions, interrupted>>

QueueAccepts ==
    /\ ~cancelled
    /\ Cardinality({e \in Entries : stage[e] \in Queued}) < MaxPending

ClaimNext(e) ==
    /\ Draining /\ SpoolFree
    /\ \A f \in Entries : stage[f] # "claimed"
    /\ stage[e] = "none"
    /\ Claim(e)
    /\ stage' = [stage EXCEPT ![e] = "claimed"]
    /\ business' = [business EXCEPT ![e] = FALSE]
    /\ UNCHANGED <<queue, OtherThanDrainer>>

EnqueueClaimed(e) ==
    /\ stage[e] = "claimed"
    /\ IF QueueAccepts
         THEN /\ queue' = Append(queue, e)
              /\ stage' = [stage EXCEPT ![e] = "queued"]
              /\ UNCHANGED backlogVars
         ELSE /\ SpoolFree
              /\ Unclaim(e)
              /\ stage' = [stage EXCEPT ![e] = "none"]
              /\ UNCHANGED queue
    /\ UNCHANGED <<business, OtherThanDrainer>>

-------------------------------------------------------------------------------
(* The closures of a claimed record, run by the worker of its key. *)

OtherThanTask == <<phase, http, restarts, lapses, unguarded>>

\* Variant: every task has a worker.
CurrentAlways(e) == e \in Entries

\* The worker's current task is the oldest of its key.
Current(e) ==
    \A i, j \in DOMAIN queue :
        i < j /\ queue[j] = e => QueueKey(queue[i]) # QueueKey(e)

Goto(e, to) == stage' = [stage EXCEPT ![e] = to]
LeaveQueue(e) ==
    \E i \in DOMAIN queue :
        /\ queue[i] = e
        /\ queue' = [j \in 1..Len(queue) - 1 |-> queue[IF j < i THEN j ELSE j + 1]]

Run(e) ==
    /\ stage[e] = "queued" /\ Current(e) /\ ~cancelled
    /\ Goto(e, "running")
    /\ UNCHANGED <<backlogVars, seen, business, queue, completions, interrupted, OtherThanTask>>

\* The queue gives a waiting task up, or a running one honours its context.
Interrupt(e) ==
    /\ cancelled
    /\ (stage[e] = "queued" /\ Current(e)) \/ stage[e] = "running"
    /\ Goto(e, "final")
    /\ interrupted' = interrupted \cup {e}
    /\ UNCHANGED <<backlogVars, seen, business, queue, completions, OtherThanTask>>

\* ReleaseFromWorkflowRunContext succeeds and the task starts to acknowledge.
BusinessCompletes(e) ==
    /\ stage[e] = "running"
    /\ business' = [business EXCEPT ![e] = TRUE]
    /\ completions' = [completions EXCEPT ![WorkflowOf[e]] = @ + 1]
    /\ Decide(e)
    /\ Goto(e, "ackTask")
    /\ UNCHANGED <<seen, queue, interrupted, OtherThanTask>>

BusinessFails(e) ==
    /\ stage[e] = "running"
    /\ Goto(e, "final")
    /\ UNCHANGED <<backlogVars, seen, business, queue, completions, interrupted, OtherThanTask>>

\* Variant: a cancelled run is acknowledged as failed.
FinalFailureAcknowledged(e) ==
    /\ stage[e] = "final"
    /\ Goto(e, "ackFinal")
    /\ IF business[e] THEN UNCHANGED backlogVars ELSE Decide(e)
    /\ UNCHANGED <<seen, business, queue, completions, interrupted, OtherThanTask>>

\* onFinalFailure.  A cancelled run that did not complete stays replayable.
FinalFailure(e) ==
    /\ stage[e] = "final"
    /\ \/ /\ cancelled /\ ~business[e] /\ SpoolFree
          /\ Unclaim(e)
          /\ Goto(e, "releaseDelivery")
       \/ /\ business[e]
          /\ Goto(e, "ackFinal")
          /\ UNCHANGED backlogVars
       \/ /\ ~cancelled /\ ~business[e]
          /\ Decide(e)
          /\ Goto(e, "ackFinal")
    /\ UNCHANGED <<seen, business, queue, completions, interrupted, OtherThanTask>>

\* AckTerminal: its outcome becomes durable, and it returns nil only then, but
\* may return an error before or after.
AckDurable(e) ==
    /\ stage[e] \in Acking /\ SpoolFree
    /\ Finish(e)
    /\ UNCHANGED <<seen, closures, queue, completions, interrupted, OtherThanTask>>

\* Variant: a completed record's keys are released as a failed one's are.
AckReturnsReleasing(e) ==
    /\ stage[e] \in Acking
    /\ backlog[e] = "done"
    /\ Goto(e, "releaseDelivery")
    /\ UNCHANGED <<backlogVars, seen, queue, business, completions, interrupted, OtherThanTask>>

AckReturns(e) ==
    /\ stage[e] \in Acking
    /\ backlog[e] = "done"
    /\ IF business[e]
         THEN Succeed(KeysOf(e)) /\ Goto(e, "none") /\ LeaveQueue(e)
              /\ business' = [business EXCEPT ![e] = FALSE]
         ELSE Goto(e, "releaseDelivery") /\ UNCHANGED <<seen, queue, business>>
    /\ UNCHANGED <<backlogVars, completions, interrupted, OtherThanTask>>

\* Variants: the keys are released before the retry, the retry is not armed, and
\* the failed task is still there when it is.
AckFailsReleasing(e) ==
    /\ stage[e] \in Acking
    /\ \/ stage[e] = "ackTask" /\ Goto(e, "final") /\ UNCHANGED <<queue, seen>>
       \/ stage[e] # "ackTask" /\ Goto(e, "waitRetry") /\ LeaveQueue(e) /\ Release(KeysOf(e))
    /\ UNCHANGED <<backlogVars, business, completions, interrupted, OtherThanTask>>

AckFailsForgetting(e) ==
    /\ stage[e] \in Acking
    /\ \/ stage[e] = "ackTask" /\ Goto(e, "final") /\ UNCHANGED queue
       \/ stage[e] # "ackTask" /\ Goto(e, "none") /\ LeaveQueue(e)
    /\ UNCHANGED <<backlogVars, seen, business, completions, interrupted, OtherThanTask>>

AckFailsInPlace(e) ==
    /\ stage[e] \in Acking
    /\ Goto(e, IF stage[e] = "ackTask" THEN "final" ELSE "waitRetry")
    /\ UNCHANGED <<backlogVars, queue, seen, business, completions, interrupted, OtherThanTask>>

\* The task's error leads to onFinalFailure; the others' to scheduleAckRetry.
AckFails(e) ==
    /\ stage[e] \in Acking
    /\ \/ stage[e] = "ackTask" /\ Goto(e, "final") /\ UNCHANGED queue
       \/ stage[e] # "ackTask" /\ Goto(e, "waitRetry") /\ LeaveQueue(e)
    /\ UNCHANGED <<backlogVars, seen, business, completions, interrupted, OtherThanTask>>

\* The two releases that follow a failed acknowledgement or an unclaim.
ReleaseRecord(e) ==
    /\ \/ /\ stage[e] = "releaseDelivery"
          /\ Release({DeliveryOf[e]})
          /\ Goto(e, "releaseWorkflow")
          /\ UNCHANGED queue
       \/ /\ stage[e] = "releaseWorkflow"
          /\ Release({WorkflowOf[e]})
          /\ Goto(e, "none")
          /\ LeaveQueue(e)
    /\ UNCHANGED <<backlogVars, business, completions, interrupted, OtherThanTask>>

\* scheduleAckRetry: its timer fires and the queue accepts a cleanup task; a
\* rejection arms the timer again.
RetryFires(e) ==
    /\ stage[e] = "waitRetry" /\ phase # "closed"
    /\ QueueAccepts
    /\ queue' = Append(queue, e)
    /\ Goto(e, "queuedRetry")
    /\ UNCHANGED <<backlogVars, seen, business, completions, interrupted, OtherThanTask>>

RunRetry(e) ==
    /\ stage[e] = "queuedRetry" /\ Current(e)
    /\ IF cancelled
         THEN Goto(e, "waitRetry") /\ LeaveQueue(e)
         ELSE Goto(e, "ackRetry") /\ UNCHANGED queue
    /\ UNCHANGED <<backlogVars, seen, business, completions, interrupted, OtherThanTask>>

Work(e) ==
    \/ ClaimNext(e) \/ EnqueueClaimed(e) \/ Run(e) \/ Interrupt(e) \/ FinalFailure(e)
    \/ ReleaseRecord(e) \/ RetryFires(e) \/ RunRetry(e)

BusinessReturns(e) == BusinessCompletes(e) \/ BusinessFails(e)

-------------------------------------------------------------------------------
(* The life of the process. *)

Unreserved == <<http, closures, queue, restarts, completions, interrupted>>
OtherThanPhase == <<seen, lapses, unguarded, Unreserved>>

Recovered == {e \in Entries : backlog[e] = "pending"}

\* Two records found at startup share a key.  They are read in the order of their
\* names, which is that of admission but for a record that was not promised.
Clash(e, f) == e # f /\ {e, f} \subseteq Recovered /\ KeysOf(e) \cap KeysOf(f) # {}
Duplicates(e, f) == Clash(e, f) /\ ~(e \in promised /\ Before(e, f))

\* A record whose keys an earlier one has reserved is discarded.
DiscardDuplicate(e) ==
    /\ phase = "starting"
    /\ \E f \in Entries : Duplicates(e, f)
    /\ Discard(e)
    /\ UNCHANGED service

\* Discard says nothing of a failure, so that duplicates of the workflow run may stay.
DiscardFails(e) ==
    /\ phase = "starting"
    /\ \E f \in Entries : Duplicates(e, f)
    /\ WorkflowOf[e] \notin unguarded
    /\ Lapse({WorkflowOf[e]})
    /\ UNCHANGED <<backlogVars, phase, seen, Unreserved>>

\* NewWebhookHandler has reserved the keys of every record it found but for
\* duplicates, and starts the drainer; then the listener opens.
Serve ==
    /\ phase = "starting"
    /\ phase' = "serving"
    /\ \E firsts \in SUBSET Recovered :
        /\ \A e, f \in firsts : ~Clash(e, f)
        /\ \A e \in Recovered \ firsts :
               WorkflowOf[e] \in unguarded /\ \E f \in firsts : Duplicates(e, f)
        /\ Mark(UNION {KeysOf(e) : e \in firsts}, "in_flight")
    /\ UNCHANGED <<backlogVars, lapses, unguarded, Unreserved>>

\* spool.Pending fails, which is logged, and the service starts with no reservation.
ServeUnscanned ==
    /\ phase = "down"
    /\ phase' = "serving"
    /\ Lapse({WorkflowOf[e] : e \in Recovered})
    /\ UNCHANGED <<backlogVars, seen, Unreserved>>

\* Variant: the spool is closed without waiting for the queue.
AdvanceWithoutWait ==
    /\ \/ phase = "down" /\ phase' = "starting"
       \/ phase = "signalled" /\ (\A e \in Entries : stage[e] # "claimed") /\ phase' = "stopped"
       \/ phase = "stopped" /\ phase' = "shut"
       \/ phase = "shut" /\ phase' = "waited"
       \/ phase = "waited" /\ SpoolFree /\ phase' = "closed"
    /\ UNCHANGED <<backlogVars, OtherThanPhase>>

\* serveApp: a signal cancels the queue's context at once; then spool.Stop,
\* server.Shutdown (which may time out on its handlers), queue.Wait and, from
\* RunContext, spool.Close follow.
Advance ==
    /\ \/ phase = "down" /\ phase' = "starting"
       \/ phase = "signalled" /\ (\A e \in Entries : stage[e] # "claimed") /\ phase' = "stopped"
       \/ phase = "stopped" /\ phase' = "shut"
       \/ phase = "shut" /\ queue = <<>> /\ phase' = "waited"
       \/ phase = "waited" /\ SpoolFree /\ phase' = "closed"
    /\ UNCHANGED <<backlogVars, OtherThanPhase>>

Signal ==
    /\ phase = "serving" /\ restarts < MaxRestarts
    /\ phase' = "signalled"
    /\ UNCHANGED <<backlogVars, OtherThanPhase>>

\* The process ends, by itself once closed, or killed, or with its machine.
End ==
    /\ Running
    /\ restarts < MaxRestarts
    /\ restarts' = restarts + 1
    /\ Restart
    /\ phase' = "down"
    /\ seen' = [k \in Keys |-> "absent"]
    /\ http' = [e \in Entries |-> IF http[e] = "new" THEN "new" ELSE "gone"]
    /\ stage' = [e \in Entries |-> "none"]
    /\ business' = [e \in Entries |-> FALSE]
    /\ queue' = <<>>
    /\ completions' = [w \in Workflows |-> 0]
    /\ interrupted' = {}
    /\ unguarded' = {}
    /\ UNCHANGED lapses

Next ==
    \/ \E e \in Entries :
          \/ Handle(e) \/ Work(e) \/ BusinessReturns(e)
          \/ AckDurable(e) \/ AckReturns(e) \/ AckFails(e)
          \/ DiscardDuplicate(e) \/ DiscardFails(e)
    \/ \E k \in Keys : Expire(k)
    \/ Serve \/ ServeUnscanned \/ Advance \/ Signal \/ End

Spec == Init /\ [][Next]_vars

\* The process keeps running its goroutines and answers the handlers it has
\* accepted; a release returns (it has a deadline); a retried acknowledgement
\* does not fail for ever; and the drainer, whose select picks among its ready
\* channels at random, does not overlook that it was stopped for ever.
Fairness ==
    /\ WF_vars(Serve)
    /\ SF_vars(Advance)
    /\ WF_vars(phase = "closed" /\ End)
    /\ \A e \in Entries :
        /\ WF_vars(http[e] # "new" /\ Handle(e))
        /\ WF_vars(DiscardDuplicate(e))
        /\ WF_vars(BusinessReturns(e))
        /\ SF_vars(Work(e))
        /\ SF_vars(AckDurable(e))
        /\ SF_vars(AckReturns(e))

FairSpec == Spec /\ Fairness

-------------------------------------------------------------------------------
\* While the service is up and has not been told to stop, two records of one
\* workflow run are never both unfinished: reservations are taken, kept through
\* acknowledgement retries and restored at startup so that no redelivery slips
\* in between.  A lapse costs no other workflow run its protection, and the run
\* itself only until the next process has scanned the spool.
OneLiveRecord ==
    phase = "serving" =>
        \A e, f \in Entries :
            /\ e # f /\ WorkflowOf[e] = WorkflowOf[f] /\ WorkflowOf[e] \notin unguarded
            => ~(Unfinished(e) /\ Unfinished(f))

\* An unfinished record's keys stay reserved while the service is up, unless the
\* reservation of its workflow run lapsed: neither another handler's rollback nor
\* another record's failure releases them.
ReservationCoversRecord ==
    phase = "serving" =>
        \A e \in Entries :
            Unfinished(e) /\ WorkflowOf[e] \notin unguarded => \A k \in KeysOf(e) : seen[k] # "absent"

\* Deduplication holds for as long as a record is unfinished.
LiveRecordsReserved == OneLiveRecord /\ ReservationCoversRecord

\* One process completes the release of a workflow run at most once, unless its
\* reservation lapsed, however often it is delivered and whatever fails after the
\* release.
CompletedOnce == \A w \in Workflows \ unguarded : completions[w] <= 1

\* A job that a signal stopped is not acknowledged as a failure: its record
\* stays claimed or pending, so the next process finds it.
InterruptedReplayable ==
    \A e \in interrupted : backlog[e] \in {"claimed", "pending"}

\* A release never runs while an older accepted record of its repository and
\* branch is unfinished and could still run, through rejected claims, signals,
\* duplicates and restarts.
NoOvertaking ==
    \A e \in promised, f \in Entries :
        /\ stage[f] = "running"
        /\ Before(e, f)
        /\ QueueKey(e) = QueueKey(f)
        => backlog[e] \notin {"pending", "claimed"}

\* Once the spool is closed, and so before its ownership passes on, no handler,
\* task or acknowledgement retry of this process touches the backlog.
QuietAfterClose == [][phase = "closed" => phase' = "down" \/ UNCHANGED backlogVars]_vars

\* A webhook that was answered "accepted" is executed to an outcome that is
\* recorded, or discarded in favour of an older record of its workflow run,
\* across signals, crashes and failing acknowledgements.
AcceptedResolved ==
    \A e \in Entries : e \in promised ~> backlog[e] = "done" \/ e \notin promised
===============================================================================

--------------------------- MODULE ReleaseTaskQueue ---------------------------
(***************************************************************************)
(* The ReleaseTaskQueue of internal/app/queue.go.  Tasks are accepted      *)
(* under a bounded budget into one FIFO chain per key; a worker goroutine  *)
(* per non-empty chain runs them one at a time.  A running task holds two  *)
(* semaphores: the gate of its repository, so two branches never publish   *)
(* into one repository at once, and one of the global execution slots.     *)
(* Cancelling the context interrupts waiters and retry delays.             *)
(*                                                                         *)
(* A worker is the goroutine drain(key), named here by its key: a chain    *)
(* exists exactly while its worker does.  A step is one critical section   *)
(* of q.mu, one channel operation, or one call into the task.  A gate is   *)
(* an object with an identity of its own (the map may drop it and a later  *)
(* task allocate another for the same repository); it is named by the task *)
(* that allocated it.  A channel used as a semaphore is the set of workers *)
(* whose token it holds.  lastFailure, which only Failure() reads, and the *)
(* logging onFailure callback are left out.                                *)
(*                                                                         *)
(* An action's variants are the same step with a plausible defect; each    *)
(* breaks a property, and none is part of Next.                            *)
(***************************************************************************)
EXTENDS Integers, FiniteSets, Sequences

CONSTANTS
    Keys,          \* queue keys "owner/name:branch", as [name, branch] records
    Lower,         \* lower-casing, a function on the names that occur
    NoBranch,      \* the branch of a key without a ':'
    Tasks,         \* the closures handed to Enqueue, each at most once accepted
    KeyOf,         \* the key each task is enqueued under
    MaxPending, MaxConcurrent, MaxAttempts,   \* the clamped QueueOptions
    None

ASSUME KeyOfAssumption == KeyOf \in [Tasks -> Keys]
ASSUME NoneAssumption == None \notin Tasks \cup Keys
ASSUME BoundsAssumption ==
    /\ MaxPending \in Nat \ {0}
    /\ MaxConcurrent \in 1..MaxPending
    /\ MaxAttempts \in 1..3

\* queueRepository: branch keys of one repository share a gate whatever the
\* spelling of its name; a key without a branch is its own repository.
queueRepository(k) == IF k.branch = NoBranch THEN k.name ELSE Lower[k.name]

Repositories == {queueRepository(k) : k \in Keys}

ASSUME RepositoriesAssumption == None \notin Repositories

VARIABLES
    cancelled,     \* q.ctx is done
    pending,       \* q.pending, accepted tasks that have not settled
    wg,            \* q.wg, accepted tasks whose callbacks have not returned
    chains,        \* q.chains[k].tasks
    repositories,  \* q.repositories, a gate or None
    users,         \* gate.users, as the set of workers registered on the gate
    semaphore,     \* gate.semaphore, the token held in the channel
    slots,         \* q.slots
    pc,            \* where each worker is; "none" before its goroutine starts
    current,       \* t, the task a worker has popped
    gate,          \* the gate object a worker registered on
    attempt,       \* runWithRetry's counter
    result,        \* the error value runForRepository returns
    admitted,      \* history: the tasks accepted for each key, in order
    settled,       \* history: the tasks of each key that settled, in order
    reports        \* history: calls of onFinalFailure for each task

counters == <<pending, wg>>
gates    == <<repositories, users, semaphore>>
shared   == <<cancelled, counters, chains, gates, slots>>
local    == <<current, gate, attempt, result>>
history  == <<admitted, settled, reports>>
vars     == <<shared, pc, local, history>>

Errors == {"failed", "cancelled"}

\* Program counters between "take" and "report", in program order.
Executing  == {"start", "running", "delay"}           \* inside runWithRetry
HoldsSlot  == Executing \cup {"releaseSlot"}
HoldsGate  == HoldsSlot \cup {"slot", "releaseGate"}
Registered == HoldsGate \cup {"gate", "leave"}
Busy       == Registered \cup {"enter", "settle"}     \* current task unsettled
Reporting  == {"report", "done"}                      \* settled, wg not done
PCs        == {"none", "take"} \cup Busy \cup Reporting

TypeOK ==
    /\ cancelled \in BOOLEAN
    /\ pending \in Int
    /\ wg \in Int
    /\ chains \in [Keys -> Seq(Tasks)]
    /\ repositories \in [Repositories -> Tasks \cup {None}]
    /\ users \in [Tasks -> SUBSET Keys]
    /\ semaphore \in [Tasks -> SUBSET Keys]
    /\ slots \in SUBSET Keys
    /\ pc \in [Keys -> PCs]
    /\ current \in [Keys -> Tasks \cup {None}]
    /\ gate \in [Keys -> Tasks \cup {None}]
    /\ attempt \in [Keys -> 0..MaxAttempts]
    /\ result \in [Keys -> Errors \cup {None}]
    /\ admitted \in [Keys -> Seq(Tasks)]
    /\ settled \in [Keys -> Seq(Tasks)]
    /\ reports \in [Tasks -> Nat]

Init ==
    /\ cancelled = FALSE
    /\ pending = 0
    /\ wg = 0
    /\ chains = [k \in Keys |-> <<>>]
    /\ repositories = [r \in Repositories |-> None]
    /\ users = [t \in Tasks |-> {}]
    /\ semaphore = [t \in Tasks |-> {}]
    /\ slots = {}
    /\ pc = [k \in Keys |-> "none"]
    /\ current = [k \in Keys |-> None]
    /\ gate = [k \in Keys |-> None]
    /\ attempt = [k \in Keys |-> 0]
    /\ result = [k \in Keys |-> None]
    /\ admitted = [k \in Keys |-> <<>>]
    /\ settled = [k \in Keys |-> <<>>]
    /\ reports = [t \in Tasks |-> 0]

Elements(s) == {s[i] : i \in DOMAIN s}

\* Variant: only a full queue rejects, so a cancelled one still accepts.
RejectsWhenFull == pending >= MaxPending

\* The condition under which Enqueue returns false.
Rejects == cancelled \/ pending >= MaxPending

\* Enqueue(key, task, onFinalFailure), the accepting path.  A missing chain is
\* created with its worker; an existing one has a worker that will see t.  A
\* rejected call changes nothing, and its caller may call again.
Enqueue(t) ==
    LET k == KeyOf[t] IN
    /\ t \notin Elements(admitted[k])
    /\ ~Rejects
    /\ chains' = [chains EXCEPT ![k] = Append(@, t)]
    /\ pending' = pending + 1
    /\ wg' = wg + 1
    /\ pc' = [pc EXCEPT ![k] = IF @ = "none" THEN "take" ELSE @]
    /\ admitted' = [admitted EXCEPT ![k] = Append(@, t)]
    /\ UNCHANGED <<cancelled, gates, slots, local, settled, reports>>

\* Cancel, or the parent context's cancellation.
Cancel ==
    /\ cancelled' = TRUE
    /\ UNCHANGED <<counters, chains, gates, slots, pc, local, history>>

Goto(k, label) == pc' = [pc EXCEPT ![k] = label]

\* Variant: the newest task of the chain is popped.
TakeNewest(k) ==
    /\ pc[k] = "take"
    /\ chains[k] # <<>>
    /\ current' = [current EXCEPT ![k] = chains[k][Len(chains[k])]]
    /\ chains' = [chains EXCEPT ![k] = SubSeq(@, 1, Len(@) - 1)]
    /\ Goto(k, "enter")
    /\ UNCHANGED <<cancelled, counters, gates, slots, gate, attempt, result, history>>

\* drain: the first critical section, popping the head of the chain.
Take(k) ==
    /\ pc[k] = "take"
    /\ chains[k] # <<>>
    /\ current' = [current EXCEPT ![k] = Head(chains[k])]
    /\ chains' = [chains EXCEPT ![k] = Tail(@)]
    /\ Goto(k, "enter")
    /\ UNCHANGED <<cancelled, counters, gates, slots, gate, attempt, result, history>>

\* drain: the first critical section on an empty chain; the chain is deleted
\* and the worker returns.
Retire(k) ==
    /\ pc[k] = "take"
    /\ chains[k] = <<>>
    /\ Goto(k, "none")
    /\ UNCHANGED <<shared, local, history>>

\* Variant: a slot is taken before the worker waits at the gate.
EnterGateWithSlot(k) ==
    LET r == queueRepository(k)
        g == IF repositories[r] = None THEN current[k] ELSE repositories[r] IN
    /\ pc[k] = "enter"
    /\ Cardinality(slots) < MaxConcurrent
    /\ slots' = slots \cup {k}
    /\ repositories' = [repositories EXCEPT ![r] = g]
    /\ users' = [users EXCEPT ![g] = @ \cup {k}]
    /\ gate' = [gate EXCEPT ![k] = g]
    /\ Goto(k, "gate")
    /\ UNCHANGED <<cancelled, counters, chains, semaphore, current, attempt, result, history>>

\* runForRepository: get or create the repository's gate and register on it.
EnterGate(k) ==
    LET r == queueRepository(k)
        g == IF repositories[r] = None THEN current[k] ELSE repositories[r] IN
    /\ pc[k] = "enter"
    /\ repositories' = [repositories EXCEPT ![r] = g]
    /\ users' = [users EXCEPT ![g] = @ \cup {k}]
    /\ gate' = [gate EXCEPT ![k] = g]
    /\ Goto(k, "gate")
    /\ UNCHANGED <<cancelled, counters, chains, semaphore, slots, current, attempt,
                   result, history>>

\* Variant: the gate admits everyone.
AcquireOpenGate(k) ==
    /\ pc[k] = "gate"
    /\ semaphore' = [semaphore EXCEPT ![gate[k]] = @ \cup {k}]
    /\ Goto(k, "slot")
    /\ UNCHANGED <<cancelled, counters, chains, repositories, users, slots, local,
                   history>>

\* select: the send on gate.semaphore, a channel of capacity one.
AcquireGate(k) ==
    /\ pc[k] = "gate"
    /\ semaphore[gate[k]] = {}
    /\ semaphore' = [semaphore EXCEPT ![gate[k]] = {k}]
    /\ Goto(k, "slot")
    /\ UNCHANGED <<cancelled, counters, chains, repositories, users, slots, local,
                   history>>

\* select: the send on q.slots, a channel of capacity MaxConcurrent.
AcquireSlot(k) ==
    /\ pc[k] = "slot"
    /\ Cardinality(slots) < MaxConcurrent
    /\ slots' = slots \cup {k}
    /\ attempt' = [attempt EXCEPT ![k] = 1]
    /\ Goto(k, "start")
    /\ UNCHANGED <<cancelled, counters, chains, gates, current, gate, result, history>>

\* The <-q.ctx.Done() branch of either select, which the runtime may take even
\* when the semaphore is free, and the same branch of a retry delay.
Interrupt(k) ==
    /\ cancelled
    /\ \/ pc[k] = "gate"  /\ Goto(k, "leave")
       \/ pc[k] = "slot"  /\ Goto(k, "releaseGate")
       \/ pc[k] = "delay" /\ Goto(k, "releaseSlot")
    /\ result' = [result EXCEPT ![k] = "cancelled"]
    /\ UNCHANGED <<shared, current, gate, attempt, history>>

\* Variant: a cancelled worker returns without giving its slot back.
StartAttemptLeakingSlot(k) ==
    /\ pc[k] = "start"
    /\ Goto(k, IF cancelled THEN "releaseGate" ELSE "running")
    /\ result' = [result EXCEPT ![k] = IF cancelled THEN "cancelled" ELSE @]
    /\ UNCHANGED <<shared, current, gate, attempt, history>>

\* runWithRetry: the context check before an attempt, then the call.
StartAttempt(k) ==
    /\ pc[k] = "start"
    /\ \/ /\ ~cancelled
          /\ Goto(k, "running")
          /\ UNCHANGED result
       \/ /\ cancelled
          /\ Goto(k, "releaseSlot")
          /\ result' = [result EXCEPT ![k] = "cancelled"]
    /\ UNCHANGED <<shared, current, gate, attempt, history>>

\* runWithRetry: the task returns nil.
TaskSucceeds(k) ==
    /\ pc[k] = "running"
    /\ Goto(k, "releaseSlot")
    /\ UNCHANGED <<shared, local, history>>

\* Variant: one attempt too many.
TaskFailsOnceMore(k) ==
    /\ pc[k] = "running"
    /\ IF cancelled \/ attempt[k] > MaxAttempts
         THEN /\ result' = [result EXCEPT ![k] = IF cancelled THEN "cancelled" ELSE "failed"]
              /\ Goto(k, "releaseSlot")
         ELSE Goto(k, "delay") /\ UNCHANGED result
    /\ UNCHANGED <<shared, current, gate, attempt, history>>

\* runWithRetry: the task returns an error, which a done context replaces and
\* the last attempt passes on; otherwise the worker waits for the retry delay.
TaskFails(k) ==
    /\ pc[k] = "running"
    /\ \/ /\ cancelled \/ attempt[k] >= MaxAttempts
          /\ result' = [result EXCEPT ![k] = IF cancelled THEN "cancelled" ELSE "failed"]
          /\ Goto(k, "releaseSlot")
       \/ /\ ~cancelled /\ attempt[k] < MaxAttempts
          /\ Goto(k, "delay")
          /\ UNCHANGED result
    /\ UNCHANGED <<shared, current, gate, attempt, history>>

\* The retry timer fires (at once when the delay is zero).
RetryDelayElapses(k) ==
    /\ pc[k] = "delay"
    /\ attempt' = [attempt EXCEPT ![k] = @ + 1]
    /\ Goto(k, "start")
    /\ UNCHANGED <<shared, current, gate, result, history>>

\* The deferred receive on q.slots.
ReleaseSlot(k) ==
    /\ pc[k] = "releaseSlot"
    /\ slots' = slots \ {k}
    /\ Goto(k, "releaseGate")
    /\ UNCHANGED <<cancelled, counters, chains, gates, local, history>>

\* The deferred receive on gate.semaphore.
ReleaseGate(k) ==
    /\ pc[k] = "releaseGate"
    /\ semaphore' = [semaphore EXCEPT ![gate[k]] = {}]
    /\ Goto(k, "leave")
    /\ UNCHANGED <<cancelled, counters, chains, repositories, users, slots, local,
                   history>>

\* Variant: every user drops the gate from the map.
LeaveAndDropGate(k) ==
    /\ pc[k] = "leave"
    /\ users' = [users EXCEPT ![gate[k]] = @ \ {k}]
    /\ repositories' = [repositories EXCEPT ![queueRepository(k)] = None]
    /\ Goto(k, "settle")
    /\ UNCHANGED <<cancelled, counters, chains, semaphore, slots, local, history>>

\* The deferred deregistration; the last user removes the gate from the map.
LeaveGate(k) ==
    LET g == gate[k] IN
    /\ pc[k] = "leave"
    /\ users' = [users EXCEPT ![g] = @ \ {k}]
    /\ repositories' = IF users'[g] = {}
                         THEN [repositories EXCEPT ![queueRepository(k)] = None]
                         ELSE repositories
    /\ Goto(k, "settle")
    /\ UNCHANGED <<cancelled, counters, chains, semaphore, slots, local, history>>

\* Variant: only a successful task gives its admission slot back.
SettleOnSuccess(k) ==
    /\ pc[k] = "settle"
    /\ pending' = IF result[k] = None THEN pending - 1 ELSE pending
    /\ settled' = [settled EXCEPT ![k] = Append(@, current[k])]
    /\ Goto(k, "report")
    /\ UNCHANGED <<cancelled, wg, chains, gates, slots, local, admitted, reports>>

\* drain: the second critical section, which gives the admission slot back
\* before any callback runs.
Settle(k) ==
    /\ pc[k] = "settle"
    /\ pending' = pending - 1
    /\ settled' = [settled EXCEPT ![k] = Append(@, current[k])]
    /\ Goto(k, "report")
    /\ UNCHANGED <<cancelled, wg, chains, gates, slots, local, admitted, reports>>

\* drain: onTaskComplete, then the onFinalFailure of a failed task.
Report(k) ==
    /\ pc[k] = "report"
    /\ reports' = [reports EXCEPT ![current[k]] = IF result[k] = None THEN @ ELSE @ + 1]
    /\ Goto(k, "done")
    /\ UNCHANGED <<shared, local, admitted, settled>>

\* Variant: wg.Done() is skipped after a failure.
DoneOnSuccess(k) ==
    /\ pc[k] = "done"
    /\ wg' = IF result[k] = None THEN wg - 1 ELSE wg
    /\ current' = [current EXCEPT ![k] = None]
    /\ gate' = [gate EXCEPT ![k] = None]
    /\ attempt' = [attempt EXCEPT ![k] = 0]
    /\ result' = [result EXCEPT ![k] = None]
    /\ Goto(k, "take")
    /\ UNCHANGED <<cancelled, pending, chains, gates, slots, history>>

\* drain: wg.Done() and back to the loop; the iteration's locals go out of scope.
Done(k) ==
    /\ pc[k] = "done"
    /\ wg' = wg - 1
    /\ current' = [current EXCEPT ![k] = None]
    /\ gate' = [gate EXCEPT ![k] = None]
    /\ attempt' = [attempt EXCEPT ![k] = 0]
    /\ result' = [result EXCEPT ![k] = None]
    /\ Goto(k, "take")
    /\ UNCHANGED <<cancelled, pending, chains, gates, slots, history>>

\* The steps a worker takes on its own.
Advance(k) ==
    \/ Take(k) \/ Retire(k) \/ EnterGate(k) \/ Interrupt(k) \/ StartAttempt(k)
    \/ RetryDelayElapses(k) \/ ReleaseSlot(k) \/ ReleaseGate(k) \/ LeaveGate(k)
    \/ Settle(k) \/ Report(k) \/ Done(k)

TaskReturns(k) == TaskSucceeds(k) \/ TaskFails(k)

Next ==
    \/ \E t \in Tasks : Enqueue(t)
    \/ Cancel
    \/ \E k \in Keys : Advance(k) \/ AcquireGate(k) \/ AcquireSlot(k) \/ TaskReturns(k)

Spec == Init /\ [][Next]_vars

\* Goroutines are scheduled, and a channel hands its tokens to the senders that
\* wait; a task returns, because it has a deadline.  hung is the set of
\* repositories whose tasks return only once their context is done.
Fairness(hung) ==
    \A k \in Keys :
        /\ WF_vars(Advance(k))
        /\ WF_vars(AcquireGate(k))
        /\ WF_vars(AcquireSlot(k))
        /\ WF_vars((cancelled \/ queueRepository(k) \notin hung) /\ TaskReturns(k))

-------------------------------------------------------------------------------
\* The unsettled task of a worker, as a sequence of at most one element.
InHand(k) == IF pc[k] \in Busy THEN <<current[k]>> ELSE <<>>

Accepted   == UNION {Elements(admitted[k]) : k \in Keys}
AllSettled == UNION {Elements(settled[k]) : k \in Keys}
Returning  == {current[k] : k \in {j \in Keys : pc[j] \in Reporting}}

\* No two tasks of one repository are ever in runWithRetry together, retry
\* delays included, however their keys spell it: the gate a worker waits on is
\* the one its repository's other workers use, even though the map drops a gate
\* when its last user leaves and allocates another later.
RepositoryExclusion ==
    \A j, k \in Keys :
        /\ j # k
        /\ queueRepository(j) = queueRepository(k)
        => ~(pc[j] \in Executing /\ pc[k] \in Executing)

BusyHasTask == \A k \in Keys : pc[k] \in Busy \cup Reporting => current[k] \in Tasks
GateInMap ==
    \A k \in Keys : pc[k] \in Registered =>
        gate[k] \in Tasks /\ repositories[queueRepository(k)] = gate[k]
ClaimsExact ==
    \A t \in Tasks :
        /\ users[t] = {k \in Keys : pc[k] \in Registered /\ gate[k] = t}
        /\ semaphore[t] = {k \in Keys : pc[k] \in HoldsGate /\ gate[k] = t}
OneHolder ==
    \A j, k \in Keys :
        pc[j] \in HoldsGate /\ pc[k] \in HoldsGate /\ gate[j] = gate[k] => j = k

\* The bookkeeping that exclusion rests on: a registered worker's gate is the
\* one the map has for its repository, so a repository's workers share it; its
\* users are the workers registered on it; and its token is held by the worker
\* that got past it, and by one only.
GatesAgree == BusyHasTask /\ GateInMap /\ ClaimsExact /\ OneHolder

\* At most MaxConcurrent tasks execute, and every slot that is taken belongs to
\* a worker that will give it back: none leaks on an error or a cancellation.
ExecutionBudget ==
    /\ slots = {k \in Keys : pc[k] \in HoldsSlot}
    /\ Cardinality(slots) <= MaxConcurrent

\* The tasks of a key settle in the order Enqueue accepted them; none is lost
\* when a chain is deleted while Enqueue extends it, and none settles twice.
FIFOPerKey ==
    \A k \in Keys : admitted[k] = settled[k] \o InHand(k) \o chains[k]

\* pending counts the accepted tasks that have not settled and wg those whose
\* callbacks have not returned, so a call is refused only at the real limit.
AdmissionExact ==
    /\ pending = Cardinality(Accepted \ AllSettled)
    /\ wg = Cardinality((Accepted \ AllSettled) \cup Returning)
    /\ pending <= MaxPending

\* When Wait returns, nothing of the queue still runs or holds a semaphore and
\* no failure callback is outstanding: the caller may release what tasks use.
WaitCoversEverything ==
    wg = 0 => /\ \A k \in Keys : pc[k] \in {"none", "take"} /\ chains[k] = <<>>
              /\ slots = {}
              /\ \A t \in Tasks : semaphore[t] = {} /\ users[t] = {}
              /\ \A r \in Repositories : repositories[r] = None

\* onFinalFailure is called at most once for a task, and only after it settled.
FailureReportedOnce ==
    \A t \in Tasks : reports[t] <= 1 /\ (reports[t] = 1 => t \in AllSettled)

\* What callers are told about the queue agrees with what happened to the tasks:
\* Enqueue by pending, Wait by wg, and the failure callback by its calls.
CountersExact == AdmissionExact /\ WaitCoversEverything /\ FailureReportedOnce

\* Every accepted task settles, unless a task of its own repository hangs: the
\* branches that wait behind a hung repository take no execution slot, so other
\* repositories keep running while a slot remains.
EveryTaskSettles(hung) ==
    \A t \in Tasks :
        queueRepository(KeyOf[t]) \notin hung => (t \in Accepted ~> t \in AllSettled)

\* After a cancellation the queue drains for good, so Wait returns, even though
\* tasks were waiting at a gate, for a slot or out a retry delay.
CancellationDrains == cancelled ~> [](wg = 0)

-------------------------------------------------------------------------------
(***************************************************************************)
(* The queue implements RepositoryExecutor: a task waits until its worker  *)
(* has a slot, runs while the worker holds it, and is ending from there    *)
(* until its admission slot is given back.                                 *)
(***************************************************************************)
Unstarted == {"enter", "gate", "slot"}
Unwinding == {"releaseGate", "leave", "settle"}

WaitingTasks ==
    [k \in Keys |-> IF pc[k] \in Unstarted THEN <<current[k]>> \o chains[k] ELSE chains[k]]

RunningTasks == {current[k] : k \in {j \in Keys : pc[j] \in HoldsSlot}}
EndingTasks  == {current[k] : k \in {j \in Keys : pc[j] \in Unwinding}}

Executor == INSTANCE RepositoryExecutor WITH
    RepositoryOf <- queueRepository,
    stopped <- cancelled,
    waiting <- WaitingTasks,
    running <- RunningTasks,
    ending <- EndingTasks,
    ended <- AllSettled

\* Every behaviour of the queue is one of RepositoryExecutor: per-key order,
\* repository exclusion, the two budgets and one end per accepted task.
ImplementsExecutor == Executor!Spec
===============================================================================

------------------------ MODULE ReleaseTaskQueue_proofs ------------------------
(***************************************************************************)
(* Proofs about ReleaseTaskQueue for any keys, tasks and limits: its type  *)
(* invariant, the exclusion of two tasks of one repository, the bound on   *)
(* concurrent execution, the order of each key's tasks, what the counters  *)
(* count, and that it implements RepositoryExecutor.                       *)
(***************************************************************************)
EXTENDS ReleaseTaskQueue, FiniteSetTheorems, SequenceTheorems, TLAPS

\* TypeOK alone is not inductive: Settle appends current[k], which is a task
\* because its worker is busy, which GatesAgree says, and a retry adds one to
\* attempt[k], which RetriesLeft bounds.
RetriesLeft == \A k \in Keys : pc[k] = "delay" => attempt[k] < MaxAttempts

IInv == TypeOK /\ GatesAgree /\ RetriesLeft

LEMMA RepositoryInDomain ==
    ASSUME NEW k \in Keys PROVE queueRepository(k) \in Repositories
BY DEF Repositories

\* Taking a task off a chain leaves a sequence of tasks.
LEMMA HeadTail ==
    ASSUME NEW s \in Seq(Tasks), s # <<>>
    PROVE  Head(s) \in Tasks /\ Tail(s) \in Seq(Tasks)
OBVIOUS

LEMMA InitIInv == Init => IInv
<1> SUFFICES ASSUME Init PROVE IInv
  OBVIOUS
<1>1. TypeOK
  <2> USE DEF Init
  <2>1. chains \in [Keys -> Seq(Tasks)] /\ admitted \in [Keys -> Seq(Tasks)]
                                       /\ settled \in [Keys -> Seq(Tasks)]
    <3>1. <<>> \in Seq(Tasks)
      OBVIOUS
    <3> QED BY <3>1
  <2>2. pc \in [Keys -> PCs] /\ result \in [Keys -> Errors \cup {None}]
    BY DEF PCs
  <2>3. repositories \in [Repositories -> Tasks \cup {None}] /\ slots \in SUBSET Keys
    OBVIOUS
  <2>4. users \in [Tasks -> SUBSET Keys] /\ semaphore \in [Tasks -> SUBSET Keys]
    OBVIOUS
  <2>5. /\ current \in [Keys -> Tasks \cup {None}] /\ gate \in [Keys -> Tasks \cup {None}]
        /\ attempt \in [Keys -> 0..MaxAttempts] /\ reports \in [Tasks -> Nat]
    BY BoundsAssumption
  <2>6. pending \in Int /\ wg \in Int
    OBVIOUS
  <2>7. cancelled \in BOOLEAN
    BY Zenon
  <2> QED BY <2>1, <2>2, <2>3, <2>4, <2>5, <2>6, <2>7, Zenon DEF TypeOK
<1>2. GatesAgree
  BY DEF Init, GatesAgree, BusyHasTask, GateInMap, ClaimsExact, OneHolder, Busy, Registered, HoldsGate, HoldsSlot, Executing, Reporting
<1>3. RetriesLeft
  BY DEF Init, RetriesLeft
<1> QED BY <1>1, <1>2, <1>3 DEF IInv

USE DEF PCs, Busy, Registered, HoldsGate, HoldsSlot, Executing, Reporting, Errors

\* A step of the queue preserves the types, given that busy workers have a task.
LEMMA TypeStep == IInv /\ [Next]_vars => TypeOK'
<1> SUFFICES ASSUME IInv, [Next]_vars PROVE TypeOK'
  OBVIOUS
<1> USE DEF IInv, TypeOK
<1>1. ASSUME NEW t \in Tasks, Enqueue(t) PROVE TypeOK'
  <2> DEFINE key == KeyOf[t]
  <2>1. key \in Keys
    BY KeyOfAssumption
  <2>2. chains' = [chains EXCEPT ![key] = Append(chains[key], t)]
        /\ admitted' = [admitted EXCEPT ![key] = Append(admitted[key], t)]
    BY <1>1 DEF Enqueue
  <2>3. chains' \in [Keys -> Seq(Tasks)] /\ admitted' \in [Keys -> Seq(Tasks)]
    <3>1. Append(chains[key], t) \in Seq(Tasks) /\ Append(admitted[key], t) \in Seq(Tasks)
      BY <2>1
    <3> HIDE DEF key
    <3> QED BY <2>1, <2>2, <3>1
  <2>4. pc' = [pc EXCEPT ![key] = IF pc[key] = "none" THEN "take" ELSE pc[key]]
        /\ pending' = pending + 1 /\ wg' = wg + 1
    BY <1>1 DEF Enqueue
  <2>5. pc' \in [Keys -> PCs] /\ pending' \in Int /\ wg' \in Int
    <3> HIDE DEF key
    <3> QED BY <2>1, <2>4
  <2>6. UNCHANGED <<cancelled, gates, slots, local, settled, reports>>
    BY <1>1 DEF Enqueue
  <2> QED BY <2>3, <2>5, <2>6 DEF gates, local
<1>2. CASE Cancel
  BY <1>2 DEF Cancel, counters, gates, local, history
<1>3. ASSUME NEW k \in Keys, Take(k) PROVE TypeOK'
  <2>1. Head(chains[k]) \in Tasks /\ Tail(chains[k]) \in Seq(Tasks)
    BY <1>3, HeadTail DEF Take
  <2> QED BY <1>3, <2>1 DEF Take, Goto, counters, gates, history
<1>4. ASSUME NEW k \in Keys, Retire(k) PROVE TypeOK'
  BY <1>4 DEF Retire, Goto, shared, counters, gates, local, history
<1>5. ASSUME NEW k \in Keys, EnterGate(k) PROVE TypeOK'
  BY <1>5, RepositoryInDomain DEF EnterGate, Goto, counters, history
<1>6. ASSUME NEW k \in Keys, Interrupt(k) PROVE TypeOK'
  BY <1>6 DEF Interrupt, Goto, shared, counters, gates, history
<1>7. ASSUME NEW k \in Keys, StartAttempt(k) PROVE TypeOK'
  BY <1>7 DEF StartAttempt, Goto, shared, counters, gates, history
<1>8. ASSUME NEW k \in Keys, RetryDelayElapses(k) PROVE TypeOK'
  <2>1. attempt[k] + 1 \in 0..MaxAttempts
    BY <1>8, BoundsAssumption DEF RetryDelayElapses, RetriesLeft
  <2> QED BY <1>8, <2>1 DEF RetryDelayElapses, Goto, shared, counters, gates, history
<1>9. ASSUME NEW k \in Keys, ReleaseSlot(k) PROVE TypeOK'
  BY <1>9 DEF ReleaseSlot, Goto, counters, gates, local, history
<1>10. ASSUME NEW k \in Keys, ReleaseGate(k) PROVE TypeOK'
  BY <1>10 DEF ReleaseGate, Goto, counters, local, history
<1>11. ASSUME NEW k \in Keys, LeaveGate(k) PROVE TypeOK'
  BY <1>11, RepositoryInDomain DEF LeaveGate, Goto, counters, local, history
<1>12. ASSUME NEW k \in Keys, Settle(k) PROVE TypeOK'
  BY <1>12 DEF Settle, Goto, gates, local, GatesAgree, BusyHasTask
<1>13. ASSUME NEW k \in Keys, Report(k) PROVE TypeOK'
  <2>1. reports' \in [Tasks -> Nat]
    <3>1. reports' = [reports EXCEPT ![current[k]] = IF result[k] = None THEN @ ELSE @ + 1]
      BY <1>13 DEF Report
    <3>2. current[k] \in Tasks
      BY <1>13 DEF Report, GatesAgree, BusyHasTask
    <3>3. reports[current[k]] + 1 \in Nat
      BY <3>2
    <3> QED BY <3>1, <3>2, <3>3
  <2>2. pc' \in [Keys -> PCs] /\ admitted' = admitted /\ settled' = settled
    BY <1>13 DEF Report, Goto
  <2>3. UNCHANGED <<shared, local>>
    BY <1>13 DEF Report
  <2> QED BY <2>1, <2>2, <2>3 DEF shared, counters, gates, local
<1>14. ASSUME NEW k \in Keys, Done(k) PROVE TypeOK'
  BY <1>14, BoundsAssumption DEF Done, Goto, gates, history
<1>15. ASSUME NEW k \in Keys, AcquireGate(k) PROVE TypeOK'
  BY <1>15 DEF AcquireGate, Goto, counters, local, history
<1>16. ASSUME NEW k \in Keys, AcquireSlot(k) PROVE TypeOK'
  BY <1>16, BoundsAssumption DEF AcquireSlot, Goto, counters, gates, history
<1>17. ASSUME NEW k \in Keys, TaskReturns(k) PROVE TypeOK'
  BY <1>17 DEF TaskReturns, TaskSucceeds, TaskFails, Goto, shared, counters, gates, local, history
<1>18. CASE UNCHANGED vars
  BY <1>18 DEF vars, shared, counters, gates, local, history
<1> QED
  BY <1>1, <1>2, <1>3, <1>4, <1>5, <1>6, <1>7, <1>8, <1>9, <1>10, <1>11, <1>12, <1>13,
     <1>14, <1>15, <1>16, <1>17, <1>18 DEF Next, Advance

(***************************************************************************)
(* GatesAgree.  A step that moves one worker between two places with the   *)
(* same claims on its gate preserves it; the five steps that change those  *)
(* claims are taken one by one.                                            *)
(***************************************************************************)
SameClaims(a, b) ==
    /\ a \in Registered <=> b \in Registered
    /\ a \in HoldsGate <=> b \in HoldsGate
    /\ a \in Busy \cup Reporting <=> b \in Busy \cup Reporting

USE DEF GatesAgree

LEMMA SameClaimsStep ==
    ASSUME IInv, UNCHANGED <<gates, current, gate>>,
           \A k \in Keys : SameClaims(pc[k], pc'[k])
    PROVE  GatesAgree'
<1> USE DEF IInv, SameClaims, gates
<1>1. BusyHasTask'
  BY DEF BusyHasTask
<1>2. GateInMap'
  BY DEF GateInMap
<1>3. ClaimsExact'
  BY DEF ClaimsExact
<1>4. OneHolder'
  BY DEF OneHolder
<1> QED BY <1>1, <1>2, <1>3, <1>4

LEMMA TakeStep ==
    ASSUME IInv, NEW k \in Keys, Take(k) PROVE GatesAgree'
<1> USE DEF IInv, TypeOK, Take, Goto, gates
<1>1. Head(chains[k]) \in Tasks
  BY HeadTail
<1>2. BusyHasTask'
  BY <1>1 DEF BusyHasTask
<1>3. GateInMap'
  BY <1>1, RepositoryInDomain DEF GateInMap, BusyHasTask
<1>4. ClaimsExact'
  BY <1>1 DEF ClaimsExact, GateInMap
<1>5. OneHolder'
  BY <1>1 DEF OneHolder, ClaimsExact, GateInMap
<1> QED BY <1>2, <1>3, <1>4, <1>5

LEMMA EnterStep ==
    ASSUME IInv, NEW k \in Keys, EnterGate(k) PROVE GatesAgree'
<1> USE DEF IInv, TypeOK, EnterGate, Goto
<1>1. BusyHasTask'
  BY DEF BusyHasTask
<1>2. GateInMap'
  <2> DEFINE r == queueRepository(k)
             g == IF repositories[r] = None THEN current[k] ELSE repositories[r]
  <2>1. r \in Repositories /\ g \in Tasks /\ None \notin Tasks
    BY RepositoryInDomain, NoneAssumption DEF BusyHasTask
  <2>2. repositories' = [repositories EXCEPT ![r] = g] /\ gate' = [gate EXCEPT ![k] = g]
    OBVIOUS
  <2>3. ASSUME NEW j \in Keys, pc'[j] \in Registered
        PROVE  gate'[j] \in Tasks /\ repositories'[queueRepository(j)] = gate'[j]
    <3> HIDE DEF g, r
    <3>1. CASE j = k
      BY <2>1, <2>2, <3>1 DEF r
    <3>2. CASE j # k
      <4>1. gate[j] \in Tasks /\ repositories[queueRepository(j)] = gate[j]
        BY <2>3, <3>2 DEF GateInMap
      <4>2. queueRepository(j) = r => gate[j] = g
        BY <2>1, <4>1 DEF g
      <4> QED BY <2>1, <2>2, <3>2, <4>1, <4>2, RepositoryInDomain
    <3> QED BY <3>1, <3>2
  <2> QED BY <2>3 DEF GateInMap
<1>3. ClaimsExact'
  BY DEF ClaimsExact, GateInMap
<1>4. OneHolder'
  BY DEF OneHolder, ClaimsExact, GateInMap
<1> QED BY <1>1, <1>2, <1>3, <1>4

LEMMA AcquireStep ==
    ASSUME IInv, NEW k \in Keys, AcquireGate(k) PROVE GatesAgree'
<1> USE DEF IInv, TypeOK, AcquireGate, Goto, local
<1>1. BusyHasTask'
  BY DEF BusyHasTask
<1>2. GateInMap'
  BY RepositoryInDomain DEF GateInMap, BusyHasTask
<1>3. ClaimsExact'
  BY DEF ClaimsExact, GateInMap
<1>4. OneHolder'
  BY DEF OneHolder, ClaimsExact, GateInMap
<1> QED BY <1>1, <1>2, <1>3, <1>4

LEMMA ReleaseStep ==
    ASSUME IInv, NEW k \in Keys, ReleaseGate(k) PROVE GatesAgree'
<1> USE DEF IInv, TypeOK, ReleaseGate, Goto, local
<1>1. BusyHasTask'
  BY DEF BusyHasTask
<1>2. GateInMap'
  BY RepositoryInDomain DEF GateInMap, BusyHasTask
<1>3. ClaimsExact'
  BY DEF ClaimsExact, GateInMap, OneHolder
<1>4. OneHolder'
  BY DEF OneHolder, ClaimsExact, GateInMap
<1> QED BY <1>1, <1>2, <1>3, <1>4

LEMMA LeaveStep ==
    ASSUME IInv, NEW k \in Keys, LeaveGate(k) PROVE GatesAgree'
<1> USE DEF IInv, TypeOK, LeaveGate, Goto, local
<1>1. BusyHasTask'
  BY DEF BusyHasTask
<1>2. GateInMap'
  <2>1. ASSUME NEW j \in Keys, pc'[j] \in Registered
        PROVE  gate'[j] \in Tasks /\ repositories'[queueRepository(j)] = gate'[j]
    <3>1. j # k /\ pc[j] \in Registered /\ gate'[j] = gate[j]
      BY <2>1
    <3>2. gate[j] \in Tasks /\ repositories[queueRepository(j)] = gate[j]
      BY <3>1 DEF GateInMap
    <3>3. gate[k] \in Tasks /\ repositories[queueRepository(k)] = gate[k]
      BY DEF GateInMap
    <3>4. CASE queueRepository(j) # queueRepository(k)
      BY <3>1, <3>2, <3>4, RepositoryInDomain
    <3>5. CASE queueRepository(j) = queueRepository(k)
      \* j is another user of the gate, which therefore stays in the map.
      <4>1. j \in users'[gate[k]]
        BY <3>1, <3>2, <3>3, <3>5 DEF ClaimsExact
      <4> QED BY <3>1, <3>2, <4>1
    <3> QED BY <3>4, <3>5
  <2> QED BY <2>1 DEF GateInMap
<1>3. ClaimsExact'
  BY DEF ClaimsExact, GateInMap
<1>4. OneHolder'
  BY DEF OneHolder, ClaimsExact, GateInMap
<1> QED BY <1>1, <1>2, <1>3, <1>4

LEMMA DoneStep ==
    ASSUME IInv, NEW k \in Keys, Done(k) PROVE GatesAgree'
<1> USE DEF IInv, TypeOK, Done, Goto, gates
<1>1. BusyHasTask'
  BY DEF BusyHasTask
<1>2. GateInMap'
  BY RepositoryInDomain DEF GateInMap, BusyHasTask
<1>3. ClaimsExact'
  BY DEF ClaimsExact, GateInMap
<1>4. OneHolder'
  BY DEF OneHolder, ClaimsExact, GateInMap
<1> QED BY <1>1, <1>2, <1>3, <1>4

LEMMA GatesStep == IInv /\ [Next]_vars => GatesAgree'
<1> SUFFICES ASSUME IInv, [Next]_vars PROVE GatesAgree'
  OBVIOUS
<1> DEFINE Same == /\ UNCHANGED <<gates, current, gate>>
                   /\ \A k \in Keys : SameClaims(pc[k], pc'[k])
<1> USE DEF SameClaims, Goto
<1>1. ASSUME NEW t \in Tasks, Enqueue(t) PROVE Same
  BY <1>1, KeyOfAssumption DEF Enqueue, local, IInv, TypeOK
<1>2. ASSUME Cancel PROVE Same
  BY <1>2 DEF Cancel, local
<1>3. ASSUME NEW k \in Keys,
             \/ Retire(k) \/ Interrupt(k) \/ StartAttempt(k) \/ TaskReturns(k)
             \/ RetryDelayElapses(k) \/ AcquireSlot(k) \/ ReleaseSlot(k)
             \/ Settle(k) \/ Report(k)
      PROVE  Same
  <2> USE DEF IInv, TypeOK, shared, local
  <2>1. CASE Retire(k)
    BY <2>1 DEF Retire
  <2>2. CASE Interrupt(k)
    BY <2>2 DEF Interrupt
  <2>3. CASE StartAttempt(k)
    BY <2>3 DEF StartAttempt
  <2>4. CASE TaskReturns(k)
    BY <2>4 DEF TaskReturns, TaskSucceeds, TaskFails
  <2>5. CASE RetryDelayElapses(k)
    BY <2>5 DEF RetryDelayElapses
  <2>6. CASE AcquireSlot(k)
    BY <2>6 DEF AcquireSlot
  <2>7. CASE ReleaseSlot(k)
    BY <2>7 DEF ReleaseSlot
  <2>8. CASE Settle(k)
    BY <2>8 DEF Settle
  <2>9. CASE Report(k)
    BY <2>9 DEF Report
  <2> QED BY <1>3, <2>1, <2>2, <2>3, <2>4, <2>5, <2>6, <2>7, <2>8, <2>9
<1>4. ASSUME UNCHANGED vars PROVE Same
  BY <1>4 DEF vars, shared, local
<1>5. Same => GatesAgree'
  BY SameClaimsStep
<1>6. ASSUME NEW k \in Keys,
             \/ Take(k) \/ EnterGate(k) \/ AcquireGate(k)
             \/ ReleaseGate(k) \/ LeaveGate(k) \/ Done(k)
      PROVE  GatesAgree'
  BY <1>6, TakeStep, EnterStep, AcquireStep, ReleaseStep, LeaveStep, DoneStep
<1> HIDE DEF Same
<1> QED
  BY <1>1, <1>2, <1>3, <1>4, <1>5, <1>6 DEF Next, Advance

\* A worker waits for a retry only after an attempt that was not its last.
LEMMA RetriesStep == TypeOK /\ RetriesLeft /\ [Next]_vars => RetriesLeft'
<1> SUFFICES ASSUME TypeOK, RetriesLeft, [Next]_vars, NEW k \in Keys, pc'[k] = "delay"
             PROVE  attempt'[k] < MaxAttempts
  BY DEF RetriesLeft
<1> USE DEF TypeOK, RetriesLeft, Goto
<1>1. ASSUME NEW t \in Tasks, Enqueue(t) PROVE attempt'[k] < MaxAttempts
  BY <1>1, KeyOfAssumption DEF Enqueue, local
<1>2. ASSUME Cancel \/ UNCHANGED vars PROVE attempt'[k] < MaxAttempts
  BY <1>2 DEF Cancel, local, vars
<1>3. ASSUME NEW j \in Keys, Advance(j) PROVE attempt'[k] < MaxAttempts
  BY <1>3 DEF Advance, Take, Retire, EnterGate, Interrupt, StartAttempt, RetryDelayElapses,
              ReleaseSlot, ReleaseGate, LeaveGate, Settle, Report, Done, local
<1>4. ASSUME NEW j \in Keys, AcquireGate(j) \/ AcquireSlot(j)
      PROVE  attempt'[k] < MaxAttempts
  BY <1>4 DEF AcquireGate, AcquireSlot, local
<1>5. ASSUME NEW j \in Keys, TaskReturns(j) PROVE attempt'[k] < MaxAttempts
  <2>1. CASE TaskSucceeds(j)
    BY <1>5, <2>1 DEF TaskSucceeds, local
  <2>2. CASE TaskFails(j)
    <3>1. attempt' = attempt /\ (pc'[j] = "delay" => attempt[j] < MaxAttempts)
      BY <2>2, BoundsAssumption DEF TaskFails
    <3>2. j # k => pc'[k] = pc[k]
      BY <2>2 DEF TaskFails
    <3> QED BY <3>1, <3>2
  <2> QED BY <1>5, <2>1, <2>2 DEF TaskReturns
<1> QED BY <1>1, <1>2, <1>3, <1>4, <1>5 DEF Next

LEMMA Inductive == Spec => []IInv
<1>1. IInv /\ [Next]_vars => IInv'
  BY TypeStep, GatesStep, RetriesStep DEF IInv
<1> QED BY InitIInv, <1>1, PTL DEF Spec

\* Every variable of the queue keeps its type; in particular a worker that
\* settles or reports always has the task it does so for.
THEOREM TypeCorrect == Spec => []TypeOK
<1>1. IInv => TypeOK
  BY DEF IInv
<1> QED BY Inductive, <1>1, PTL

\* Whatever the keys, limits and interleaving, a registered worker's gate stays
\* the one in the map and its token has one holder: runForRepository and its
\* deferred calls keep map, reference count and channel in agreement.
THEOREM GatesAlwaysAgree == Spec => []GatesAgree
<1>1. IInv => GatesAgree
  BY DEF IInv
<1> QED BY Inductive, <1>1, PTL

\* Two tasks of one repository never execute together, for any number of keys,
\* branches and spellings: runForRepository's gate excludes them although it is
\* dropped and allocated anew while the queue runs.
THEOREM Exclusion == Spec => []RepositoryExclusion
<1>1. IInv => RepositoryExclusion
  <2> SUFFICES ASSUME IInv, NEW j \in Keys, NEW k \in Keys,
                      queueRepository(j) = queueRepository(k),
                      pc[j] \in Executing, pc[k] \in Executing
               PROVE  j = k
    BY DEF RepositoryExclusion
  <2>1. gate[j] = gate[k]
    BY DEF IInv, GateInMap
  <2> QED BY <2>1 DEF IInv, OneHolder
<1> QED BY Inductive, <1>1, PTL

(***************************************************************************)
(* The execution budget.  slots stays finite because it grows one worker   *)
(* at a time, so its cardinality can be compared although Keys need not be *)
(* finite.                                                                 *)
(***************************************************************************)
SlotsExact == slots = {k \in Keys : pc[k] \in HoldsSlot}
BudgetInv  == SlotsExact /\ IsFiniteSet(slots) /\ Cardinality(slots) <= MaxConcurrent

LEMMA InitBudget == Init => BudgetInv
<1> SUFFICES ASSUME Init PROVE BudgetInv
  OBVIOUS
<1>1. SlotsExact /\ slots = {}
  BY DEF Init, SlotsExact
<1>2. 0 <= MaxConcurrent
  BY BoundsAssumption
<1> QED BY <1>1, <1>2, FS_EmptySet DEF BudgetInv

LEMMA BudgetStep == TypeOK /\ BudgetInv /\ [Next]_vars => BudgetInv'
<1> SUFFICES ASSUME TypeOK, BudgetInv, [Next]_vars PROVE BudgetInv'
  OBVIOUS
<1> USE DEF TypeOK, SlotsExact
<1> DEFINE Keeps == slots' = slots /\ \A k \in Keys :
                       pc'[k] \in HoldsSlot <=> pc[k] \in HoldsSlot
<1>1. Keeps => BudgetInv'
  BY DEF BudgetInv
<1>2. ASSUME NEW t \in Tasks, Enqueue(t) PROVE Keeps
  BY <1>2, KeyOfAssumption DEF Enqueue
<1>3. ASSUME Cancel PROVE Keeps
  BY <1>3 DEF Cancel
<1>4. ASSUME NEW k \in Keys,
             \/ Take(k) \/ Retire(k) \/ EnterGate(k) \/ Interrupt(k) \/ StartAttempt(k)
             \/ RetryDelayElapses(k) \/ AcquireGate(k) \/ TaskReturns(k)
             \/ ReleaseGate(k) \/ LeaveGate(k) \/ Settle(k) \/ Report(k) \/ Done(k)
      PROVE  Keeps
  <2> USE DEF Goto, shared
  <2>1. CASE Take(k) \/ Retire(k) \/ EnterGate(k)
    BY <2>1 DEF Take, Retire, EnterGate
  <2>2. CASE Interrupt(k) \/ StartAttempt(k) \/ RetryDelayElapses(k)
    BY <2>2 DEF Interrupt, StartAttempt, RetryDelayElapses
  <2>3. CASE AcquireGate(k) \/ TaskReturns(k)
    BY <2>3 DEF AcquireGate, TaskReturns, TaskSucceeds, TaskFails
  <2>4. CASE ReleaseGate(k) \/ LeaveGate(k) \/ Settle(k)
    BY <2>4 DEF ReleaseGate, LeaveGate, Settle
  <2>5. CASE Report(k) \/ Done(k)
    BY <2>5 DEF Report, Done
  <2> QED BY <1>4, <2>1, <2>2, <2>3, <2>4, <2>5
<1>5. ASSUME NEW k \in Keys, AcquireSlot(k) PROVE BudgetInv'
  <2>1. slots' = slots \cup {k} /\ Cardinality(slots) < MaxConcurrent /\ k \notin slots
    BY <1>5 DEF AcquireSlot, BudgetInv
  <2>2. SlotsExact'
    BY <1>5 DEF AcquireSlot, Goto, BudgetInv
  <2>3. IsFiniteSet(slots') /\ Cardinality(slots') = Cardinality(slots) + 1
    BY <2>1, FS_AddElement DEF BudgetInv
  <2>4. Cardinality(slots) \in Nat
    BY FS_CardinalityType DEF BudgetInv
  <2> QED BY <2>1, <2>2, <2>3, <2>4, BoundsAssumption DEF BudgetInv
<1>6. ASSUME NEW k \in Keys, ReleaseSlot(k) PROVE BudgetInv'
  <2>1. slots' = slots \ {k}
    BY <1>6 DEF ReleaseSlot
  <2>2. SlotsExact'
    BY <1>6 DEF ReleaseSlot, Goto, BudgetInv
  <2>3. k \in slots
    BY <1>6 DEF ReleaseSlot, BudgetInv
  <2>4. IsFiniteSet(slots') /\ Cardinality(slots') = Cardinality(slots) - 1
    BY <2>1, <2>3, FS_RemoveElement DEF BudgetInv
  <2>5. Cardinality(slots) \in Nat
    BY FS_CardinalityType DEF BudgetInv
  <2> QED BY <2>2, <2>4, <2>5, BoundsAssumption DEF BudgetInv
<1>7. ASSUME UNCHANGED vars PROVE Keeps
  BY <1>7 DEF vars, shared
<1> HIDE DEF Keeps
<1> QED
  BY <1>1, <1>2, <1>3, <1>4, <1>5, <1>6, <1>7 DEF Next, Advance

\* However many keys wait, at most MaxConcurrent tasks execute, and the slots
\* taken are those of the workers that will give them back.
THEOREM Budget == Spec => []ExecutionBudget
<1>1. TypeOK /\ TypeOK' /\ BudgetInv /\ [Next]_vars => BudgetInv'
  BY BudgetStep
<1>2. BudgetInv => ExecutionBudget
  BY DEF BudgetInv, SlotsExact, ExecutionBudget
<1> QED BY TypeCorrect, InitBudget, <1>1, <1>2, PTL DEF Spec

(***************************************************************************)
(* Order within a key.  FIFOPerKey is inductive given IInv: a chain, a     *)
(* hand and the settled tasks stay the parts of what was accepted.         *)
(***************************************************************************)

\* A task joins the end of the chain.
LEMMA AppendToTail ==
    ASSUME NEW s \in Seq(Tasks), NEW u \in Seq(Tasks), NEW c \in Seq(Tasks), NEW x \in Tasks
    PROVE  Append(s \o u \o c, x) = s \o u \o Append(c, x)
<1>1. s \o u \in Seq(Tasks) /\ s \o u \o c \in Seq(Tasks) /\ <<x>> \in Seq(Tasks)
  BY ConcatProperties
<1>2. Append(s \o u \o c, x) = (s \o u \o c) \o <<x>>
  BY <1>1, AppendIsConcat
<1>3. (s \o u \o c) \o <<x>> = s \o u \o (c \o <<x>>)
  BY <1>1, ConcatAssociative
<1> QED BY <1>2, <1>3, AppendIsConcat

\* The head of the chain becomes the task in hand.
LEMMA MoveToHand ==
    ASSUME NEW s \in Seq(Tasks), NEW c \in Seq(Tasks), c # <<>>
    PROVE  s \o <<>> \o c = s \o <<Head(c)>> \o Tail(c)
<1>1. Head(c) \in Tasks /\ Tail(c) \in Seq(Tasks) /\ <<Head(c)>> \in Seq(Tasks)
  BY HeadTailProperties
<1>2. c = <<Head(c)>> \o Tail(c)
  <2> DEFINE d == <<Head(c)>> \o Tail(c)
  <2>1. d \in Seq(Tasks) /\ Len(d) = 1 + Len(Tail(c))
        /\ \A i \in 1 .. 1 + Len(Tail(c)) : d[i] = IF i <= 1 THEN <<Head(c)>>[i] ELSE Tail(c)[i - 1]
    BY <1>1, ConcatProperties
  <2>2. Len(Tail(c)) = Len(c) - 1 /\ Len(c) \in Nat /\ \A i \in 1..Len(c) - 1 : Tail(c)[i] = c[i + 1]
    BY HeadTailProperties, LenProperties
  <2>3. Head(c) = c[1]
    OBVIOUS
  <2> HIDE DEF d
  <2>4. Len(d) = Len(c) /\ \A i \in 1..Len(c) : c[i] = d[i]
    BY <2>1, <2>2, <2>3
  <2>5. c = d
    BY <2>1, <2>4, SeqEqual
  <2> QED BY <2>5 DEF d
<1>3. (s \o <<Head(c)>>) \o Tail(c) = s \o (<<Head(c)>> \o Tail(c))
  BY <1>1, ConcatAssociative
<1> QED BY <1>2, <1>3, ConcatEmptySeq

\* The task in hand joins the settled ones.
LEMMA MoveToSettled ==
    ASSUME NEW s \in Seq(Tasks), NEW c \in Seq(Tasks), NEW x \in Tasks
    PROVE  s \o <<x>> \o c = Append(s, x) \o <<>> \o c
BY AppendIsConcat, AppendProperties, ConcatEmptySeq

\* The two rewritings the steps need, quantified.
LEMMA TaskSequences ==
    \A s, u, c \in Seq(Tasks), x \in Tasks :
        /\ Append(s \o u \o c, x) = s \o u \o Append(c, x)
        /\ s \o <<x>> \o c = Append(s, x) \o <<>> \o c
BY AppendToTail, MoveToSettled

\* Only Enqueue, Take and Settle move a task between the three parts.
LEMMA FIFOStep == IInv /\ FIFOPerKey /\ [Next]_vars => FIFOPerKey'
<1> SUFFICES ASSUME IInv, FIFOPerKey, [Next]_vars PROVE FIFOPerKey'
  OBVIOUS
<1> USE DEF IInv, TypeOK
<1> DEFINE Same(k) == /\ admitted'[k] = admitted[k] /\ settled'[k] = settled[k] /\ chains'[k] = chains[k]
                      /\ InHand(k)' = InHand(k)
           Holds(k) == admitted'[k] = settled'[k] \o InHand(k)' \o chains'[k]
<1>0. ASSUME NEW k \in Keys PROVE Same(k) => Holds(k)
  BY DEF FIFOPerKey
<1>8. ASSUME NEW k \in Keys PROVE InHand(k) \in Seq(Tasks)
  BY DEF InHand, BusyHasTask
<1>1. ASSUME NEW t \in Tasks, Enqueue(t), NEW k \in Keys PROVE Holds(k)
  <2>1. CASE k = KeyOf[t]
    <3>1. admitted'[k] = Append(admitted[k], t) /\ chains'[k] = Append(chains[k], t)
          /\ settled'[k] = settled[k]
      BY <1>1, <2>1 DEF Enqueue
    <3>2. InHand(k)' = InHand(k)
      BY <1>1, <2>1 DEF Enqueue, InHand, local
    <3>3. admitted[k] = settled[k] \o InHand(k) \o chains[k]
      BY DEF FIFOPerKey
    <3>4. settled[k] \in Seq(Tasks) /\ chains[k] \in Seq(Tasks)
      OBVIOUS
    <3> HIDE DEF TypeOK, IInv, GatesAgree
    <3>5. Append(settled[k] \o InHand(k) \o chains[k], t) = settled[k] \o InHand(k) \o Append(chains[k], t)
      BY <3>4, <1>8, TaskSequences
    <3> QED BY <3>1, <3>2, <3>3, <3>5
  <2>2. CASE k # KeyOf[t]
    BY <1>0, <1>1, <2>2, KeyOfAssumption DEF Enqueue, InHand, local
  <2> QED BY <2>1, <2>2
<1>2. ASSUME Cancel \/ UNCHANGED vars, NEW k \in Keys PROVE Holds(k)
  BY <1>0, <1>2 DEF Cancel, InHand, local, history, vars, shared
<1>3. ASSUME NEW j \in Keys, Take(j), NEW k \in Keys PROVE Holds(k)
  <2>1. CASE k = j
    <3>1. admitted'[k] = admitted[k] /\ chains[k] # <<>> /\ chains'[k] = Tail(chains[k])
          /\ settled'[k] = settled[k]
      BY <1>3, <2>1 DEF Take, history
    <3>2. InHand(k) = <<>> /\ InHand(k)' = <<Head(chains[k])>>
      BY <1>3, <2>1 DEF Take, InHand, Goto
    <3>3. admitted[k] = settled[k] \o InHand(k) \o chains[k]
      BY DEF FIFOPerKey
    <3>4. settled[k] \in Seq(Tasks) /\ chains[k] \in Seq(Tasks)
      OBVIOUS
    <3> HIDE DEF TypeOK, IInv, GatesAgree
    <3>5. settled[k] \o <<>> \o chains[k] = settled[k] \o <<Head(chains[k])>> \o Tail(chains[k])
      BY <3>1, <3>4, MoveToHand
    <3> QED BY <3>1, <3>2, <3>3, <3>5
  <2>2. CASE k # j
    BY <1>0, <1>3, <2>2 DEF Take, InHand, Goto, history
  <2> QED BY <2>1, <2>2
<1>4. ASSUME NEW j \in Keys, Settle(j), NEW k \in Keys PROVE Holds(k)
  <2>1. CASE k = j
    <3>1. admitted'[k] = admitted[k] /\ chains'[k] = chains[k]
          /\ settled'[k] = Append(settled[k], current[k]) /\ current[k] \in Tasks
      BY <1>4, <2>1 DEF Settle, BusyHasTask
    <3>2. InHand(k) = <<current[k]>> /\ InHand(k)' = <<>>
      BY <1>4, <2>1 DEF Settle, InHand, Goto
    <3>3. admitted[k] = settled[k] \o InHand(k) \o chains[k]
      BY DEF FIFOPerKey
    <3>4. settled[k] \in Seq(Tasks) /\ chains[k] \in Seq(Tasks)
      OBVIOUS
    <3> HIDE DEF TypeOK, IInv, GatesAgree
    <3>5. settled[k] \o <<current[k]>> \o chains[k] = Append(settled[k], current[k]) \o <<>> \o chains[k]
      BY <3>1, <3>4, TaskSequences
    <3> QED BY <3>1, <3>2, <3>3, <3>5
  <2>2. CASE k # j
    BY <1>0, <1>4, <2>2 DEF Settle, InHand, Goto, local
  <2> QED BY <2>1, <2>2
<1>5. ASSUME NEW j \in Keys,
             \/ Retire(j) \/ EnterGate(j) \/ Interrupt(j) \/ StartAttempt(j)
             \/ RetryDelayElapses(j) \/ AcquireGate(j) \/ AcquireSlot(j) \/ TaskReturns(j)
             \/ ReleaseSlot(j) \/ ReleaseGate(j) \/ LeaveGate(j) \/ Report(j) \/ Done(j),
             NEW k \in Keys
      PROVE  Holds(k)
  <2> SUFFICES Same(k)
    BY <1>0
  <2> USE DEF InHand, Goto, history, shared, local
  <2>1. CASE Retire(j) \/ EnterGate(j)
    BY <2>1 DEF Retire, EnterGate
  <2>2. CASE Interrupt(j) \/ StartAttempt(j) \/ RetryDelayElapses(j)
    BY <2>2 DEF Interrupt, StartAttempt, RetryDelayElapses
  <2>3. CASE AcquireGate(j) \/ AcquireSlot(j)
    BY <2>3 DEF AcquireGate, AcquireSlot
  <2>4. CASE TaskReturns(j)
    BY <2>4 DEF TaskReturns, TaskSucceeds, TaskFails
  <2>5. CASE ReleaseSlot(j) \/ ReleaseGate(j) \/ LeaveGate(j)
    BY <2>5 DEF ReleaseSlot, ReleaseGate, LeaveGate
  <2>6. CASE Report(j) \/ Done(j)
    BY <2>6 DEF Report, Done
  <2> QED BY <1>5, <2>1, <2>2, <2>3, <2>4, <2>5, <2>6
<1> HIDE DEF Same
<1>6. \A k \in Keys : Holds(k)
  BY <1>1, <1>2, <1>3, <1>4, <1>5 DEF Next, Advance
<1> QED BY <1>6 DEF FIFOPerKey

(***************************************************************************)
(* Counting.  pending and wg are compared with the cardinality of sets of  *)
(* tasks, so each step's effect on those sets is needed; that a task is in *)
(* one place only follows from the order above, once no task is accepted   *)
(* twice.                                                                  *)
(***************************************************************************)

\* A chain is only given tasks of its key, and no task twice.
UniqueTasks ==
    \A k \in Keys :
        /\ \A i \in DOMAIN admitted[k] : KeyOf[admitted[k][i]] = k
        /\ \A i, j \in DOMAIN admitted[k] : admitted[k][i] = admitted[k][j] => i = j

Hand(k) == IF pc[k] \in Busy THEN {current[k]} ELSE {}

\* What FIFOPerKey says of sets: an accepted task of a key is settled, in the
\* worker's hand or in the chain, and in one of the three only.
Parted(k) ==
    /\ Elements(admitted[k]) = Elements(settled[k]) \cup Hand(k) \cup Elements(chains[k])
    /\ \A t \in Elements(admitted[k]) : KeyOf[t] = k
    /\ Elements(settled[k]) \cap Hand(k) = {}
    /\ Elements(settled[k]) \cap Elements(chains[k]) = {}
    /\ Hand(k) \cap Elements(chains[k]) = {}

\* Append adds one element.
LEMMA ElementsAppend ==
    \A s \in Seq(Tasks), x \in Tasks : Elements(Append(s, x)) = Elements(s) \cup {x}
<1> SUFFICES ASSUME NEW s \in Seq(Tasks), NEW x \in Tasks
             PROVE  Elements(Append(s, x)) = Elements(s) \cup {x}
  OBVIOUS
<1> DEFINE a == Append(s, x)
<1>1. /\ DOMAIN s = 1..Len(s) /\ Len(s) \in Nat /\ DOMAIN a = 1..Len(s) + 1
      /\ \A i \in 1..Len(s) : a[i] = s[i]
      /\ a[Len(s) + 1] = x
  BY AppendProperties, LenProperties
<1> HIDE DEF a
<1>2. ASSUME NEW y \in Elements(a) PROVE y \in Elements(s) \cup {x}
  BY <1>1, <1>2 DEF Elements
<1>3. ASSUME NEW y \in Elements(s) PROVE y \in Elements(a)
  BY <1>1, <1>3 DEF Elements
<1>4. x \in Elements(a)
  BY <1>1 DEF Elements
<1> QED BY <1>2, <1>3, <1>4 DEF a

\* ConcatProperties, quantified.
LEMMA ConcatIndex ==
    \A s, c \in Seq(Tasks) :
        /\ s \o c \in Seq(Tasks)
        /\ Len(s \o c) = Len(s) + Len(c)
        /\ \A i \in 1..Len(s) + Len(c) : (s \o c)[i] = IF i <= Len(s) THEN s[i] ELSE c[i - Len(s)]
BY ConcatProperties

\* Indices of a concatenation of three.
LEMMA ThreeParts ==
    ASSUME NEW s \in Seq(Tasks), NEW u \in Seq(Tasks), NEW c \in Seq(Tasks), NEW a,
           a = s \o u \o c
    PROVE  /\ Len(s) \in Nat /\ Len(u) \in Nat /\ Len(c) \in Nat
           /\ DOMAIN s = 1..Len(s) /\ DOMAIN u = 1..Len(u) /\ DOMAIN c = 1..Len(c)
           /\ DOMAIN a = 1..Len(s) + Len(u) + Len(c)
           /\ \A i \in 1..Len(s) : a[i] = s[i]
           /\ \A i \in 1..Len(u) : a[Len(s) + i] = u[i]
           /\ \A i \in 1..Len(c) : a[Len(s) + Len(u) + i] = c[i]
<1> DEFINE b == s \o u
<1>1. Len(s) \in Nat /\ Len(u) \in Nat /\ Len(c) \in Nat
      /\ DOMAIN s = 1..Len(s) /\ DOMAIN u = 1..Len(u) /\ DOMAIN c = 1..Len(c)
  BY LenProperties
<1>2. b \in Seq(Tasks) /\ Len(b) = Len(s) + Len(u)
      /\ \A i \in 1..Len(s) + Len(u) : b[i] = IF i <= Len(s) THEN s[i] ELSE u[i - Len(s)]
  BY ConcatProperties
<1> HIDE DEF b
<1>3. a = b \o c
  BY DEF b
<1>9. (b \o c) \in Seq(Tasks) /\ Len(b \o c) = Len(b) + Len(c)
      /\ \A i \in 1..Len(b) + Len(c) : (b \o c)[i] = IF i <= Len(b) THEN b[i] ELSE c[i - Len(b)]
  BY <1>2, ConcatIndex, Zenon
<1>4. a \in Seq(Tasks) /\ Len(a) = Len(b) + Len(c)
      /\ \A i \in 1..Len(b) + Len(c) : a[i] = IF i <= Len(b) THEN b[i] ELSE c[i - Len(b)]
  BY <1>9, <1>3, Zenon
<1>5. DOMAIN a = 1..Len(s) + Len(u) + Len(c)
  BY <1>1, <1>2, <1>4, LenProperties
<1>6. ASSUME NEW i \in 1..Len(s) PROVE a[i] = s[i]
  BY <1>1, <1>2, <1>4
<1>7. ASSUME NEW i \in 1..Len(u) PROVE a[Len(s) + i] = u[i]
  BY <1>1, <1>2, <1>4
<1>8. ASSUME NEW i \in 1..Len(c) PROVE a[Len(s) + Len(u) + i] = c[i]
  BY <1>1, <1>2, <1>4
<1> QED BY <1>1, <1>5, <1>6, <1>7, <1>8

\* The parts of a sequence without repetition share no element.
LEMMA PartsApart ==
    ASSUME NEW s \in Seq(Tasks), NEW u \in Seq(Tasks), NEW c \in Seq(Tasks), NEW a,
           a = s \o u \o c,
           \A i, j \in DOMAIN a : a[i] = a[j] => i = j
    PROVE  /\ Elements(a) = Elements(s) \cup Elements(u) \cup Elements(c)
           /\ Elements(s) \cap Elements(u) = {}
           /\ Elements(s) \cap Elements(c) = {}
           /\ Elements(u) \cap Elements(c) = {}
<1> DEFINE m == Len(s)
           n == Len(u)
           l == Len(c)
<1>1. /\ m \in Nat /\ n \in Nat /\ l \in Nat
      /\ DOMAIN s = 1..m /\ DOMAIN u = 1..n /\ DOMAIN c = 1..l
      /\ DOMAIN a = 1..m + n + l
      /\ \A i \in 1..m : a[i] = s[i]
      /\ \A i \in 1..n : a[m + i] = u[i]
      /\ \A i \in 1..l : a[m + n + i] = c[i]
  BY ThreeParts
<1> HIDE DEF m, n, l
<1> USE DEF Elements
<1>2. ASSUME NEW x \in Elements(a) PROVE x \in Elements(s) \cup Elements(u) \cup Elements(c)
  <2>1. PICK i \in 1..m + n + l : x = a[i]
    BY <1>1
  <2>2. CASE i <= m
    BY <1>1, <2>1, <2>2
  <2>3. CASE m < i /\ i <= m + n
    <3>1. i - m \in 1..n /\ i = m + (i - m)
      BY <1>1, <2>3
    <3>2. x = u[i - m]
      BY <1>1, <2>1, <3>1
    <3> QED BY <1>1, <3>1, <3>2
  <2>4. CASE m + n < i
    <3>1. i - (m + n) \in 1..l /\ i = m + n + (i - (m + n))
      BY <1>1, <2>4
    <3>2. x = c[i - (m + n)]
      BY <1>1, <2>1, <3>1
    <3> QED BY <1>1, <3>1, <3>2
  <2> QED BY <1>1, <2>2, <2>3, <2>4
<1>3. ASSUME NEW i \in 1..m PROVE i \in DOMAIN a /\ a[i] = s[i]
  BY <1>1
<1>4. ASSUME NEW i \in 1..n PROVE m + i \in DOMAIN a /\ a[m + i] = u[i]
  BY <1>1
<1>5. ASSUME NEW i \in 1..l PROVE m + n + i \in DOMAIN a /\ a[m + n + i] = c[i]
  BY <1>1
<1>6. ASSUME NEW i \in 1..m, NEW j \in 1..n PROVE s[i] # u[j]
  <2>1. i # m + j
    BY <1>1
  <2> QED BY <2>1, <1>3, <1>4
<1>7. ASSUME NEW i \in 1..m, NEW j \in 1..l PROVE s[i] # c[j]
  <2>1. i # m + n + j
    BY <1>1
  <2> QED BY <2>1, <1>3, <1>5
<1>8. ASSUME NEW i \in 1..n, NEW j \in 1..l PROVE u[i] # c[j]
  <2>1. m + i # m + n + j
    BY <1>1
  <2>2. m + i \in DOMAIN a /\ a[m + i] = u[i]
    BY <1>4
  <2>3. m + n + j \in DOMAIN a /\ a[m + n + j] = c[j]
    BY <1>5
  <2> QED BY <2>1, <2>2, <2>3, Zenon
<1>9. Elements(a) = Elements(s) \cup Elements(u) \cup Elements(c)
  <2>1. ASSUME NEW x \in Elements(s) \cup Elements(u) \cup Elements(c) PROVE x \in Elements(a)
    <3>1. (\E i \in 1..m : x = s[i]) \/ (\E i \in 1..n : x = u[i]) \/ (\E i \in 1..l : x = c[i])
      BY <1>1
    <3>2. CASE \E i \in 1..m : x = s[i]
      BY <3>2, <1>3
    <3>3. CASE \E i \in 1..n : x = u[i]
      BY <3>3, <1>4
    <3>4. CASE \E i \in 1..l : x = c[i]
      <4>1. PICK i \in 1..l : x = c[i]
        BY <3>4
      <4>2. m + n + i \in DOMAIN a /\ a[m + n + i] = c[i]
        BY <1>5
      <4> QED BY <4>1, <4>2
    <3> QED BY <3>1, <3>2, <3>3, <3>4
  <2> QED BY <1>2, <2>1
<1> HIDE DEF Elements
<1>10. Elements(s) \cap Elements(u) = {}
  BY <1>1, <1>6 DEF Elements
<1>11. Elements(s) \cap Elements(c) = {}
  BY <1>1, <1>7 DEF Elements
<1>12. Elements(u) \cap Elements(c) = {}
  BY <1>1, <1>8 DEF Elements
<1> QED BY <1>9, <1>10, <1>11, <1>12

\* FIFOPerKey and UniqueTasks partition the tasks of every key.
LEMMA Partition ==
    ASSUME TypeOK, BusyHasTask, FIFOPerKey, UniqueTasks, NEW k \in Keys
    PROVE  Parted(k)
<1>1. settled[k] \in Seq(Tasks) /\ chains[k] \in Seq(Tasks) /\ admitted[k] \in Seq(Tasks)
  BY DEF TypeOK
<1>2. InHand(k) \in Seq(Tasks)
  BY DEF InHand, BusyHasTask
<1>3. admitted[k] = settled[k] \o InHand(k) \o chains[k]
  BY DEF FIFOPerKey
<1>4. \A i, j \in DOMAIN admitted[k] : admitted[k][i] = admitted[k][j] => i = j
  BY DEF UniqueTasks
<1>5. /\ Elements(admitted[k]) = Elements(settled[k]) \cup Elements(InHand(k)) \cup Elements(chains[k])
      /\ Elements(settled[k]) \cap Elements(InHand(k)) = {}
      /\ Elements(settled[k]) \cap Elements(chains[k]) = {}
      /\ Elements(InHand(k)) \cap Elements(chains[k]) = {}
  BY <1>1, <1>2, <1>3, <1>4, PartsApart
<1>6. Elements(InHand(k)) = Hand(k)
  BY DEF InHand, Elements, Hand
<1>7. \A t \in Elements(admitted[k]) : KeyOf[t] = k
  BY DEF Elements, UniqueTasks
<1> QED BY <1>5, <1>6, <1>7 DEF Parted

\* Enqueue, which refuses a task it has, is the only step that adds one.
LEMMA UniqueStep == TypeOK /\ UniqueTasks /\ [Next]_vars => UniqueTasks'
<1> SUFFICES ASSUME TypeOK, UniqueTasks, [Next]_vars PROVE UniqueTasks'
  OBVIOUS
<1>1. ASSUME NEW t \in Tasks, Enqueue(t), NEW k \in Keys
      PROVE  /\ \A i \in DOMAIN admitted'[k] : KeyOf[admitted'[k][i]] = k
             /\ \A i, j \in DOMAIN admitted'[k] : admitted'[k][i] = admitted'[k][j] => i = j
  <2>1. CASE k = KeyOf[t]
    <3> DEFINE s == admitted[k]
               a == admitted'[k]
    <3>1. s \in Seq(Tasks) /\ a = Append(s, t) /\ t \notin Elements(s)
      BY <1>1, <2>1 DEF Enqueue, TypeOK
    <3>2. /\ \A i \in DOMAIN s : KeyOf[s[i]] = k
          /\ \A i, j \in DOMAIN s : s[i] = s[j] => i = j
      BY DEF UniqueTasks
    <3>3. \A i \in DOMAIN s : s[i] # t
      BY <3>1 DEF Elements
    <3> HIDE DEF s, a
    <3>4. DOMAIN s = 1..Len(s) /\ Len(s) \in Nat /\ DOMAIN a = 1..Len(s) + 1
          /\ (\A i \in 1..Len(s) : a[i] = s[i]) /\ a[Len(s) + 1] = t
      BY <3>1, AppendProperties, LenProperties
    <3>5. /\ \A i \in DOMAIN a : KeyOf[a[i]] = k
          /\ \A i, j \in DOMAIN a : a[i] = a[j] => i = j
      BY <2>1, <3>2, <3>3, <3>4
    <3> QED BY <3>5 DEF a
  <2>2. CASE k # KeyOf[t]
    <3>1. admitted'[k] = admitted[k]
      BY <1>1, <2>2 DEF Enqueue, TypeOK
    <3> QED BY <3>1 DEF UniqueTasks
  <2> QED BY <2>1, <2>2
<1>2. ASSUME ~ \E t \in Tasks : Enqueue(t) PROVE admitted' = admitted
  <2>1. CASE Cancel \/ UNCHANGED vars
    BY <2>1 DEF Cancel, vars, history
  <2>2. CASE \E k \in Keys : Advance(k)
    BY <2>2 DEF Advance, Take, Retire, EnterGate, Interrupt, StartAttempt, RetryDelayElapses,
                ReleaseSlot, ReleaseGate, LeaveGate, Settle, Report, Done, history
  <2>3. CASE \E k \in Keys : AcquireGate(k) \/ AcquireSlot(k) \/ TaskReturns(k)
    BY <2>3 DEF AcquireGate, AcquireSlot, TaskReturns, TaskSucceeds, TaskFails, history
  <2> QED BY <1>2, <2>1, <2>2, <2>3 DEF Next
<1>3. CASE \E t \in Tasks : Enqueue(t)
  BY <1>1, <1>3 DEF UniqueTasks
<1>4. CASE ~ \E t \in Tasks : Enqueue(t)
  BY <1>2, <1>4 DEF UniqueTasks
<1> QED BY <1>3, <1>4

\* What is recorded of the tasks: a reporting worker's task has settled, and a
\* failure is reported once, by the worker that settled the task.
Recorded ==
    /\ \A k \in Keys : pc[k] \in Reporting => current[k] \in Elements(settled[k])
    /\ \A t \in Tasks : reports[t] <= 1 /\ (reports[t] = 1 => t \in Elements(settled[KeyOf[t]]))
    /\ \A k \in Keys : pc[k] \in Busy \cup {"report"} => reports[current[k]] = 0

\* The map keeps a gate only while it has a user, and a gate serves the
\* repository of the task that allocated it.
GateUsed ==
    \A r \in Repositories : repositories[r] # None =>
        /\ queueRepository(KeyOf[repositories[r]]) = r
        /\ \E k \in Keys : /\ queueRepository(k) = r
                           /\ pc[k] \in Registered
                           /\ gate[k] = repositories[r]

\* The accepted tasks that have not settled, each looked up under its key.
OpenTasks == {t \in Tasks : t \in Elements(admitted[KeyOf[t]]) \ Elements(settled[KeyOf[t]])}

\* The counters are cardinalities of finite sets, though Tasks need not be.
Counted ==
    /\ IsFiniteSet(OpenTasks) /\ IsFiniteSet(OpenTasks \cup Returning)
    /\ pending = Cardinality(OpenTasks)
    /\ wg = Cardinality(OpenTasks \cup Returning)
    /\ pending <= MaxPending

History == FIFOPerKey /\ UniqueTasks /\ Recorded /\ GateUsed /\ Counted


\* Taking a task finds it unreported; settling it records it; one report follows.
LEMMA RecordedStep ==
    ASSUME IInv, \A k \in Keys : Parted(k), Recorded, [Next]_vars
    PROVE  Recorded'
<1> USE DEF IInv, TypeOK, Recorded, BusyHasTask
<1> DEFINE Same == /\ UNCHANGED <<settled, reports, current>>
                   /\ \A k \in Keys : /\ pc'[k] \in Reporting <=> pc[k] \in Reporting
                                      /\ pc'[k] \in Busy \cup {"report"} => pc[k] \in Busy \cup {"report"}
<1>0. Same => Recorded'
  OBVIOUS
<1>1. ASSUME NEW t \in Tasks, Enqueue(t) PROVE Same
  BY <1>1, KeyOfAssumption DEF Enqueue, local
<1>2. ASSUME Cancel \/ UNCHANGED vars PROVE Same
  BY <1>2 DEF Cancel, local, history, vars, shared
<1>3. ASSUME NEW j \in Keys,
             \/ Retire(j) \/ EnterGate(j) \/ Interrupt(j) \/ StartAttempt(j)
             \/ RetryDelayElapses(j) \/ AcquireGate(j) \/ AcquireSlot(j) \/ TaskReturns(j)
             \/ ReleaseSlot(j) \/ ReleaseGate(j) \/ LeaveGate(j)
      PROVE  Same
  <2> USE DEF Goto, history, shared, local
  <2>1. CASE Retire(j) \/ EnterGate(j)
    BY <2>1 DEF Retire, EnterGate
  <2>2. CASE Interrupt(j) \/ StartAttempt(j) \/ RetryDelayElapses(j)
    BY <2>2 DEF Interrupt, StartAttempt, RetryDelayElapses
  <2>3. CASE AcquireGate(j) \/ AcquireSlot(j)
    BY <2>3 DEF AcquireGate, AcquireSlot
  <2>4. CASE TaskReturns(j)
    BY <2>4 DEF TaskReturns, TaskSucceeds, TaskFails
  <2>5. CASE ReleaseSlot(j) \/ ReleaseGate(j) \/ LeaveGate(j)
    BY <2>5 DEF ReleaseSlot, ReleaseGate, LeaveGate
  <2> QED BY <1>3, <2>1, <2>2, <2>3, <2>4, <2>5
<1>4. ASSUME NEW j \in Keys, Take(j) PROVE Recorded'
  <2> DEFINE h == Head(chains[j])
  <2>1. h \in Tasks /\ h \in Elements(chains[j])
    BY <1>4, HeadTail DEF Take, Elements
  <2>2. KeyOf[h] = j /\ h \notin Elements(settled[j])
    BY <2>1 DEF Parted
  <2>3. reports[h] = 0
    BY <2>1, <2>2
  <2> HIDE DEF h
  <2>4. /\ settled' = settled /\ reports' = reports /\ current' = [current EXCEPT ![j] = h]
        /\ pc' = [pc EXCEPT ![j] = "enter"]
    BY <1>4 DEF Take, Goto, history, h
  <2> QED BY <2>3, <2>4
<1>5. ASSUME NEW j \in Keys, Settle(j) PROVE Recorded'
  <2>1. /\ settled' = [settled EXCEPT ![j] = Append(settled[j], current[j])]
        /\ reports' = reports /\ current' = current /\ pc' = [pc EXCEPT ![j] = "report"]
        /\ pc[j] = "settle" /\ current[j] \in Tasks
    BY <1>5 DEF Settle, Goto, local
  <2>2. Elements(Append(settled[j], current[j])) = Elements(settled[j]) \cup {current[j]}
    BY <2>1, ElementsAppend
  <2>3. \A k \in Keys : Elements(settled[k]) \subseteq Elements(settled'[k])
                        /\ current[j] \in Elements(settled'[j])
    BY <2>1, <2>2
  <2>4. \A k \in Keys : pc'[k] \in Reporting => current'[k] \in Elements(settled'[k])
    BY <2>1, <2>3
  <2>5. \A t \in Tasks : reports'[t] = 1 => t \in Elements(settled'[KeyOf[t]])
    BY <2>1, <2>3, KeyOfAssumption
  <2> QED BY <2>1, <2>4, <2>5
<1>6. ASSUME NEW j \in Keys, Report(j) PROVE Recorded'
  <2> DEFINE n == IF result[j] = None THEN 0 ELSE 1
  <2>1. /\ settled' = settled /\ current' = current /\ pc' = [pc EXCEPT ![j] = "done"]
        /\ pc[j] = "report" /\ current[j] \in Tasks /\ reports[current[j]] = 0
    BY <1>6 DEF Report, Goto, local
  <2>2. reports' = [reports EXCEPT ![current[j]] = n]
    BY <1>6, <2>1 DEF Report
  <2>3. n \in {0, 1}
    OBVIOUS
  <2> HIDE DEF n
  <2>4. current[j] \in Elements(settled[j]) /\ KeyOf[current[j]] = j
    BY <2>1 DEF Parted
  <2>5. ASSUME NEW k \in Keys, pc'[k] \in Busy \cup {"report"} PROVE reports'[current'[k]] = 0
    <3>1. k # j /\ pc[k] \in Busy \cup {"report"} /\ reports[current[k]] = 0 /\ current[k] \in Tasks
      BY <2>1, <2>5
    <3>2. KeyOf[current[k]] = k
      BY <3>1 DEF Parted, Hand
    <3> QED BY <2>1, <2>2, <2>4, <3>1, <3>2
  <2>6. \A t \in Tasks : reports'[t] <= 1 /\ (reports'[t] = 1 => t \in Elements(settled'[KeyOf[t]]))
    BY <2>1, <2>2, <2>3, <2>4
  <2> QED BY <2>1, <2>5, <2>6
<1>7. ASSUME NEW j \in Keys, Done(j) PROVE Recorded'
  <2>1. /\ settled' = settled /\ reports' = reports /\ current' = [current EXCEPT ![j] = None]
        /\ pc' = [pc EXCEPT ![j] = "take"]
    BY <1>7 DEF Done, Goto, history
  <2> QED BY <2>1
<1> HIDE DEF Same
<1> QED BY <1>0, <1>1, <1>2, <1>3, <1>4, <1>5, <1>6, <1>7 DEF Next, Advance

\* EnterGate puts a gate with a user in the map, and LeaveGate takes it out with
\* the last one, who cannot be a user for another repository.
LEMMA GateUsedStep ==
    ASSUME IInv, \A k \in Keys : Parted(k), GateUsed, [Next]_vars
    PROVE  GateUsed'
<1> USE DEF IInv, TypeOK, GateUsed, BusyHasTask
<1> DEFINE Same == /\ UNCHANGED <<repositories, gate>>
                   /\ \A k \in Keys : pc'[k] \in Registered <=> pc[k] \in Registered
<1>0. Same => GateUsed'
  OBVIOUS
<1>1. ASSUME NEW t \in Tasks, Enqueue(t) PROVE Same
  BY <1>1, KeyOfAssumption DEF Enqueue, local, gates
<1>2. ASSUME Cancel \/ UNCHANGED vars PROVE Same
  BY <1>2 DEF Cancel, local, gates, vars, shared
<1>3. ASSUME NEW j \in Keys,
             \/ Take(j) \/ Retire(j) \/ Interrupt(j) \/ StartAttempt(j) \/ AcquireGate(j)
             \/ RetryDelayElapses(j) \/ AcquireSlot(j) \/ TaskReturns(j)
             \/ ReleaseSlot(j) \/ ReleaseGate(j) \/ Settle(j) \/ Report(j)
      PROVE  Same
  <2> USE DEF Goto, shared, local, gates
  <2>1. CASE Take(j) \/ Retire(j)
    BY <2>1 DEF Take, Retire
  <2>2. CASE Interrupt(j) \/ StartAttempt(j) \/ RetryDelayElapses(j)
    BY <2>2 DEF Interrupt, StartAttempt, RetryDelayElapses
  <2>3. CASE AcquireGate(j) \/ AcquireSlot(j)
    BY <2>3 DEF AcquireGate, AcquireSlot
  <2>4. CASE TaskReturns(j)
    BY <2>4 DEF TaskReturns, TaskSucceeds, TaskFails
  <2>5. CASE ReleaseSlot(j) \/ ReleaseGate(j)
    BY <2>5 DEF ReleaseSlot, ReleaseGate
  <2>6. CASE Settle(j) \/ Report(j)
    BY <2>6 DEF Settle, Report
  <2> QED BY <1>3, <2>1, <2>2, <2>3, <2>4, <2>5, <2>6
<1>4. ASSUME NEW j \in Keys, EnterGate(j) PROVE GateUsed'
  <2> DEFINE r == queueRepository(j)
             g == IF repositories[r] = None THEN current[j] ELSE repositories[r]
  <2>1. /\ repositories' = [repositories EXCEPT ![r] = g]
        /\ gate' = [gate EXCEPT ![j] = g] /\ pc' = [pc EXCEPT ![j] = "gate"] /\ pc[j] = "enter"
    BY <1>4 DEF EnterGate, Goto
  <2>2. r \in Repositories /\ queueRepository(KeyOf[g]) = r
    BY <2>1, RepositoryInDomain DEF Parted, Hand
  <2> SUFFICES ASSUME NEW q \in Repositories, repositories'[q] # None
               PROVE  /\ queueRepository(KeyOf[repositories'[q]]) = q
                      /\ \E k \in Keys : /\ queueRepository(k) = q /\ pc'[k] \in Registered
                                         /\ gate'[k] = repositories'[q]
    OBVIOUS
  <2>3. CASE q = r
    <3> HIDE DEF g
    <3>1. repositories'[q] = g /\ gate'[j] = g /\ pc'[j] = "gate"
      BY <2>1, <2>2, <2>3
    <3> QED BY <2>2, <2>3, <3>1
  <2>4. CASE q # r
    <3> HIDE DEF g, r
    <3>1. repositories'[q] = repositories[q]
      BY <2>1, <2>4
    <3>2. PICK k \in Keys : queueRepository(k) = q /\ pc[k] \in Registered /\ gate[k] = repositories[q]
      BY <3>1
    <3>3. k # j /\ pc'[k] = pc[k] /\ gate'[k] = gate[k]
      BY <2>1, <3>2
    <3> QED BY <3>1, <3>2, <3>3
  <2> QED BY <2>3, <2>4
<1>5. ASSUME NEW j \in Keys, LeaveGate(j) PROVE GateUsed'
  <2> DEFINE r == queueRepository(j)
             g == gate[j]
  <2>1. /\ pc[j] = "leave" /\ pc' = [pc EXCEPT ![j] = "settle"] /\ gate' = gate
        /\ users' = [users EXCEPT ![g] = users[g] \ {j}]
        /\ repositories' = IF users'[g] = {} THEN [repositories EXCEPT ![r] = None] ELSE repositories
    BY <1>5 DEF LeaveGate, Goto, local
  <2>2. g \in Tasks /\ repositories[r] = g /\ r \in Repositories
    BY <2>1, RepositoryInDomain DEF GateInMap
  <2> SUFFICES ASSUME NEW q \in Repositories, repositories'[q] # None
               PROVE  /\ queueRepository(KeyOf[repositories'[q]]) = q
                      /\ \E k \in Keys : /\ queueRepository(k) = q /\ pc'[k] \in Registered
                                         /\ gate'[k] = repositories'[q]
    OBVIOUS
  <2> HIDE DEF g, r
  <2>3. repositories'[q] = repositories[q] /\ queueRepository(KeyOf[repositories[q]]) = q
    BY <2>1, <2>2
  <2>4. CASE q = r
    <3>1. users'[g] # {}
      BY <2>1, <2>2, <2>4
    <3>2. PICK k \in users'[g] : TRUE
      BY <3>1
    <3>3. k # j /\ k \in Keys /\ pc[k] \in Registered /\ gate[k] = g
      BY <2>1, <2>2, <3>2 DEF ClaimsExact
    <3>4. repositories[queueRepository(k)] = g /\ queueRepository(k) \in Repositories
      BY <3>3, RepositoryInDomain DEF GateInMap
    <3>5. queueRepository(k) = q
      BY <2>2, <2>3, <2>4, <3>4, NoneAssumption
    <3> QED BY <2>1, <2>2, <2>3, <2>4, <3>3, <3>5
  <2>5. CASE q # r
    <3>1. PICK k \in Keys : queueRepository(k) = q /\ pc[k] \in Registered /\ gate[k] = repositories[q]
      BY <2>3
    <3>2. k # j
      BY <2>5, <3>1 DEF r
    <3> QED BY <2>1, <2>3, <3>1, <3>2
  <2> QED BY <2>4, <2>5
<1>6. ASSUME NEW j \in Keys, Done(j) PROVE GateUsed'
  <2>1. /\ repositories' = repositories /\ gate' = [gate EXCEPT ![j] = None]
        /\ pc' = [pc EXCEPT ![j] = "take"] /\ pc[j] = "done"
    BY <1>6 DEF Done, Goto, gates
  <2> QED BY <2>1
<1> HIDE DEF Same
<1> QED BY <1>0, <1>1, <1>2, <1>3, <1>4, <1>5, <1>6 DEF Next, Advance

\* Enqueue opens a task, Settle turns it from open to returning, Done closes it.
LEMMA CountedStep ==
    ASSUME IInv, \A k \in Keys : Parted(k), Recorded, Counted, [Next]_vars
    PROVE  Counted'
<1> USE DEF IInv, TypeOK, BusyHasTask
<1> DEFINE Same == UNCHANGED <<pending, wg, OpenTasks, Returning>>
<1>0. Same => Counted'
  BY DEF Counted
<1>1. ASSUME NEW t \in Tasks, Enqueue(t) PROVE Counted'
  <2> DEFINE k == KeyOf[t]
  <2>1. /\ k \in Keys /\ admitted' = [admitted EXCEPT ![k] = Append(admitted[k], t)]
        /\ t \notin Elements(admitted[k]) /\ settled' = settled /\ current' = current
        /\ pc' = [pc EXCEPT ![k] = IF pc[k] = "none" THEN "take" ELSE pc[k]]
        /\ pending' = pending + 1 /\ wg' = wg + 1 /\ pending < MaxPending
    BY <1>1, KeyOfAssumption, BoundsAssumption DEF Enqueue, local, Rejects
  <2>2. Elements(Append(admitted[k], t)) = Elements(admitted[k]) \cup {t}
    BY <2>1, ElementsAppend
  <2>3. Elements(settled[k]) \subseteq Elements(admitted[k])
    BY <2>1 DEF Parted
  <2> HIDE DEF k
  <2>4. OpenTasks' = OpenTasks \cup {t}
    <3>1. ASSUME NEW u \in Tasks PROVE u \in OpenTasks' <=> u \in OpenTasks \cup {t}
      <4>1. CASE KeyOf[u] = k
        BY <2>1, <2>2, <2>3, <4>1 DEF OpenTasks
      <4>2. CASE KeyOf[u] # k
        <5>1. KeyOf[u] \in Keys /\ u # t
          BY <4>2, KeyOfAssumption DEF k
        <5> QED BY <2>1, <4>2, <5>1 DEF OpenTasks
      <4> QED BY <4>1, <4>2
    <3> QED BY <3>1 DEF OpenTasks
  <2>5. Returning' = Returning
    <3>1. \A j \in Keys : pc'[j] \in Reporting <=> pc[j] \in Reporting
      BY <2>1
    <3> QED BY <2>1, <3>1 DEF Returning
  <2>6. t \notin OpenTasks /\ t \notin Returning
    <3>1. t \notin OpenTasks
      BY <2>1 DEF OpenTasks, k
    <3>2. ASSUME NEW j \in Keys, pc[j] \in Reporting PROVE current[j] # t
      BY <2>1, <2>3, <3>2 DEF Recorded, Parted, k
    <3> QED BY <3>1, <3>2 DEF Returning
  <2> DEFINE O == OpenTasks
             U == OpenTasks \cup Returning
  <2>7. OpenTasks' = O \cup {t} /\ (OpenTasks \cup Returning)' = U \cup {t} /\ t \notin O /\ t \notin U
        /\ IsFiniteSet(O) /\ IsFiniteSet(U) /\ pending = Cardinality(O) /\ wg = Cardinality(U)
    BY <2>4, <2>5, <2>6 DEF Counted
  <2> HIDE DEF O, U
  <2>8. /\ IsFiniteSet(O \cup {t}) /\ Cardinality(O \cup {t}) = Cardinality(O) + 1
        /\ IsFiniteSet(U \cup {t}) /\ Cardinality(U \cup {t}) = Cardinality(U) + 1
    BY <2>7, FS_AddElement
  <2>9. pending' <= MaxPending
    BY <2>1, BoundsAssumption
  <2> QED BY <2>1, <2>7, <2>8, <2>9 DEF Counted
<1>2. ASSUME NEW j \in Keys, Settle(j) PROVE Counted'
  <2> DEFINE c == current[j]
  <2>1. /\ settled' = [settled EXCEPT ![j] = Append(settled[j], c)]
        /\ admitted' = admitted /\ current' = current /\ pc' = [pc EXCEPT ![j] = "report"]
        /\ pc[j] = "settle" /\ c \in Tasks /\ pending' = pending - 1 /\ wg' = wg
    BY <1>2 DEF Settle, Goto, local
  <2>2. Elements(Append(settled[j], c)) = Elements(settled[j]) \cup {c}
    BY <2>1, ElementsAppend
  <2>3. KeyOf[c] = j /\ c \in Elements(admitted[j]) /\ c \notin Elements(settled[j])
    BY <2>1 DEF Parted, Hand
  <2> HIDE DEF c
  <2>4. OpenTasks' = OpenTasks \ {c} /\ c \in OpenTasks
    <3>1. ASSUME NEW u \in Tasks PROVE u \in OpenTasks' <=> u \in OpenTasks \ {c}
      <4>1. CASE KeyOf[u] = j
        BY <2>1, <2>2, <2>3, <4>1 DEF OpenTasks
      <4>2. CASE KeyOf[u] # j
        <5>1. KeyOf[u] \in Keys /\ u # c
          BY <2>3, <4>2, KeyOfAssumption
        <5> QED BY <2>1, <4>2, <5>1 DEF OpenTasks
      <4> QED BY <4>1, <4>2
    <3>2. c \in OpenTasks
      BY <2>1, <2>3 DEF OpenTasks
    <3> QED BY <3>1, <3>2 DEF OpenTasks
  <2>5. Returning' = Returning \cup {c}
    <3>1. \A k \in Keys : pc'[k] \in Reporting <=> k = j \/ pc[k] \in Reporting
      BY <2>1
    <3>2. current' = current /\ current[j] = c
      BY <2>1 DEF c
    <3> QED BY <3>1, <3>2 DEF Returning
  <2> DEFINE O == OpenTasks
             U == OpenTasks \cup Returning
  <2>6. OpenTasks' = O \ {c} /\ (OpenTasks \cup Returning)' = U /\ c \in O
        /\ IsFiniteSet(O) /\ IsFiniteSet(U) /\ pending = Cardinality(O) /\ wg = Cardinality(U)
    BY <2>4, <2>5 DEF Counted
  <2> HIDE DEF O, U
  <2>7. IsFiniteSet(O \ {c}) /\ Cardinality(O \ {c}) = Cardinality(O) - 1
    BY <2>6, FS_RemoveElement
  <2>8. pending' <= MaxPending
    BY <2>1, BoundsAssumption DEF Counted
  <2> QED BY <2>1, <2>6, <2>7, <2>8 DEF Counted
<1>3. ASSUME NEW j \in Keys, Done(j) PROVE Counted'
  <2> DEFINE c == current[j]
  <2>1. /\ settled' = settled /\ admitted' = admitted /\ current' = [current EXCEPT ![j] = None]
        /\ pc' = [pc EXCEPT ![j] = "take"]
        /\ pc[j] = "done" /\ c \in Tasks /\ pending' = pending /\ wg' = wg - 1
    BY <1>3 DEF Done, Goto, history
  <2>2. c \in Elements(settled[j]) /\ KeyOf[c] = j
    BY <2>1 DEF Recorded, Parted
  <2>3. OpenTasks' = OpenTasks /\ c \notin OpenTasks
    BY <2>1, <2>2 DEF OpenTasks
  <2>4. Returning' = Returning \ {c} /\ c \in Returning
    <3>1. \A k \in Keys : pc'[k] \in Reporting <=> k # j /\ pc[k] \in Reporting
      BY <2>1
    <3>2. \A k \in Keys \ {j} : pc[k] \in Reporting => current'[k] = current[k] /\ current[k] # c
      BY <2>1, <2>2 DEF Recorded, Parted
    <3>3. ASSUME NEW x \in Returning' PROVE x \in Returning \ {c}
      BY <3>1, <3>2, <3>3 DEF Returning
    <3>4. ASSUME NEW x \in Returning \ {c} PROVE x \in Returning'
      BY <3>1, <3>2, <3>4 DEF Returning
    <3>5. c \in Returning
      BY <2>1 DEF Returning
    <3> QED BY <3>3, <3>4, <3>5
  <2> DEFINE O == OpenTasks
             U == OpenTasks \cup Returning
  <2>5. OpenTasks' = O /\ (OpenTasks \cup Returning)' = U \ {c} /\ c \in U
        /\ IsFiniteSet(O) /\ IsFiniteSet(U) /\ pending = Cardinality(O) /\ wg = Cardinality(U)
        /\ pending <= MaxPending
    BY <2>3, <2>4 DEF Counted
  <2> HIDE DEF O, U, c
  <2>6. IsFiniteSet(U \ {c}) /\ Cardinality(U \ {c}) = Cardinality(U) - 1
    BY <2>5, FS_RemoveElement
  <2>7. IsFiniteSet(OpenTasks') /\ pending' = Cardinality(OpenTasks') /\ pending' <= MaxPending
    BY <2>1, <2>5
  <2>8. IsFiniteSet(OpenTasks' \cup Returning') /\ wg' = Cardinality(OpenTasks' \cup Returning')
    BY <2>1, <2>5, <2>6
  <2> QED BY <2>7, <2>8, Zenon DEF Counted
<1>4. ASSUME NEW j \in Keys, Take(j) PROVE Same
  <2>1. /\ UNCHANGED <<settled, admitted, pending, wg>> /\ pc[j] = "take"
        /\ pc' = [pc EXCEPT ![j] = "enter"]
        /\ current' = [current EXCEPT ![j] = Head(chains[j])]
    BY <1>4 DEF Take, Goto, counters, history
  <2>2. \A k \in Keys : (pc'[k] \in Reporting <=> pc[k] \in Reporting)
                        /\ (pc[k] \in Reporting => current'[k] = current[k])
    BY <2>1
  <2>3. Returning' = Returning
    BY <2>2 DEF Returning
  <2> QED BY <2>1, <2>3 DEF OpenTasks
<1> DEFINE Keeps == /\ UNCHANGED <<settled, admitted, current, pending, wg>>
                    /\ \A k \in Keys : pc'[k] \in Reporting <=> pc[k] \in Reporting
<1>5. Keeps => Same
  BY DEF OpenTasks, Returning
<1>6. ASSUME NEW j \in Keys,
             \/ Retire(j) \/ EnterGate(j) \/ Interrupt(j) \/ StartAttempt(j)
             \/ RetryDelayElapses(j) \/ AcquireGate(j) \/ AcquireSlot(j) \/ TaskReturns(j)
             \/ ReleaseSlot(j) \/ ReleaseGate(j) \/ LeaveGate(j) \/ Report(j)
      PROVE  Keeps
  <2> USE DEF Goto, history, shared, local, counters
  <2>1. CASE Retire(j) \/ EnterGate(j)
    BY <2>1 DEF Retire, EnterGate
  <2>2. CASE Interrupt(j) \/ StartAttempt(j) \/ RetryDelayElapses(j)
    BY <2>2 DEF Interrupt, StartAttempt, RetryDelayElapses
  <2>3. CASE AcquireGate(j) \/ AcquireSlot(j)
    BY <2>3 DEF AcquireGate, AcquireSlot
  <2>4. CASE TaskReturns(j)
    BY <2>4 DEF TaskReturns, TaskSucceeds, TaskFails
  <2>5. CASE ReleaseSlot(j) \/ ReleaseGate(j) \/ LeaveGate(j) \/ Report(j)
    BY <2>5 DEF ReleaseSlot, ReleaseGate, LeaveGate, Report
  <2> QED BY <1>6, <2>1, <2>2, <2>3, <2>4, <2>5
<1>7. ASSUME Cancel \/ UNCHANGED vars PROVE Keeps
  BY <1>7 DEF Cancel, counters, local, history, vars, shared
<1> HIDE DEF Same, Keeps
<1> QED BY <1>0, <1>1, <1>2, <1>3, <1>4, <1>5, <1>6, <1>7 DEF Next, Advance

\* No task is accepted yet.
LEMMA InitHistory == Init => History
<1> SUFFICES ASSUME Init PROVE History
  OBVIOUS
<1> USE DEF Init
<1>1. FIFOPerKey
  <2>1. \A k \in Keys : admitted[k] = <<>> /\ settled[k] = <<>> /\ InHand(k) = <<>> /\ chains[k] = <<>>
    BY DEF InHand
  <2>2. <<>> = <<>> \o <<>> \o <<>>
    OBVIOUS
  <2> QED BY <2>1, <2>2 DEF FIFOPerKey
<1>2. UniqueTasks
  BY DEF UniqueTasks
<1>3. Recorded
  BY DEF Recorded
<1>4. GateUsed
  BY DEF GateUsed
<1>5. OpenTasks = {} /\ Returning = {}
  BY KeyOfAssumption DEF OpenTasks, Returning, Elements
<1>6. Counted
  <2>1. OpenTasks \cup Returning = {}
    BY <1>5
  <2>2. IsFiniteSet({}) /\ Cardinality({}) = 0
    BY FS_EmptySet
  <2>3. pending = 0 /\ wg = 0 /\ 0 <= MaxPending
    BY BoundsAssumption
  <2> HIDE DEF Init
  <2> QED BY <1>5, <2>1, <2>2, <2>3 DEF Counted
<1> QED BY <1>1, <1>2, <1>3, <1>4, <1>6 DEF History

\* Together with IInv, the five conjuncts are inductive.
LEMMA HistoryHolds == Spec => [](IInv /\ History)
<1>1. IInv /\ History /\ IInv' /\ [Next]_vars => History'
  <2> SUFFICES ASSUME IInv, History, [Next]_vars PROVE History'
    OBVIOUS
  <2>1. \A k \in Keys : Parted(k)
    BY Partition DEF History, IInv
  <2>2. FIFOPerKey'
    BY FIFOStep DEF History
  <2>3. UniqueTasks'
    BY UniqueStep DEF History, IInv
  <2>4. Recorded' /\ GateUsed' /\ Counted'
    BY <2>1, RecordedStep, GateUsedStep, CountedStep DEF History
  <2> QED BY <2>2, <2>3, <2>4 DEF History
<1> QED BY Inductive, InitHistory, <1>1, PTL DEF Spec

\* Whatever the keys and the interleaving, each key's accepted tasks are its
\* settled ones, the one its worker holds and its chain, in the order Enqueue
\* accepted them: drain loses, repeats and reorders none.
THEOREM FIFO == Spec => []FIFOPerKey
<1>1. History => FIFOPerKey
  BY DEF History
<1> QED BY HistoryHolds, <1>1, PTL

\* The sets of the counting invariant are those the property names.
LEMMA OpenIsAccepted ==
    ASSUME \A k \in Keys : Parted(k), TypeOK PROVE OpenTasks = Accepted \ AllSettled
<1> USE DEF Parted
<1>1. ASSUME NEW t \in OpenTasks PROVE t \in Accepted \ AllSettled
  <2>1. t \in Tasks /\ KeyOf[t] \in Keys /\ t \in Elements(admitted[KeyOf[t]])
        /\ t \notin Elements(settled[KeyOf[t]])
    BY <1>1, KeyOfAssumption DEF OpenTasks
  <2>2. \A k \in Keys : t \in Elements(settled[k]) => k = KeyOf[t]
    OBVIOUS
  <2> QED BY <2>1, <2>2 DEF Accepted, AllSettled
<1>2. ASSUME NEW t \in Accepted \ AllSettled PROVE t \in OpenTasks
  <2>1. PICK k \in Keys : t \in Elements(admitted[k])
    BY <1>2 DEF Accepted
  <2>2. t \in Tasks
    BY <2>1 DEF TypeOK, Elements
  <2> QED BY <1>2, <2>1, <2>2 DEF AllSettled, OpenTasks
<1> QED BY <1>1, <1>2

\* pending and wg count exactly the tasks they stand for, a Wait that returns
\* leaves no worker, token, registration or gate behind, and onFinalFailure is
\* called at most once per task, for any keys, tasks and limits.
THEOREM CountersAgree == Spec => []CountersExact
<1>1. IInv /\ History /\ SlotsExact => CountersExact
  <2> SUFFICES ASSUME IInv, History, SlotsExact PROVE CountersExact
    OBVIOUS
  <2> USE DEF IInv, History
  <2>1. \A k \in Keys : Parted(k)
    BY Partition
  <2>2. OpenTasks = Accepted \ AllSettled
    BY <2>1, OpenIsAccepted
  <2>3. AdmissionExact
    BY <2>2 DEF AdmissionExact, Counted
  <2>4. WaitCoversEverything
    <3> SUFFICES ASSUME wg = 0
                 PROVE  /\ \A k \in Keys : pc[k] \in {"none", "take"} /\ chains[k] = <<>>
                        /\ slots = {}
                        /\ \A t \in Tasks : semaphore[t] = {} /\ users[t] = {}
                        /\ \A r \in Repositories : repositories[r] = None
      BY DEF WaitCoversEverything
    <3>1. OpenTasks \cup Returning = {}
      BY FS_EmptySet DEF Counted
    <3>2. ASSUME NEW k \in Keys PROVE pc[k] \in {"none", "take"} /\ chains[k] = <<>>
      <4>1. pc[k] \notin Reporting
        BY <3>1 DEF Returning
      <4>2. pc[k] \notin Busy
        <5> SUFFICES ASSUME pc[k] \in Busy PROVE FALSE
          OBVIOUS
        <5>1. current[k] \in Tasks /\ current[k] \in Hand(k)
          BY DEF Hand, BusyHasTask
        <5>2. current[k] \in OpenTasks
          BY <2>1, <5>1 DEF Parted, OpenTasks
        <5> QED BY <3>1, <5>2
      <4>3. chains[k] = <<>>
        <5> SUFFICES ASSUME chains[k] # <<>> PROVE FALSE
          OBVIOUS
        <5> DEFINE h == Head(chains[k])
        <5>1. h \in Tasks /\ h \in Elements(chains[k])
          BY HeadTail DEF TypeOK, Elements
        <5>2. h \in OpenTasks
          BY <2>1, <5>1 DEF Parted, OpenTasks
        <5> QED BY <3>1, <5>2
      <4>4. pc[k] \in PCs
        BY DEF TypeOK
      <4> QED BY <4>1, <4>2, <4>3, <4>4
    <3>3. slots = {}
      BY <3>2 DEF SlotsExact
    <3>4. \A t \in Tasks : semaphore[t] = {} /\ users[t] = {}
      BY <3>2 DEF ClaimsExact
    <3>5. \A r \in Repositories : repositories[r] = None
      BY <3>2 DEF GateUsed
    <3> QED BY <3>2, <3>3, <3>4, <3>5
  <2>5. FailureReportedOnce
    <3> SUFFICES ASSUME NEW t \in Tasks PROVE reports[t] <= 1 /\ (reports[t] = 1 => t \in AllSettled)
      BY DEF FailureReportedOnce
    <3>1. reports[t] <= 1 /\ (reports[t] = 1 => t \in Elements(settled[KeyOf[t]]))
      BY DEF Recorded
    <3> QED BY <3>1, KeyOfAssumption DEF AllSettled
  <2> QED BY <2>3, <2>4, <2>5 DEF CountersExact
<1>2. ExecutionBudget => SlotsExact
  BY DEF ExecutionBudget, SlotsExact
<1> QED BY HistoryHolds, Budget, <1>1, <1>2, PTL

(***************************************************************************)
(* The refinement.  A task's part in RepositoryExecutor is that of its     *)
(* worker's pc; a step that moves no task from one part to another is a    *)
(* stutter, and each of the others is one step of the executor.            *)
(***************************************************************************)
USE DEF Unstarted, Unwinding

\* A worker has a task of its own key in hand.
InHandKey == \A k \in Keys : pc[k] \in Busy => current[k] \in Tasks /\ KeyOf[current[k]] = k

LEMMA HandKey ==
    ASSUME IInv, \A k \in Keys : Parted(k) PROVE InHandKey
BY DEF IInv, GatesAgree, BusyHasTask, Parted, Hand, InHandKey

\* The task in hand goes before the chain.
LEMMA Carry ==
    \A c \in Seq(Tasks), t, u \in Tasks :
        /\ Append(<<u>> \o c, t) = <<u>> \o Append(c, t)
        /\ <<u>> \o c \in Seq(Tasks) /\ <<u>> \o c # <<>>
        /\ Head(<<u>> \o c) = u /\ Tail(<<u>> \o c) = c
        /\ Elements(<<u>> \o c) = {u} \cup Elements(c)
<1> SUFFICES ASSUME NEW c \in Seq(Tasks), NEW t \in Tasks, NEW u \in Tasks
             PROVE  /\ Append(<<u>> \o c, t) = <<u>> \o Append(c, t)
                    /\ <<u>> \o c \in Seq(Tasks) /\ <<u>> \o c # <<>>
                    /\ Head(<<u>> \o c) = u /\ Tail(<<u>> \o c) = c
                    /\ Elements(<<u>> \o c) = {u} \cup Elements(c)
  OBVIOUS
<1> DEFINE s == <<u>>
           b == s \o c
<1>1. s \in Seq(Tasks) /\ Len(s) = 1 /\ s[1] = u /\ <<t>> \in Seq(Tasks)
  OBVIOUS
<1>2. Append(b, t) = s \o Append(c, t)
  <2>1. b \in Seq(Tasks)
    BY <1>1, ConcatProperties
  <2>2. Append(b, t) = b \o <<t>> /\ Append(c, t) = c \o <<t>>
    BY <2>1, AppendIsConcat
  <2>3. (s \o c) \o <<t>> = s \o (c \o <<t>>)
    BY <1>1, ConcatAssociative
  <2> QED BY <2>2, <2>3
<1>3. /\ b \in Seq(Tasks) /\ Len(b) = Len(c) + 1 /\ Len(c) \in Nat
      /\ \A i \in 1..Len(c) + 1 : b[i] = IF i = 1 THEN u ELSE c[i - 1]
  <2> HIDE DEF s
  <2>1. /\ b \in Seq(Tasks) /\ Len(b) = 1 + Len(c) /\ Len(c) \in Nat
        /\ \A i \in 1..1 + Len(c) : b[i] = IF i <= 1 THEN s[i] ELSE c[i - 1]
    <3>1. Len(c) \in Nat
      BY LenProperties
    <3>2. /\ b \in Seq(Tasks) /\ Len(b) = Len(s) + Len(c)
          /\ \A i \in 1..Len(s) + Len(c) : b[i] = IF i <= Len(s) THEN s[i] ELSE c[i - Len(s)]
      BY <1>1, ConcatIndex, Zenon
    <3> QED BY <1>1, <3>1, <3>2
  <2> QED BY <1>1, <2>1
<1> HIDE DEF b, s
<1>4. b # <<>> /\ Head(b) = u
  BY <1>3
<1>5. Tail(b) = c
  <2>1. /\ Tail(b) \in Seq(Tasks) /\ Len(Tail(b)) = Len(c)
        /\ \A i \in 1..Len(c) : Tail(b)[i] = b[i + 1]
    BY <1>3, <1>4, HeadTailProperties
  <2>2. \A i \in 1..Len(c) : Tail(b)[i] = c[i]
    BY <1>3, <2>1
  <2> QED BY <2>1, <2>2, SeqEqual
<1>6. Elements(b) = {u} \cup Elements(c)
  <2>0. DOMAIN b = 1..Len(c) + 1 /\ DOMAIN c = 1..Len(c)
    BY <1>3, LenProperties
  <2>1. ASSUME NEW x \in Elements(b) PROVE x = u \/ x \in Elements(c)
    <3>1. PICK i \in 1..Len(c) + 1 : x = b[i]
      BY <2>0, <2>1 DEF Elements
    <3>2. i = 1 \/ i - 1 \in 1..Len(c)
      BY <1>3
    <3> QED BY <1>3, <2>0, <3>1, <3>2 DEF Elements
  <2>2. u \in Elements(b)
    <3>1. 1 \in DOMAIN b /\ b[1] = u
      BY <1>3, <2>0
    <3> QED BY <3>1 DEF Elements
  <2>3. ASSUME NEW x \in Elements(c) PROVE x \in Elements(b)
    <3>1. PICK i \in 1..Len(c) : x = c[i]
      BY <2>0, <2>3 DEF Elements
    <3>2. i + 1 \in DOMAIN b /\ b[i + 1] = x
      BY <1>3, <2>0, <3>1
    <3> QED BY <3>2 DEF Elements
  <2> QED BY <2>1, <2>2, <2>3
<1> QED BY <1>2, <1>3, <1>4, <1>5, <1>6 DEF b, s

\* A step in which no worker's task changes its part leaves them all alone.
SameRole(k) ==
    /\ pc'[k] \in Unstarted <=> pc[k] \in Unstarted
    /\ pc'[k] \in HoldsSlot <=> pc[k] \in HoldsSlot
    /\ pc'[k] \in Unwinding <=> pc[k] \in Unwinding
    /\ pc[k] \in Busy => current'[k] = current[k]

LEMMA SameRoles ==
    ASSUME \A k \in Keys : SameRole(k) /\ chains'[k] = chains[k]
    PROVE  UNCHANGED <<WaitingTasks, RunningTasks, EndingTasks>>
<1> USE DEF SameRole
<1>1. WaitingTasks' = WaitingTasks
  BY DEF WaitingTasks
<1>2. RunningTasks' = RunningTasks
  BY DEF RunningTasks
<1>3. EndingTasks' = EndingTasks
  BY DEF EndingTasks
<1> QED BY <1>1, <1>2, <1>3

\* The executor counts as the queue does.
LEMMA SameCardinality == \A S : Executor!Cardinality(S) = Cardinality(S)
BY Zenon DEF Executor!Cardinality, Cardinality

\* The unended tasks are those that pending counts.
LEMMA UnendedIsOpen ==
    ASSUME TypeOK, InHandKey, \A k \in Keys : Parted(k)
    PROVE  Executor!Unended = OpenTasks
<1>1. \A k \in Keys : Elements(WaitingTasks[k])
                        = Elements(chains[k]) \cup IF pc[k] \in Unstarted THEN {current[k]} ELSE {}
  <2> SUFFICES ASSUME NEW k \in Keys
               PROVE  Elements(WaitingTasks[k])
                        = Elements(chains[k]) \cup IF pc[k] \in Unstarted THEN {current[k]} ELSE {}
    OBVIOUS
  <2>1. chains[k] \in Seq(Tasks)
    BY DEF TypeOK
  <2>2. CASE pc[k] \in Unstarted
    <3>1. current[k] \in Tasks /\ WaitingTasks[k] = <<current[k]>> \o chains[k]
      BY <2>2 DEF InHandKey, WaitingTasks
    <3>2. Elements(<<current[k]>> \o chains[k]) = {current[k]} \cup Elements(chains[k])
      BY <2>1, <3>1, Carry
    <3> QED BY <2>2, <3>1, <3>2
  <2>3. CASE pc[k] \notin Unstarted
    BY <2>3 DEF WaitingTasks
  <2> QED BY <2>2, <2>3
<1>2. Executor!Waiting = UNION {Elements(WaitingTasks[k]) : k \in Keys}
  BY DEF Executor!Waiting, Executor!Elements, Elements
<1>3. \A x : x \in Executor!Unended <=> \E k \in Keys : x \in Elements(chains[k]) \cup Hand(k)
  <2>1. \A x : x \in Executor!Waiting <=>
          \E k \in Keys : x \in Elements(chains[k]) \/ (pc[k] \in Unstarted /\ x = current[k])
    BY <1>1, <1>2
  <2>2. \A x : x \in RunningTasks <=> \E k \in Keys : pc[k] \in HoldsSlot /\ x = current[k]
    BY DEF RunningTasks
  <2>3. \A x : x \in EndingTasks <=> \E k \in Keys : pc[k] \in Unwinding /\ x = current[k]
    BY DEF EndingTasks
  <2> QED BY <2>1, <2>2, <2>3 DEF Executor!Unended, Hand
<1>4. \A x : x \in OpenTasks <=> \E k \in Keys : x \in Elements(chains[k]) \cup Hand(k)
  <2>1. ASSUME NEW x \in OpenTasks PROVE \E k \in Keys : x \in Elements(chains[k]) \cup Hand(k)
    <3>1. KeyOf[x] \in Keys
      BY KeyOfAssumption DEF OpenTasks
    <3> QED BY <3>1 DEF OpenTasks, Parted
  <2>2. ASSUME NEW k \in Keys, NEW x \in Elements(chains[k]) \cup Hand(k) PROVE x \in OpenTasks
    <3>1. x \in Elements(admitted[k]) /\ x \notin Elements(settled[k]) /\ KeyOf[x] = k
      BY <2>2 DEF Parted
    <3>2. x \in Tasks
      BY <3>1 DEF TypeOK, Elements
    <3> QED BY <3>1, <3>2 DEF OpenTasks
  <2> QED BY <2>1, <2>2
<1> QED BY <1>3, <1>4

\* No more tasks run than slots are taken.
LEMMA RunningIsSmall ==
    ASSUME BudgetInv, InHandKey
    PROVE  IsFiniteSet(RunningTasks) /\ Cardinality(RunningTasks) <= Cardinality(slots)
<1> DEFINE f == [k \in slots |-> current[k]]
<1>1. f \in Surjection(slots, RunningTasks)
  BY DEF Surjection, RunningTasks, BudgetInv, SlotsExact
<1> HIDE DEF f
<1> QED BY <1>1, FS_Surjection DEF BudgetInv

\* The tasks settled for a key.
LEMMA SettledGrows ==
    ASSUME NEW k \in Keys, NEW t \in Tasks, TypeOK,
           settled' = [settled EXCEPT ![k] = Append(settled[k], t)]
    PROVE  AllSettled' = AllSettled \cup {t}
<1>1. Elements(Append(settled[k], t)) = Elements(settled[k]) \cup {t}
  BY ElementsAppend DEF TypeOK
<1>2. settled'[k] = Append(settled[k], t) /\ \A j \in Keys : j # k => settled'[j] = settled[j]
  BY DEF TypeOK
<1>3. AllSettled' = UNION {Elements(settled'[j]) : j \in Keys}
  BY DEF AllSettled, Elements
<1>4. ASSUME NEW x PROVE x \in AllSettled' <=> x \in AllSettled \cup {t}
  <2>1. x \in AllSettled' <=> \E j \in Keys : x \in Elements(settled'[j])
    BY <1>3
  <2>2. x \in AllSettled <=> \E j \in Keys : x \in Elements(settled[j])
    BY DEF AllSettled
  <2>3. x \in Elements(settled'[k]) <=> x \in Elements(settled[k]) \/ x = t
    BY <1>1, <1>2
  <2>4. ASSUME NEW j \in Keys, j # k PROVE x \in Elements(settled'[j]) <=> x \in Elements(settled[j])
    <3>1. settled'[j] = settled[j]
      BY <1>2, <2>4
    <3> QED BY <3>1
  <2> HIDE DEF TypeOK
  <2> QED BY <2>1, <2>2, <2>3, <2>4
<1> QED BY <1>4

\* Enqueue is Accept.
LEMMA EnqueueAccepts ==
    ASSUME TypeOK, InHandKey, \A k \in Keys : Parted(k), Counted, NEW t \in Tasks, Enqueue(t)
    PROVE  Executor!Accept(t)
<1> DEFINE k == KeyOf[t]
<1>1. /\ k \in Keys /\ chains' = [chains EXCEPT ![k] = Append(chains[k], t)]
      /\ pc' = [pc EXCEPT ![k] = IF pc[k] = "none" THEN "take" ELSE pc[k]]
      /\ t \notin Elements(admitted[k]) /\ ~cancelled /\ pending < MaxPending
      /\ UNCHANGED <<cancelled, current, settled>>
  BY KeyOfAssumption, BoundsAssumption DEF Enqueue, Rejects, local, TypeOK
<1> HIDE DEF k
<1>2. \A j \in Keys : /\ pc'[j] \in Unstarted <=> pc[j] \in Unstarted
                      /\ pc'[j] \in HoldsSlot <=> pc[j] \in HoldsSlot
                      /\ pc'[j] \in Unwinding <=> pc[j] \in Unwinding
  BY <1>1 DEF TypeOK
<1>3. RunningTasks' = RunningTasks /\ EndingTasks' = EndingTasks /\ AllSettled' = AllSettled
  BY <1>1, <1>2 DEF RunningTasks, EndingTasks, AllSettled, Elements
<1>4. t \notin Executor!Unended \cup AllSettled
  <2>1. t \notin OpenTasks
    BY <1>1 DEF OpenTasks, k
  <2>2. \A j \in Keys : t \in Elements(settled[j]) => t \in Elements(admitted[j]) /\ KeyOf[t] = j
    BY DEF Parted
  <2>3. t \notin AllSettled
    BY <1>1, <2>2 DEF AllSettled, k
  <2> QED BY <2>1, <2>3, UnendedIsOpen
<1>5. Cardinality(Executor!Unended) < MaxPending
  BY <1>1, UnendedIsOpen DEF Counted
<1>6. WaitingTasks' = [WaitingTasks EXCEPT ![k] = Append(WaitingTasks[k], t)]
  <2>1. \A j \in Keys : j # k => WaitingTasks'[j] = WaitingTasks[j]
    BY <1>1, <1>2 DEF WaitingTasks, TypeOK
  <2>2. WaitingTasks'[k] = Append(WaitingTasks[k], t)
    <3>1. chains[k] \in Seq(Tasks) /\ chains'[k] = Append(chains[k], t)
      BY <1>1 DEF TypeOK
    <3>2. CASE pc[k] \in Unstarted
      <4>1. /\ WaitingTasks[k] = <<current[k]>> \o chains[k]
            /\ WaitingTasks'[k] = <<current[k]>> \o Append(chains[k], t) /\ current[k] \in Tasks
        BY <1>1, <1>2, <3>1, <3>2 DEF WaitingTasks, InHandKey
      <4>2. Append(<<current[k]>> \o chains[k], t) = <<current[k]>> \o Append(chains[k], t)
        BY <3>1, <4>1, Carry
      <4> QED BY <4>1, <4>2
    <3>3. CASE pc[k] \notin Unstarted
      BY <1>1, <1>2, <3>1, <3>3 DEF WaitingTasks
    <3> QED BY <3>2, <3>3
  <2>3. WaitingTasks = [j \in Keys |-> WaitingTasks[j]] /\ WaitingTasks' = [j \in Keys |-> WaitingTasks'[j]]
    BY DEF WaitingTasks
  <2> QED BY <2>1, <2>2, <2>3
<1>7. /\ ~cancelled /\ cancelled' = cancelled
      /\ WaitingTasks' = [WaitingTasks EXCEPT ![KeyOf[t]] = Append(WaitingTasks[KeyOf[t]], t)]
  BY <1>1, <1>6 DEF k
<1> QED BY <1>3, <1>4, <1>5, <1>7, SameCardinality DEF Executor!Accept

\* AcquireSlot is Start: the gate keeps every other worker of the repository out.
LEMMA AcquireSlotStarts ==
    ASSUME IInv, InHandKey, BudgetInv, NEW k \in Keys, AcquireSlot(k)
    PROVE  Executor!Start(k)
<1> USE DEF IInv, TypeOK
<1> DEFINE c == current[k]
<1>1. /\ pc[k] = "slot" /\ pc' = [pc EXCEPT ![k] = "start"] /\ chains' = chains
      /\ Cardinality(slots) < MaxConcurrent /\ UNCHANGED <<cancelled, current, settled>>
  BY DEF AcquireSlot, Goto, history
<1>2. c \in Tasks /\ KeyOf[c] = k /\ chains[k] \in Seq(Tasks)
  BY <1>1 DEF InHandKey
<1>3. WaitingTasks[k] = <<c>> \o chains[k] /\ WaitingTasks[k] # <<>>
      /\ Head(WaitingTasks[k]) = c /\ Tail(WaitingTasks[k]) = chains[k]
  <2>1. WaitingTasks[k] = <<c>> \o chains[k]
    BY <1>1 DEF WaitingTasks
  <2> HIDE DEF c
  <2> QED BY <1>2, <2>1, Carry
<1>4. WaitingTasks' = [WaitingTasks EXCEPT ![k] = chains[k]]
  BY <1>1 DEF WaitingTasks
<1>5. RunningTasks' = RunningTasks \cup {c} /\ EndingTasks' = EndingTasks
  <2>1. \A j \in Keys : /\ pc'[j] \in HoldsSlot <=> pc[j] \in HoldsSlot \/ j = k
                        /\ pc'[j] \in Unwinding <=> pc[j] \in Unwinding
    BY <1>1
  <2>2. RunningTasks' = RunningTasks \cup {c}
    BY <1>1, <2>1 DEF RunningTasks
  <2> QED BY <1>1, <2>1, <2>2 DEF EndingTasks
<1>6. \A t \in RunningTasks : queueRepository(KeyOf[t]) # queueRepository(k)
  <2> SUFFICES ASSUME NEW j \in Keys, pc[j] \in HoldsSlot, queueRepository(KeyOf[current[j]]) = queueRepository(k)
               PROVE  FALSE
    BY DEF RunningTasks
  <2>1. KeyOf[current[j]] = j
    BY DEF InHandKey
  <2>2. gate[j] = gate[k]
    BY <1>1, <2>1 DEF GatesAgree, GateInMap
  <2>3. j = k
    BY <1>1, <2>2 DEF GatesAgree, OneHolder
  <2> QED BY <1>1, <2>3
<1>7. \A t \in EndingTasks : KeyOf[t] # k
  BY <1>1 DEF EndingTasks, InHandKey
<1>8. Cardinality(RunningTasks) < MaxConcurrent
  <2>1. /\ Cardinality(RunningTasks) <= Cardinality(slots) /\ Cardinality(slots) \in Nat
        /\ Cardinality(RunningTasks) \in Nat
    BY RunningIsSmall, FS_CardinalityType DEF BudgetInv
  <2> QED BY <1>1, <2>1, BoundsAssumption
<1>9. AllSettled' = AllSettled
  BY <1>1 DEF AllSettled, Elements
<1> QED BY <1>1, <1>3, <1>4, <1>5, <1>6, <1>7, <1>8, <1>9, SameCardinality DEF Executor!Start

\* A worker that is interrupted at the gate or before a slot abandons its task.
LEMMA InterruptAbandons ==
    ASSUME IInv, InHandKey, NEW k \in Keys, Interrupt(k), pc[k] \in {"gate", "slot"}
    PROVE  Executor!Abandon(k)
<1> USE DEF IInv, TypeOK
<1> DEFINE c == current[k]
<1>1. /\ cancelled /\ pc' = [pc EXCEPT ![k] = IF pc[k] = "gate" THEN "leave" ELSE "releaseGate"]
      /\ UNCHANGED <<cancelled, chains, current, settled>>
  BY DEF Interrupt, Goto, history, shared
<1>2. c \in Tasks /\ KeyOf[c] = k /\ chains[k] \in Seq(Tasks)
  BY DEF InHandKey
<1>3. WaitingTasks[k] # <<>> /\ Head(WaitingTasks[k]) = c /\ Tail(WaitingTasks[k]) = chains[k]
  <2>1. WaitingTasks[k] = <<c>> \o chains[k]
    BY DEF WaitingTasks
  <2>2. /\ <<c>> \o chains[k] # <<>> /\ Head(<<c>> \o chains[k]) = c
        /\ Tail(<<c>> \o chains[k]) = chains[k]
    BY <1>2, Carry
  <2> QED BY <2>1, <2>2
<1>4. WaitingTasks' = [WaitingTasks EXCEPT ![k] = chains[k]]
  BY <1>1 DEF WaitingTasks
<1>5. EndingTasks' = EndingTasks \cup {c} /\ RunningTasks' = RunningTasks
  <2>1. \A j \in Keys : /\ pc'[j] \in HoldsSlot <=> pc[j] \in HoldsSlot
                        /\ pc'[j] \in Unwinding <=> pc[j] \in Unwinding \/ j = k
    BY <1>1
  <2>2. EndingTasks' = EndingTasks \cup {c}
    BY <1>1, <2>1 DEF EndingTasks
  <2> QED BY <1>1, <2>1, <2>2 DEF RunningTasks
<1>6. \A t \in RunningTasks \cup EndingTasks : KeyOf[t] # k
  BY DEF RunningTasks, EndingTasks, InHandKey
<1>7. AllSettled' = AllSettled
  BY <1>1 DEF AllSettled, Elements
<1> QED BY <1>1, <1>3, <1>4, <1>5, <1>6, <1>7 DEF Executor!Abandon

\* ReleaseSlot is Finish.
LEMMA ReleaseSlotFinishes ==
    ASSUME IInv, InHandKey, NEW k \in Keys, ReleaseSlot(k)
    PROVE  Executor!Finish(current[k])
<1> USE DEF IInv, TypeOK
<1>1. /\ pc[k] = "releaseSlot" /\ pc' = [pc EXCEPT ![k] = "releaseGate"]
      /\ UNCHANGED <<cancelled, chains, current, settled>>
  BY DEF ReleaseSlot, Goto, history, local
<1>2. \A j \in Keys : /\ pc'[j] \in HoldsSlot <=> pc[j] \in HoldsSlot /\ j # k
                      /\ pc'[j] \in Unwinding <=> pc[j] \in Unwinding \/ j = k
                      /\ pc'[j] \in Unstarted <=> pc[j] \in Unstarted
  BY <1>1
<1>3. \A j \in Keys : j # k /\ pc[j] \in HoldsSlot => current[j] # current[k]
  BY <1>1 DEF InHandKey
<1>4. RunningTasks' = RunningTasks \ {current[k]} /\ current[k] \in RunningTasks
  BY <1>1, <1>2, <1>3 DEF RunningTasks
<1>5. EndingTasks' = EndingTasks \cup {current[k]}
  BY <1>1, <1>2 DEF EndingTasks
<1>6. WaitingTasks' = WaitingTasks
  BY <1>1, <1>2 DEF WaitingTasks
<1>7. AllSettled' = AllSettled
  BY <1>1 DEF AllSettled, Elements
<1> QED BY <1>1, <1>4, <1>5, <1>6, <1>7 DEF Executor!Finish

\* Settle is End.
LEMMA SettleEnds ==
    ASSUME IInv, InHandKey, NEW k \in Keys, Settle(k)
    PROVE  Executor!End(current[k])
<1> USE DEF IInv, TypeOK
<1>1. /\ pc[k] = "settle" /\ pc' = [pc EXCEPT ![k] = "report"]
      /\ settled' = [settled EXCEPT ![k] = Append(settled[k], current[k])]
      /\ UNCHANGED <<cancelled, chains, current>>
  BY DEF Settle, Goto, local
<1>2. \A j \in Keys : /\ pc'[j] \in HoldsSlot <=> pc[j] \in HoldsSlot
                      /\ pc'[j] \in Unwinding <=> pc[j] \in Unwinding /\ j # k
                      /\ pc'[j] \in Unstarted <=> pc[j] \in Unstarted
  BY <1>1
<1>3. \A j \in Keys : j # k /\ pc[j] \in Unwinding => current[j] # current[k]
  BY <1>1 DEF InHandKey
<1>4. EndingTasks' = EndingTasks \ {current[k]} /\ current[k] \in EndingTasks
  BY <1>1, <1>2, <1>3 DEF EndingTasks
<1>5. RunningTasks' = RunningTasks
  BY <1>1, <1>2 DEF RunningTasks
<1>6. WaitingTasks' = WaitingTasks
  BY <1>1, <1>2 DEF WaitingTasks
<1>7. AllSettled' = AllSettled \cup {current[k]}
  BY <1>1, SettledGrows DEF InHandKey
<1> QED BY <1>1, <1>4, <1>5, <1>6, <1>7 DEF Executor!End

\* Taking a task off the chain keeps it waiting.
LEMMA TakeKeepsWaiting ==
    ASSUME IInv, NEW k \in Keys, Take(k)
    PROVE  UNCHANGED <<WaitingTasks, RunningTasks, EndingTasks, AllSettled, cancelled>>
<1> USE DEF IInv, TypeOK
<1>1. /\ pc[k] = "take" /\ pc' = [pc EXCEPT ![k] = "enter"] /\ chains[k] # <<>>
      /\ chains' = [chains EXCEPT ![k] = Tail(chains[k])]
      /\ current' = [current EXCEPT ![k] = Head(chains[k])]
      /\ UNCHANGED <<cancelled, settled>>
  BY DEF Take, Goto, history
<1>2. WaitingTasks' = WaitingTasks
  <2>1. chains[k] \in Seq(Tasks) /\ <<>> \o chains[k] = <<>> \o <<Head(chains[k])>> \o Tail(chains[k])
    BY <1>1, MoveToHand, EmptySeq
  <2>2. chains[k] = <<Head(chains[k])>> \o Tail(chains[k])
    BY <1>1, <2>1, HeadTailProperties, ConcatEmptySeq
  <2>3. WaitingTasks'[k] = <<Head(chains[k])>> \o Tail(chains[k]) /\ WaitingTasks[k] = chains[k]
    BY <1>1 DEF WaitingTasks
  <2>4. \A j \in Keys : j # k => WaitingTasks'[j] = WaitingTasks[j]
    BY <1>1 DEF WaitingTasks
  <2>5. WaitingTasks = [j \in Keys |-> WaitingTasks[j]] /\ WaitingTasks' = [j \in Keys |-> WaitingTasks'[j]]
    BY DEF WaitingTasks
  <2> QED BY <2>2, <2>3, <2>4, <2>5
<1>3. \A j \in Keys : /\ pc'[j] \in HoldsSlot <=> pc[j] \in HoldsSlot
                      /\ pc'[j] \in Unwinding <=> pc[j] \in Unwinding
                      /\ pc[j] \in HoldsSlot \cup Unwinding => current'[j] = current[j]
  BY <1>1
<1>4. RunningTasks' = RunningTasks /\ EndingTasks' = EndingTasks
  <2>1. RunningTasks' = RunningTasks
    BY <1>3 DEF RunningTasks
  <2>2. EndingTasks' = EndingTasks
    BY <1>3 DEF EndingTasks
  <2> QED BY <2>1, <2>2
<1>5. AllSettled' = AllSettled
  BY <1>1 DEF AllSettled, Elements
<1> QED BY <1>1, <1>2, <1>4, <1>5

\* Every other step of a worker leaves its task where it was.
LEMMA OthersStutter ==
    ASSUME IInv, NEW k \in Keys,
           \/ Retire(k) \/ EnterGate(k) \/ AcquireGate(k) \/ StartAttempt(k) \/ TaskReturns(k)
           \/ RetryDelayElapses(k) \/ ReleaseGate(k) \/ LeaveGate(k) \/ Report(k) \/ Done(k)
           \/ (Interrupt(k) /\ pc[k] = "delay")
    PROVE  UNCHANGED <<WaitingTasks, RunningTasks, EndingTasks, AllSettled, cancelled>>
<1> USE DEF IInv, TypeOK
<1>1. \A j \in Keys : SameRole(j) /\ chains'[j] = chains[j]
  <2> USE DEF Goto, history, shared, local, SameRole
  <2>1. CASE Retire(k) \/ EnterGate(k)
    BY <2>1 DEF Retire, EnterGate
  <2>2. CASE AcquireGate(k) \/ StartAttempt(k)
    BY <2>2 DEF AcquireGate, StartAttempt
  <2>3. CASE TaskReturns(k)
    BY <2>3 DEF TaskReturns, TaskSucceeds, TaskFails
  <2>4. CASE RetryDelayElapses(k) \/ (Interrupt(k) /\ pc[k] = "delay")
    BY <2>4 DEF RetryDelayElapses, Interrupt
  <2>5. CASE ReleaseGate(k) \/ LeaveGate(k)
    BY <2>5 DEF ReleaseGate, LeaveGate
  <2>6. CASE Report(k) \/ Done(k)
    BY <2>6 DEF Report, Done
  <2> QED BY <2>1, <2>2, <2>3, <2>4, <2>5, <2>6
<1>2. settled' = settled /\ cancelled' = cancelled
  BY DEF Retire, EnterGate, AcquireGate, StartAttempt, TaskReturns, TaskSucceeds, TaskFails,
         RetryDelayElapses, ReleaseGate, LeaveGate, Report, Done, Interrupt, history, shared
<1>3. AllSettled' = AllSettled
  BY <1>2 DEF AllSettled, Elements
<1> QED BY <1>1, <1>2, <1>3, SameRoles

\* Each step of the queue is one of the executor, or none.
LEMMA ExecutorStep ==
    ASSUME IInv, BudgetInv, History, [Next]_vars
    PROVE  [Executor!Next]_(Executor!vars)
<1>1. \A k \in Keys : Parted(k)
  BY Partition DEF IInv, GatesAgree, History
<1>2. InHandKey
  BY <1>1, HandKey
<1> DEFINE Stutters == UNCHANGED <<WaitingTasks, RunningTasks, EndingTasks, AllSettled, cancelled>>
<1>3. Stutters => [Executor!Next]_(Executor!vars)
  BY DEF Executor!vars
<1>4. ASSUME NEW t \in Tasks, Enqueue(t) PROVE Executor!Next
  BY <1>1, <1>2, <1>4, EnqueueAccepts DEF Executor!Next, IInv, History
<1>5. CASE Cancel
  <2>1. chains' = chains /\ pc' = pc /\ current' = current /\ settled' = settled /\ cancelled'
    BY <1>5 DEF Cancel, local, history
  <2>2. UNCHANGED <<WaitingTasks, RunningTasks, EndingTasks>>
    BY <2>1, SameRoles DEF SameRole
  <2>3. AllSettled' = AllSettled
    BY <2>1 DEF AllSettled, Elements
  <2>4. Executor!Stop
    BY <2>1, <2>2, <2>3 DEF Executor!Stop, IInv, TypeOK
  <2> QED BY <2>4 DEF Executor!Next
<1>6. ASSUME NEW k \in Keys, AcquireSlot(k) PROVE Executor!Next
  BY <1>2, <1>6, AcquireSlotStarts DEF Executor!Next
<1>7. ASSUME NEW k \in Keys, Interrupt(k), pc[k] # "delay" PROVE Executor!Next
  <2>1. pc[k] \in {"gate", "slot"}
    BY <1>7 DEF Interrupt
  <2> QED BY <1>2, <1>7, <2>1, InterruptAbandons DEF Executor!Next
<1>8. ASSUME NEW k \in Keys, ReleaseSlot(k) PROVE Executor!Next
  <2>1. current[k] \in Tasks
    BY <1>2, <1>8 DEF InHandKey, ReleaseSlot
  <2> QED BY <1>2, <1>8, <2>1, ReleaseSlotFinishes DEF Executor!Next
<1>9. ASSUME NEW k \in Keys, Settle(k) PROVE Executor!Next
  <2>1. current[k] \in Tasks
    BY <1>2, <1>9 DEF InHandKey, Settle
  <2> QED BY <1>2, <1>9, <2>1, SettleEnds DEF Executor!Next
<1>10. ASSUME NEW k \in Keys, Take(k) PROVE Stutters
  BY <1>10, TakeKeepsWaiting
<1>11. ASSUME NEW k \in Keys,
              \/ Retire(k) \/ EnterGate(k) \/ AcquireGate(k) \/ StartAttempt(k) \/ TaskReturns(k)
              \/ RetryDelayElapses(k) \/ ReleaseGate(k) \/ LeaveGate(k) \/ Report(k) \/ Done(k)
              \/ (Interrupt(k) /\ pc[k] = "delay")
       PROVE  Stutters
  BY <1>11, OthersStutter
<1>12. CASE UNCHANGED vars
  <2>1. UNCHANGED <<chains, pc, current, settled, cancelled>>
    BY <1>12 DEF vars, shared, local, history
  <2>2. UNCHANGED <<WaitingTasks, RunningTasks, EndingTasks>>
    BY <2>1, SameRoles DEF SameRole
  <2>3. AllSettled' = AllSettled
    BY <2>1 DEF AllSettled, Elements
  <2> QED BY <1>3, <2>1, <2>2, <2>3
<1> HIDE DEF Stutters
<1> QED BY <1>3, <1>4, <1>5, <1>6, <1>7, <1>8, <1>9, <1>10, <1>11, <1>12 DEF Next, Advance

\* The queue keeps what RepositoryExecutor promises the App's webhook server, for any
\* keys, tasks and limits: a task is accepted, waits in its key's order, runs alone in
\* its repository and within the budget, and ends once.
THEOREM ExecutorImplemented == Spec => ImplementsExecutor
<1>1. Init => Executor!Init
  <2> SUFFICES ASSUME Init PROVE Executor!Init
    OBVIOUS
  <2> USE DEF Init
  <2>1. WaitingTasks = [k \in Keys |-> <<>>] /\ RunningTasks = {} /\ EndingTasks = {}
    BY DEF WaitingTasks, RunningTasks, EndingTasks
  <2>2. AllSettled = {}
    BY DEF AllSettled, Elements
  <2> QED BY <2>1, <2>2 DEF Executor!Init
<1>2. IInv /\ BudgetInv /\ History /\ [Next]_vars => [Executor!Next]_(Executor!vars)
  BY ExecutorStep
<1>3. Spec => []BudgetInv
  <2>1. TypeOK /\ TypeOK' /\ BudgetInv /\ [Next]_vars => BudgetInv'
    BY BudgetStep
  <2> QED BY TypeCorrect, InitBudget, <2>1, PTL DEF Spec
<1> QED BY HistoryHolds, <1>1, <1>2, <1>3, PTL DEF Spec, ImplementsExecutor, Executor!Spec
================================================================================

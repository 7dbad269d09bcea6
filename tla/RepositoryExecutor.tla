-------------------------- MODULE RepositoryExecutor --------------------------
(***************************************************************************)
(* What a ReleaseTaskQueue promises its callers, without workers, gates or *)
(* channels: accepted tasks start in the order of their key, at most       *)
(* MaxConcurrent at once and at most one in a repository, and each ends    *)
(* exactly once; once the executor is stopped a waiting task may end       *)
(* without having run, and no task is accepted.                            *)
(***************************************************************************)
EXTENDS Integers, FiniteSets, Sequences

CONSTANTS Keys, RepositoryOf(_), Tasks, KeyOf, MaxPending, MaxConcurrent

VARIABLES
    stopped,
    waiting,     \* for each key, the accepted tasks that have not started
    running,     \* the tasks that execute
    ending,      \* the tasks that will not execute any more
    ended        \* the tasks whose admission slot was given back

vars == <<stopped, waiting, running, ending, ended>>

Elements(s) == {s[i] : i \in DOMAIN s}
Waiting == UNION {Elements(waiting[k]) : k \in Keys}
Unended == Waiting \cup running \cup ending

Init ==
    /\ stopped = FALSE
    /\ waiting = [k \in Keys |-> <<>>]
    /\ running = {}
    /\ ending = {}
    /\ ended = {}

Accept(t) ==
    /\ ~stopped
    /\ t \notin Unended \cup ended
    /\ Cardinality(Unended) < MaxPending
    /\ waiting' = [waiting EXCEPT ![KeyOf[t]] = Append(@, t)]
    /\ UNCHANGED <<stopped, running, ending, ended>>

\* A task starts when no earlier task of its key is unended, no task of its
\* repository is running, and the executor has room.
Start(k) ==
    /\ waiting[k] # <<>>
    /\ \A t \in running : RepositoryOf(KeyOf[t]) # RepositoryOf(k)
    /\ \A t \in ending : KeyOf[t] # k
    /\ Cardinality(running) < MaxConcurrent
    /\ running' = running \cup {Head(waiting[k])}
    /\ waiting' = [waiting EXCEPT ![k] = Tail(@)]
    /\ UNCHANGED <<stopped, ending, ended>>

Finish(t) ==
    /\ t \in running
    /\ running' = running \ {t}
    /\ ending' = ending \cup {t}
    /\ UNCHANGED <<stopped, waiting, ended>>

\* Only a stopped executor ends a task that has not started.
Abandon(k) ==
    /\ stopped
    /\ waiting[k] # <<>>
    /\ \A t \in running \cup ending : KeyOf[t] # k
    /\ ending' = ending \cup {Head(waiting[k])}
    /\ waiting' = [waiting EXCEPT ![k] = Tail(@)]
    /\ UNCHANGED <<stopped, running, ended>>

End(t) ==
    /\ t \in ending
    /\ ending' = ending \ {t}
    /\ ended' = ended \cup {t}
    /\ UNCHANGED <<stopped, waiting, running>>

Stop ==
    /\ stopped' = TRUE
    /\ UNCHANGED <<waiting, running, ending, ended>>

Next ==
    \/ \E t \in Tasks : Accept(t) \/ Finish(t) \/ End(t)
    \/ \E k \in Keys : Start(k) \/ Abandon(k)
    \/ Stop

Spec == Init /\ [][Next]_vars
===============================================================================

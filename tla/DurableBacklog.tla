---------------------------- MODULE DurableBacklog ----------------------------
(***************************************************************************)
(* What the webhook spool promises the service around it, without files:   *)
(* an entry whose admission succeeded is pending until it is claimed, one  *)
(* consumer at a time and never before an older one, and a restart makes   *)
(* every claimed entry pending again.  Only an entry whose outcome was     *)
(* decided ever ends, and what has ended does not come back.  An entry     *)
(* whose admission was interrupted or refused may still turn up.           *)
(***************************************************************************)
EXTENDS Integers, Sequences

CONSTANT Entries

VARIABLES
    backlog,      \* the state of each entry
    offered,      \* the entries in the order their admission began
    promised,     \* the entries whose admission succeeded, unless discarded
    decided       \* the entries a consumer decided an outcome for, likewise

backlogVars == <<backlog, offered, promised, decided>>

States == {"absent", "uncertain", "pending", "claimed", "acking", "done"}

BacklogInit ==
    /\ backlog = [e \in Entries |-> "absent"]
    /\ offered = <<>>
    /\ promised = {}
    /\ decided = {}

Become(e, from, to) ==
    /\ backlog[e] = from
    /\ backlog' = [backlog EXCEPT ![e] = to]

\* Admission begins, and succeeds; an entry whose admission did not succeed may
\* become visible all the same.
Offer(e) ==
    /\ Become(e, "absent", "uncertain")
    /\ offered' = Append(offered, e)
    /\ UNCHANGED <<promised, decided>>

Promise(e) ==
    /\ Become(e, "uncertain", "pending")
    /\ promised' = promised \cup {e}
    /\ UNCHANGED <<offered, decided>>

Surface(e) ==
    /\ Become(e, "uncertain", "pending")
    /\ UNCHANGED <<offered, promised, decided>>

Before(e, f) == \E i, j \in DOMAIN offered : i < j /\ offered[i] = e /\ offered[j] = f

\* A pending entry goes to a consumer, unless it would overtake a promised one.
Oldest(e) == \A f \in promised : Before(f, e) => backlog[f] # "pending"

Claim(e) ==
    /\ Become(e, "pending", "claimed")
    /\ Oldest(e)
    /\ UNCHANGED <<offered, promised, decided>>

Unclaim(e) ==
    /\ Become(e, "claimed", "pending")
    /\ UNCHANGED <<offered, promised, decided>>

\* The consumer reports an outcome, which becomes durable later.
Decide(e) ==
    /\ Become(e, "claimed", "acking")
    /\ decided' = decided \cup {e}
    /\ UNCHANGED <<offered, promised>>

Finish(e) ==
    /\ Become(e, "acking", "done")
    /\ UNCHANGED <<offered, promised, decided>>

\* At startup: outcomes found recorded are made final, several at once where one
\* sync proves them, and a record the service has no use for is taken out, after
\* which nothing is promised about it.
Reconcile(found) ==
    /\ found \subseteq decided
    /\ \A e \in found : backlog[e] = "pending"
    /\ backlog' = [e \in Entries |-> IF e \in found THEN "done" ELSE backlog[e]]
    /\ UNCHANGED <<offered, promised, decided>>

Discard(e) ==
    /\ Become(e, "pending", "uncertain")
    /\ promised' = promised \ {e}
    /\ decided' = decided \ {e}
    /\ UNCHANGED offered

\* The process or the machine stops: of the unfinished entries, those with an
\* outcome may have ended, and those without a promise may be gone from sight.
Unfinished(e) == backlog[e] \in {"pending", "claimed", "acking"}

Restart ==
    /\ \E ended \in SUBSET {e \in decided : Unfinished(e)},
          hidden \in SUBSET {e \in Entries \ promised : Unfinished(e) \/ backlog[e] = "uncertain"} :
          backlog' = [e \in Entries |-> CASE backlog[e] \in {"absent", "done"} -> backlog[e]
                                          [] e \in ended -> "done"
                                          [] e \in hidden \ ended -> "uncertain"
                                          [] OTHER -> "pending"]
    /\ UNCHANGED <<offered, promised, decided>>

BacklogNext ==
    \/ \E e \in Entries :
          \/ Offer(e) \/ Promise(e) \/ Surface(e)
          \/ Claim(e) \/ Unclaim(e) \/ Decide(e) \/ Finish(e)
          \/ Discard(e)
    \/ \E found \in SUBSET decided : Reconcile(found)
    \/ Restart

BacklogSpec == BacklogInit /\ [][BacklogNext]_backlogVars
===============================================================================

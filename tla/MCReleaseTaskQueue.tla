-------------------------- MODULE MCReleaseTaskQueue --------------------------
(***************************************************************************)
(* Instances of ReleaseTaskQueue: repository "lib" under two spellings and *)
(* two branches, and repository "app" with one branch.                     *)
(***************************************************************************)
EXTENDS ReleaseTaskQueue

CONSTANTS t1, t2, t3, t4, main, next

Key(name, branch) == [name |-> name, branch |-> branch]

MCKeys  == {Key("lib", main), Key("Lib", next), Key("app", main)}
MCLower == [name \in {"lib", "Lib", "app"} |-> IF name = "Lib" THEN "lib" ELSE name]

\* Two tasks of one branch, one of the other branch under another spelling, and
\* one of another repository.
MCKeyOf == [t \in Tasks |-> CASE t \in {t1, t4} -> Key("lib", main)
                              [] t = t2 -> Key("Lib", next)
                              [] t = t3 -> Key("app", main)]

\* The tasks of "lib" hang until their context is done.
HungSpec == Spec /\ Fairness({"lib"})

\* Liveness of the other repositories while "lib" hangs.
OthersSettle == EveryTaskSettles({"lib"})

===============================================================================

----------------------------- MODULE MCWorkflow -----------------------------
(***************************************************************************)
(* Sessions with two planned tasks, 1 and 2; iteration i may add the tasks *)
(* 2i + 1 and 2i + 2, or take an id that the dag has.  Tasks 1 and 2       *)
(* declare the same write target.                                          *)
(***************************************************************************)
EXTENDS Workflow, TLC

CONSTANT Rounds   \* number of iterations for which there are tasks

MCTask    == 1 .. 2 * Rounds + 2
MCTargets == [t \in MCTask |-> IF t \in {1, 2} THEN {"a"} ELSE {}]

Deps(d)   == [t \in MCTask |-> IF t \in DOMAIN d THEN d[t] ELSE <<>>]
Plan(d)   == [tasks |-> {1, 2}, deps |-> Deps(d)]

MCPlans == { Plan(<<>>), Plan(2 :> <<1>>), Plan(1 :> <<2>> @@ 2 :> <<1>>) }

\* The default pair, remedy and verification, after an ordinary and after an
\* architectural failure; a branch of one task chosen by the model; a branch
\* whose remedy or whose verification has the id of a planned task.
Pair(v, w, a) == [tasks |-> <<v, w>>, architectural |-> a, deps |-> Deps(w :> <<v>>)]
Single(v)     == [tasks |-> <<v>>, architectural |-> FALSE, deps |-> Deps(<<>>)]

MCRemedies == [i \in 1 .. Rounds + 1 |->
                 CASE i > Rounds -> {}
                   [] i = 1      -> { Pair(3, 4, FALSE), Pair(3, 4, TRUE), Pair(2, 3, FALSE) }
                   [] OTHER      -> { Pair(2 * i + 1, 1, FALSE), Single(3) }]
=============================================================================

-------------------------- MODULE MCWaveScheduler --------------------------
(***************************************************************************)
(* Small plans for TLC.  Tasks 1 and 4 declare the same write target, so   *)
(* the plans that hold both exercise the partition; an id a plan does not  *)
(* hold can still be named as a dependency, and is missing then.           *)
(***************************************************************************)
EXTENDS WaveScheduler, TLC

MCTask    == 1 .. 4
MCTargets == [t \in MCTask |-> IF t \in {1, 4} THEN {"a"} ELSE {}]

PlanOf(T, d) == [tasks |-> T, deps |-> [t \in MCTask |-> IF t \in DOMAIN d THEN d[t] ELSE <<>>]]

MCPlans == {
  PlanOf({1, 2, 3}, <<>>),                          \* more ready tasks than threads
  PlanOf({1, 2, 4}, <<>>),                          \* 1 and 4 in conflict
  PlanOf({1, 2, 4}, 4 :> <<1, 2>>),                 \* fan-in
  PlanOf({1, 2, 3}, 2 :> <<1>> @@ 3 :> <<2>>),      \* chain
  PlanOf({1, 2, 3}, 1 :> <<3>> @@ 2 :> <<3>>),      \* fan-out from the last task
  PlanOf({1, 2},    2 :> <<1, 3>>) }                \* a dependency that does not exist
=============================================================================

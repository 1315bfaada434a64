------------------------------ MODULE TaskDAG ------------------------------
(***************************************************************************)
(* The task graph of agent_orchestrator/runtime/task_graph.py, as          *)
(* operators on two functions: state, the TaskState of every task id, and  *)
(* deps, the dependency list of every task id.  A TaskDAG method runs      *)
(* under the dag's lock, so each is one operator from the state before to  *)
(* the state after.                                                        *)
(*                                                                         *)
(* A task id is its position in the _tasks dict: the dict is scanned in    *)
(* insertion order, and get_ready_tasks rewrites states while it scans.    *)
(***************************************************************************)
EXTENDS Naturals, Sequences, FiniteSets

CONSTANT Task   \* every task id the dag may ever hold

ASSUME TaskAssumption == Task \subseteq Nat

ABSENT == "ABSENT"   \* no task with this id is in the dag

SkippedState == {"SKIPPED", "SKIPPED_REDUNDANT"}
OpenState    == {"PENDING", "READY", "BLOCKED"}
TaskState    == OpenState \cup SkippedState \cup
                {"RUNNING", "VERIFYING", "COMPLETED", "FAILED", "CANCELLED"}

Known(state)     == {t \in Task : state[t] # ABSENT}
OpenTasks(state) == {t \in Task : state[t] \in OpenState}
Failed(state)    == {t \in Task : state[t] = "FAILED"}

(***************************************************************************)
(* The dependency list l of one task as get_ready_tasks scans it: left to  *)
(* right, up to the first FAILED or skipped dependency.                    *)
(***************************************************************************)
Stops(state, l) ==
  {i \in DOMAIN l : state[l[i]] \in SkippedState \cup {"FAILED"}}

StopsAt(state, l, S) ==
  \E i \in Stops(state, l) : /\ state[l[i]] \in S
                             /\ \A j \in Stops(state, l) : i <= j

MissingDep(state, l) ==
  \E i \in DOMAIN l : /\ state[l[i]] = ABSENT
                      /\ \A j \in Stops(state, l) : i < j

Satisfied(state, l) == \A i \in DOMAIN l : state[l[i]] = "COMPLETED"

\* What the scan makes of an open task in state now whose dependency list is l.
Rescan(state, now, l) ==
  CASE MissingDep(state, l)            -> "BLOCKED"
    [] Satisfied(state, l)             -> "READY"
    [] StopsAt(state, l, {"FAILED"})   -> "BLOCKED"
    [] StopsAt(state, l, SkippedState) -> "SKIPPED_REDUNDANT"
    [] OTHER                           -> now

(***************************************************************************)
(* One pass of get_ready_tasks.  A task sees what the same pass made of    *)
(* the tasks before it; of what a pass writes only SKIPPED_REDUNDANT       *)
(* matters to a dependent, so the pass is determined by the set it skips.  *)
(***************************************************************************)
SeenBy(state, skipped, t) ==
  [u \in Task |-> IF u \in skipped /\ u < t THEN "SKIPPED_REDUNDANT" ELSE state[u]]

SkippedByPass(state, deps) ==
  CHOOSE K \in SUBSET OpenTasks(state) :
    \A t \in OpenTasks(state) :
      t \in K <=> Rescan(SeenBy(state, K, t), state[t], deps[t]) = "SKIPPED_REDUNDANT"

Refresh(state, deps) ==
  LET K == SkippedByPass(state, deps)
  IN [t \in Task |-> IF state[t] \in OpenState
                     THEN Rescan(SeenBy(state, K, t), state[t], deps[t])
                     ELSE state[t]]

\* Mutant of Ready: ready unless a dependency failed, was skipped or is missing.
ReadyUnlessStopped(state, deps) ==
  {t \in OpenTasks(state) : Stops(state, deps[t]) = {} /\ ~MissingDep(state, deps[t])}

\* The tasks get_ready_tasks returns.
Ready(state, deps) == {t \in OpenTasks(state) : Satisfied(state, deps[t])}

AllCompleted(state) ==
  \A t \in Known(state) : state[t] \in SkippedState \cup {"COMPLETED"}

(***************************************************************************)
(* Everything downstream of the tasks in S: the least set that holds their *)
(* direct dependents and the dependents of its members.                    *)
(***************************************************************************)
WaitsFor(deps, S, t) == \E i \in DOMAIN deps[t] : deps[t][i] \in S

Dependents(state, deps, S) ==
  {u \in Known(state) : WaitsFor(deps, S, u)}

Descendants(state, deps, S) ==
  {u \in Known(state) :
     \A D \in SUBSET Known(state) :
       Dependents(state, deps, S \cup D) \subseteq D => u \in D}

HasCycle(state, deps) ==
  \E t \in Known(state) : t \in Descendants(state, deps, {t})

\* Only tasks that have not started can be skipped.
Skip(state, S) ==
  [t \in Task |-> IF t \in S /\ state[t] \in OpenState
                  THEN "SKIPPED_REDUNDANT" ELSE state[t]]

PruneTasks(state, deps, S) == Skip(state, S \cup Descendants(state, deps, S))

InvalidateDependents(state, deps, S) == Skip(state, Descendants(state, deps, S))

(***************************************************************************)
(* Retargeting: what waits for a task of S waits for target instead, and   *)
(* is PENDING again if it was BLOCKED.                                     *)
(***************************************************************************)
Retarget(l, S, target) == [i \in DOMAIN l |-> IF l[i] \in S THEN target ELSE l[i]]

Unblock(state, deps, S) ==
  [t \in Task |-> IF state[t] = "BLOCKED" /\ WaitsFor(deps, S, t)
                  THEN "PENDING" ELSE state[t]]
=============================================================================

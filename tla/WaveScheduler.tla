--------------------------- MODULE WaveScheduler ---------------------------
(***************************************************************************)
(* agent_orchestrator/runtime/dag_scheduler.py, worker by worker.  A wave  *)
(* is one call of execute_ready_wave: it scans the dag, picks the tasks of *)
(* the wave and hands them to a pool of threads; every thread takes its    *)
(* task through execution, verification, merge and settlement while the    *)
(* others do the same.  An exception that leaves the worker reaches the    *)
(* calling thread, which marks the task FAILED when it collects it.        *)
(*                                                                         *)
(* phase[t] is where t stands in _execute_single_task:                     *)
(*   none    not dispatched           queued  submitted, not taken up      *)
(*   setup   RUNNING                  verify  executed, VERIFYING          *)
(*   merge   passed, not merged       decide  about to be settled          *)
(*   prune   completed, may prune     raised  exception not yet collected  *)
(*   late    exception after completion, not yet collected                 *)
(*   done    settled                                                       *)
(*                                                                         *)
(* This module implements TaskWaves (see Abstract below).                  *)
(***************************************************************************)
EXTENDS TaskDAG

CONSTANTS Plans, Targets, MaxRetries,   \* as in TaskWaves
          MaxWorkers                    \* ConcurrentDAGScheduler.max_workers

ASSUME SchedulerAssumption ==
  /\ MaxRetries \in Nat
  /\ MaxWorkers \in Nat \ {0}
  /\ \A p \in Plans : p.tasks \subseteq Task /\ p.deps \in [Task -> Seq(Task)]

VARIABLES state, deps, retries, token,  \* as in TaskWaves
          phase,
          passed,     \* v_res.passed of the attempt under way
          attempts,   \* len(task.attempts)
          last,       \* status of the last TaskAttemptRecord
          merged,     \* has merge_into_main brought every file of t to main?
          pipeline,   \* orchestrator.verification_pipeline: the task whose sandbox
                      \*   it is bound to, {} for None
          gate        \* what a worker has read of it

dagVars  == <<state, deps, retries>>
workVars == <<passed, attempts, last, merged, pipeline, gate>>
vars     == <<dagVars, token, phase, workVars>>

Phase  == {"none", "queued", "setup", "verify", "merge", "decide", "prune", "raised", "late", "done"}
Status == {"none", "COMPLETED", "FAILED", "CANCELLED"}

TypeOK ==
  /\ state \in [Task -> TaskState \cup {ABSENT}]
  /\ deps \in [Task -> Seq(Task)]
  /\ retries \in [Task -> 0 .. MaxRetries]
  /\ token \in BOOLEAN
  /\ phase \in [Task -> Phase]
  /\ passed \in [Task -> BOOLEAN]
  /\ attempts \in [Task -> Nat]
  /\ last \in [Task -> Status]
  /\ merged \in [Task -> BOOLEAN]
  /\ pipeline \in SUBSET Task
  /\ gate \in [Task -> SUBSET Task]

\* What a reader of the dag who cannot see into a worker is promised.
Abstract == INSTANCE TaskWaves WITH
  state <- [t \in Task |-> IF state[t] = "VERIFYING" THEN "RUNNING" ELSE state[t]],
  wave  <- [t \in Task |-> CASE phase[t] \in {"none", "queued"} -> phase[t]
                             [] phase[t] \in {"prune", "late", "done"} -> "done"
                             [] OTHER                           -> "active"]

Dispatched == {t \in Task : phase[t] # "none"}
In(P)      == {t \in Task : phase[t] \in P}
Idle       == Dispatched = {}

\* effective_workers of the wave under way.
Width == LET n == Cardinality(Dispatched) IN IF n < MaxWorkers THEN n ELSE MaxWorkers

(***************************************************************************)
(* The tasks that hold a thread.  A pool thread is free as soon as its     *)
(* exception is in the future; with one worker there is no pool and the    *)
(* calling thread handles the exception before the next task.              *)
(***************************************************************************)
Busy == In({"setup", "verify", "merge", "decide", "prune"})
          \cup (IF Width = 1 THEN In({"raised", "late"}) ELSE {})

Init ==
  /\ \E p \in Plans : /\ state = [t \in Task |-> IF t \in p.tasks THEN "PENDING" ELSE ABSENT]
                      /\ deps = p.deps
  /\ retries  = [t \in Task |-> 0]
  /\ token    = FALSE
  /\ phase    = [t \in Task |-> "none"]
  /\ passed   = [t \in Task |-> FALSE]
  /\ attempts = [t \in Task |-> 0]
  /\ last     = [t \in Task |-> "none"]
  /\ merged   = [t \in Task |-> FALSE]
  /\ pipeline = {}
  /\ gate     = [t \in Task |-> {}]
-----------------------------------------------------------------------------
(***************************************************************************)
(* The calling thread.                                                     *)
(***************************************************************************)
\* Mutant of StartWave: does not look at the cancellation token.
StartWaveCancelled ==
  /\ Idle
  /\ \E D \in SUBSET Ready(state, deps) \ {{}} :
       /\ Abstract!ConflictFree(Ready(state, deps), D)
       /\ phase' = [t \in Task |-> IF t \in D THEN "queued" ELSE "none"]
  /\ state' = Refresh(state, deps)
  /\ UNCHANGED <<deps, retries, token, workVars>>

StartWave ==
  /\ Idle /\ ~token
  /\ \E D \in SUBSET Ready(state, deps) \ {{}} :
       /\ Abstract!ConflictFree(Ready(state, deps), D)
       /\ phase' = [t \in Task |-> IF t \in D THEN "queued" ELSE "none"]
  /\ state' = Refresh(state, deps)
  /\ UNCHANGED <<deps, retries, token, workVars>>

\* No task is ready: the scan has rewritten open states and the call returns.
EmptyScan ==
  /\ Idle /\ ~token
  /\ Ready(state, deps) = {}
  /\ state' = Refresh(state, deps)
  /\ UNCHANGED <<deps, retries, token, phase, workVars>>

\* Mutants of Collect: the exception leaves the task as it was; it makes it
\* READY again.
CollectSilently(t) ==
  /\ phase[t] \in {"raised", "late"}
  /\ phase' = [phase EXCEPT ![t] = "done"]
  /\ UNCHANGED <<dagVars, token, workVars>>

CollectRequeues(t) ==
  /\ phase[t] \in {"raised", "late"}
  /\ phase' = [phase EXCEPT ![t] = "done"]
  /\ state' = [state EXCEPT ![t] = "READY"]
  /\ UNCHANGED <<deps, retries, token, workVars>>

\* future.result() raises, or the sequential loop's except clause runs: the
\* task is marked FAILED, COMPLETED and merged as it may be.
Collect(t) ==
  /\ phase[t] \in {"raised", "late"}
  /\ phase' = [phase EXCEPT ![t] = "done"]
  /\ state' = [state EXCEPT ![t] = "FAILED"]
  /\ UNCHANGED <<deps, retries, token, workVars>>

EndWave ==
  /\ ~Idle
  /\ Dispatched = In({"done"})
  /\ phase' = [t \in Task |-> "none"]
  /\ UNCHANGED <<dagVars, token, workVars>>

(***************************************************************************)
(* The worker of t.  Tasks are submitted in dict order, so t is taken up   *)
(* when the free threads reach as far as t in the queue.  The worker does  *)
(* not look at the state t has by then.                                    *)
(***************************************************************************)
Begin(t) ==
  /\ phase[t] = "queued"
  /\ Cardinality({u \in In({"queued"}) : u < t}) + Cardinality(Busy) < Width
  /\ phase'  = [phase EXCEPT ![t] = "setup"]
  /\ state'  = [state EXCEPT ![t] = "RUNNING"]
  /\ passed' = [passed EXCEPT ![t] = FALSE]
  /\ UNCHANGED <<deps, retries, token, attempts, last, merged, pipeline, gate>>

\* A worker that has read None makes a pipeline on its sandbox, for everybody.
Share(t) == pipeline' = IF gate[t] = {} THEN {t} ELSE pipeline

\* Agent discovery, skill resolution, the sandbox copy, a snapshot or the
\* verification pipeline raises: no attempt is recorded.  A pipeline that was
\* made may have been shared by then.
Raise(t) ==
  /\ phase[t] \in {"setup", "verify"}
  /\ phase' = [phase EXCEPT ![t] = "raised"]
  /\ \/ pipeline' = pipeline
     \/ phase[t] = "verify" /\ Share(t)
  /\ gate' = [gate EXCEPT ![t] = {}]
  /\ UNCHANGED <<dagVars, token, passed, attempts, last, merged>>

\* The agent runs.  A failed run, an exception or an exhausted budget becomes
\* exec_error; the task goes on to verification all the same.
Execute(t) ==
  /\ phase[t] = "setup"
  /\ phase' = [phase EXCEPT ![t] = "verify"]
  /\ state' = [state EXCEPT ![t] = "VERIFYING"]
  /\ gate'  = [gate EXCEPT ![t] = pipeline]
  /\ UNCHANGED <<deps, retries, token, passed, attempts, last, merged, pipeline>>

\* verify_task and the two evidence checks give a verdict, which is recorded.
Verify(t) ==
  /\ phase[t] = "verify"
  /\ \E ok \in BOOLEAN :
       /\ passed' = [passed EXCEPT ![t] = ok]
       /\ last'   = [last EXCEPT ![t] = IF ok THEN "COMPLETED" ELSE "FAILED"]
       /\ phase'  = [phase EXCEPT ![t] = IF ok THEN "merge" ELSE "decide"]
  /\ attempts' = [attempts EXCEPT ![t] = @ + 1]
  /\ Share(t)
  /\ gate' = [gate EXCEPT ![t] = {}]
  /\ UNCHANGED <<dagVars, token, merged>>

Merge(t) ==
  /\ phase[t] = "merge"
  /\ merged' = [merged EXCEPT ![t] = TRUE]
  /\ phase'  = [phase EXCEPT ![t] = "decide"]
  /\ UNCHANGED <<dagVars, token, passed, attempts, last, pipeline, gate>>

\* merge_into_main raises something else than a conflict, an OSError say.
MergeFails(t) ==
  /\ phase[t] = "merge"
  /\ passed' = [passed EXCEPT ![t] = FALSE]
  /\ last'   = [last EXCEPT ![t] = "FAILED"]
  /\ phase'  = [phase EXCEPT ![t] = "decide"]
  /\ UNCHANGED <<dagVars, token, attempts, merged, pipeline, gate>>

\* The handler of MergeConflictError reads mce.message, an attribute the
\* class does not have: the AttributeError leaves the worker, after passed
\* was reset and before the attempt record is.
MergeConflicts(t) ==
  /\ phase[t] = "merge"
  /\ passed' = [passed EXCEPT ![t] = FALSE]
  /\ phase'  = [phase EXCEPT ![t] = "raised"]
  /\ UNCHANGED <<dagVars, token, attempts, last, merged, pipeline, gate>>

\* Cancellation is looked at only now, and wins over the verdict.
DecideCancelled(t) ==
  /\ phase[t] = "decide" /\ token
  /\ state' = [state EXCEPT ![t] = "CANCELLED"]
  /\ last'  = [last EXCEPT ![t] = "CANCELLED"]
  /\ phase' = [phase EXCEPT ![t] = "done"]
  /\ UNCHANGED <<deps, retries, token, passed, attempts, merged, pipeline, gate>>

\* Mutant of DecideCompleted: does not look at the verdict.
DecideCompletedBlindly(t) ==
  /\ phase[t] = "decide" /\ ~token
  /\ state' = [state EXCEPT ![t] = "COMPLETED"]
  /\ phase' = [phase EXCEPT ![t] = "prune"]
  /\ UNCHANGED <<deps, retries, token, workVars>>

DecideCompleted(t) ==
  /\ phase[t] = "decide" /\ ~token /\ passed[t]
  /\ state' = [state EXCEPT ![t] = "COMPLETED"]
  /\ phase' = [phase EXCEPT ![t] = "prune"]
  /\ UNCHANGED <<deps, retries, token, workVars>>

\* Mutants of DecideRetry: the limit is not checked; the retry is not counted.
DecideRetryUnbounded(t) ==
  /\ phase[t] = "decide" /\ ~token /\ ~passed[t]
  /\ retries' = [retries EXCEPT ![t] = @ + 1]
  /\ state'   = [state EXCEPT ![t] = "READY"]
  /\ phase'   = [phase EXCEPT ![t] = "done"]
  /\ UNCHANGED <<deps, token, workVars>>

DecideRetryUncounted(t) ==
  /\ phase[t] = "decide" /\ ~token /\ ~passed[t]
  /\ retries[t] < MaxRetries
  /\ state'   = [state EXCEPT ![t] = "READY"]
  /\ phase'   = [phase EXCEPT ![t] = "done"]
  /\ UNCHANGED <<deps, retries, token, workVars>>

DecideRetry(t) ==
  /\ phase[t] = "decide" /\ ~token /\ ~passed[t]
  /\ retries[t] < MaxRetries
  /\ retries' = [retries EXCEPT ![t] = @ + 1]
  /\ state'   = [state EXCEPT ![t] = "READY"]
  /\ phase'   = [phase EXCEPT ![t] = "done"]
  /\ UNCHANGED <<deps, token, workVars>>

DecideFailed(t) ==
  /\ phase[t] = "decide" /\ ~token /\ ~passed[t]
  /\ retries[t] = MaxRetries
  /\ state' = [state EXCEPT ![t] = "FAILED"]
  /\ phase' = [phase EXCEPT ![t] = "done"]
  /\ UNCHANGED <<deps, retries, token, workVars>>

\* The result of t may name redundant tasks.  What a name prunes is determined
\* by the open tasks it reaches, so open tasks stand for all names.
PruneRedundant(t) ==
  /\ phase[t] = "prune"
  /\ \E S \in SUBSET OpenTasks(state) : state' = PruneTasks(state, deps, S)
  /\ phase' = [phase EXCEPT ![t] = "done"]
  /\ UNCHANGED <<deps, retries, token, workVars>>

\* What the model put there is no list of names: set(task_ids) raises, and no
\* handler of the worker is around it.
PruneRaises(t) ==
  /\ phase[t] = "prune"
  /\ phase' = [phase EXCEPT ![t] = "late"]
  /\ UNCHANGED <<dagVars, token, workVars>>

RequestCancel ==
  /\ ~token
  /\ token' = TRUE
  /\ UNCHANGED <<dagVars, phase, workVars>>

Decide(t) == \/ DecideCancelled(t) \/ DecideCompleted(t)
             \/ DecideRetry(t) \/ DecideFailed(t)

Worker(t) == \/ Begin(t) \/ Raise(t) \/ Execute(t) \/ Verify(t)
             \/ Merge(t) \/ MergeFails(t) \/ MergeConflicts(t)
             \/ Decide(t) \/ PruneRedundant(t) \/ PruneRaises(t) \/ Collect(t)

Next == \/ StartWave \/ EmptyScan \/ EndWave \/ RequestCancel
        \/ \E t \in Task : Worker(t)

(***************************************************************************)
(* Every call a worker makes returns or raises (agents, tools and tests    *)
(* run under timeouts), the pool runs what is submitted, and the graph     *)
(* calls execute_ready_wave again as long as a task is ready.  Nothing     *)
(* obliges anyone to cancel.                                               *)
(***************************************************************************)
Fairness == /\ WF_vars(StartWave)
            /\ WF_vars(EndWave)
            /\ \A t \in Task : WF_vars(Worker(t))

Spec == Init /\ [][Next]_vars /\ Fairness
-----------------------------------------------------------------------------
\* Work is built on finished work only: a task that runs, is verified or is
\* completed has every dependency COMPLETED, from the moment a worker takes
\* it up and for good, though the worker checks nothing and pruning, retries
\* and failures go on beside it.
BuiltOnCompleted ==
  \A t \in Task : state[t] \in {"RUNNING", "VERIFYING", "COMPLETED"}
                    => Satisfied(state, deps[t])

\* Two tasks at work at the same time write to disjoint targets, the promise
\* of the conflict-free partition of execute_ready_wave.
DisjointWriters ==
  \A t, u \in Task : /\ t # u
                     /\ state[t] \in {"RUNNING", "VERIFYING"}
                     /\ state[u] \in {"RUNNING", "VERIFYING"}
                     => Targets[t] \cap Targets[u] = {}

\* The history of a task and its retry counter agree: a task that can still
\* be dispatched has one recorded attempt per retry used, so attempt_number
\* and the snapshot names made from it never repeat.
AttemptsMatchRetries ==
  \A t \in Task :
    /\ attempts[t] \in {retries[t], retries[t] + 1}
    /\ state[t] \in OpenState \cup {"RUNNING"} => attempts[t] = retries[t]

\* Deliverables reach the main workspace at most once, and a task is
\* COMPLETED only with all of them there and its attempt on record as passed:
\* no scan, retry or wave of the scheduler takes up a task whose files were
\* merged.  It may be FAILED all the same, by an exception after its
\* completion, and then its last attempt still reads COMPLETED.
MergedOnce ==
  \A t \in Task :
    /\ merged[t] => state[t] \in {"VERIFYING", "COMPLETED", "CANCELLED", "FAILED"}
    /\ merged[t] => phase[t] \in {"decide", "prune", "late", "done", "none"}
    /\ merged[t] /\ state[t] = "FAILED" => last[t] = "COMPLETED"
    /\ state[t] = "COMPLETED" => merged[t] /\ last[t] = "COMPLETED"

\* Between two calls of execute_ready_wave no task is left half-way.
WaveLeavesNothingRunning ==
  Idle => \A t \in Task : state[t] \notin {"RUNNING", "VERIFYING"}

\* Every call of execute_ready_wave returns, and the retry loop ends: the dag
\* comes to rest with nothing ready, or cancelled.
ComesToRest == <>[](Idle /\ (token \/ Ready(state, deps) = {}))

\* The scheduler implements the abstract waves.
Implements == Abstract!Waves

\* verify_task: "Executes multi-axis automated verification on the task
\* deliverables": the pipeline that judges t is bound to the sandbox of t.
VerdictIsOwn ==
  [][\A t \in Task : phase[t] = "verify" /\ phase'[t] \in {"merge", "decide"}
                       => gate[t] \subseteq {t}]_vars
=============================================================================

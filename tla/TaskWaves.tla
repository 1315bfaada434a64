----------------------------- MODULE TaskWaves -----------------------------
(***************************************************************************)
(* What ConcurrentDAGScheduler promises about a TaskDAG, without how a     *)
(* worker gets there: waves of conflict-free ready tasks, each dispatched  *)
(* task taken up once and settled once, and no new wave before every task  *)
(* of the last one is settled.  WaveScheduler implements it and Workflow   *)
(* is composed on top of it.                                               *)
(***************************************************************************)
EXTENDS TaskDAG

CONSTANTS Plans,       \* the plans a session may start from: [tasks, deps]
          Targets,     \* the write targets each task declares
          MaxRetries   \* RetryPolicy.max_retries

ASSUME WavesAssumption ==
  /\ MaxRetries \in Nat
  /\ \A p \in Plans : p.tasks \subseteq Task /\ p.deps \in [Task -> Seq(Task)]

VARIABLES state,     \* TaskState of each task, or ABSENT
          deps,      \* dependency list of each task
          retries,   \* retry_policy.current_retry of each task
          wave,      \* each task's part in the wave under way
          token      \* has cancellation been requested?

waveVars == <<state, deps, retries, wave, token>>

WaveTypeOK ==
  /\ state \in [Task -> TaskState \cup {ABSENT}]
  /\ deps \in [Task -> Seq(Task)]
  /\ retries \in [Task -> 0 .. MaxRetries]
  /\ wave \in [Task -> {"none", "queued", "active", "done"}]
  /\ token \in BOOLEAN

Idle == \A t \in Task : wave[t] = "none"

InitWaves ==
  /\ \E p \in Plans : /\ state = [t \in Task |-> IF t \in p.tasks THEN "PENDING" ELSE ABSENT]
                      /\ deps = p.deps
  /\ retries = [t \in Task |-> 0]
  /\ wave = [t \in Task |-> "none"]
  /\ token = FALSE

\* Mutant of ConflictFree: every ready task goes, whatever it writes.
ConflictIgnored(R, D) == D = R

(***************************************************************************)
(* The greedy partition of the ready tasks R, in dict order: a task that   *)
(* declares no write target always goes, another one only if none of its   *)
(* targets is claimed by an earlier task that goes.                        *)
(***************************************************************************)
ConflictFree(R, D) ==
  \A t \in R :
    t \in D <=> \/ Targets[t] = {}
                \/ \A u \in D : u < t => Targets[t] \cap Targets[u] = {}

StartWave ==
  /\ Idle /\ ~token
  /\ \E D \in SUBSET Ready(state, deps) \ {{}} :
       /\ ConflictFree(Ready(state, deps), D)
       /\ wave' = [t \in Task |-> IF t \in D THEN "queued" ELSE "none"]
  /\ state' = Refresh(state, deps)
  /\ UNCHANGED <<deps, retries, token>>

\* get_ready_tasks finds nothing: only its rewriting of open states remains.
EmptyScan ==
  /\ Idle /\ ~token
  /\ Ready(state, deps) = {}
  /\ state' = Refresh(state, deps)
  /\ UNCHANGED <<deps, retries, wave, token>>

Activate(t) ==
  /\ wave[t] = "queued"
  /\ wave' = [wave EXCEPT ![t] = "active"]
  /\ state' = [state EXCEPT ![t] = "RUNNING"]
  /\ UNCHANGED <<deps, retries, token>>

Settle(t, outcome) ==
  /\ wave[t] = "active"
  /\ wave' = [wave EXCEPT ![t] = "done"]
  /\ state' = [state EXCEPT ![t] = outcome]
  /\ UNCHANGED <<deps, token>>

Complete(t)  == Settle(t, "COMPLETED") /\ UNCHANGED retries
GiveUp(t)    == Settle(t, "FAILED") /\ UNCHANGED retries
Cancelled(t) == token /\ Settle(t, "CANCELLED") /\ UNCHANGED retries

\* Mutant of Requeue: the retry is not counted, so there is always one left.
RequeueUncounted(t) == Settle(t, "READY") /\ UNCHANGED retries

Requeue(t)   == /\ retries[t] < MaxRetries
                /\ Settle(t, "READY")
                /\ retries' = [retries EXCEPT ![t] = @ + 1]

\* A task that completed names others that its result makes redundant.  What
\* a name prunes is determined by the open tasks it reaches, so open tasks
\* stand for all names.
Prune(t) ==
  /\ wave[t] = "done" /\ state[t] = "COMPLETED"
  /\ \E S \in SUBSET OpenTasks(state) : state' = PruneTasks(state, deps, S)
  /\ UNCHANGED <<deps, retries, wave, token>>

\* An exception after the completion, made of the same result, reaches the
\* calling thread, which marks the task FAILED as any other.
Overturn(t) ==
  /\ wave[t] = "done" /\ state[t] = "COMPLETED"
  /\ state' = [state EXCEPT ![t] = "FAILED"]
  /\ UNCHANGED <<deps, retries, wave, token>>

EndWave ==
  /\ ~Idle
  /\ \A t \in Task : wave[t] \in {"none", "done"}
  /\ wave' = [t \in Task |-> "none"]
  /\ UNCHANGED <<state, deps, retries, token>>

RequestCancel ==
  /\ ~token
  /\ token' = TRUE
  /\ UNCHANGED <<state, deps, retries, wave>>

Work(t) == \/ Activate(t) \/ Complete(t) \/ GiveUp(t)
           \/ Cancelled(t) \/ Requeue(t)

WaveStep == \/ StartWave \/ EmptyScan \/ EndWave
            \/ \E t \in Task : Work(t) \/ Prune(t) \/ Overturn(t)

NextWaves == WaveStep \/ RequestCancel

Waves == InitWaves /\ [][NextWaves]_waveVars
-----------------------------------------------------------------------------
\* No task is taken up before everything it depends on has been completed:
\* the dispatch of execute_ready_wave rests on the scan of get_ready_tasks,
\* made before the first worker of the wave starts.
DependenciesComplete ==
  \A t \in Task : wave[t] # "none" => Satisfied(state, deps[t])
=============================================================================

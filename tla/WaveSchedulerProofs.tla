------------------------ MODULE WaveSchedulerProofs ------------------------
(***************************************************************************)
(* Invariance proofs for WaveScheduler, for every set of tasks, every plan *)
(* and every number of workers and retries.                                *)
(***************************************************************************)
EXTENDS WaveScheduler, TLAPS

(***************************************************************************)
(* From dag states s to n only open tasks change, and they stay open or    *)
(* are skipped.                                                            *)
(***************************************************************************)
OpenStep(s, n) ==
  /\ n \in [Task -> TaskState \cup {ABSENT}]
  /\ \A t \in Task : s[t] \in OpenState => n[t] \in OpenState \cup {"SKIPPED_REDUNDANT"}
  /\ \A t \in Task : s[t] \notin OpenState => n[t] = s[t]

\* get_ready_tasks rewrites open tasks only.
LEMMA RefreshOpen ==
  ASSUME NEW s \in [Task -> TaskState \cup {ABSENT}], NEW d
  PROVE  OpenStep(s, Refresh(s, d))
<1>1. ASSUME NEW S, NEW now \in OpenState, NEW l
      PROVE  Rescan(S, now, l) \in OpenState \cup {"SKIPPED_REDUNDANT"}
  BY DEF Rescan, OpenState
<1>2. QED
  BY <1>1 DEF OpenStep, Refresh, TaskState, SkippedState, OpenState

\* prune_tasks rewrites open tasks only.
LEMMA PruneOpen ==
  ASSUME NEW s \in [Task -> TaskState \cup {ABSENT}], NEW d, NEW S
  PROVE  OpenStep(s, PruneTasks(s, d, S))
BY DEF OpenStep, PruneTasks, Skip, TaskState, SkippedState, OpenState
-----------------------------------------------------------------------------
(***************************************************************************)
(* The phase of a worker determines what is known of its task.             *)
(***************************************************************************)
Fresh(t)   == attempts[t] = retries[t] /\ ~merged[t]
Tried(t)   == attempts[t] = retries[t] + 1
Passed(t)  == merged[t] /\ last[t] = "COMPLETED"

AtRest(t) ==
  /\ state[t] \notin {"RUNNING", "VERIFYING"}
  /\ attempts[t] \in {retries[t], retries[t] + 1}
  /\ state[t] \in OpenState => attempts[t] = retries[t]
  /\ state[t] = "COMPLETED" => Passed(t)
  /\ merged[t] => state[t] \in {"COMPLETED", "CANCELLED", "FAILED"}
  /\ merged[t] /\ state[t] = "FAILED" => last[t] = "COMPLETED"

WorkerInv(t) ==
  /\ phase[t] = "queued" => Fresh(t) /\ state[t] \in OpenState \cup SkippedState
  /\ phase[t] = "setup"  => Fresh(t) /\ state[t] = "RUNNING"
  /\ phase[t] = "verify" => Fresh(t) /\ state[t] = "VERIFYING"
  /\ phase[t] = "merge"  => /\ Tried(t) /\ passed[t] /\ ~merged[t]
                            /\ last[t] = "COMPLETED" /\ state[t] = "VERIFYING"
  /\ phase[t] = "decide" => /\ Tried(t) /\ state[t] = "VERIFYING"
                            /\ IF passed[t] THEN Passed(t) ELSE ~merged[t]
  /\ phase[t] = "raised" => /\ state[t] \in {"RUNNING", "VERIFYING"} /\ ~merged[t]
                            /\ attempts[t] \in {retries[t], retries[t] + 1}
                            /\ state[t] = "RUNNING" => attempts[t] = retries[t]
  /\ phase[t] \in {"prune", "late"} => state[t] = "COMPLETED"
  /\ phase[t] \in {"none", "prune", "late", "done"} => AtRest(t)

\* What the dispatch of a wave establishes for its tasks.
DispatchInv ==
  /\ \A t \in Task : phase[t] # "none" => Satisfied(state, deps[t])
  /\ \A t, u \in Task : phase[t] # "none" /\ phase[u] # "none" /\ t # u
                          => Targets[t] \cap Targets[u] = {}

\* While a task is in a wave nothing rests on it yet: what is dispatched or
\* completed has no task of the wave among its dependencies, so that an
\* exception after a completion takes nothing from under anybody.
NobodyWaits ==
  \A t, u \in Task :
    phase[t] # "none" /\ (phase[u] # "none" \/ state[u] = "COMPLETED")
      => \A i \in DOMAIN deps[u] : deps[u][i] # t

IInv == /\ TypeOK
        /\ \A t \in Task : WorkerInv(t)
        /\ DispatchInv
        /\ NobodyWaits
        /\ \A t \in Task : state[t] = "COMPLETED" => Satisfied(state, deps[t])
-----------------------------------------------------------------------------
\* Three actions rewrite the dag as a whole, each as an OpenStep.
LEMMA WholeDagSteps ==
  ASSUME TypeOK
  PROVE  /\ StartWave => OpenStep(state, state')
         /\ EmptyScan => OpenStep(state, state')
         /\ \A t \in Task : PruneRedundant(t) => OpenStep(state, state')
<1>1. state \in [Task -> TaskState \cup {ABSENT}]
  BY DEF TypeOK
<1>2. QED
  BY <1>1, RefreshOpen, PruneOpen DEF StartWave, EmptyScan, PruneRedundant

\* The initial states satisfy the invariant: nothing is dispatched or tried.
LEMMA InitIInv == Init => IInv
<1> SUFFICES ASSUME Init PROVE IInv
  OBVIOUS
<1>1. TypeOK
  <2>1. deps \in [Task -> Seq(Task)]
    BY SchedulerAssumption DEF Init
  <2>2. state \in [Task -> TaskState \cup {ABSENT}]
    BY DEF Init, TaskState, OpenState
  <2>3. retries \in [Task -> 0 .. MaxRetries] /\ attempts \in [Task -> Nat]
    BY SchedulerAssumption DEF Init
  <2>4. QED
    BY <2>1, <2>2, <2>3 DEF Init, TypeOK, Phase, Status
<1>2. ASSUME NEW t \in Task PROVE WorkerInv(t)
  BY SchedulerAssumption DEF Init, WorkerInv, AtRest, OpenState, ABSENT
<1>3. DispatchInv
  BY DEF Init, DispatchInv
<1>4. \A t \in Task : state[t] # "COMPLETED"
  BY DEF Init, ABSENT
<1>5. NobodyWaits
  BY DEF Init, NobodyWaits
<1>6. QED
  BY <1>1, <1>2, <1>3, <1>4, <1>5 DEF IInv

\* Every step keeps the variables in their types.
LEMMA TypeStep == TypeOK /\ [Next]_vars => TypeOK'
<1> SUFFICES ASSUME TypeOK, [Next]_vars PROVE TypeOK'
  OBVIOUS
<1> USE DEF TypeOK, dagVars, workVars
<1>1. CASE StartWave
  BY <1>1, WholeDagSteps DEF StartWave, OpenStep, Phase
<1>2. CASE EmptyScan
  BY <1>2, WholeDagSteps DEF EmptyScan, OpenStep
<1>3. CASE EndWave
  BY <1>3 DEF EndWave, Phase
<1>4. CASE RequestCancel
  BY <1>4 DEF RequestCancel
<1>5. ASSUME NEW t \in Task, Worker(t) PROVE TypeOK'
  <2>1. CASE Begin(t)
    BY <2>1 DEF Begin, TaskState, Phase
  <2>2. CASE Raise(t)
    BY <2>2 DEF Raise, Share, Phase
  <2>3. CASE Execute(t)
    BY <2>3 DEF Execute, TaskState, Phase
  <2>4. CASE Verify(t)
    BY <2>4 DEF Verify, Share, Phase, Status
  <2>5. CASE Merge(t)
    BY <2>5 DEF Merge, Phase
  <2>6. CASE MergeFails(t)
    BY <2>6 DEF MergeFails, Phase, Status
  <2>7. CASE MergeConflicts(t)
    BY <2>7 DEF MergeConflicts, Phase
  <2>8. CASE DecideCancelled(t)
    BY <2>8 DEF DecideCancelled, TaskState, Phase, Status
  <2>9. CASE DecideCompleted(t)
    BY <2>9 DEF DecideCompleted, TaskState, Phase
  <2>10. CASE DecideRetry(t)
    BY <2>10, SchedulerAssumption DEF DecideRetry, TaskState, OpenState, Phase
  <2>11. CASE DecideFailed(t)
    BY <2>11 DEF DecideFailed, TaskState, Phase
  <2>12. CASE PruneRedundant(t)
    BY <2>12, WholeDagSteps DEF PruneRedundant, OpenStep, Phase
  <2>13. CASE Collect(t)
    BY <2>13 DEF Collect, TaskState, Phase
  <2>14. CASE PruneRaises(t)
    BY <2>14 DEF PruneRaises, Phase
  <2>16. QED
    BY <1>5, <2>1, <2>2, <2>3, <2>4, <2>5, <2>6, <2>7, <2>8, <2>9, <2>10,
       <2>11, <2>12, <2>13, <2>14 DEF Worker, Decide
<1>6. CASE UNCHANGED vars
  BY <1>6 DEF vars
<1>7. QED
  BY <1>1, <1>2, <1>3, <1>4, <1>5, <1>6 DEF Next

\* A whole-dag rewrite keeps what is known of a task that it leaves alone
\* otherwise.
LEMMA OpenStepKeeps ==
  ASSUME TypeOK, NEW t \in Task, WorkerInv(t), OpenStep(state, state'),
         phase'[t] = phase[t], passed'[t] = passed[t], attempts'[t] = attempts[t],
         retries'[t] = retries[t], last'[t] = last[t], merged'[t] = merged[t]
  PROVE  WorkerInv(t)'
<1>1. CASE state[t] \in OpenState
  <2>1. state'[t] \in OpenState \cup {"SKIPPED_REDUNDANT"}
    BY <1>1 DEF OpenStep
  <2>2. phase[t] \in {"none", "queued", "done"}
    BY <1>1 DEF WorkerInv, TypeOK, Phase, OpenState
  <2>3. phase[t] \in {"none", "done"} => AtRest(t)'
    BY <1>1, <2>1 DEF WorkerInv, AtRest, Passed, OpenState
  <2>4. QED
    BY <1>1, <2>1, <2>2, <2>3 DEF WorkerInv, Fresh, SkippedState, OpenState
<1>2. CASE state[t] \notin OpenState
  <2>1. state'[t] = state[t]
    BY <1>2 DEF OpenStep
  <2>2. QED
    BY <2>1 DEF WorkerInv, AtRest, Fresh, Tried, Passed
<1>3. QED
  BY <1>1, <1>2

\* A step that touches nothing of t keeps what is known of t.
LEMMA OthersKeep ==
  ASSUME NEW t \in Task, WorkerInv(t), state'[t] = state[t],
         phase'[t] = phase[t], passed'[t] = passed[t], attempts'[t] = attempts[t],
         retries'[t] = retries[t], last'[t] = last[t], merged'[t] = merged[t]
  PROVE  WorkerInv(t)'
BY DEF WorkerInv, AtRest, Fresh, Tried, Passed

\* What is known of each task by its phase is kept by every step.
LEMMA WorkerStep ==
  ASSUME TypeOK, \A t \in Task : WorkerInv(t), [Next]_vars
  PROVE  \A t \in Task : WorkerInv(t)'
<1> USE DEF TypeOK
<1>1. ASSUME StartWave, NEW t \in Task PROVE WorkerInv(t)'
  <2>1. /\ OpenStep(state, state') /\ AtRest(t)
        /\ UNCHANGED <<passed, attempts, retries, last, merged>>
    BY <1>1, WholeDagSteps DEF StartWave, Idle, Dispatched, WorkerInv, workVars
  <2>2. CASE state[t] \in OpenState
    <3>1. state'[t] \in OpenState \cup {"SKIPPED_REDUNDANT"}
      BY <2>1, <2>2 DEF OpenStep
    <3>2. Fresh(t)'
      BY <2>1, <2>2 DEF AtRest, Fresh, OpenState
    <3>3. AtRest(t)'
      BY <2>1, <2>2, <3>1, <3>2 DEF AtRest, Fresh, OpenState
    <3>4. phase'[t] \in {"none", "queued"}
      BY <1>1 DEF StartWave
    <3>5. QED
      BY <3>1, <3>2, <3>3, <3>4 DEF WorkerInv, SkippedState
  <2>3. CASE state[t] \notin OpenState
    <3>1. phase'[t] = "none"
      BY <1>1, <2>3 DEF StartWave, Ready, OpenTasks
    <3>2. state'[t] = state[t]
      BY <2>1, <2>3 DEF OpenStep
    <3>3. AtRest(t)'
      BY <2>1, <3>2 DEF AtRest, Passed
    <3>4. QED
      BY <3>1, <3>3 DEF WorkerInv
  <2>4. QED
    BY <2>2, <2>3
<1>2. ASSUME EmptyScan, NEW t \in Task PROVE WorkerInv(t)'
  BY <1>2, WholeDagSteps, OpenStepKeeps DEF EmptyScan, workVars
<1>3. ASSUME EndWave, NEW t \in Task PROVE WorkerInv(t)'
  <2>1. phase[t] \in {"none", "done"}
    BY <1>3 DEF EndWave, Dispatched, In
  <2>2. QED
    BY <1>3, <2>1 DEF EndWave, WorkerInv, AtRest, Passed, dagVars, workVars
<1>4. ASSUME RequestCancel, NEW t \in Task PROVE WorkerInv(t)'
  BY <1>4, OthersKeep DEF RequestCancel, dagVars, workVars
<1>5. ASSUME NEW u \in Task, Worker(u), NEW t \in Task PROVE WorkerInv(t)'
  <2> USE DEF dagVars, workVars
  <2>1. CASE Begin(u)
    <3>1. CASE t = u
      BY <2>1, <3>1 DEF Begin, WorkerInv, Fresh
    <3>2. CASE t # u
      BY <2>1, <3>2, OthersKeep DEF Begin
    <3>3. QED
      BY <3>1, <3>2
  <2>2. CASE Raise(u)
    <3>1. CASE t = u
      BY <2>2, <3>1 DEF Raise, WorkerInv, Fresh
    <3>2. CASE t # u
      BY <2>2, <3>2, OthersKeep DEF Raise
    <3>3. QED
      BY <3>1, <3>2
  <2>3. CASE Execute(u)
    <3>1. CASE t = u
      BY <2>3, <3>1 DEF Execute, WorkerInv, Fresh
    <3>2. CASE t # u
      BY <2>3, <3>2, OthersKeep DEF Execute
    <3>3. QED
      BY <3>1, <3>2
  <2>4. CASE Verify(u)
    <3>1. CASE t = u
      BY <2>4, <3>1 DEF Verify, WorkerInv, Fresh, Tried
    <3>2. CASE t # u
      BY <2>4, <3>2, OthersKeep DEF Verify
    <3>3. QED
      BY <3>1, <3>2
  <2>5. CASE Merge(u)
    <3>1. CASE t = u
      BY <2>5, <3>1 DEF Merge, WorkerInv, Tried, Passed
    <3>2. CASE t # u
      BY <2>5, <3>2, OthersKeep DEF Merge
    <3>3. QED
      BY <3>1, <3>2
  <2>6. CASE MergeFails(u)
    <3>1. CASE t = u
      BY <2>6, <3>1 DEF MergeFails, WorkerInv, Tried
    <3>2. CASE t # u
      BY <2>6, <3>2, OthersKeep DEF MergeFails
    <3>3. QED
      BY <3>1, <3>2
  <2>7. CASE MergeConflicts(u)
    <3>1. CASE t = u
      BY <2>7, <3>1 DEF MergeConflicts, WorkerInv, Tried
    <3>2. CASE t # u
      BY <2>7, <3>2, OthersKeep DEF MergeConflicts
    <3>3. QED
      BY <3>1, <3>2
  <2>8. CASE DecideCancelled(u)
    <3>1. CASE t = u
      BY <2>8, <3>1 DEF DecideCancelled, WorkerInv, AtRest, Tried, OpenState
    <3>2. CASE t # u
      BY <2>8, <3>2, OthersKeep DEF DecideCancelled
    <3>3. QED
      BY <3>1, <3>2
  <2>9. CASE DecideCompleted(u)
    BY <2>9, OthersKeep DEF DecideCompleted, WorkerInv, AtRest, Tried, Passed, OpenState
  <2>10. CASE DecideRetry(u)
    <3>1. CASE t = u
      <4>1. /\ state'[t] = "READY" /\ phase'[t] = "done" /\ ~merged'[t]
            /\ attempts'[t] = retries[t] + 1
        BY <2>10, <3>1 DEF DecideRetry, WorkerInv, Tried
      <4>2. retries'[t] = retries[t] + 1
        BY <2>10, <3>1 DEF DecideRetry
      <4>3. QED
        BY <4>1, <4>2 DEF WorkerInv, AtRest
    <3>2. CASE t # u
      BY <2>10, <3>2, OthersKeep DEF DecideRetry
    <3>3. QED
      BY <3>1, <3>2
  <2>11. CASE DecideFailed(u)
    BY <2>11, OthersKeep DEF DecideFailed, WorkerInv, AtRest, Tried, OpenState
  <2>12. CASE PruneRedundant(u)
    <3>1. CASE t = u
      <4>1. state[t] = "COMPLETED" /\ AtRest(t)
        BY <2>12, <3>1 DEF PruneRedundant, WorkerInv
      <4>2. state'[t] = state[t]
        BY <2>12, <4>1, WholeDagSteps DEF OpenStep, OpenState
      <4>3. QED
        BY <2>12, <3>1, <4>1, <4>2 DEF PruneRedundant, WorkerInv, AtRest, Passed
    <3>2. CASE t # u
      BY <2>12, <3>2, WholeDagSteps, OpenStepKeeps DEF PruneRedundant
    <3>3. QED
      BY <3>1, <3>2
  <2>13. CASE Collect(u)
    <3>1. CASE t = u
      <4>1. state'[t] = "FAILED" /\ phase'[t] = "done" /\ UNCHANGED <<attempts, retries, last, merged>>
        BY <2>13, <3>1 DEF Collect
      <4>2. attempts[t] \in {retries[t], retries[t] + 1} /\ (merged[t] => last[t] = "COMPLETED")
        BY <2>13, <3>1 DEF Collect, WorkerInv, AtRest, Passed
      <4>3. QED
        BY <4>1, <4>2 DEF WorkerInv, AtRest, OpenState
    <3>2. CASE t # u
      BY <2>13, <3>2, OthersKeep DEF Collect
    <3>3. QED
      BY <3>1, <3>2
  <2>14. CASE PruneRaises(u)
    <3>1. CASE t = u
      BY <2>14, <3>1 DEF PruneRaises, WorkerInv, AtRest, Passed
    <3>2. CASE t # u
      BY <2>14, <3>2, OthersKeep DEF PruneRaises
    <3>3. QED
      BY <3>1, <3>2
  <2>16. QED
    BY <1>5, <2>1, <2>2, <2>3, <2>4, <2>5, <2>6, <2>7, <2>8, <2>9, <2>10,
       <2>11, <2>12, <2>13, <2>14 DEF Worker, Decide
<1>6. ASSUME UNCHANGED vars, NEW t \in Task PROVE WorkerInv(t)'
  BY <1>6, OthersKeep DEF vars, dagVars, workVars
<1>7. QED
  BY <1>1, <1>2, <1>3, <1>4, <1>5, <1>6 DEF Next

\* A step takes a completed task out of COMPLETED only if an exception after
\* its completion is collected: a worker overwrites the state of its own task
\* only, which is not COMPLETED before DecideCompleted.
LEMMA CompletedStays ==
  ASSUME TypeOK, \A t \in Task : WorkerInv(t), [Next]_vars,
         NEW t \in Task, state[t] = "COMPLETED", phase[t] # "late"
  PROVE  state'[t] = "COMPLETED"
<1>1. phase[t] \in {"none", "prune", "done"}
  BY DEF TypeOK, Phase, WorkerInv, OpenState, SkippedState
<1>2. CASE OpenStep(state, state')
  BY <1>2 DEF OpenStep, OpenState
<1>3. CASE UNCHANGED state
  BY <1>3
<1>4. ASSUME NEW u \in Task, Worker(u), ~PruneRedundant(u) PROVE state'[t] = state[t]
  BY <1>1, <1>4 DEF TypeOK, Worker, Decide, Begin, Raise, Execute, Verify, Merge,
     MergeFails, MergeConflicts, DecideCancelled, DecideCompleted, DecideRetry,
     DecideFailed, PruneRaises, Collect, dagVars
<1>5. QED
  BY <1>2, <1>3, <1>4, WholeDagSteps
     DEF Next, EndWave, RequestCancel, vars, dagVars, Worker

\* No step rewrites a dependency list.
LEMMA ListsStay == [Next]_vars => deps' = deps
BY DEF Next, StartWave, EmptyScan, EndWave, RequestCancel, Worker, Decide, Begin,
   Raise, Execute, Verify, Merge, MergeFails, MergeConflicts, DecideCancelled,
   DecideCompleted, DecideRetry, DecideFailed, PruneRedundant, PruneRaises, Collect, vars, dagVars

\* A dependency list that is satisfied stays so, unless a task of the wave is
\* on it.
LEMMA SatisfiedStays ==
  ASSUME TypeOK, \A t \in Task : WorkerInv(t), [Next]_vars,
         NEW t \in Task, Satisfied(state, deps[t]),
         \A i \in DOMAIN deps[t] : phase[deps[t][i]] # "late"
  PROVE  Satisfied(state, deps[t])'
<1>1. deps' = deps
  BY ListsStay
<1>2. ASSUME NEW i \in DOMAIN deps[t] PROVE deps[t][i] \in Task
  <2>1. deps[t] \in Seq(Task)
    BY DEF TypeOK
  <2>2. QED
    BY <2>1
<1>3. QED
  BY <1>1, <1>2, CompletedStays DEF Satisfied

\* The conflict-free partition separates any two tasks it lets go, whichever
\* of them comes first in the dag.
LEMMA PartitionSeparates ==
  ASSUME NEW R \in SUBSET Task, NEW D \in SUBSET R, Abstract!ConflictFree(R, D),
         NEW t \in D, NEW u \in D, t # u
  PROVE  Targets[t] \cap Targets[u] = {}
<1>1. t \in Nat /\ u \in Nat
  BY TaskAssumption
<1>2. \A v, w \in D : w < v => Targets[v] \cap Targets[w] = {}
  BY DEF Abstract!ConflictFree
<1>3. QED
  BY <1>1, <1>2

\* What is dispatched or completed depends on no task whose exception is late.
LEMMA LateIsNoDependency ==
  ASSUME TypeOK, NobodyWaits, NEW t \in Task, phase[t] # "none" \/ state[t] = "COMPLETED"
  PROVE  \A i \in DOMAIN deps[t] : phase[deps[t][i]] # "late"
<1>1. deps[t] \in Seq(Task)
  BY DEF TypeOK
<1>2. \A i \in DOMAIN deps[t] : deps[t][i] \in Task
  BY <1>1
<1> QED BY <1>2 DEF NobodyWaits

\* What the dispatch establishes lasts until the wave is over.
LEMMA DispatchStep ==
  ASSUME TypeOK, \A t \in Task : WorkerInv(t), DispatchInv, NobodyWaits, [Next]_vars
  PROVE  DispatchInv'
<1>1. CASE StartWave
  <2>1. PICK D \in SUBSET Ready(state, deps) :
          /\ Abstract!ConflictFree(Ready(state, deps), D)
          /\ phase' = [t \in Task |-> IF t \in D THEN "queued" ELSE "none"]
    BY <1>1 DEF StartWave
  <2>2. /\ \A t \in Task : phase'[t] # "none" => t \in D
        /\ Ready(state, deps) \subseteq Task
        /\ \A t \in D : Satisfied(state, deps[t])
    BY <2>1 DEF Ready, OpenTasks
  <2>3. \A t \in Task : phase'[t] # "none" => Satisfied(state, deps[t])'
    <3>1. ASSUME NEW t \in Task PROVE \A i \in DOMAIN deps[t] : phase[deps[t][i]] # "late"
      <4>1. deps[t] \in Seq(Task) /\ \A u \in Task : phase[u] = "none"
        BY <1>1 DEF StartWave, Idle, Dispatched, TypeOK
      <4>2. \A i \in DOMAIN deps[t] : deps[t][i] \in Task
        BY <4>1
      <4> QED BY <4>1, <4>2
    <3> QED BY <2>2, <3>1, SatisfiedStays
  <2>4. \A t, u \in D : t # u => Targets[t] \cap Targets[u] = {}
    BY <2>1, <2>2, PartitionSeparates
  <2>5. QED
    BY <2>2, <2>3, <2>4 DEF DispatchInv
<1>2. CASE ~StartWave
  <2>1. \A t \in Task : phase'[t] # "none" => phase[t] # "none"
    BY <1>2 DEF Next, EmptyScan, EndWave, RequestCancel, Worker, Decide, Begin,
       Raise, Execute, Verify, Merge, MergeFails, MergeConflicts, DecideCancelled,
       DecideCompleted, DecideRetry, DecideFailed, PruneRedundant, PruneRaises,
       Collect, vars, dagVars, TypeOK
  <2>2. \A t \in Task : phase'[t] # "none" => Satisfied(state, deps[t])'
    BY <2>1, LateIsNoDependency, SatisfiedStays DEF DispatchInv
  <2>3. QED
    BY <2>1, <2>2 DEF DispatchInv
<1>3. QED
  BY <1>1, <1>2

\* A task that becomes COMPLETED in a step was dispatched in that wave.
LEMMA CompletedStep ==
  ASSUME IInv, [Next]_vars, NEW t \in Task, state'[t] = "COMPLETED"
  PROVE  state[t] = "COMPLETED" \/ phase[t] # "none"
<1>1. CASE state[t] # "COMPLETED"
  <2>1. ~OpenStep(state, state')
    BY <1>1 DEF OpenStep, OpenState
  <2>2. PICK u \in Task : Worker(u)
    BY <1>1, <2>1, WholeDagSteps
       DEF IInv, Next, EndWave, RequestCancel, vars, dagVars
  <2>3. phase[t] = "decide"
    BY <1>1, <2>1, <2>2, WholeDagSteps
       DEF IInv, TypeOK, Worker, Decide, Begin, Raise, Execute, Verify, Merge,
       MergeFails, MergeConflicts, DecideCancelled, DecideCompleted, DecideRetry,
       DecideFailed, PruneRaises, Collect, dagVars
  <2>4. QED
    BY <2>3
<1>2. QED
  BY <1>1

\* A wave is made of open tasks, on which nothing rests.
LEMMA NobodyWaitsStep == ASSUME IInv, [Next]_vars PROVE NobodyWaits'
<1> SUFFICES ASSUME NEW t \in Task, NEW u \in Task, phase'[t] # "none",
                    phase'[u] # "none" \/ state'[u] = "COMPLETED",
                    NEW i \in DOMAIN deps[u]
             PROVE  deps[u][i] # t
  BY ListsStay DEF NobodyWaits
<1>1. CASE StartWave
  <2>1. t \in Ready(state, deps) /\ (phase'[u] # "none" => u \in Ready(state, deps))
    BY <1>1 DEF StartWave
  <2>2. \A v \in Task : phase[v] = "none"
    BY <1>1 DEF StartWave, Idle, Dispatched
  <2>3. Satisfied(state, deps[u])
    BY <2>1, <2>2, CompletedStep DEF Ready, IInv
  <2>4. state[t] \in OpenState
    BY <2>1 DEF Ready, OpenTasks
  <2> QED BY <2>3, <2>4 DEF Satisfied, OpenState
<1>2. CASE ~StartWave
  <2>1. \A v \in Task : phase'[v] # "none" => phase[v] # "none"
    BY <1>2 DEF Next, EmptyScan, EndWave, RequestCancel, Worker, Decide, Begin,
       Raise, Execute, Verify, Merge, MergeFails, MergeConflicts, DecideCancelled,
       DecideCompleted, DecideRetry, DecideFailed, PruneRedundant, PruneRaises,
       Collect, vars, dagVars, IInv, TypeOK
  <2>2. phase[t] # "none" /\ (phase[u] # "none" \/ state[u] = "COMPLETED")
    BY <2>1, CompletedStep
  <2> QED BY <2>2 DEF IInv, NobodyWaits
<1> QED BY <1>1, <1>2

\* IInv is an inductive invariant of the scheduler.
LEMMA IInvStep == IInv /\ [Next]_vars => IInv'
<1> SUFFICES ASSUME IInv, [Next]_vars PROVE IInv'
  OBVIOUS
<1>1. TypeOK'
  BY TypeStep DEF IInv
<1>2. \A t \in Task : WorkerInv(t)'
  BY WorkerStep DEF IInv
<1>3. DispatchInv'
  BY DispatchStep DEF IInv
<1>4. \A t \in Task : (state[t] = "COMPLETED" => Satisfied(state, deps[t]))'
  <2> SUFFICES ASSUME NEW t \in Task, state'[t] = "COMPLETED" PROVE Satisfied(state, deps[t])'
    OBVIOUS
  <2>1. state[t] = "COMPLETED" \/ phase[t] # "none"
    BY CompletedStep
  <2>2. Satisfied(state, deps[t]) /\ \A i \in DOMAIN deps[t] : phase[deps[t][i]] # "late"
    BY <2>1, LateIsNoDependency DEF IInv, DispatchInv
  <2> QED BY <2>2, SatisfiedStays DEF IInv
<1>5. NobodyWaits'
  BY NobodyWaitsStep
<1>6. QED
  BY <1>1, <1>2, <1>3, <1>4, <1>5 DEF IInv

THEOREM Invariance == Spec => []IInv
BY InitIInv, IInvStep, PTL DEF Spec
-----------------------------------------------------------------------------
\* Every variable of the scheduler keeps its type.
THEOREM TypeCorrect == Spec => []TypeOK
<1>1. IInv => TypeOK
  BY DEF IInv
<1>2. QED
  BY <1>1, Invariance, PTL

\* However the workers of a wave interleave, what runs, is verified or is
\* completed rests on completed dependencies.
THEOREM DependenciesHold == Spec => []BuiltOnCompleted
<1>1. ASSUME IInv, NEW t \in Task, state[t] \in {"RUNNING", "VERIFYING"}
      PROVE  phase[t] # "none"
  BY <1>1 DEF IInv, WorkerInv, AtRest
<1>2. IInv => BuiltOnCompleted
  BY <1>1 DEF IInv, DispatchInv, BuiltOnCompleted
<1>3. QED
  BY <1>2, Invariance, PTL

\* No two tasks at work at the same time have a write target in common.
THEOREM WritersAreDisjoint == Spec => []DisjointWriters
<1>1. ASSUME IInv, NEW t \in Task, state[t] \in {"RUNNING", "VERIFYING"}
      PROVE  phase[t] # "none"
  BY <1>1 DEF IInv, WorkerInv, AtRest
<1>2. IInv => DisjointWriters
  BY <1>1 DEF IInv, DispatchInv, DisjointWriters
<1>3. QED
  BY <1>2, Invariance, PTL

\* The attempt history of a task agrees with its retry counter.
THEOREM HistoryAgrees == Spec => []AttemptsMatchRetries
<1>1. ASSUME IInv, NEW t \in Task
      PROVE  /\ attempts[t] \in {retries[t], retries[t] + 1}
             /\ state[t] \in OpenState \cup {"RUNNING"} => attempts[t] = retries[t]
  <2>1. WorkerInv(t) /\ phase[t] \in Phase
    BY <1>1 DEF IInv, TypeOK
  <2>2. QED
    BY <2>1 DEF WorkerInv, AtRest, Fresh, Tried, Phase, OpenState
<1>2. IInv => AttemptsMatchRetries
  BY <1>1 DEF AttemptsMatchRetries
<1>3. QED
  BY <1>2, Invariance, PTL

\* Deliverables are merged at most once, completion means merged, and what is
\* merged fails only by an exception after its completion.
THEOREM MergeIsFinal == Spec => []MergedOnce
<1>1. ASSUME IInv, NEW t \in Task
      PROVE  /\ merged[t] => state[t] \in {"VERIFYING", "COMPLETED", "CANCELLED", "FAILED"}
             /\ merged[t] => phase[t] \in {"decide", "prune", "late", "done", "none"}
             /\ merged[t] /\ state[t] = "FAILED" => last[t] = "COMPLETED"
             /\ state[t] = "COMPLETED" => merged[t] /\ last[t] = "COMPLETED"
  <2>1. WorkerInv(t) /\ phase[t] \in Phase
    BY <1>1 DEF IInv, TypeOK
  <2>2. QED
    BY <2>1 DEF WorkerInv, AtRest, Fresh, Tried, Passed, Phase, OpenState, SkippedState
<1>2. IInv => MergedOnce
  BY <1>1 DEF MergedOnce
<1>3. QED
  BY <1>2, Invariance, PTL

\* When a wave is over no task is left running or verifying.
THEOREM WavesAreBarriers == Spec => []WaveLeavesNothingRunning
<1>1. IInv => WaveLeavesNothingRunning
  BY DEF IInv, WorkerInv, AtRest, WaveLeavesNothingRunning, Idle, Dispatched
<1>2. QED
  BY <1>1, Invariance, PTL

-----------------------------------------------------------------------------
(***************************************************************************)
(* WaveScheduler implements TaskWaves: what goes on inside a worker shows  *)
(* in the dag as no more than taking a task up and settling it.            *)
(***************************************************************************)
\* A dag as it looks from outside, and a worker's part in the wave.
Outside(s) == [t \in Task |-> IF s[t] = "VERIFYING" THEN "RUNNING" ELSE s[t]]
Part(p)    == [t \in Task |-> CASE p[t] \in {"none", "queued"} -> p[t]
                                [] p[t] \in {"prune", "late", "done"} -> "done"
                                [] OTHER                              -> "active"]
-----------------------------------------------------------------------------
\* The operators of the dag are the same in both modules.
LEMMA SameScan ==
  ASSUME NEW s, NEW d
  PROVE  Abstract!Refresh(s, d) = Refresh(s, d) /\ Abstract!Ready(s, d) = Ready(s, d)
BY DEF Abstract!Refresh, Abstract!Ready, Abstract!SkippedByPass, Abstract!SeenBy, Abstract!Rescan,
   Abstract!Satisfied, Abstract!StopsAt, Abstract!Stops, Abstract!MissingDep, Abstract!OpenTasks,
   Abstract!OpenState, Abstract!SkippedState, Abstract!ABSENT,
   Refresh, Ready, SkippedByPass, SeenBy, Rescan, Satisfied, StopsAt, Stops, MissingDep, OpenTasks,
   OpenState, SkippedState, ABSENT

LEMMA SamePrune ==
  ASSUME NEW s, NEW d, NEW S
  PROVE  Abstract!PruneTasks(s, d, S) = PruneTasks(s, d, S) /\ Abstract!OpenTasks(s) = OpenTasks(s)
BY DEF Abstract!PruneTasks, Abstract!Skip, Abstract!Descendants, Abstract!Dependents, Abstract!WaitsFor,
   Abstract!Known, Abstract!OpenTasks, Abstract!OpenState, Abstract!ABSENT,
   PruneTasks, Skip, Descendants, Dependents, WaitsFor, Known, OpenTasks, OpenState, ABSENT

\* Outside, a dag in which nothing is verified looks as it is.
LEMMA OutsideSame ==
  ASSUME NEW s \in [Task -> TaskState \cup {ABSENT}], \A t \in Task : s[t] # "VERIFYING"
  PROVE  Outside(s) = s
BY DEF Outside

\* Pruning looks the same from outside: it neither sees nor touches what runs.
LEMMA OutsidePrune ==
  ASSUME NEW s \in [Task -> TaskState \cup {ABSENT}], NEW d, NEW S
  PROVE  Outside(PruneTasks(s, d, S)) = PruneTasks(Outside(s), d, S) /\ OpenTasks(Outside(s)) = OpenTasks(s)
<1>1. Known(Outside(s)) = Known(s) /\ OpenTasks(Outside(s)) = OpenTasks(s)
  BY DEF Outside, Known, OpenTasks, OpenState, ABSENT
<1>2. \A D : Dependents(Outside(s), d, D) = Dependents(s, d, D)
  BY <1>1 DEF Dependents
<1>3. Descendants(Outside(s), d, S) = Descendants(s, d, S)
  BY <1>1, <1>2 DEF Descendants
<1>4. \A D : Outside(Skip(s, D)) = Skip(Outside(s), D)
  BY DEF Outside, Skip, OpenState
<1> QED BY <1>1, <1>3, <1>4 DEF PruneTasks
-----------------------------------------------------------------------------
\* The initial states look like initial states.
LEMMA InitImplements == Init => Abstract!InitWaves
<1> SUFFICES ASSUME Init PROVE Abstract!InitWaves
  OBVIOUS
<1>1. PICK p \in Plans : /\ state = [t \in Task |-> IF t \in p.tasks THEN "PENDING" ELSE ABSENT]
                         /\ deps = p.deps
  BY DEF Init
<1>2. Outside(state) = [t \in Task |-> IF t \in p.tasks THEN "PENDING" ELSE ABSENT]
  BY <1>1 DEF Outside, ABSENT
<1>3. Part(phase) = [t \in Task |-> "none"]
  BY DEF Init, Part
<1> QED BY <1>1, <1>2, <1>3 DEF Init, Abstract!InitWaves, Abstract!ABSENT, ABSENT, Outside, Part

\* Between two waves nothing is verified, so that the dag looks as it is.
LEMMA IdleOutside == ASSUME IInv, Idle PROVE Outside(state) = state /\ Abstract!Idle
<1>1. \A t \in Task : phase[t] = "none" /\ state[t] # "VERIFYING"
  BY DEF IInv, WorkerInv, AtRest, Idle, Dispatched
<1>2. Outside(state) = state
  BY <1>1, OutsideSame DEF IInv, TypeOK
<1> QED BY <1>1, <1>2 DEF Abstract!Idle

\* A scan of the dag looks like one.
LEMMA RefreshOutside ==
  ASSUME IInv, Idle, state' = Refresh(state, deps)
  PROVE  Outside(state') = Abstract!Refresh(Outside(state), deps)
<1>1. OpenStep(state, state')
  BY RefreshOpen DEF IInv, TypeOK
<1>2. \A t \in Task : state[t] # "VERIFYING"
  BY DEF IInv, WorkerInv, AtRest, Idle, Dispatched
<1>3. state' \in [Task -> TaskState \cup {ABSENT}] /\ \A t \in Task : state'[t] # "VERIFYING"
  BY <1>1, <1>2 DEF OpenStep, OpenState
<1>4. Outside(state') = state'
  BY <1>3, OutsideSame
<1> QED BY <1>4, IdleOutside, SameScan

LEMMA StartImplements == ASSUME IInv, StartWave PROVE Abstract!StartWave
<1>1. Outside(state) = state /\ Abstract!Idle /\ ~token
  BY IdleOutside DEF StartWave
<1>2. PICK D \in SUBSET Ready(state, deps) \ {{}} :
        /\ Abstract!ConflictFree(Ready(state, deps), D)
        /\ phase' = [t \in Task |-> IF t \in D THEN "queued" ELSE "none"]
  BY DEF StartWave
<1>3. Part(phase') = [t \in Task |-> IF t \in D THEN "queued" ELSE "none"]
  BY <1>2 DEF Part
<1>4. Outside(state') = Abstract!Refresh(Outside(state), deps)
  BY RefreshOutside DEF StartWave
<1>5. Abstract!Ready(Outside(state), deps) = Ready(state, deps)
  BY <1>1, SameScan
<1>6. UNCHANGED <<deps, retries, token>>
  BY DEF StartWave
<1> QED BY <1>1, <1>2, <1>3, <1>4, <1>5, <1>6 DEF Abstract!StartWave, Outside, Part

LEMMA ScanImplements == ASSUME IInv, EmptyScan PROVE Abstract!EmptyScan
<1>1. Outside(state) = state /\ Abstract!Idle /\ ~token
  BY IdleOutside DEF EmptyScan
<1>2. Outside(state') = Abstract!Refresh(Outside(state), deps)
  BY RefreshOutside DEF EmptyScan
<1>3. Abstract!Ready(Outside(state), deps) = {}
  BY <1>1, SameScan DEF EmptyScan
<1>4. UNCHANGED <<deps, retries, token, phase>>
  BY DEF EmptyScan
<1> QED BY <1>1, <1>2, <1>3, <1>4 DEF Abstract!EmptyScan, Outside

LEMMA EndImplements == ASSUME IInv, EndWave PROVE Abstract!EndWave
<1>1. ~Abstract!Idle
  BY DEF EndWave, Idle, Dispatched, Abstract!Idle
<1>2. \A t \in Task : phase[t] \in {"none", "done"}
  BY DEF EndWave, Dispatched, In
<1>3. Part(phase') = [t \in Task |-> "none"]
  BY DEF EndWave, Part
<1>4. UNCHANGED <<state, deps, retries, token>>
  BY DEF EndWave, dagVars
<1> QED BY <1>1, <1>2, <1>3, <1>4 DEF Abstract!EndWave, Part

\* A worker that takes its task up or settles it does so outside too.
LEMMA BeginImplements == ASSUME IInv, NEW t \in Task, Begin(t) PROVE Abstract!Activate(t)
<1>1. phase' = [phase EXCEPT ![t] = "setup"] /\ state' = [state EXCEPT ![t] = "RUNNING"] /\ phase[t] = "queued"
  BY DEF Begin
<1>2. /\ Part(phase') = [Part(phase) EXCEPT ![t] = "active"]
      /\ Outside(state') = [Outside(state) EXCEPT ![t] = "RUNNING"]
  <2>1. \A u \in Task : /\ phase'[u] = IF u = t THEN "setup" ELSE phase[u]
                       /\ state'[u] = IF u = t THEN "RUNNING" ELSE state[u]
    BY <1>1 DEF IInv, TypeOK
  <2> QED BY <2>1 DEF Part, Outside
<1>3. UNCHANGED <<deps, retries, token>>
  BY DEF Begin
<1> QED BY <1>1, <1>2, <1>3 DEF Abstract!Activate, Part, Outside

LEMMA Settles ==
  ASSUME IInv, NEW t \in Task, phase[t] \in {"decide", "raised"},
         NEW q \in {"prune", "done"}, phase' = [phase EXCEPT ![t] = q],
         NEW r \in TaskState \ {"VERIFYING"}, state' = [state EXCEPT ![t] = r], UNCHANGED <<deps, token>>
  PROVE  Abstract!Settle(t, r)
<1>1. /\ Part(phase') = [Part(phase) EXCEPT ![t] = "done"]
      /\ Outside(state') = [Outside(state) EXCEPT ![t] = r]
  <2>1. \A u \in Task : /\ phase'[u] = IF u = t THEN q ELSE phase[u]
                       /\ state'[u] = IF u = t THEN r ELSE state[u]
    BY DEF IInv, TypeOK
  <2> QED BY <2>1 DEF Part, Outside
<1>2. Part(phase)[t] = "active"
  BY DEF Part
<1> QED BY <1>1, <1>2 DEF Abstract!Settle, Part, Outside

LEMMA DecideImplements ==
  ASSUME IInv, NEW t \in Task, Decide(t) \/ (Collect(t) /\ phase[t] = "raised")
  PROVE  Abstract!Work(t)
<1>1. CASE DecideCancelled(t)
  <2>1. Abstract!Settle(t, "CANCELLED")
    BY <1>1, Settles DEF DecideCancelled, TaskState
  <2> QED BY <1>1, <2>1 DEF DecideCancelled, Abstract!Work, Abstract!Cancelled
<1>2. CASE DecideCompleted(t)
  <2>1. Abstract!Settle(t, "COMPLETED")
    BY <1>2, Settles DEF DecideCompleted, TaskState
  <2> QED BY <1>2, <2>1 DEF DecideCompleted, Abstract!Work, Abstract!Complete
<1>3. CASE DecideRetry(t)
  <2>1. Abstract!Settle(t, "READY")
    BY <1>3, Settles DEF DecideRetry, TaskState, OpenState
  <2> QED BY <1>3, <2>1 DEF DecideRetry, Abstract!Work, Abstract!Requeue
<1>4. CASE DecideFailed(t)
  <2>1. Abstract!Settle(t, "FAILED")
    BY <1>4, Settles DEF DecideFailed, TaskState
  <2> QED BY <1>4, <2>1 DEF DecideFailed, Abstract!Work, Abstract!GiveUp
<1>5. CASE Collect(t) /\ phase[t] = "raised"
  <2>1. Abstract!Settle(t, "FAILED")
    BY <1>5, Settles DEF Collect, TaskState
  <2> QED BY <1>5, <2>1 DEF Collect, Abstract!Work, Abstract!GiveUp
<1> QED BY <1>1, <1>2, <1>3, <1>4, <1>5 DEF Decide

LEMMA PruneImplements == ASSUME IInv, NEW t \in Task, PruneRedundant(t) PROVE Abstract!Prune(t)
<1>1. PICK S \in SUBSET OpenTasks(state) : state' = PruneTasks(state, deps, S)
  BY DEF PruneRedundant
<1>2. /\ Outside(state') = Abstract!PruneTasks(Outside(state), deps, S)
      /\ Abstract!OpenTasks(Outside(state)) = OpenTasks(state)
  <2>1. state \in [Task -> TaskState \cup {ABSENT}]
    BY DEF IInv, TypeOK
  <2>2. /\ Outside(PruneTasks(state, deps, S)) = PruneTasks(Outside(state), deps, S)
        /\ OpenTasks(Outside(state)) = OpenTasks(state)
    BY <2>1, OutsidePrune
  <2>3. /\ Abstract!PruneTasks(Outside(state), deps, S) = PruneTasks(Outside(state), deps, S)
        /\ Abstract!OpenTasks(Outside(state)) = OpenTasks(Outside(state))
    BY SamePrune
  <2> QED BY <1>1, <2>2, <2>3
<1>3. phase[t] = "prune" /\ phase' = [phase EXCEPT ![t] = "done"] /\ state[t] = "COMPLETED"
  BY DEF PruneRedundant, IInv, WorkerInv
<1>4. \A u \in Task : phase'[u] = IF u = t THEN "done" ELSE phase[u]
  BY <1>3 DEF IInv, TypeOK
<1>5. Part(phase') = Part(phase) /\ Part(phase)[t] = "done" /\ Outside(state)[t] = "COMPLETED"
  BY <1>3, <1>4 DEF Part, Outside
<1>6. UNCHANGED <<deps, retries, token>>
  BY DEF PruneRedundant
<1> QED BY <1>1, <1>2, <1>5, <1>6 DEF Abstract!Prune, Part, Outside

\* An exception after the completion overturns it outside too.
LEMMA LateImplements ==
  ASSUME IInv, NEW t \in Task, Collect(t), phase[t] = "late"
  PROVE  Abstract!Overturn(t)
<1>1. \A u \in Task : /\ phase'[u] = IF u = t THEN "done" ELSE phase[u]
                     /\ state'[u] = IF u = t THEN "FAILED" ELSE state[u]
  BY DEF Collect, IInv, TypeOK
<1>2. state[t] = "COMPLETED"
  BY DEF IInv, WorkerInv
<1>3. /\ Part(phase') = Part(phase)
      /\ Outside(state') = [Outside(state) EXCEPT ![t] = "FAILED"]
  BY <1>1 DEF Part, Outside
<1>4. Part(phase)[t] = "done" /\ Outside(state)[t] = "COMPLETED"
  BY <1>2 DEF Part, Outside
<1>5. UNCHANGED <<deps, retries, token>>
  BY DEF Collect
<1> QED BY <1>3, <1>4, <1>5 DEF Abstract!Overturn, Part, Outside

\* The rest of what a worker does cannot be seen.
LEMMA InsideStutters ==
  ASSUME IInv, NEW t \in Task,
         \/ Raise(t) \/ Execute(t) \/ Verify(t) \/ Merge(t) \/ MergeFails(t)
         \/ MergeConflicts(t) \/ PruneRaises(t)
  PROVE  UNCHANGED Abstract!waveVars
<1>1. PICK q \in {"verify", "merge", "decide", "raised", "late"} :
        phase' = [phase EXCEPT ![t] = q] /\ (q = "late" <=> phase[t] = "prune")
  BY DEF Raise, Execute, Verify, Merge, MergeFails, MergeConflicts, PruneRaises
<1>2. phase[t] \in {"setup", "verify", "merge", "prune"}
  BY DEF Raise, Execute, Verify, Merge, MergeFails, MergeConflicts, PruneRaises
<1>3. \A u \in Task : phase'[u] = IF u = t THEN q ELSE phase[u]
  BY <1>1 DEF IInv, TypeOK
<1>4. Part(phase') = Part(phase)
  BY <1>1, <1>2, <1>3 DEF Part
<1>5. Outside(state') = Outside(state)
  <2>1. CASE Execute(t)
    <3>1. state[t] = "RUNNING" /\ \A u \in Task : state'[u] = IF u = t THEN "VERIFYING" ELSE state[u]
      BY <2>1 DEF Execute, IInv, WorkerInv, TypeOK
    <3> QED BY <3>1 DEF Outside
  <2>2. CASE ~Execute(t)
    BY <2>2 DEF Raise, Verify, Merge, MergeFails, MergeConflicts, PruneRaises, dagVars
  <2> QED BY <2>1, <2>2
<1>6. UNCHANGED <<deps, retries, token>>
  BY DEF Raise, Execute, Verify, Merge, MergeFails, MergeConflicts, PruneRaises, dagVars
<1> QED BY <1>4, <1>5, <1>6 DEF Abstract!waveVars, Part, Outside

\* Every step of the scheduler is one of TaskWaves, or cannot be seen.
LEMMA StepImplements == IInv /\ [Next]_vars => [Abstract!NextWaves]_(Abstract!waveVars)
<1> SUFFICES ASSUME IInv, [Next]_vars PROVE Abstract!NextWaves \/ UNCHANGED Abstract!waveVars
  OBVIOUS
<1>1. CASE StartWave
  BY <1>1, StartImplements DEF Abstract!NextWaves, Abstract!WaveStep
<1>2. CASE EmptyScan
  BY <1>2, ScanImplements DEF Abstract!NextWaves, Abstract!WaveStep
<1>3. CASE EndWave
  BY <1>3, EndImplements DEF Abstract!NextWaves, Abstract!WaveStep
<1>4. CASE RequestCancel
  BY <1>4 DEF RequestCancel, Abstract!NextWaves, Abstract!RequestCancel, dagVars
<1>5. ASSUME NEW t \in Task, Worker(t) PROVE Abstract!NextWaves \/ UNCHANGED Abstract!waveVars
  <2>1. CASE Begin(t)
    BY <2>1, BeginImplements DEF Abstract!NextWaves, Abstract!WaveStep, Abstract!Work
  <2>2. CASE Decide(t) \/ (Collect(t) /\ phase[t] = "raised")
    BY <2>2, DecideImplements DEF Abstract!NextWaves, Abstract!WaveStep
  <2>4. CASE Collect(t) /\ phase[t] = "late"
    BY <2>4, LateImplements DEF Abstract!NextWaves, Abstract!WaveStep
  <2>3. CASE PruneRedundant(t)
    BY <2>3, PruneImplements DEF Abstract!NextWaves, Abstract!WaveStep
  <2> QED BY <1>5, <2>1, <2>2, <2>3, <2>4, InsideStutters DEF Worker, Collect
<1>6. CASE UNCHANGED vars
  BY <1>6 DEF vars, dagVars, Abstract!waveVars
<1> QED BY <1>1, <1>2, <1>3, <1>4, <1>5, <1>6 DEF Next

\* execute_ready_wave and its workers keep what TaskWaves promises, whatever
\* the threads of a wave do in which order.
THEOREM Refinement == Spec => Implements
BY InitImplements, StepImplements, Invariance, PTL DEF Spec, Implements, Abstract!Waves
=============================================================================

------------------------------ MODULE Workflow ------------------------------
(***************************************************************************)
(* A session of agent_orchestrator/orchestrator.py: the LangGraph nodes    *)
(* decompose, execute_subtask, reviewer and replan and the edges between   *)
(* them (mode "graph"), the loop of resume_workflow (mode "resume"), the   *)
(* EpistemicReplanner that rewrites the dag between waves, and the session *)
(* row and task rows of the SQLite store that survive a crash.             *)
(*                                                                         *)
(* node is what the orchestrator does next:                                *)
(*   decompose, execute, review, replan   enter that node                  *)
(*   wave      a wave is under way: the steps are those of TaskWaves       *)
(*   loop      top of the while loop of resume_workflow                    *)
(*   over      the call returned          crashed   process or call died   *)
(*   raised    execute_subtask read a key the scheduler did not return     *)
(*                                                                         *)
(* Discovery and understanding, which precede decompose and touch neither  *)
(* dag nor verdict, are done in Init.                                      *)
(***************************************************************************)
EXTENDS TaskWaves

CONSTANTS Remedies,       \* Remedies[i]: what the diagnostician may order in iteration i
          MaxIterations,  \* cfg.max_replan_iterations
          DefaultMax,     \* OrchestratorState.max_iterations, which nobody sets
          IterationCap,   \* bound: iterations counted before the counter saturates
          MaxResumes      \* bound: calls of resume_workflow

\* No plan is empty, decompose sees to that.  A remedy may name any ids, those
\* of older tasks included: the model that orders it chooses them.
ASSUME WorkflowAssumption ==
  /\ MaxIterations \in Nat /\ DefaultMax \in Nat /\ MaxResumes \in Nat
  /\ IterationCap \in Nat /\ MaxIterations <= IterationCap
  /\ \A p \in Plans : p.tasks # {}
  /\ \A i \in 1 .. IterationCap : \A r \in Remedies[i] :
       /\ r.tasks \in Seq(Task) /\ Len(r.tasks) > 0
       /\ r.deps \in [Task -> Seq(Task)]

Added(r) == {r.tasks[i] : i \in DOMAIN r.tasks}

VARIABLES node, mode,
          verdict, iteration,
          broke,      \* is the session's budget exceeded?
          lives,      \* history: how often add_task has put each id in the dag
          disk,       \* what load_session and load_tasks would return
          status,     \* TaskStatus the last call returned and saved
          resumes

flowVars == <<node, mode, verdict, iteration, broke, lives, disk, status, resumes>>
vars     == <<waveVars, flowVars>>

Ended   == {"over", "crashed", "raised"}
Nodes   == {"decompose", "execute", "wave", "review", "replan", "loop"} \cup Ended
Verdict == {"PASS", "FAIL", "UNDECIDED"}

FlowTypeOK ==
  /\ WaveTypeOK
  /\ node \in Nodes /\ mode \in {"graph", "resume"}
  /\ verdict \in Verdict /\ iteration \in 0 .. IterationCap
  /\ broke \in BOOLEAN
  /\ lives \in [Task -> Nat]
  /\ status \in {"none", "COMPLETED", "STOPPED", "FAILED", "INCOMPLETE", "NEED_VERIFICATION"}
  /\ resumes \in 0 .. MaxResumes
  /\ disk.state \in [Task -> TaskState \cup {ABSENT}]
  /\ disk.verdict \in Verdict /\ disk.iteration \in 0 .. IterationCap

\* The rows save_session writes, in one transaction, and the history they have.
Now == [state |-> state, deps |-> deps, retries |-> retries,
        verdict |-> verdict, iteration |-> iteration, lives |-> lives]

\* A session without tasks.
Blank == [state   |-> [t \in Task |-> ABSENT],
          deps    |-> [t \in Task |-> <<>>],
          retries |-> [t \in Task |-> 0],
          verdict |-> "UNDECIDED", iteration |-> 0,
          lives   |-> [t \in Task |-> 0]]

InitFlow ==
  /\ state = Blank.state /\ deps = Blank.deps /\ retries = Blank.retries
  /\ verdict = Blank.verdict /\ iteration = Blank.iteration /\ lives = Blank.lives
  /\ wave = [t \in Task |-> "none"]
  /\ token = FALSE /\ broke = FALSE
  /\ node = "decompose" /\ mode = "graph"
  /\ disk = Blank
  /\ status = "none" /\ resumes = 0

\* _persist_current_state swallows every error: it may leave the rows as they are.
Persist == disk' \in {disk, Now'}

\* Mutant of Restore: what has been counted is forgotten.
RestoreUncounted(d) ==
  /\ state' = d.state /\ deps' = d.deps /\ retries' = [t \in Task |-> 0]
  /\ verdict' = d.verdict /\ iteration' = 0 /\ lives' = d.lives
  /\ wave' = [t \in Task |-> "none"]

\* No wave is under way and the orchestrator works on d.
Restore(d) ==
  /\ state' = d.state /\ deps' = d.deps /\ retries' = d.retries
  /\ verdict' = d.verdict /\ iteration' = d.iteration /\ lives' = d.lives
  /\ wave' = [t \in Task |-> "none"]

\* The call is gone and the process memory with it: the rows are all there is.
Forget == Restore(disk)

\* add_task is called for every id of S.
Put(S) == lives' = [t \in Task |-> IF t \in S THEN lives[t] + 1 ELSE lives[t]]

\* Edge after execute_subtask; its get_ready_tasks works on a copy.
AfterSubtask ==
  IF ~AllCompleted(state) /\ Ready(state, deps) # {} THEN "execute" ELSE "review"

TerminalStatus(v) ==
  CASE v = "PASS"              -> "COMPLETED"
    [] v # "PASS" /\ iteration >= DefaultMax -> "STOPPED"
    [] v = "FAIL" /\ iteration < DefaultMax  -> "FAILED"
    [] OTHER -> IF AllCompleted(state) THEN "NEED_VERIFICATION" ELSE "INCOMPLETE"
-----------------------------------------------------------------------------
(***************************************************************************)
(* The graph.                                                              *)
(***************************************************************************)
Decompose ==
  /\ node = "decompose" /\ ~token
  /\ \E p \in Plans :
       LET planned == [t \in Task |-> IF t \in p.tasks THEN "PENDING" ELSE ABSENT]
       IN IF HasCycle(planned, p.deps)
          THEN node' = "crashed" /\ Forget /\ UNCHANGED disk
          ELSE /\ state' = planned /\ deps' = p.deps /\ Put(p.tasks)
               /\ node' = "execute"
               /\ UNCHANGED <<retries, wave, verdict, iteration>>
               /\ Persist
  /\ UNCHANGED <<token, mode, broke, status, resumes>>

\* A wave starts: execute_subtask, or the body of the resume loop, which does
\* not look at the budget.
Dispatch ==
  /\ \/ node = "execute" /\ ~broke
     \/ node = "loop" /\ ~AllCompleted(state)
  /\ StartWave
  /\ node' = "wave"
  /\ UNCHANGED <<mode, verdict, iteration, broke, lives, disk, status, resumes>>

\* Nothing is ready: the early return of execute_ready_wave has no entry
\* "task_decomposition", and reading it raises KeyError.
DispatchNothing ==
  /\ node = "execute" /\ ~broke
  /\ ~token /\ Ready(state, deps) = {}
  /\ node' = "raised"
  /\ Forget
  /\ UNCHANGED <<token, mode, broke, disk, status, resumes>>

\* Over budget execute_subtask returns at once and the edge decides; with
\* work left the graph comes back here until LangGraph's step limit raises.
DispatchBroke ==
  /\ node = "execute" /\ ~token /\ broke
  /\ node' = AfterSubtask
  /\ UNCHANGED <<waveVars, mode, verdict, iteration, broke, lives, disk, status, resumes>>

\* Mutant of InWave: every step of a worker is saved.
InWaveSaved ==
  /\ node = "wave"
  /\ \E t \in Task : Work(t) \/ Prune(t) \/ Overturn(t)
  /\ UNCHANGED <<node, mode, verdict, iteration, broke, lives, status, resumes>>
  /\ Persist

InWave ==
  /\ node = "wave"
  /\ \E t \in Task : Work(t) \/ Prune(t) \/ Overturn(t)
  /\ UNCHANGED flowVars

FinishWave ==
  /\ node = "wave"
  /\ EndWave
  /\ node' = IF mode = "graph" THEN AfterSubtask ELSE "loop"
  /\ UNCHANGED <<mode, verdict, iteration, broke, lives, status, resumes>>
  /\ Persist

\* Mutant of AtLimit: off by one.
AtLimitLate == iteration > MaxIterations

AtLimit == iteration >= MaxIterations

\* The reviewer's verdict, the edge after it, and in resume mode the end.
Review ==
  /\ node = "review" /\ ~token
  /\ verdict' \in Verdict
  /\ UNCHANGED <<waveVars, mode, iteration, broke, lives, resumes>>
  /\ IF mode = "resume" \/ verdict' = "PASS" \/ AtLimit
     THEN /\ node' = "over"
          /\ status' = TerminalStatus(verdict')
          /\ disk' = Now'
     ELSE /\ node' = "replan"
          /\ UNCHANGED status
          /\ Persist
-----------------------------------------------------------------------------
(***************************************************************************)
(* Re-planning.                                                            *)
(***************************************************************************)
NextIteration ==
  /\ iteration' = IF iteration < IterationCap THEN iteration + 1 ELSE iteration
  /\ node' = IF mode = "graph" THEN "execute" ELSE "loop"

\* Over budget: the iteration is counted and nothing else happens; a resumed
\* session is saved after every re-plan.
ReplanBroke ==
  /\ node = "replan" /\ ~token /\ broke
  /\ NextIteration
  /\ UNCHANGED <<waveVars, mode, verdict, broke, lives, status, resumes>>
  /\ IF mode = "resume" THEN Persist ELSE UNCHANGED disk

\* Mutant of Retriable: the limit is not checked.
RetriableAlways == Failed(state)

Retriable == {t \in Failed(state) : retries[t] < MaxRetries}

\* The circuit breaker for CONTRACT_MISMATCH and INFRASTRUCTURE_ERROR: failed
\* tasks with retries left run again; without any the dag stays as it is, and
\* the STOPPED this returns is read by no edge.
CircuitBreaker ==
  /\ node = "replan" /\ ~token /\ ~broke
  /\ state'   = [t \in Task |-> IF t \in Retriable THEN "READY" ELSE state[t]]
  /\ retries' = [t \in Task |-> IF t \in Retriable THEN retries[t] + 1 ELSE retries[t]]
  /\ NextIteration
  /\ UNCHANGED <<deps, wave, token, mode, verdict, broke, lives, status, resumes>>
  /\ Persist

Terminal(r) == r.tasks[Len(r.tasks)]
Primary(F)  == {t \in F : \A u \in F : t <= u}

\* Mutant of Rerouted: the first failed task only.
ReroutedFirst(F, r) == IF r.architectural THEN {} ELSE Primary(F)

\* The failed tasks whose dependents wait for r instead.
Rerouted(F, r) == IF r.architectural THEN {} ELSE F

\* Graft r onto the dag.  What waited for a failed task waits for the last
\* task of r, unless the failure is architectural: then it has been skipped.
\* The first failed task is retargeted before r is added, the others after.
\* add_task looks at no id: a task that had one of r's is replaced.
Injected(st, F, r) ==
  LET rerouted == Rerouted(F, r)
  IN [state |-> [t \in Task |-> IF t \in Added(r) THEN "PENDING"
                                ELSE Unblock(st, deps, rerouted)[t]],
      deps  |-> [t \in Task |->
                   IF t \in Added(r)
                   THEN Retarget(r.deps[t], rerouted \ Primary(F), Terminal(r))
                   ELSE Retarget(deps[t], rerouted, Terminal(r))]]

\* EpistemicReplanner.replan.  Open tasks stand for every name the diagnosis
\* may prune, as in Prune.
Remediate ==
  LET F == Failed(state)
  IN /\ node = "replan" /\ ~token /\ ~broke
     /\ iteration < IterationCap
     /\ \E r \in Remedies[iteration + 1], S \in SUBSET OpenTasks(state) :
          LET pruned == PruneTasks(state, deps, S)
              kept   == IF r.architectural THEN InvalidateDependents(pruned, deps, F)
                                           ELSE pruned
          IN /\ state'   = Injected(kept, F, r).state
             /\ deps'    = Injected(kept, F, r).deps
             /\ retries' = [t \in Task |-> IF t \in Added(r) THEN 0 ELSE retries[t]]
             /\ Put(Added(r))
     /\ NextIteration
     /\ UNCHANGED <<wave, token, mode, verdict, broke, status, resumes>>
     /\ Persist
-----------------------------------------------------------------------------
(***************************************************************************)
(* Cancellation, crash, resumption.                                        *)
(***************************************************************************)
\* throw_if_cancelled: run() catches it and marks the stored session STOPPED,
\* resume_workflow lets it out.
Cancel ==
  /\ token
  /\ \/ node \in {"decompose", "execute", "review", "replan"}
     \/ node = "loop" /\ ~AllCompleted(state) /\ Ready(state, deps) # {}
  /\ IF mode = "graph" THEN node' = "over" /\ status' = "STOPPED"
                       ELSE node' = "crashed" /\ UNCHANGED status
  /\ Forget
  /\ UNCHANGED <<token, mode, broke, disk, resumes>>

Crash ==
  /\ node \notin Ended
  /\ node' = "crashed"
  /\ Forget
  /\ UNCHANGED <<token, mode, broke, disk, status, resumes>>

AskCancel ==
  /\ node \notin Ended
  /\ RequestCancel
  /\ UNCHANGED flowVars

BudgetRunsOut ==
  /\ node \notin Ended
  /\ broke' = TRUE
  /\ UNCHANGED <<waveVars, node, mode, verdict, iteration, lives, disk, status, resumes>>

\* Mutant of Reconciled: whatever waits for nothing is READY.
ReconciledAny(d) ==
  [t \in Task |->
     IF \/ d.state[t] \in {"RUNNING", "VERIFYING"}
        \/ d.state[t] # ABSENT /\ Satisfied(d.state, d.deps[t])
     THEN "READY" ELSE d.state[t]]

\* reconcile_dag_for_resume: what was interrupted, or waited for nothing
\* unfinished, is READY.
Reconciled(d) ==
  [t \in Task |->
     IF \/ d.state[t] \in {"RUNNING", "VERIFYING"}
        \/ d.state[t] = "PENDING" /\ Satisfied(d.state, d.deps[t])
     THEN "READY" ELSE d.state[t]]

\* A fresh process resumes the session.  Rows are reconciled one by one, in
\* order, and the process may die in between.
Resume ==
  /\ node \in Ended /\ resumes < MaxResumes
  /\ resumes' = resumes + 1
  /\ token' = FALSE /\ broke' = FALSE
  /\ UNCHANGED status
  /\ IF Known(disk.state) = {}
     THEN Restore(Blank) /\ node' = "decompose" /\ mode' = "graph" /\ UNCHANGED disk
     ELSE \E n \in Task :
            LET fixed == [t \in Task |-> IF t <= n THEN Reconciled(disk)[t] ELSE disk.state[t]]
                whole == \A t \in Task : t <= n
                found == Refresh(fixed, disk.deps)
            IN /\ disk' = [disk EXCEPT !.state = fixed]
               /\ Restore([disk EXCEPT !.state = IF whole THEN found ELSE fixed])
               /\ mode' = "resume"
               /\ node' = CASE ~whole -> "crashed"
                            [] whole /\ AllCompleted(found) /\ verdict' = "PASS" -> "over"
                            [] OTHER  -> "loop"

\* The resume loop when it starts no wave.  It scans its dag, but what it
\* re-plans, reviews or saves is graph_state, which the scan does not touch.
LoopExit ==
  /\ node = "loop"
  /\ AllCompleted(state) \/ Ready(state, deps) = {}
  /\ CASE AllCompleted(state) -> node' = "review" /\ UNCHANGED <<status, disk>>
       [] ~AllCompleted(state) /\ Failed(state) # {} ->
            node' = "replan" /\ UNCHANGED <<status, disk>>
       [] OTHER ->
            IF AllCompleted(Refresh(state, deps))
            THEN node' = "review" /\ UNCHANGED <<status, disk>>
            ELSE node' = "over" /\ status' = TerminalStatus(verdict) /\ disk' = Now
  /\ UNCHANGED <<waveVars, mode, verdict, iteration, broke, lives, resumes>>
-----------------------------------------------------------------------------
Progress ==
  \/ Decompose \/ Dispatch \/ DispatchNothing \/ DispatchBroke
  \/ InWave \/ FinishWave \/ Review
  \/ ReplanBroke \/ CircuitBreaker \/ Remediate
  \/ Cancel \/ LoopExit

Next == Progress \/ Crash \/ AskCancel \/ BudgetRunsOut \/ Resume

(***************************************************************************)
(* The orchestrator goes on as long as it can: agents, reviewer and        *)
(* diagnostician run under timeouts, so every node returns or raises.      *)
(***************************************************************************)
Spec == InitFlow /\ [][Next]_vars /\ WF_vars(Progress)
-----------------------------------------------------------------------------
\* No task of d has been replaced by one of the same id.
Untouched(d) == \A t \in Task : d.lives[t] <= 1

\* What a crash leaves behind can be resumed without doing work on sand: rows
\* are only written between waves, so no task is stored half-way, and a task
\* stored COMPLETED has every stored dependency COMPLETED, re-planned
\* dependency lists included, unless a re-plan has replaced some task.
RecoverableDisk ==
  \A t \in Task :
    /\ disk.state[t] \notin {"RUNNING", "VERIFYING"}
    /\ Untouched(disk) /\ disk.state[t] = "COMPLETED" => Satisfied(disk.state, disk.deps[t])

\* Stored work is lost in one way only: no resumption, failed or late save,
\* late exception or re-plan turns a task stored COMPLETED into anything else,
\* but that add_task replaces an id it knows.
WorkIsKept ==
  [][\A t \in Task :
       disk.state[t] = "COMPLETED" /\ disk'.lives[t] = disk.lives[t]
         => disk'.state[t] = "COMPLETED"]_vars

\* Remediation opens the way: once EpistemicReplanner has grafted tasks on the
\* dag no older task that may still run waits for a failed one, whatever ids
\* the new ones took, and no older task that had run is touched.
RemedyUnblocks ==
  [][node = "replan" /\ (\E t \in Task : lives'[t] > lives[t])
       => \A t \in Known(state) :
            lives'[t] = lives[t] =>
              /\ t \in OpenTasks(state') => ~ WaitsFor(deps', Failed(state'), t)
              /\ t \notin OpenTasks(state) => state'[t] = state[t]]_vars

\* The re-plan limit holds in the graph, on every path through replan.
IterationsBounded == mode = "graph" => iteration <= MaxIterations

\* The limits survive a crash: whatever is lost, re-run or re-planned, the
\* stored iteration never goes back, nor do the stored retries of a task that
\* no other has replaced.
LimitsSurvive ==
  [][/\ disk'.iteration >= disk.iteration
     /\ \A t \in Task : disk'.lives[t] = disk.lives[t]
                           => disk'.retries[t] >= disk.retries[t]]_vars

\* resume_workflow reports a stored session with verdict PASS and every task
\* done as "already completed and verified": only a review makes it so.
Verified(d) == d.verdict = "PASS" /\ Known(d.state) # {} /\ AllCompleted(d.state)

OnlyReviewVerifies ==
  [][Verified(disk') /\ ~Verified(disk) => node = "review"]_vars

\* Within its budget every session that runs through the graph ends: waves,
\* retries, verdicts and re-plans cannot go round for ever.
GraphEnds == [](mode = "graph" => <>(node \in Ended \/ broke))
=============================================================================

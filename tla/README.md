# Formal models of agentsystem

TLA+ specifications of the core of this repository
(`src/agent_orchestrator`), the TLC configurations that model-check them, and
TLAPS proofs about each of the modelled components: every safety property that a run
checks is also a theorem, for every size of the system.  Paths below are relative to
`src/agent_orchestrator/` unless they start with `src/`.  `PROJECT.json` maps
every definition to the lines it stands for, every property to a mutation of
the code that breaks it, and lists the hazards and the findings.

    tlc -workers 2 -config scheduler.cfg MCWaveScheduler
    tlc -workers 2 -config mcp.cfg MCPManager
    tlapm WaveSchedulerProofs.tla

## 1. The system

A user request becomes a *session*.  The orchestrator asks agents (calls to a
language model) to discover, understand and decompose it into a graph of tasks,
runs the tasks in waves of threads, lets a reviewer judge the result and, if it
fails, lets a diagnostician re-plan.  Everything is stored in SQLite, so that a
crashed session can be resumed.

| Component | State it keeps | Operations | Interacts with | What is hard | What makes it correct |
|---|---|---|---|---|---|
| **Task graph** `runtime/task_graph.py` | `tasks`: a dict from id to task (state, dependencies, retries, attempts) | add, scan for ready tasks, mark, prune, invalidate, inject remedies, detect cycles | called by scheduler, orchestrator, re-planner, recovery; plain shared memory | a scan that writes while it reads, in dict order; unlocked mutation by threads | only what is built on finished work is ready; no task is orphaned |
| **Wave scheduler** `runtime/dag_scheduler.py` | the futures of one wave; per worker a sandbox, a verdict, an attempt record | `execute_ready_wave`, `_execute_single_task` | task graph, sandboxes, agents, verification pipeline, cancellation token | thread interleavings, exceptions out of workers, partial merges, cancellation between any two steps | barriers, conflict-free writers, retries bounded, nothing merged twice, the dag comes to rest |
| **Orchestrator workflow** `orchestrator.py` | the graph state: dag, verdict, iteration; the terminal status | the LangGraph nodes and edges, `run`, `resume_workflow`, `resume_task`, `cancel` | everything above and below | two drivers of the same nodes (graph and resume loop); swallowed errors; two re-plan limits | limits hold, sessions end, the reported status is earned |
| **Epistemic re-planner** `runtime/replan_engine.py` | none; rewrites the dag | `replan` | diagnostician (model output), task graph | rewrites a dag in which work has been done | what waited for a failure waits for its remedy; done work is kept |
| **Persistence and recovery** `persistence/state_store.py`, `recovery.py` | session row, task rows, messages | save, load, reconcile | orchestrator, message bus | a failed save is ignored; crash anywhere, also while reconciling | stored work rests on stored work; nothing goes backwards |
| **Workspace edits** `tools/workspace.py`, `tools/change_tracker.py`, `runtime/idempotency.py` | the files, a lock and a revision per file, the change journal, executed operation ids | write, edit by hash, delete, rename, patch; `has_executed`, `record` | tools of all agents, dispatcher | checks before the lock, two-file renames, directories moved as one, undoing a patch, calls repeated under their id | the journal is true, an id counts once, no blind overwrite |
| **Sandboxed workspace** `tools/workspace.py` | a copy of the workspace per task, base texts and hashes | clone, edit, `merge_into_main` | other sandboxes through the main workspace | clone without lock, file-wise merge under per-file locks | no edit lost, overlaps raise |
| **Transactions, checkpoints** `persistence/transaction.py`, `checkpoint_manager.py` | snapshot directories, active transactions | begin, commit, snapshot, roll back | workspace, re-planner, tools | file-by-file copies cut short by errors, crashes and other writers; directories found by name | a rollback restores exactly what the snapshot saw |
| **Cancellation** `runtime/cancellation.py` | a flag, callbacks, child sources | `cancel`, `throw_if_cancelled` | polled by graph, scheduler, agents | arrives between any two steps | no wave starts afterwards |
| **Budget** `cost/budget_tracker.py` | spending per session | `assert_budget` | execute and re-plan nodes | runs out between any two nodes | the session stops |
| **Background jobs** `runtime/background_jobs.py` | job records, threads | submit, cancel, collect | nothing calls it | late completion overwrites CANCELLED | a terminal status is final |
| **MCP clients** `mcp/circuit_breaker.py`, `mcp/manager.py`, `tools/unified_dispatcher.py` | circuit breaker and session per server | call, reconnect, health check, reset | external servers | late answers, lost trials of the half-open state, threads that restart one another's session and purge the index of tools others read | the breaker is consistent and closes again |
| **LLM resilience** `resilience/`, `llm.py` | endpoints with failures and cooldowns, throttler slots, request window | call, retry, compact, fail over | providers | double counting, sleeping with a slot held, candidates chosen once | calls return; healthy endpoints are asked |
| **Swarm** `swarm/`, `runtime/lifecycle_manager.py` | two registers of agents under two locks, token counts | spawn, delegate, hand off, suspend, resume, terminate | supervisor, tools of agents | delegation against termination, check-then-act, ids used again, a child registered before its parent | what is terminated stays so, with all that is linked below it; reported tokens are counted |
| **Messaging** `runtime/messaging.py`, `tools/communication_tools.py` | history, inboxes; rows in the store | send, publish, query, read, reload | agents, store | dual writes outside the lock, copies made by every save, reload after a crash | nothing that was stored is lost, nothing is twice in an inbox, answers after questions |
| **Agent loop, tool state machine, approval** `src/runtime/`, `runtime/approval_gate.py` | phase of a tool call, turn counters, pending requests | step, allow, ask, time out | agents, user | late answers, repair limits | phases in order, an answer counts once |
| Event bus, telemetry, tracing, registries, memory, code analysis, skills, security checks, server, gateway | see `PROJECT.json` | | | I/O, lookup or text processing; observes or transforms, decides little | |

Agents, model providers, tests of the generated project, LangGraph and the
operating system are outside: in the models their results are choices.

## 2. Modules

    TaskDAG            operators on the task graph
      TaskWaves        what the scheduler promises (abstract)
        Workflow       orchestrator, re-planner, store, recovery
          WorkflowProofs
      WaveScheduler    the scheduler, worker by worker; implements TaskWaves
        WaveSchedulerProofs
    SandboxMerge       sandboxes that clone, edit and merge
      SandboxMergeProofs
    WorkspaceEdits     the editing tools on the main workspace
      WorkspaceEditsProofs
    Checkpoints        snapshots, rollbacks, transactions, iteration baselines
      CheckpointsProofs
    CircuitBreaker     operators: the methods of the breaker
      MCPManager       calls, reconnections and health checks through it
        MCPManagerProofs
    LLMCalls           retry, failover, cooldown, throttling
      LLMCallsProofs
    Swarm              agents in their two registers
    Messaging          the message bus and its rows in the store
      AgentsProofs     about both: how agents live and talk
    MC*                constants for TLC

`Workflow` is composed on top of `TaskWaves` and `MCPManager` on top of
`CircuitBreaker`.  The other modules meet at interfaces: what `WaveScheduler`
calls merged is `SandboxMerge`, what `Workflow` calls re-planning rolls back as in
`Checkpoints`, and the tools of every agent are `WorkspaceEdits`.

### TaskDAG (task_graph.py)

No variables.  A dag is a function `state` from task numbers to states
(`ABSENT` when the id is not in the dict) and a function `deps` to sequences.
Task numbers follow the order of the dict.  `Refresh` is the rewriting that
`get_ready_tasks` does in one pass, in which a task sees what the pass wrote for
earlier ones and the old states of later ones; `Ready` is what the scan returns.
`PruneTasks`, `InvalidateDependents`, `Retarget`/`Unblock` and `HasCycle` are the
methods of the same purpose.

### TaskWaves (abstract scheduler)

Variables `state, deps, retries, wave, token`; `wave[t]` is a task's part in the
wave under way.  A wave takes a conflict-free set of ready tasks (`StartWave`
with the greedy partition `ConflictFree`); each is taken up once (`Activate`) and
settled once (`Complete`, `GiveUp`, `Cancelled`, `Requeue`), may then prune others,
and `EndWave` closes the wave when all are settled.  `Overturn` is the collector that marks a
task FAILED, COMPLETED though it may be, whose worker raised after settling it.  `Workflow` is composed
on top of this module, so its waves are the ones `WaveScheduler` is shown to
implement.

### WaveScheduler (dag_scheduler.py)

Adds `phase` (the program counter of each worker), `passed` (the verification
result), `attempts` and `last` (the attempt records), `merged`, and `pipeline` and `gate`
(the verification pipeline cached on the orchestrator, and what a worker has read
of it).  One action per
stretch of `_execute_single_task` between two points where another thread can be
observed: `Begin` (RUNNING and sandbox), `Execute` (agent), `Verify` (VERIFYING,
verdict, record), `Merge`/`MergeFails`/`MergeConflicts`, the four `Decide...`
branches, `PruneRedundant`; `Raise` is an exception out of the worker, `PruneRaises` the one
that `prune_tasks` throws after the merge on ids of a model that are no ids (phase
`late`), and `Collect` what the calling thread makes of either.  At most `MaxWorkers` tasks are past the
queue.  The handler of `MergeConflictError` itself raises an `AttributeError`,
and so does the model (`MergeConflicts` goes to `raised`).

The refinement mapping `Abstract` hides `VERIFYING` in `RUNNING` and folds the
phases into the four parts of `wave`.

### Workflow (orchestrator.py, replan_engine.py, recovery.py, state_store.py)

`node` is what the orchestrator does next; `mode` tells the LangGraph driver
from the loop of `resume_workflow`.  `disk` is what the session row and the task
rows hold; `lives` counts how often `add_task` has put each id into the dag (`Put`), since a
remedy may bring ids the dag has.  One action per node and outcome (`Decompose`, `Dispatch`, `DispatchNothing`,
`DispatchBroke`, `FinishWave`, `Review`, `CircuitBreaker`, `Remediate`, `ReplanBroke`),
each with the save its handler ends with (`Persist`: a save that fails is
swallowed) and the conditional edge it leads to.  `Cancel`, `Crash`, `AskCancel` and
`BudgetRunsOut` may come at any time, `Resume` is `resume_workflow` in a fresh
process, with the row-by-row reconciliation that may itself be cut short, and
`LoopExit` the body of its loop when it starts no wave.

### SandboxMerge (tools/workspace.py)

A text is a function from regions (stretches of lines with unedited lines
between them) to their last writer.  `List`, `Copy` and `ReadBase` are the clone,
in which a file is copied and then read again for its base; `Edit` is the agent's
work in the sandbox, as in `resume_task`, and `WriteMain` that of an agent of the wave
scheduler, whose tools are bound to the main workspace (`Direct` says which workers
are which); `MergeFile`/`RaiseConflict` merge one file under its lock.  The workers in `Rerun` find
their sandbox directory as a crashed run has left it, with files that main does not
have.  `origin`, `edits` and `landed` are history.

### WorkspaceEdits (tools/workspace.py, change_tracker.py, idempotency.py)

`disk` is the main workspace, `first`, `latest` and `rev` the change journal and the
revisions, `lock` the per-file locks, `done` the ledger of operation ids, `view` what
an agent read last.  A call goes through `revision` (the check before the lock),
`backup` (patches only), `lock` (and `second`, for a rename), `write` and `undo`; `LockFirst`,
`Put`, `Move`, `Conflict`, `Undo` and their like are what happens between two points where
another agent can be observed.  `SubmitTree` deletes or renames a directory: `Sweep`
removes its files one by one and `TreeDone` moves them at once, without their locks and
without the journal; `spoiled` collects the files.  A patch takes an operation id and neither
looks it up nor records it; `loose` collects such ids and those of overlapping calls.  What a caller passes is chosen where the call uses it.

### Checkpoints (checkpoint_manager.py, transaction.py, orchestrator.py)

`ws` is the workspace, `snap` and `made` the snapshot directories, `registry` the
transactions, `job` the snapshot or rollback under way, taken or put back one file
per step (`TakeFile`, `DeleteFile`, `RestoreFile`), with errors (`RestoreFails`),
crashes and writes of others in between.  `Baseline` and `Replan` are what
`_node_execute_subtask` and `_node_replan` do with the directory of the iteration,
`RollbackTool` the agents' tool.  `BaselineFails` is the swallowed error, after which the
iteration goes on without; after a `Crash` the node is `resume`, the loop that takes no
baseline, and `Replan` falls back to any snapshot there is (`missed` collects such
iterations).  A name may also be that of a directory (`Dir`), which `RestoreFile` copies
into.  Directories outlive crashes and sessions.

### CircuitBreaker, MCPManager (mcp/, unified_dispatcher.py)

`CircuitBreaker` has the methods as operators on a record.  In `MCPManager`
threads of three kinds share it: calls through the dispatcher (which looks at the
health of the server and asks `can_attempt` itself before the manager does), direct
calls, and health checks.  `pc` is a thread's place, `holds` the session it works on;
`Index` and `Name` are the two reads of `_tool_cache` in `call_tool`, between which `Stop` or
`Reindex` may purge it: a `KeyError` that is reported to nobody.
`Stop`, `Start`, `Connect`, `ConnectFails`, `Restarted` and `RestartLost` are `reconnect` with its retries.  `server`
changes as it likes (`Crash`, `Weather`).

### LLMCalls (resilience/, llm.py)

`fails` and `cooling` are the provider pool, `free` and `recent` the throttler, `call` the
loop of `execute` of each thread: endpoint, model, attempt, and how much compaction
has left of the messages.  Each class of errors has its action (`Overflow`, `NextModel`,
`RetryLater`, `ClientError`, `Unreachable`).  The window of the rate limit is waited for with the slot.

### Swarm (swarm/, runtime/lifecycle_manager.py)

`live` is the manager's register, `pool` that of the swarm with its `children`; `job`
is what a thread is in the middle of: between registering in one and the other,
between choosing an agent and taking it, between reading a token count and writing
it.  `killed` collects what a termination should have reached, `taken` what another
call had in hand then, `stray` the children that the pool could not link to their parent
when it registered them, and `stale` the delegations whose instance an agent spawned under the
same id has replaced.

### Messaging (runtime/messaging.py, state_store.py)

`history` and `inbox` are the bus, `sending` an agent's call of it between making
the message, delivering it under the lock and storing it after (`Compose`, `Deliver`,
`Store`, and `Answer` for a query), `rows` the table, `trace` the messages of the session
state, which `SaveSession` inserts again each time as broadcasts with fresh ids.
`ResumeWorkflow` loads everything back (`GetMessages` are the rows `InOrder` of their
times), after a crash at any point.  `cleared`, `delivered`, `unsaved` and `lost` are history: the messages whose recipient has emptied
its inbox, those put into one, those whose row could not be written, and of
these the ones a reload has lost.

## 3. Runs

| Run | Shows | Distinct states |
|---|---|---|
| `scheduler` | the scheduler's invariants, that it comes to rest, and that it implements `TaskWaves` | 91 thousand |
| `workflow` | two rounds of re-planning in the graph: dependencies, remediation, limit, termination | 242 thousand |
| `workflow_resume` | crash anywhere, failing saves, one resumption: what the store holds is sound and never goes back, but for tasks a remedy replaces | 2.6 million |
| `sandbox` | three workers, one writing to main: no merge undoes another's edit or overwrites what its worker had not seen, unless a clone was torn or its directory held old files | 2.2 million |
| `edits` | two agents edit two files at once with every tool: the journal is true, ids count once, no lock is left behind, no checked edit is blind, but where directories move | 1.6 million |
| `checkpoints` | rollbacks restore what was snapshot, re-plans undo their iteration, whatever crashes, errors and writers come in between | 2.5 million |
| `mcp` | breaker, trials and sessions shared by three threads: consistent, trials accounted for, closes again unless a trial was dropped | 48 thousand |
| `swarm` | terminations reach the lineage the pool has linked and stay, reported tokens are counted | 0.5 million |
| `llm` | slots come back, cooldowns follow failures, calls give up last and always return | 369 thousand |
| `messaging` | no stored message to one agent is lost, none is twice in an inbox, answers come after their questions, across crashes and reloads | 575 thousand |
| `scheduler_verdict` | *finding*: tasks verified in the sandbox of another task | violation |
| `workflow_verified` | *finding*: unreviewed work reported as completed and verified | violation |

What the less obvious properties say:

- `BuiltOnCompleted` is about running and finished tasks, not only about dispatch:
  between dispatch and completion other workers retry, fail and prune, and the
  worker checks nothing.
- `AttemptsMatchRetries` relates the attempt list to the retry counter, from which
  attempt numbers and snapshot names are made.
- `MergedOnce`: a task whose files are all in main is never run again, and it is FAILED
  only if the collector has overturned an attempt that was recorded COMPLETED.
  A task that raised or conflicted half-way may have *some* of its files in main;
  `merged` is only true of all of them.
- `RemedyUnblocks`: after a re-plan that grafted tasks no open task waits for a
  failed one and nothing that had run is changed, the tasks whose ids the remedy took excepted:
  of those nothing is left, and one may even wait for itself.
- `RecoverableDisk`, `WorkIsKept`, `LimitsSurvive` relate successive contents of the
  store across saves, failed saves, crashes and resumption.  They speak of tasks with the same
  `lives` before and after (`Untouched`: of sessions in which no id came twice), since
  `add_task` replaces a COMPLETED task of the id by a PENDING one with no retries used.
- `OverlapSeen` excepts torn clones, because `_sync_from_main` reads each file twice
  without a lock, and `NoLostEdit` (`Clean`) those and files that a crashed run of the
  task has left in the sandbox, which have no base and overwrite main.
- `JournalAgrees` and `NoBlindEdit` leave out files in `spoiled`: a rename replaces its
  target without a journal entry, the undo of a patch writes without a lock, and a directory
  takes its files along without either.
- `AppliedOnce` leaves out ids in `loose`: those of overlapping calls and of patches.
- `RollbackExact` is about snapshots that were written to their end while nobody
  wrote and with nothing left out (`whole`) and rollbacks nobody disturbed (`clean`, which a copy into a directory is not); what
  it says is that errors, crashes and half rollbacks *before* them leave no trace.
- `TrialsAccounted` gives every counted trial an owner who will report it; `Recovers`
  is liveness *provided* none was dropped.  A call through the dispatcher claims a
  trial twice and drops one whenever the breaker is half open, so that with
  `half_open_max_trials` 1 only other callers, or a reset, close it.  A `KeyError` out of the
  lookup of the tool drops one too.
- `IterationUndone` is about iterations that began with a baseline: in the graph, unless taking it
  failed, and not in the loop of `resume_workflow`.
- `KilledStaysDead` excepts agents another call had in hand at the time (`taken`), and asks
  of a cascade what the pool could link: a child registered before its parent (`stray`)
  survives the termination of the parent.
- `TokensCounted` compares with what executors reported, and excepts agents that two delegations
  worked with at once (`apart`).
- `CoolsAfterFailures` relates cooldowns to the count of failures.  It does not say how many network
  errors that are: each is counted twice.
- `IterationsBounded` is about the graph; the loop of `resume_workflow` has no bound.
- `DirectSurvives` follows every message that was delivered, through reloads that
  rebuild history and inboxes; excepted are the ones in `lost`.
- `QuestionFirst` orders by the times of `datetime.now()`, assumed to go forward.
- `FailsLast` is about endpoints available from the beginning of the call to its end.
- `DeliveredOnce` is about one listing of one inbox: a message that was read and cleared before a
  reload comes back with it.  It holds although the rows contain every message several times: the
  copies are broadcasts, and loaded broadcasts reach no inbox.

### Bounds

- `scheduler`: tasks 1..4 in six plans of at most three tasks: independent tasks
  (more than threads), write conflict, fan-in, chain, fan-out against the dict
  order, missing dependency; two threads, one retry.  A second retry repeats the
  first; four or more tasks add chains of the same links.
- `workflow*`: two planned tasks with a shared write target, and two more ids per
  round of remediation, which may instead take ids the session has.  `Rounds` is 2 where re-planning is the question (a second
  re-plan then rewrites what the first one grafted) and 1 where crashes are.
  `IterationCap` saturates the iteration counter one above the highest limit, so
  that exceeding a limit is visible and a loop without limit is finite;
  `MaxResumes` bounds the calls of `resume_workflow`.
- `sandbox`: three workers, one of which writes to main, once per file; one existing
  file with two regions, one file that may be created, or left by a crashed run in the sandbox of
  the worker that writes to main.  The two other workers and
  the regions are interchangeable (`SYMMETRY`; the run has no liveness property).
  Two regions tell a clean merge from a conflict, and the third worker can merge
  between the two reads of another.
- `edits`: two agents, two files (`MCSpec`: one of them exists at first, with either text), a
  directory with that one, one operation id, two calls, of which each may be any
  operation: every pair of operations meets at every step.  Agents and texts are interchangeable (`SYMMETRY`).
- `checkpoints`: a listed file and an unlisted one, two texts, one transaction, two
  sessions of one re-plan each, three events (enough to begin a transaction, roll it back in vain and
  try again); a third session adds nothing that the second does not find.
- `mcp`: one thread of each kind, threshold 3, one trial, two reconnections; the state is
  finite without further bounds.
- `llm`: three calls of two callers, two endpoints with two models, one slot; a call
  can meet every class of error at every attempt.
- `swarm`: three agents (a lineage of three) and three threads, all interchangeable, four operations: three
  spawns and what ends the lineage, or two spawns with two calls that meet.
- `messaging`: two agents, three messages or notes (a query, its answer, and one that
  comes in between), two saves and two resumptions (copies of copies).

Deadlock is not checked in most runs because these systems stop: a dag at rest, an ended
session, merged workers.

### Fairness

`WaveScheduler`: weak fairness of each worker, of starting and of ending a wave.
The thread pool runs what is submitted, the calls a worker makes have timeouts,
and the graph calls `execute_ready_wave` as long as something is ready.  Nothing
is assumed of cancellation.  `Workflow`: weak fairness of `Progress`, the
orchestrator's own steps; none of crashes, cancellation, budget or resumption.
`GraphEnds` is claimed for the graph and only while the session is within its
budget: over budget with work ready, `execute_subtask` is entered again and again
until LangGraph's step limit raises (in the model a `Crash`).

`MCPManager`: weak fairness of each thread's steps and of the breaker's timeout:
requests time out, and agents go on calling.  None of the server's.  `LLMCalls`: weak
fairness of each caller and of the passing minute; calls are finitely many, and the
semaphore is not assumed to be first come, first served.  The other modules
have no liveness property: `WorkspaceEdits` may deadlock (section 6), and in
`SandboxMerge`, `Swarm`, `Checkpoints` and `Messaging` nothing has to happen.

## 4. Proofs

`WaveSchedulerProofs` proves for every set of tasks, plans, targets, number of
retries and threads (assumptions `SchedulerAssumption` and, in `TaskDAG`,
`TaskAssumption`):

| Theorem | States |
|---|---|
| `Invariance` | `Spec => []IInv` |
| `TypeCorrect` | `[]TypeOK`, with it that retries stay within their limit |
| `DependenciesHold` | `[]BuiltOnCompleted` |
| `WritersAreDisjoint` | `[]DisjointWriters` |
| `HistoryAgrees` | `[]AttemptsMatchRetries` |
| `MergeIsFinal` | `[]MergedOnce` |
| `WavesAreBarriers` | `[]WaveLeavesNothingRunning` |
| `Refinement` | `Implements`: every step is one of `TaskWaves` or invisible to it |

None of these invariants is inductive: from `state[t] = "RUNNING"` alone nothing
follows about dependencies, since `Begin` looks at nothing.  `IInv` adds what each
phase of a worker implies of its task (`WorkerInv`: a task in `merge` has a passed
attempt on record and nothing merged, one in `decide` has merged exactly if it
passed, ...), what the dispatch of a wave establishes for all its tasks and no one
disturbs (`DispatchInv`: dependencies satisfied, targets disjoint), and that
completed tasks have satisfied dependencies.  `NobodyWaits` is needed for the late exception:
no task of the wave and no completed one depends on a task of the wave, so that overturning a
completed one takes nobody's ground away
(`LateIsNoDependency`).

The argument: three actions rewrite the dag as a whole (both scans and pruning),
but only open tasks and only to open or skipped states (`OpenStep`; lemmas
`RefreshOpen`, `PruneOpen` and `WholeDagSteps`).  Hence a task at work keeps what its phase
says (`WorkerStep`), a completed task stays completed (`CompletedStays`), satisfied
dependencies stay satisfied (`SatisfiedStays`), and the dispatch facts survive to
the end of the wave (`DispatchStep`).  `PartitionSeparates` is the one fact needed of
the greedy partition.

The second part of the module proves, from `IInv`, that the scheduler implements the
abstract one.  `Outside` is the dag and `Part` the place of a
worker as the refinement mapping shows them.  The scans and pruning do the same to a
dag and to what is seen of it (`SameScan`, `OutsidePrune`); of the steps of a worker only
taking up a task (`BeginImplements`), settling it (`Settles`, `DecideImplements`),
pruning (`PruneImplements`) and overturning (`LateImplements`) are visible, all others stutter (`InsideStutters`).

`WorkflowProofs` proves for any set of tasks, plans and remedies and any limits
(`WorkflowAssumption`, `WavesAssumption`: plans and remedies are not empty; nothing is asked of
their ids and dependencies):

| Theorem | States |
|---|---|
| `Invariance` | `Spec => []Inv` |
| `TypeCorrect` | `[]FlowTypeOK` |
| `Prepared` | `[]DependenciesComplete` |
| `LimitHolds` | `[]IterationsBounded` |
| `DiskHolds` | `[]RecoverableDisk` |
| `KeptWork` | `WorkIsKept`, about every step |
| `LimitsHold` | `LimitsSurvive`, about every step |
| `Unblocked` | `RemedyUnblocks`, about every step |

What is stored was in memory once, and what is in memory was loaded from the store or
has come further since.  So `Inv` says the same of both, that completed tasks rest on
completed ones as long as no id came twice (`Sound`), that memory is `Ahead` of the store in
every task with the same `lives`, and that nobody is at work on a stored task (`Still`);
`WaveInv` relates the dag to the wave under way, `NobodyWaits` and `NotStored` say that a task
whose completion may still be overturned is no one's dependency and is not in the store
yet, and `NodeInv` relates the place of the orchestrator to all of it.  A step either goes on with a dag
that has come further and may save it (`MovesOn`), or forgets what was not saved
(`ForgetSteps`); a re-plan is the first kind because it counts the ids it takes and otherwise
touches open tasks only (`RemediateDag`), and so is the reconciliation of a resumed
session (`OpenRows`).

For `Unblocked` (`RemediateOpens`), retargeting leaves no list of an older task with a failed
one in it but for the new terminal task, which has not failed; after an architectural failure
what is still open is no descendant of a failed task (`InvalidatedWaitNot`); whatever else may
happen in place of a re-plan adds no task (`OnlyRemediesAdd`).  The tasks of the remedy themselves
may wait for anything, and the theorem says nothing of them.

`MCPManagerProofs` proves for any number of threads of each kind, threshold,
trials and reconnections (`BreakerAssumption`, `ThreadAssumption`):

| Theorem | States |
|---|---|
| `Invariance` | `Spec => []Inv` |
| `TypeCorrect` | `[]TypeOK`, with it that the trials stay within `MaxTrials` |
| `Consistency` | `[]BreakerConsistent` |
| `Accounting` | `[]TrialsAccounted` |

That a thread reports every trial it holds does not follow from the breaker.
`Inv` adds that the holders are at places from which they report or drop what they hold (`HolderInv`), that a
thread which reconnects holds none, because the failure that made it reconnect
has ended the period (`ReconnectInv`), that only the dispatcher's calls go through it
(`DispatchInv`), and that outside a half-open period nothing is counted (`CountInv`).
The lemmas follow the code: what each method of the breaker leaves of a sound one
(`BreakerMethods`, `BreakerRefresh`), what that does to the counts (`BreakerSteps`,
`AskSteps`, `DropSteps`), what a thread's other steps do (`ThreadSteps`), and one case per step (`StepKeeps`).

`CheckpointsProofs` proves for any set of files, texts and transactions and any
number of iterations, sessions and events (`CheckpointAssumption`):

| Theorem | States |
|---|---|
| `Invariance` | `Spec => []Inv` |
| `TypeCorrect` | `[]TypeOK` |
| `Exactness` | `[]RollbackExact` |
| `Undoing` | `[]IterationUndone` |

The properties speak of the moment a rollback ends.  `Inv` says how far an undisturbed
snapshot or rollback has come at each file (`JobInv`), that a whole snapshot holds what
it saw and is not written over (`WholeInv`), who may be at work on which directory
(`CallerInv`), and that in the first session an iteration has its baseline, taken before anything was
written in it, or is among those that `missed` it (`BaselineInv`).  `IterationBegins` is the step
all of them share.

`SandboxMergeProofs` proves for any number of workers, files and regions
(`MergeAssumption`: a text has at least one region):

| Theorem | States |
|---|---|
| `Invariance` | `Spec => []Inv` |
| `NothingLost` | `[]NoLostEdit` |
| `NothingUnseen` | `OverlapSeen`, about every step |

What a merge does depends on three texts read at three times.  `Inv` says how they are
related: how far the clone of a file has come (`CloneInv`), that a sandbox holds what was
copied, what its worker wrote or what was left in it (`TextInv`), that an edit is in the main workspace or in
a sandbox still to be merged (`EditInv`), and that only what a worker wrote has its name
on it, in the main workspace and in every copy of it (`LandInv`).

`LLMCallsProofs` proves for any finite set of callers and any number of endpoints,
models, retries, slots and requests (`CallsAssumption`):

| Theorem | States |
|---|---|
| `Invariance` | `Spec => []Inv` |
| `TypeCorrect` | `[]TypeOK`, with it that no path leaks a slot of the throttler |
| `CoolsHold` | `[]CoolsAfterFailures` |
| `FailsLastHolds` | `FailsLast`, about every step |

`SlotInv` counts the callers that hold a slot; `SlotsMove` shows that a step which moves
one caller moves the count with it.  `TriedInv` says where an endpoint can be that
was available since the call began: asked, being asked, or before it.  Each action
is one lemma, reduced by `StepOfCall` to the record its caller moves to.

`WorkspaceEditsProofs` proves for any set of agents, files, texts and operation ids and any
number of calls (`EditsAssumption`: there is a file, and no agent is called as a free
lock is):

| Theorem | States |
|---|---|
| `Invariance` | `Spec => []Inv` |
| `TypeCorrect` | `[]TypeOK` |
| `JournalIsTrue` | `[]JournalAgrees` |
| `OncePerId` | `[]AppliedOnce` |
| `NoLockLeft` | `[]LocksReleased` |
| `SeenBeforeEdit` | `NoBlindEdit`, about every step |

`LocksReleased` says who may hold a lock, and nothing of a call that has none.  `AgentInv`
adds the converse: an agent that writes has its locks, the text it found under them is
still that of the disk, and is what it read if it passed a hash.  The journal is
true of a file even while it is locked (`Truth`), because a write is one step under the
lock, and an id is counted only by the one call that carries it (`OpInv`).  The steps of a
call are of three kinds: before any lock (`ReadSteps`, `SubmitSteps`), taking and checking
(`LockFirst`, `Validate`), and leaving the file, with or without a write (`Leaves`,
`Records`).  What happens to a directory spoils its files (`Spoils`), of which nothing is claimed
any more; `OthersKeep` says what each owes to the other agents.

`AgentsProofs` proves, for any number of agents, threads and operations
(`SwarmAssumption`: no agent or thread is called as none is), of `Swarm`:

| Theorem | States |
|---|---|
| `Invariance` | `Spec => []Inv` |
| `TypeCorrect` | `[]TypeOK`, with it that only a resumption keeps the manager's lock |
| `DeadStay` | `[]KilledStaysDead` |
| `TokensHold` | `[]TokensCounted` |

That a killed agent is terminated once nobody has it in hand does not say who could take
it in hand again.  `KillInv` does: the thread that is still terminating it, or nobody,
and then it is TERMINATED, the state no step leaves but one that takes it in hand, asks
for it by name or spawns it anew.  That a termination reaches the lineage rests on `FamilyInv`: a child
that is not a stray is in the list of a parent that is in the pool
(`RegisterKeepsFamily` for an agent that is registered, `FamilyKeeps` for all else).  `PresentInv`
keeps an agent that is in no register out of every set, and `TokenInv` says that one thread at a time works
with the instance in the pool, and has read the count that is still there.

And for any set of agents and any number of messages, notes, saves and resumptions
(`MessagingAssumption`: no agent has the name of the broadcast), of `Messaging`:

| Theorem | States |
|---|---|
| `BusInvariance` | `BusSpec => []BusInv` |
| `DirectWaits` | `[]DirectSurvives` |
| `NoneTwice` | `[]DeliveredOnce` |
| `AnswerLast` | `[]QuestionFirst` |

`LedgerInv` says of every message that was delivered that it waits (`Survives`), and that its row
exists, is about to be written or never will be (`Recorded`); the second is what the first
needs after a reload.  A resumed bus is made of the rows alone, so `RowInv` says of them what the properties say of
history and inboxes, and that a row of a message to one agent has the message's own
id: there is one, whatever was saved again.  `CallInv` keeps a message that is being
delivered out of all of them, so that delivering or storing it puts it there once.  That
`get_messages` returns every row once and in the order of times is proved from the number
of rows before each (`RankGrows`, `Ranked`, `Ordered`); `Loaded` is what it makes of the
inboxes.

Model-checked only: liveness (`ComesToRest`, `GraphEnds`, `Recovers`, `CallsReturn`), which
needs induction over fairness and `ENABLED`, and is beyond this prover.  The
two findings are counterexamples of TLC.

## 5. Abstractions

- Names that the agents may prune are represented by open tasks: what a name
  prunes is determined by the open tasks among it and its descendants.
- `Workflow` starts after discovery and understanding, which change neither dag nor
  verdict.  Publishing events cannot fail: its errors are caught.
- The ids and dependencies of a remedy are any: those of the re-planner's own pair carry
  the number of the iteration, those of a branch are a model's (`runtime/replan_engine.py:157`).
  The runs include remedies that take the id of a completed, failed or open task.
- The rows of a session are one record written in one transaction.
  `load_tasks` orders tasks by id, so a resumed dag may be scanned in
  another order; tasks here are numbered, and keep their order.
- In `WaveScheduler` the content of a sandbox is only "merged or not"; how texts
  merge is `SandboxMerge`.  Deletions made in a sandbox are not merged by the code,
  nor by the model.
- A verdict does not depend on which sandbox it was found in; `gate` only records
  which one that was.
- `DecideCancelled` models the token; a result of status CANCELLED comes from it.
- Writes of single files are atomic.
- Verification, review and diagnosis are choices.  A reviewer may say PASS with
  tasks failed, since nothing in the code prevents it.
- `MCPManager`: a bare tool name is unknown while a restart has purged the index of
  tools; full names are always resolved, and only they are modelled.
- `LLMCalls`: time is left out; a cooldown, a backoff and the minute end at some point.
- `Swarm`: roles are left out: a delegation takes a READY agent or finds none.  An id may be used
  again by a spawn, as its `agent_id` argument allows, and a parent need not be known to the
  pool; that nobody becomes its own ancestor is assumed, since `terminate_agent` would not return.
  A token stands for whatever number an executor reports.
- `WorkspaceEdits`: matching of text in edits is left out, an edit may be refused.  The lock and
  journal entry of a directory's own name are left out: no file has that name.
- `Checkpoints`: a directory in place of a file is `Dir`, without what is in it.
- `SandboxMerge`: what a crashed run left in a sandbox is of unknown origin; `merge_into_main`
  takes it for work of the task.
- `Messaging`: timestamps are distinct and go forward.  `ResumeWorkflow` is one step:
  `load_history_from_store` reads the rows before it takes the bus lock, but
  `resume_workflow` calls it before any agent of the session runs.  One session; a second `run` of the same
  orchestrator would find the inboxes of the first.

### Not modelled, and why

`resume_task`, the age-based cleanup and diagnosis reports of recovery; steps, events,
traces and runtimes in the store; `copy_file`; manifests in the artifact store; the
index of MCP tools; blackboard, votes and coordinator of the swarm; callbacks and
child tokens of cancellation.  `BackgroundJobManager` has no caller.  The agent loop and
the tool state machine are sequential code around one model call.  Permission and
policy checks are choices in the models.  Text processing, prompts,
parsing, scoring, registries, HTTP, the MCP servers, process and
file-system I/O and telemetry transform or observe data and decide little; they
are most of the lines of the repository, and no state machine.

## 6. Disagreements

Two have a run (`scheduler_verdict`, `workflow_verified`).  Met while modelling, part
of the models, and without a run of their own:

- The handler of `MergeConflictError` reads an attribute that the exception does not
  have and raises `AttributeError` (`runtime/dag_scheduler.py:511`).
- `prune_tasks` builds a set from what the model calls redundant tasks; a list or dict among them
  raises a `TypeError` after the files were merged and the task COMPLETED, and the collector
  marks it FAILED (`runtime/task_graph.py:815`, `runtime/dag_scheduler.py:728`).
- A remediation task whose id the dag has replaces that task, a COMPLETED one
  included, with none of its retries used; its dependents wait again, and the default verification task may
  come to depend on itself (`runtime/replan_engine.py:157`, `runtime/task_graph.py:648`; the
  example in the prompt always has the id `T-FIX-1`, `runtime/diagnostics.py:206`).
- Tasks behind a blocked one stay PENDING for ever when the dict lists them before it
  (`runtime/task_graph.py:685`; its docstring says otherwise).
- The halt of the circuit breaker in the graph leads to an edge that does not exist: a
  `KeyError` (`orchestrator.py:897`, `1288`).
- The loop of `resume_workflow` re-plans without limit (`orchestrator.py:1892`).
- Overlapping edits merge without a conflict when the clone was torn, or when both
  workers created the file (`tools/workspace.py:1662`, `1701`).
- A session that finds the baseline directory of an earlier one takes it for its
  own, and a re-plan then restores that (`orchestrator.py:863`).
- The undo of a patch writes stale backups over what other agents wrote
  meanwhile (`tools/workspace.py:1093`).
- Deleting or renaming a directory changes the files in it without their locks, and neither journal nor
  revisions nor version checks know of it (`tools/workspace.py:682`, `806`).
- `apply_patch` takes an operation id that it neither looks up nor records: a repeated patch is
  applied again (`tools/workspace.py:874`).
- A sandbox directory that a crash has left is looked for in another place than
  where sandboxes are made, so the next run of the task merges what is in it
  (`persistence/recovery.py:342`, `tools/workspace.py:1593`).
- A rollback that finds a directory in place of a file copies the file into it and reports
  `ROLLBACK_SUCCESS` (`persistence/checkpoint_manager.py:170`).
- Errors of the baseline are swallowed and the loop of `resume_workflow` takes none; a re-plan
  then rolls back to the last snapshot of any kind (`orchestrator.py:874`, `1203`, `1887`).
- Two renames in opposite directions wait for each other's lock for ever (`tools/workspace.py:779`).
- The dispatcher claims the trial of a half-open breaker, the manager asks again and
  is refused, and nobody reports the first claim: the breaker stays HALF_OPEN
  although the server answers (`tools/unified_dispatcher.py:218`, `mcp/circuit_breaker.py:90`).
- `call_tool` looks a name up in the index of tools twice; if another thread purges the index in
  between, a `KeyError` leaves it and a trial of the half-open breaker is
  never reported (`mcp/manager.py:565`).
- A child registered while its parent is live but not yet in the pool is linked to nobody, and
  survives the termination of the parent (`runtime/lifecycle_manager.py:143`,
  `swarm/lifecycle.py:138`); an agent may be spawned under the id of a terminated one
  (`runtime/lifecycle_manager.py:72`).
- What an executor has used before it raises is not counted (`swarm/delegation.py:180`).
- A delegation that ends makes its agent READY even if it has been terminated
  meanwhile (`swarm/delegation.py:189`).
- Compaction uses up an attempt: after the last one the compacted messages are
  never sent (`resilience/resilient_caller.py:124`).
- A direct message whose row could not be written, or that was delivered just before a crash, is gone
  after a resumption; one that was read and cleared comes back (`runtime/messaging.py:117`, `172`).
- Every save of a session inserts its messages again, so that a resumed session's
  history grows with each save, and direct messages come back as broadcasts
  (`persistence/state_store.py:545`).

## 7. Plan

Left, in this order:

1. **`resume_task`** in `Workflow`, with a property over the terminal status.
2. **Sessions one after another** in one orchestrator: what bus, breaker and baselines
   keep of the earlier one.
3. **`ToolStateMachine`** (`src/runtime/`), if a second thread ever drives it.

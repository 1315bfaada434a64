---------------------------- MODULE Checkpoints ----------------------------
(***************************************************************************)
(* Snapshots of the main workspace and their users:                        *)
(* WorkspaceCheckpointManager (persistence/checkpoint_manager.py),         *)
(* WorkspaceTransactionManager (persistence/transaction.py), the iteration *)
(* baselines of the orchestrator and the tool rollback_to_checkpoint.      *)
(*                                                                         *)
(* A snapshot is a directory that outlives the process.  It is written,    *)
(* and rolled back to, file by file; a process may die between two files   *)
(* and other agents may write meanwhile.                                   *)
(***************************************************************************)
EXTENDS Naturals

CONSTANTS File,         \* numbered in the order list_files sorts them
          Listed,       \* the files WorkspaceManager.list_files shows (no images, venv, ...)
          Text,
          Tx,           \* names of transactions
          MaxIteration, \* bound: re-plans of a session
          MaxSession,   \* bound: sessions in one workspace
          MaxEvents     \* bound: writes, calls of the tool and the transaction manager, crashes, new sessions

ASSUME CheckpointAssumption ==
  /\ Listed \subseteq File /\ File \subseteq Nat /\ Text \cap {"absent", "directory"} = {}
  /\ \A t \in Tx : t \notin Nat /\ t \notin {"none", "baseline", "replan", "tool"}
  /\ MaxIteration \in Nat /\ MaxSession \in Nat \ {0} /\ MaxEvents \in Nat

Absent    == "absent"
Dir       == "directory"   \* a directory has the name
Id        == (0..MaxIteration) \cup Tx
Tree      == [File -> Text \cup {Absent, Dir}]
Copies    == [File -> Text \cup {Absent}]
Empty     == [f \in File |-> Absent]
Files(t)  == {f \in File : t[f] \in Text}

\* A tree as one sees it who looks at files alone.
Plain(t)  == [f \in File |-> IF t[f] = Dir THEN Absent ELSE t[f]]

VARIABLES ws,        \* the workspace
          snap,      \* the directory of each snapshot
          made,      \* the directories that exist
          registry,  \* _active_transactions: active, or failed (rolled back, but not to the end)
          job,       \* the call in progress
          node, session, iteration,   \* what the orchestrator is at
          events,    \* counted for MaxEvents
          want,      \* history: the workspace when the last snapshot of an id was begun
          began,     \* history: the workspace when the iteration began
          missed,    \* history: iterations that had work done without a baseline
          whole      \* history: ids whose last snapshot was written to its end into a new directory,
                     \*   while nobody wrote, of a workspace without unlisted files

vars == <<ws, snap, made, registry, job, node, session, iteration, events, want, began, missed, whole>>

\* by: who calls.  clean: the directory was new, no file was left out, and nobody wrote meanwhile.
Job == [op : {"none", "take", "delete", "restore", "done"}, id : Id,
        by : {"none", "baseline", "replan", "tool"} \cup Tx,
        todo : SUBSET File, clean : BOOLEAN]

NoJob == [op |-> "none", id |-> 0, by |-> "none", todo |-> {}, clean |-> TRUE]

Init ==
  /\ ws \in Copies
  /\ snap = [i \in Id |-> Empty] /\ made = {}
  /\ registry = [t \in Tx |-> "none"]
  /\ job = NoJob
  /\ node = "execute" /\ session = 1 /\ iteration = 0
  /\ events = 0
  /\ want = [i \in Id |-> Empty] /\ began = ws /\ missed = {} /\ whole = {}

Idle == job.op = "none"
Event == events < MaxEvents /\ events' = events + 1
Orchestrator == <<node, session, iteration, began, missed>>
-----------------------------------------------------------------------------
(***************************************************************************)
(* create_snapshot: an existing directory is written over                  *)
(***************************************************************************)
\* Mutant of StartSnapshot: the directory is made with the first copy.
StartSnapshotLazy(i, by) ==
  /\ job' = [op |-> "take", id |-> i, by |-> by, todo |-> Files(ws) \cap Listed, clean |-> i \notin made]
  /\ made' = IF Files(ws) \cap Listed = {} THEN made ELSE made \cup {i}
  /\ want' = [want EXCEPT ![i] = ws]
  /\ whole' = whole \ {i}

StartSnapshot(i, by) ==
  /\ job' = [op |-> "take", id |-> i, by |-> by, todo |-> Files(ws) \cap Listed, clean |-> i \notin made]
  /\ made' = made \cup {i}
  /\ want' = [want EXCEPT ![i] = ws]
  /\ whole' = whole \ {i}

\* Read the next file of the sorted list and write its copy.  One that is gone or cannot be read is left out.
TakeFile(f) ==
  /\ job.op = "take" /\ f \in job.todo /\ \A g \in job.todo : f <= g
  /\ \/ /\ ws[f] \in Text
        /\ snap' = [snap EXCEPT ![job.id][f] = ws[f]]
        /\ job' = [job EXCEPT !.todo = @ \ {f}]
     \/ job' = [job EXCEPT !.todo = @ \ {f}, !.clean = FALSE] /\ UNCHANGED snap
  /\ UNCHANGED <<ws, made, registry, events, want, whole>> /\ UNCHANGED Orchestrator

EndSnapshot ==
  /\ job.op = "take" /\ job.todo = {}
  /\ job' = NoJob
  /\ whole' = IF job.clean /\ Files(want[job.id]) \subseteq Listed THEN whole \cup {job.id} ELSE whole
  /\ registry' = IF job.by \in Tx THEN [registry EXCEPT ![job.by] = "active"] ELSE registry
  /\ node' = IF job.by = "baseline" THEN "wave" ELSE node
  /\ UNCHANGED <<ws, snap, made, events, want, session, iteration, began, missed>>
-----------------------------------------------------------------------------
(***************************************************************************)
(* rollback_to_checkpoint: delete what the snapshot does not have, then    *)
(* copy all that it has                                                    *)
(***************************************************************************)
\* Mutant of StartRollback: only listed files are looked for in the workspace.
StartRollbackListed(i, by) ==
  job' = [op |-> "delete", id |-> i, by |-> by,
          todo |-> (Files(ws) \cap Listed) \ Files(snap[i]), clean |-> TRUE]

StartRollback(i, by) ==
  job' = [op |-> "delete", id |-> i, by |-> by, todo |-> Files(ws) \ Files(snap[i]), clean |-> TRUE]

\* An error of os.remove is swallowed.
DeleteFile(f) ==
  /\ job.op = "delete" /\ f \in job.todo
  /\ \/ ws[f] # Dir /\ ws' = [ws EXCEPT ![f] = Absent] /\ job' = [job EXCEPT !.todo = @ \ {f}]
     \/ job' = [job EXCEPT !.todo = @ \ {f}, !.clean = FALSE] /\ UNCHANGED ws
  /\ UNCHANGED <<snap, made, registry, events, want, whole>> /\ UNCHANGED Orchestrator

StartRestore ==
  /\ job.op = "delete" /\ job.todo = {}
  /\ job' = [job EXCEPT !.op = "restore", !.todo = Files(snap[job.id])]
  /\ UNCHANGED <<ws, snap, made, registry, events, want, whole>> /\ UNCHANGED Orchestrator

\* Where a directory has the name of the file, the copy goes into it and the call goes on.
RestoreFile(f) ==
  /\ job.op = "restore" /\ f \in job.todo
  /\ \/ ws[f] # Dir /\ ws' = [ws EXCEPT ![f] = snap[job.id][f]] /\ job' = [job EXCEPT !.todo = @ \ {f}]
     \/ ws[f] = Dir /\ job' = [job EXCEPT !.todo = @ \ {f}, !.clean = FALSE] /\ UNCHANGED ws
  /\ UNCHANGED <<snap, made, registry, events, want, whole>> /\ UNCHANGED Orchestrator

\* The call is about to report success.
EndRestore ==
  /\ job.op = "restore" /\ job.todo = {}
  /\ job' = [job EXCEPT !.op = "done"]
  /\ UNCHANGED <<ws, snap, made, registry, events, want, whole>> /\ UNCHANGED Orchestrator

\* After a re-plan.  In the loop of a resumed session no baseline is taken any more.
NextIteration ==
  /\ iteration' = iteration + 1 /\ began' = ws
  /\ IF node = "resume"
       THEN missed' = missed \cup {iteration + 1} /\ UNCHANGED node
       ELSE node' = "execute" /\ UNCHANGED missed

\* The caller takes note of the end of a rollback: the transaction is struck
\* off, or found rolled back next time if the rollback raised; the re-planner
\* only logs a warning then, and the next iteration begins.
Close(how) ==
  /\ job' = NoJob
  /\ registry' = IF job.by \in Tx /\ registry[job.by] # "none" THEN [registry EXCEPT ![job.by] = how] ELSE registry
  /\ IF job.by = "replan" THEN NextIteration ELSE UNCHANGED <<node, iteration, began, missed>>
  /\ UNCHANGED <<ws, snap, made, events, want, whole, session>>

Report == job.op = "done" /\ Close("none")

\* shutil.copy2 raises, between any two files.
RestoreFails == job.op = "restore" /\ job.todo # {} /\ Close("failed")
-----------------------------------------------------------------------------
(***************************************************************************)
(* The orchestrator                                                        *)
(***************************************************************************)
\* _node_execute_subtask takes the baseline of the iteration unless a directory
\* of that name is there.
Baseline ==
  /\ Idle /\ node = "execute"
  /\ IF iteration \in made
       THEN node' = "wave" /\ UNCHANGED <<made, job, want, whole>>
       ELSE StartSnapshot(iteration, "baseline") /\ UNCHANGED node
  /\ UNCHANGED <<ws, snap, registry, session, iteration, events, began, missed>>

\* An error before the first copy is swallowed, and the wave begins.  If there is
\* no directory the next wave of the iteration tries again.
BaselineFails ==
  /\ Idle /\ node = "execute" /\ iteration \notin made
  /\ node' = "wave" /\ missed' = missed \cup {iteration}
  /\ made' \in {made, made \cup {iteration}}
  /\ UNCHANGED <<ws, snap, registry, job, session, iteration, events, want, began, whole>>

\* There is another wave in the iteration.
NextWave ==
  /\ Idle /\ node = "wave" /\ node' = "execute"
  /\ UNCHANGED <<ws, snap, made, registry, job, session, iteration, events, want, began, missed, whole>>

Working == node # "execute"

\* Mutant of Replan: to the snapshot last taken, whoever took it.
ReplanAny ==
  /\ Idle /\ Working /\ iteration < MaxIteration
  /\ \E i \in made : StartRollback(i, "replan")
  /\ UNCHANGED <<ws, snap, made, registry, events, want, whole>> /\ UNCHANGED Orchestrator

\* _node_replan rolls the workspace back to the baseline of the iteration, or
\* to any snapshot if that is missing, or goes on with the workspace as it is.
Replan ==
  /\ Idle /\ Working /\ iteration < MaxIteration
  /\ \/ NextIteration /\ UNCHANGED <<job, session>>
     \/ /\ \E i \in (IF iteration \in made THEN {iteration} ELSE made) : StartRollback(i, "replan")
        /\ UNCHANGED Orchestrator
  /\ UNCHANGED <<ws, snap, made, registry, events, want, whole>>

\* Another request in the same workspace.
NewSession ==
  /\ Idle /\ Working /\ session < MaxSession /\ Event
  /\ session' = session + 1 /\ iteration' = 0 /\ node' = "execute" /\ began' = ws
  /\ UNCHANGED <<ws, snap, made, registry, job, want, missed, whole>>
-----------------------------------------------------------------------------
(***************************************************************************)
(* Agents and users of transactions, during a wave                         *)
(***************************************************************************)
Disturb == job' = [job EXCEPT !.clean = @ /\ Idle]

Write(f) ==
  /\ Working /\ job.by # "replan" /\ Event
  /\ \E t \in Text \cup {Absent, Dir} : t # ws[f] /\ ws' = [ws EXCEPT ![f] = t]
  /\ Disturb
  /\ UNCHANGED <<snap, made, registry, want, whole>> /\ UNCHANGED Orchestrator

Other == Idle /\ Working /\ Event

\* The tool of an agent: to a snapshot it names, or the last one os.listdir returns.
RollbackTool ==
  /\ Other /\ \E i \in made : StartRollback(i, "tool")
  /\ UNCHANGED <<ws, snap, made, registry, want, whole>> /\ UNCHANGED Orchestrator

\* begin_transaction, of which a second one returns the transaction that is active.
Begin(t) ==
  /\ Other /\ registry[t] # "active"
  /\ StartSnapshot(t, t)
  /\ UNCHANGED <<ws, snap, registry>> /\ UNCHANGED Orchestrator

Commit(t) ==
  /\ Other /\ registry[t] = "active"
  /\ registry' = [registry EXCEPT ![t] = "none"]
  /\ UNCHANGED <<ws, snap, made, job, want, whole>> /\ UNCHANGED Orchestrator

\* rollback_transaction.  A transaction not on record, after a crash or its
\* commit, is rolled back from its directory.
Rollback(t) ==
  /\ Other /\ (registry[t] = "active" \/ (registry[t] = "none" /\ t \in made))
  /\ StartRollback(t, t)
  /\ UNCHANGED <<ws, snap, made, registry, want, whole>> /\ UNCHANGED Orchestrator

\* One whose rollback raised reports success and does nothing.
RollbackAgain(t) ==
  /\ Other /\ registry[t] = "failed"
  /\ job' = [op |-> "done", id |-> t, by |-> t, todo |-> {}, clean |-> FALSE]
  /\ UNCHANGED <<ws, snap, made, registry, want, whole>> /\ UNCHANGED Orchestrator

\* The process dies.  The session is resumed in the iteration it has stored, in a
\* loop of waves and re-plans that takes no baseline.
Crash ==
  /\ Event
  /\ job' = NoJob /\ registry' = [t \in Tx |-> "none"] /\ node' = "resume"
  /\ missed' = missed \cup ({iteration} \ made)
  /\ UNCHANGED <<ws, snap, made, session, iteration, want, began, whole>>

Next ==
  \/ EndSnapshot \/ StartRestore \/ EndRestore \/ Report \/ RestoreFails
  \/ Baseline \/ BaselineFails \/ NextWave \/ Replan \/ NewSession \/ RollbackTool \/ Crash
  \/ \E f \in File : TakeFile(f) \/ DeleteFile(f) \/ RestoreFile(f) \/ Write(f)
  \/ \E t \in Tx : Begin(t) \/ Commit(t) \/ Rollback(t) \/ RollbackAgain(t)

Spec == Init /\ [][Next]_vars
-----------------------------------------------------------------------------
TypeOK ==
  /\ ws \in Tree /\ began \in Tree
  /\ snap \in [Id -> Copies] /\ want \in [Id -> Tree]
  /\ made \subseteq Id /\ whole \subseteq made /\ missed \subseteq 0..MaxIteration
  /\ registry \in [Tx -> {"none", "active", "failed"}]
  /\ job \in Job
  /\ node \in {"execute", "wave", "resume"} /\ session \in 1..MaxSession /\ iteration \in 0..MaxIteration
  /\ events \in 0..MaxEvents

\* "Rolls back the workspace to the exact state captured": whatever has been
\* written, rolled back half-way, snapshot or lost in a crash since a whole
\* snapshot was taken, a rollback to it restores the workspace of that time,
\* file by file, if nothing disturbs it and no file has become a directory.
RollbackExact ==
  job.op = "done" /\ job.clean /\ job.id \in whole => Plain(ws) = Plain(want[job.id])

\* A re-plan undoes its iteration and nothing else: the workspace is again what
\* the iteration found when it began, however many waves, crashes and
\* rollbacks of its agents it had, in the first session of a workspace, if the
\* iteration did not start without a baseline: because taking it failed, or in
\* the loop of a resumed session.
IterationUndone ==
  /\ job.op = "done" /\ job.by = "replan" /\ job.clean /\ job.id \in whole
  /\ session = 1 /\ iteration \notin missed
  => Plain(ws) = Plain(began)
=============================================================================

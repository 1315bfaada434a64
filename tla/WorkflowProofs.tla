--------------------------- MODULE WorkflowProofs ---------------------------
(***************************************************************************)
(* A session across waves, re-plans, failed saves, crashes and             *)
(* resumptions, for every set of tasks, plans and remedies and every       *)
(* limit.                                                                  *)
(***************************************************************************)
EXTENDS Workflow, TLAPS

(***************************************************************************)
(* From dag states s to n only open tasks change, and they stay open or    *)
(* are skipped.                                                            *)
(***************************************************************************)
OpenStep(s, n) ==
  /\ n \in [Task -> TaskState \cup {ABSENT}]
  /\ \A t \in Task : s[t] \in OpenState => n[t] \in OpenState \cup {"SKIPPED_REDUNDANT"}
  /\ \A t \in Task : s[t] \notin OpenState => n[t] = s[t]

\* get_ready_tasks rewrites open tasks only.
LEMMA RefreshOpen ==
  ASSUME NEW s \in [Task -> TaskState \cup {ABSENT}], NEW d
  PROVE  OpenStep(s, Refresh(s, d))
<1>1. ASSUME NEW S, NEW now \in OpenState, NEW l
      PROVE  Rescan(S, now, l) \in OpenState \cup {"SKIPPED_REDUNDANT"}
  BY DEF Rescan, OpenState
<1>2. QED
  BY <1>1 DEF OpenStep, Refresh, TaskState, SkippedState, OpenState

\* prune_tasks rewrites open tasks only.
LEMMA PruneOpen ==
  ASSUME NEW s \in [Task -> TaskState \cup {ABSENT}], NEW d, NEW S
  PROVE  OpenStep(s, PruneTasks(s, d, S))
BY DEF OpenStep, PruneTasks, Skip, TaskState, SkippedState, OpenState

\* So does _invalidate_downstream.
LEMMA InvalidateOpen ==
  ASSUME NEW s \in [Task -> TaskState \cup {ABSENT}], NEW d, NEW S
  PROVE  OpenStep(s, InvalidateDependents(s, d, S))
BY DEF OpenStep, InvalidateDependents, Skip, TaskState, SkippedState, OpenState

\* Satisfied dependencies stay so as long as completed tasks do.
LEMMA SatisfiedKept ==
  ASSUME NEW s, NEW n, NEW l \in Seq(Task), Satisfied(s, l),
         \A t \in Task : s[t] = "COMPLETED" => n[t] = "COMPLETED"
  PROVE  Satisfied(n, l)
<1>1. \A i \in DOMAIN l : l[i] \in Task
  OBVIOUS
<1>2. QED
  BY <1>1 DEF Satisfied

\* Retargeting leaves a dependency list a dependency list.
LEMMA RetargetIsList ==
  ASSUME NEW l \in Seq(Task), NEW S, NEW target \in Task
  PROVE  Retarget(l, S, target) \in Seq(Task)
<1>1. Len(l) \in Nat /\ DOMAIN l = 1 .. Len(l) /\ \A i \in 1 .. Len(l) : l[i] \in Task
  OBVIOUS
<1>2. Retarget(l, S, target) \in [1 .. Len(l) -> Task]
  BY <1>1 DEF Retarget
<1>3. QED
  BY <1>1, <1>2
-----------------------------------------------------------------------------
\* The dag, verdict and iteration of a session, in memory (Now) or stored (disk).
Rows == [state   : [Task -> TaskState \cup {ABSENT}],
         deps    : [Task -> Seq(Task)],
         retries : [Task -> 0 .. MaxRetries],
         verdict : Verdict, iteration : 0 .. IterationCap,
         lives   : [Task -> Nat]]

Done(d, t) == d.state[t] = "COMPLETED"

\* What is in the dag has been put there; as long as no task has been replaced,
\* completed tasks rest on completed ones.
Sound(d) ==
  /\ d \in Rows
  /\ \A t \in Known(d.state) : d.lives[t] >= 1
  /\ Untouched(d) => \A t \in Task : Done(d, t) => Satisfied(d.state, d.deps[t])

\* Nobody is at work on a task.
Still(d) == \A t \in Task : d.state[t] \notin {"RUNNING", "VERIFYING"}

\* d has come at least as far as e, task by task: a task that is not the one
\* that e knows by its id need not be done.
Ahead(d, e) ==
  /\ Known(e.state) \subseteq Known(d.state)
  /\ e.iteration <= d.iteration
  /\ \A t \in Task : e.lives[t] <= d.lives[t]
  /\ \A t \in Task : d.lives[t] = e.lives[t] =>
       /\ Done(e, t) => Done(d, t)
       /\ e.retries[t] <= d.retries[t]

\* What a task's part in the wave says of it.
WaveInv ==
  \A t \in Task :
    /\ wave[t] = "queued" => state[t] \in OpenState \cup SkippedState
    /\ wave[t] = "active" <=> state[t] = "RUNNING"
    /\ state[t] # "VERIFYING"
    /\ wave[t] # "none" => Satisfied(state, deps[t])

\* Nothing rests on a task of the wave yet, and none of them is stored as done:
\* its completion may still be overturned.
NobodyWaits ==
  \A t, u \in Task :
    wave[t] # "none" /\ (wave[u] # "none" \/ (Untouched(Now) /\ state[u] = "COMPLETED"))
      => \A i \in DOMAIN deps[u] : deps[u][i] # t

NotStored ==
  \A t \in Task : wave[t] # "none" /\ lives[t] = disk.lives[t] => ~Done(disk, t)

\* What the place of the orchestrator says of dag, disk and iteration.
NodeInv ==
  /\ node # "wave" => Idle
  /\ node \notin Ended => IF node = "decompose" THEN Now = Blank /\ disk = Blank ELSE Known(state) # {}
  /\ Known(disk.state) = {} => disk = Blank
  /\ mode = "resume" => Known(disk.state) # {}
  /\ node = "loop" => mode = "resume"
  /\ mode = "graph" => iteration <= MaxIterations /\ (node = "replan" => iteration < MaxIterations)

Rest ==
  /\ wave \in [Task -> {"none", "queued", "active", "done"}]
  /\ token \in BOOLEAN /\ broke \in BOOLEAN
  /\ node \in Nodes /\ mode \in {"graph", "resume"}
  /\ status \in {"none", "COMPLETED", "STOPPED", "FAILED", "INCOMPLETE", "NEED_VERIFICATION"}
  /\ resumes \in 0 .. MaxResumes

Inv == /\ Rest /\ WaveInv /\ NodeInv /\ NobodyWaits /\ NotStored
       /\ Sound(Now) /\ Sound(disk) /\ Still(disk) /\ Ahead(Now, disk)
-----------------------------------------------------------------------------
LEMMA AheadSelf == ASSUME NEW d \in Rows PROVE Ahead(d, d)
<1>1. d.iteration <= d.iteration
  BY WorkflowAssumption DEF Rows
<1>2. \A t \in Task : d.lives[t] <= d.lives[t] /\ d.retries[t] <= d.retries[t]
  BY WavesAssumption DEF Rows
<1> QED BY <1>1, <1>2 DEF Ahead

LEMMA AheadTrans ==
  ASSUME NEW a \in Rows, NEW b \in Rows, NEW c \in Rows, Ahead(a, b), Ahead(b, c)
  PROVE  Ahead(a, c)
<1>1. \A t \in Task : /\ a.retries[t] \in Nat /\ b.retries[t] \in Nat /\ c.retries[t] \in Nat
                      /\ a.lives[t] \in Nat /\ b.lives[t] \in Nat /\ c.lives[t] \in Nat
  BY WavesAssumption DEF Rows
<1>2. a.iteration \in Nat /\ b.iteration \in Nat /\ c.iteration \in Nat
  BY WorkflowAssumption DEF Rows
<1>3. \A t \in Task : c.lives[t] <= b.lives[t] /\ b.lives[t] <= a.lives[t]
  BY DEF Ahead
<1>4. ASSUME NEW t \in Task
      PROVE  /\ c.lives[t] <= a.lives[t]
             /\ a.lives[t] = c.lives[t] =>
                  (Done(c, t) => Done(a, t)) /\ c.retries[t] <= a.retries[t]
  <2>1. c.lives[t] <= a.lives[t] /\ (a.lives[t] = c.lives[t] => b.lives[t] = c.lives[t])
    BY <1>1, <1>3
  <2>2. ASSUME a.lives[t] = c.lives[t]
        PROVE  (Done(c, t) => Done(a, t)) /\ c.retries[t] <= a.retries[t]
    <3>1. a.lives[t] = b.lives[t] /\ b.lives[t] = c.lives[t]
      BY <2>1, <2>2
    <3>2. c.retries[t] <= b.retries[t] /\ b.retries[t] <= a.retries[t] /\ (Done(c, t) => Done(a, t))
      BY <3>1 DEF Ahead
    <3> QED BY <1>1, <3>2
  <2> QED BY <2>1, <2>2
<1>5. c.iteration <= a.iteration
  BY <1>2 DEF Ahead
<1> QED BY <1>4, <1>5 DEF Ahead

LEMMA BlankSound == Sound(Blank) /\ Still(Blank)
<1>1. \A t \in Task : <<>> \in Seq(Task)
  OBVIOUS
<1>2. Blank \in Rows
  BY <1>1, WavesAssumption, WorkflowAssumption DEF Blank, Rows, Verdict
<1>3. Known(Blank.state) = {} /\ \A t \in Task : ~Done(Blank, t)
  BY DEF Blank, Known, Done, ABSENT
<1> QED BY <1>2, <1>3 DEF Sound, Still, Blank, ABSENT

\* Between waves nobody is at work.
LEMMA IdleStill == ASSUME WaveInv, Idle PROVE Still(Now)
BY DEF WaveInv, Idle, Still, Now

\* Nor is anything in a wave.
LEMMA IdleEmpty == Idle => NobodyWaits /\ NotStored
BY DEF Idle, NobodyWaits, NotStored

\* The same of the state after a step.
LEMMA IdleNow == Idle' => NobodyWaits' /\ NotStored'
BY DEF Idle, NobodyWaits, NotStored

LEMMA InitInv == InitFlow => Inv
<1> SUFFICES ASSUME InitFlow PROVE Inv
  OBVIOUS
<1>1. Now = Blank /\ disk = Blank
  BY DEF InitFlow, Now, Blank
<1>2. Blank \in Rows
  BY BlankSound DEF Sound
<1>3. Sound(Now) /\ Sound(disk) /\ Still(disk) /\ Ahead(Now, disk)
  BY <1>1, <1>2, BlankSound, AheadSelf
<1>4. Rest
  <2>1. wave \in [Task -> {"none", "queued", "active", "done"}] /\ resumes \in 0 .. MaxResumes
    BY WorkflowAssumption DEF InitFlow
  <2>2. node \in Nodes /\ mode \in {"graph", "resume"} /\ status = "none"
    BY DEF InitFlow, Nodes
  <2>3. token = FALSE /\ broke = FALSE
    BY DEF InitFlow
  <2> QED BY <2>1, <2>2, <2>3 DEF Rest
<1>5. WaveInv
  BY DEF InitFlow, WaveInv, Blank, ABSENT
<1>6. NodeInv
  BY <1>1, WorkflowAssumption DEF InitFlow, NodeInv, Idle, Ended, Blank
<1>7. Idle
  BY DEF InitFlow, Idle
<1> QED BY <1>3, <1>4, <1>5, <1>6, <1>7, IdleEmpty DEF Inv
-----------------------------------------------------------------------------
\* The orchestrator goes on with a dag that has come further, and may save it.
LEMMA MovesOn ==
  ASSUME Inv, node \notin Ended, node = "decompose" => Known(state') # {}, Rest', WaveInv',
         Sound(Now'), Ahead(Now', Now) \/ (Ahead(Now', disk) /\ Known(state') = Known(state)),
         Idle' \/ (NobodyWaits' /\ NotStored'),
         disk' = disk \/ disk' = Now', node' # "wave" => Idle', disk' # disk => Idle',
         mode' = mode, node' # "decompose", node' = "loop" => mode = "resume",
         mode = "graph" => iteration' <= MaxIterations /\ (node' = "replan" => iteration' < MaxIterations)
  PROVE  Inv' /\ Ahead(disk', disk)
<1>1. Now \in Rows /\ Now' \in Rows /\ disk \in Rows
  BY DEF Inv, Sound
<1>2. Ahead(Now', disk) /\ Ahead(disk, disk) /\ Ahead(Now', Now') /\ Known(state) \subseteq Known(state')
  <2>1. Ahead(Now', Now) => Known(state) \subseteq Known(state')
    BY DEF Ahead, Now
  <2>2. Ahead(disk, disk) /\ Ahead(Now', Now')
    BY <1>1, AheadSelf
  <2>3. Ahead(Now', Now) => Ahead(Now', disk)
    BY <1>1, AheadTrans DEF Inv
  <2> QED BY <2>1, <2>2, <2>3
<1>3. Sound(disk') /\ Ahead(Now', disk') /\ Ahead(disk', disk)
  BY <1>2 DEF Inv
<1>4. Still(disk')
  <2>1. CASE disk' = disk
    BY <2>1 DEF Inv
  <2>2. CASE disk' # disk
    <3>1. \A t \in Task : state'[t] \notin {"RUNNING", "VERIFYING"}
      BY <2>2 DEF WaveInv, Idle
    <3> QED BY <2>2, <3>1 DEF Still, Now
  <2> QED BY <2>1, <2>2
<1>5. Known(state') # {}
  <2>1. node # "decompose" => Known(state) # {}
    BY DEF Inv, NodeInv
  <2> QED BY <1>2, <2>1
<1>6. NodeInv'
  <2>1. Known(disk'.state) = {} => disk' = Blank
    BY <1>5 DEF Inv, NodeInv, Now
  <2>2. Known(disk.state) \subseteq Known(disk'.state)
    BY <1>3 DEF Ahead
  <2> QED BY <1>5, <2>1, <2>2 DEF NodeInv, Inv, Known
<1>7. NobodyWaits' /\ NotStored'
  BY DEF Idle, NobodyWaits, NotStored
<1> QED BY <1>3, <1>4, <1>6, <1>7 DEF Inv

\* The call is gone: what is in memory is what is stored.
LEMMA Forgotten ==
  ASSUME Inv, Forget, node' \in Ended, UNCHANGED <<disk, mode>>, Rest'
  PROVE  Inv' /\ Ahead(disk', disk)
<1>1. disk \in Rows /\ Now' = disk /\ disk' = disk
  BY DEF Inv, Sound, Forget, Restore, Now, Rows
<1>2. Ahead(disk, disk)
  BY <1>1, AheadSelf
<1>3. WaveInv'
  BY DEF Forget, Restore, WaveInv, Inv, Still
<1>5. NobodyWaits' /\ NotStored'
  BY DEF Forget, Restore, NobodyWaits, NotStored
<1>4. NodeInv'
  <2>1. Idle'
    BY DEF Forget, Restore, Idle
  <2>2. mode = "graph" => iteration' <= MaxIterations
    BY <1>1, WorkflowAssumption DEF Inv, NodeInv, Ahead, Forget, Restore, Now, Rows, Sound
  <2> QED BY <1>1, <2>1, <2>2 DEF Inv, NodeInv, Ended
<1> QED BY <1>1, <1>2, <1>3, <1>4, <1>5 DEF Inv
-----------------------------------------------------------------------------
\* What rewriting open tasks leaves alone.
LEMMA OpenLeaves ==
  ASSUME NEW s, NEW n, OpenStep(s, n), NEW t \in Task
  PROVE  /\ s[t] = ABSENT <=> n[t] = ABSENT
         /\ s[t] = "COMPLETED" <=> n[t] = "COMPLETED"
         /\ s[t] = "RUNNING" <=> n[t] = "RUNNING"
         /\ s[t] = "VERIFYING" <=> n[t] = "VERIFYING"
         /\ s[t] \in OpenState \cup SkippedState => n[t] \in OpenState \cup SkippedState
BY DEF OpenStep, OpenState, SkippedState, ABSENT

\* What a step of a wave keeps: nobody is taken up before its time, and only
\* what the wave completed may be undone.
WaveKept ==
  /\ WaveInv' /\ NobodyWaits' /\ Sound(Now') /\ Ahead(Now', disk) /\ Known(state') = Known(state)
  /\ \A t \in Task : wave'[t] # "none" /\ lives[t] = disk.lives[t] => ~Done(disk, t)
  /\ wave' \in [Task -> {"none", "queued", "active", "done"}] /\ token' \in BOOLEAN

\* Within a wave: what is stored as done stays done, and is done on done work.
LEMMA WaveKeeps ==
  ASSUME Inv, StartWave \/ EndWave \/ \E t \in Task : Work(t) \/ Prune(t) \/ Overturn(t),
         UNCHANGED <<verdict, iteration, lives>>
  PROVE  WaveKept
<1>1. /\ state \in [Task -> TaskState \cup {ABSENT}] /\ deps \in [Task -> Seq(Task)]
      /\ retries \in [Task -> 0 .. MaxRetries] /\ iteration \in 0 .. IterationCap /\ verdict \in Verdict
      /\ wave \in [Task -> {"none", "queued", "active", "done"}] /\ token \in BOOLEAN /\ deps' = deps
      /\ lives \in [Task -> Nat]
  BY DEF Inv, Sound, Rows, Now, Rest, StartWave, EndWave, Work, Activate, Complete, GiveUp, Cancelled,
     Requeue, Settle, Prune, Overturn
<1>2. /\ Untouched(Now) => \A t \in Task : state[t] = "COMPLETED" => Satisfied(state, deps[t])
      /\ \A t \in Known(state) : lives[t] >= 1
      /\ Untouched(Now') <=> Untouched(Now)
  BY DEF Inv, Sound, Now, Done, Untouched
<1>3. ASSUME NEW n, state' = n, n \in [Task -> TaskState \cup {ABSENT}],
             wave' \in [Task -> {"none", "queued", "active", "done"}], token' \in BOOLEAN,
             retries' \in [Task -> 0 .. MaxRetries],
             \A t \in Task : retries[t] <= retries'[t],
             \A t \in Task : state[t] = ABSENT <=> n[t] = ABSENT,
             \A t \in Task : state[t] = "COMPLETED" => n[t] = "COMPLETED" \/ wave[t] # "none",
             \A t \in Task : n[t] = "COMPLETED" => state[t] = "COMPLETED" \/ wave[t] # "none",
             \A t \in Task : wave'[t] # "none" =>
                              \/ wave[t] # "none"
                              \/ Idle /\ state[t] \in OpenState /\ Satisfied(state, deps[t]),
             \A t \in Task : /\ wave'[t] = "queued" => n[t] \in OpenState \cup SkippedState
                             /\ wave'[t] = "active" <=> n[t] = "RUNNING"
                             /\ n[t] # "VERIFYING"
      PROVE  WaveKept
  <2>1. ASSUME NEW u \in Task, NEW i \in DOMAIN deps[u] PROVE deps[u][i] \in Task
    <3>1. deps[u] \in Seq(Task)
      BY <1>1
    <3> QED BY <3>1
  <2>2. ASSUME NEW u \in Task, Satisfied(state, deps[u]),
               Idle \/ wave[u] # "none" \/ (Untouched(Now) /\ state[u] = "COMPLETED")
        PROVE  Satisfied(n, deps[u])
    <3>1. ASSUME NEW i \in DOMAIN deps[u] PROVE wave[deps[u][i]] = "none" /\ state[deps[u][i]] = "COMPLETED"
      BY <2>1, <2>2, <3>1 DEF Satisfied, Idle, Inv, NobodyWaits
    <3> QED BY <1>3, <2>1, <3>1 DEF Satisfied
  <2>3. \A u \in Task : wave'[u] # "none" => Satisfied(n, deps[u])
    <3>1. \A u \in Task : wave'[u] # "none" => Satisfied(state, deps[u]) /\ (Idle \/ wave[u] # "none")
      BY <1>3 DEF Inv, WaveInv
    <3> QED BY <2>2, <3>1
  <2>4. WaveInv'
    BY <1>1, <1>3, <2>3 DEF WaveInv
  <2>5. Untouched(Now) => \A u \in Task : n[u] = "COMPLETED" => Satisfied(n, deps[u])
    <3> SUFFICES ASSUME Untouched(Now), NEW u \in Task, n[u] = "COMPLETED" PROVE Satisfied(n, deps[u])
      OBVIOUS
    <3>1. state[u] = "COMPLETED" \/ wave[u] # "none"
      BY <1>3
    <3>2. Satisfied(state, deps[u])
      BY <3>1, <1>2 DEF Inv, WaveInv
    <3> QED BY <2>2, <3>1, <3>2
  <2>6. Known(n) = Known(state)
    BY <1>3 DEF Known
  <2>7. Now' \in Rows
    BY <1>1, <1>3 DEF Now, Rows
  <2>8. Sound(Now')
    <3>1. /\ Now'.state = n /\ Now'.deps = deps /\ Now'.lives = lives
      BY <1>1, <1>3 DEF Now
    <3> QED BY <1>2, <2>5, <2>6, <2>7, <3>1 DEF Sound, Done
  <2>9. NobodyWaits'
    <3> SUFFICES ASSUME NEW t \in Task, NEW u \in Task, wave'[t] # "none",
                        wave'[u] # "none" \/ (Untouched(Now) /\ n[u] = "COMPLETED"),
                        NEW i \in DOMAIN deps[u]
                 PROVE  deps[u][i] # t
      BY <1>1, <1>2, <1>3 DEF NobodyWaits
    <3>1. CASE wave[t] # "none"
      <4>1. ~Idle
        BY <3>1 DEF Idle
      <4>2. wave[u] # "none" \/ (Untouched(Now) /\ state[u] = "COMPLETED")
        BY <1>3, <4>1
      <4> QED BY <3>1, <4>2 DEF Inv, NobodyWaits
    <3>2. CASE wave[t] = "none"
      <4>1. Idle /\ state[t] \in OpenState
        BY <1>3, <3>2
      <4>2. Satisfied(state, deps[u])
        BY <1>2, <1>3, <4>1 DEF Idle
      <4> QED BY <4>1, <4>2 DEF Satisfied, OpenState
    <3> QED BY <3>1, <3>2
  <2>10. ASSUME NEW t \in Task, lives[t] = disk.lives[t], Done(disk, t)
         PROVE  state[t] = "COMPLETED" /\ wave[t] = "none"
    BY <2>10 DEF Inv, NotStored, Ahead, Now, Done
  <2>11. \A t \in Task : wave'[t] # "none" /\ lives[t] = disk.lives[t] => ~Done(disk, t)
    BY <1>3, <2>10 DEF OpenState
  <2>12. Ahead(Now', disk)
    <3>1. /\ Now'.state = n /\ Now'.retries = retries' /\ Now'.lives = lives /\ Now'.iteration = iteration
      BY <1>1, <1>3 DEF Now
    <3>2. /\ Known(disk.state) \subseteq Known(state) /\ disk.iteration <= iteration
          /\ \A t \in Task : /\ disk.lives[t] <= lives[t]
                             /\ lives[t] = disk.lives[t] => disk.retries[t] <= retries[t]
      BY DEF Inv, Ahead, Now
    <3>3. \A t \in Task : disk.retries[t] \in Nat /\ retries[t] \in Nat /\ retries'[t] \in Nat
      BY <1>1, <1>3, WavesAssumption DEF Inv, Sound, Rows
    <3>4. \A t \in Task : lives[t] = disk.lives[t] => disk.retries[t] <= retries'[t]
      BY <1>3, <3>2, <3>3
    <3>5. \A t \in Task : lives[t] = disk.lives[t] /\ Done(disk, t) => n[t] = "COMPLETED"
      BY <1>3, <2>10
    <3> QED BY <2>6, <3>1, <3>2, <3>4, <3>5 DEF Ahead, Done
  <2> QED BY <1>3, <2>4, <2>6, <2>8, <2>9, <2>11, <2>12 DEF WaveKept
<1>4. CASE StartWave
  <2>1. OpenStep(state, state') /\ UNCHANGED <<retries, token>>
    BY <1>1, <1>4, RefreshOpen DEF StartWave
  <2>2. PICK D \in SUBSET Ready(state, deps) : wave' = [t \in Task |-> IF t \in D THEN "queued" ELSE "none"]
    BY <1>4 DEF StartWave
  <2>3. \A t \in Task : wave'[t] = "queued" => Satisfied(state, deps[t]) /\ state[t] \in OpenState
    BY <2>2 DEF Ready, OpenTasks
  <2>4. \A t \in Task : state[t] \notin {"RUNNING", "VERIFYING"}
    BY <1>4 DEF StartWave, Idle, Inv, WaveInv
  <2>5. \A t \in Task : retries'[t] = retries[t] /\ retries[t] <= retries[t]
    BY <1>1, <2>1, WavesAssumption
  <2>6. wave' \in [Task -> {"none", "queued", "active", "done"}] /\ token' \in BOOLEAN
    BY <1>1, <2>1, <2>2
  <2>7. state' \in [Task -> TaskState \cup {ABSENT}]
    BY <2>1 DEF OpenStep
  <2>8. \A t \in Task : /\ wave'[t] = "queued" => state'[t] \in OpenState \cup SkippedState
                        /\ wave'[t] = "active" <=> state'[t] = "RUNNING"
                        /\ state'[t] # "VERIFYING"
    BY <2>1, <2>2, <2>3, <2>4, OpenLeaves
  <2>9. \A t \in Task : wave'[t] # "none" => Idle /\ state[t] \in OpenState /\ Satisfied(state, deps[t])
    BY <1>4, <2>2, <2>3 DEF StartWave
  <2>10. \A t \in Task : /\ state[t] = ABSENT <=> state'[t] = ABSENT
                         /\ state[t] = "COMPLETED" <=> state'[t] = "COMPLETED"
    BY <2>1, OpenLeaves
  <2> QED BY <1>1, <1>3, <2>1, <2>5, <2>6, <2>7, <2>8, <2>9, <2>10
<1>5. CASE EndWave
  <2>1. \A t \in Task : retries'[t] = retries[t] /\ retries[t] <= retries[t]
    BY <1>1, <1>5, WavesAssumption DEF EndWave
  <2>2. \A t \in Task : state[t] # "RUNNING"
    BY <1>5 DEF EndWave, Inv, WaveInv
  <2> QED BY <1>1, <1>3, <1>5, <2>1, <2>2 DEF EndWave, Inv, WaveInv
<1>6. ASSUME NEW t \in Task, Activate(t)
      PROVE  WaveKept
  <2>1. \A u \in Task : retries'[u] = retries[u] /\ retries[u] <= retries[u]
    BY <1>1, <1>6, WavesAssumption DEF Activate
  <2>2. \A u \in Task : /\ wave'[u] = IF u = t THEN "active" ELSE wave[u]
                        /\ state'[u] = IF u = t THEN "RUNNING" ELSE state[u]
    BY <1>1, <1>6 DEF Activate
  <2>3. wave[t] = "queued" /\ state[t] \in OpenState \cup SkippedState
    BY <1>6 DEF Activate, Inv, WaveInv
  <2>4. /\ state' \in [Task -> TaskState \cup {ABSENT}] /\ UNCHANGED <<retries, token>>
        /\ wave' \in [Task -> {"none", "queued", "active", "done"}]
    BY <1>1, <1>6 DEF Activate, TaskState
  <2> QED BY <1>1, <1>3, <2>1, <2>2, <2>3, <2>4 DEF Inv, WaveInv, OpenState, SkippedState, ABSENT
<1>7. ASSUME NEW t \in Task, Complete(t) \/ GiveUp(t) \/ Cancelled(t) \/ Requeue(t)
      PROVE  WaveKept
  <2>1. PICK r \in {"COMPLETED", "FAILED", "CANCELLED", "READY"} : Settle(t, r)
    BY <1>7 DEF Complete, GiveUp, Cancelled, Requeue
  <2>2. \A u \in Task : /\ wave'[u] = IF u = t THEN "done" ELSE wave[u]
                        /\ state'[u] = IF u = t THEN r ELSE state[u]
    BY <1>1, <2>1 DEF Settle
  <2>3. wave[t] = "active" /\ state[t] = "RUNNING"
    BY <2>1 DEF Settle, Inv, WaveInv
  <2>4. /\ state' \in [Task -> TaskState \cup {ABSENT}] /\ token' = token
        /\ wave' \in [Task -> {"none", "queued", "active", "done"}]
    BY <1>1, <2>1 DEF Settle, TaskState, OpenState
  <2>5. /\ retries' \in [Task -> 0 .. MaxRetries]
        /\ \A u \in Task : retries[u] <= retries'[u]
    <3>1. MaxRetries \in Nat
      BY WavesAssumption
    <3>2. CASE UNCHANGED retries
      BY <1>1, <3>1, <3>2
    <3>3. CASE Requeue(t)
      <4>1. \A u \in Task : retries'[u] = IF u = t THEN retries[u] + 1 ELSE retries[u]
        BY <1>1, <3>3 DEF Requeue
      <4>2. retries[t] < MaxRetries /\ DOMAIN retries' = Task /\ retries' = [u \in Task |-> retries'[u]]
        BY <1>1, <3>3 DEF Requeue
      <4>3. \A u \in Task : retries'[u] \in 0 .. MaxRetries /\ retries[u] <= retries'[u]
        <5> SUFFICES ASSUME NEW u \in Task
                     PROVE  retries'[u] \in 0 .. MaxRetries /\ retries[u] <= retries'[u]
          OBVIOUS
        <5>1. retries[u] \in 0 .. MaxRetries
          BY <1>1
        <5>2. CASE u = t
          BY <3>1, <4>1, <4>2, <5>1, <5>2
        <5>3. CASE u # t
          BY <3>1, <4>1, <5>1, <5>3
        <5> QED BY <5>2, <5>3
      <4>4. retries' \in [Task -> 0 .. MaxRetries]
        BY <4>2, <4>3
      <4> QED BY <4>1, <4>3, <4>4
    <3> QED BY <1>7, <3>2, <3>3 DEF Complete, GiveUp, Cancelled
  <2>6. \A u \in Task : /\ wave'[u] = "queued" => state'[u] \in OpenState \cup SkippedState
                        /\ wave'[u] = "active" <=> state'[u] = "RUNNING"
                        /\ state'[u] # "VERIFYING"
    BY <2>2, <2>3 DEF Inv, WaveInv
  <2>7. \A u \in Task : wave'[u] # "none" => wave[u] # "none"
    BY <2>2, <2>3
  <2>8. \A u \in Task : /\ state[u] = ABSENT <=> state'[u] = ABSENT
                        /\ state[u] = "COMPLETED" => state'[u] = "COMPLETED" \/ wave[u] # "none"
                        /\ state'[u] = "COMPLETED" => state[u] = "COMPLETED" \/ wave[u] # "none"
    BY <2>2, <2>3 DEF ABSENT
  <2> QED BY <1>1, <1>3, <2>4, <2>5, <2>6, <2>7, <2>8
<1>8. ASSUME NEW t \in Task, Prune(t)
      PROVE  WaveKept
  <2>1. OpenStep(state, state') /\ UNCHANGED <<retries, token, wave>>
    BY <1>1, <1>8, PruneOpen DEF Prune
  <2>2. \A u \in Task : retries'[u] = retries[u] /\ retries[u] <= retries[u]
    BY <1>1, <2>1, WavesAssumption
  <2>3. state' \in [Task -> TaskState \cup {ABSENT}]
    BY <2>1 DEF OpenStep
  <2>4. \A u \in Task : /\ wave'[u] = "queued" => state'[u] \in OpenState \cup SkippedState
                        /\ wave'[u] = "active" <=> state'[u] = "RUNNING"
                        /\ state'[u] # "VERIFYING"
    BY <2>1, OpenLeaves DEF Inv, WaveInv
  <2>5. \A u \in Task : wave'[u] # "none" => wave[u] # "none"
    BY <2>1
  <2>6. \A u \in Task : /\ state[u] = ABSENT <=> state'[u] = ABSENT
                        /\ state[u] = "COMPLETED" <=> state'[u] = "COMPLETED"
    BY <2>1, OpenLeaves
  <2> QED BY <1>1, <1>3, <2>1, <2>2, <2>3, <2>4, <2>5, <2>6
<1>9. ASSUME NEW t \in Task, Overturn(t)
      PROVE  WaveKept
  <2>1. /\ \A u \in Task : state'[u] = IF u = t THEN "FAILED" ELSE state[u]
        /\ wave[t] = "done" /\ state[t] = "COMPLETED" /\ UNCHANGED <<retries, wave, token>>
        /\ state' \in [Task -> TaskState \cup {ABSENT}]
    BY <1>1, <1>9 DEF Overturn, TaskState
  <2>2. \A u \in Task : retries'[u] = retries[u] /\ retries[u] <= retries[u]
    BY <1>1, <2>1, WavesAssumption
  <2>3. \A u \in Task : /\ wave'[u] = "queued" => state'[u] \in OpenState \cup SkippedState
                        /\ wave'[u] = "active" <=> state'[u] = "RUNNING"
                        /\ state'[u] # "VERIFYING"
    BY <2>1 DEF Inv, WaveInv
  <2>4. \A u \in Task : wave'[u] # "none" => wave[u] # "none"
    BY <2>1
  <2>5. \A u \in Task : /\ state[u] = ABSENT <=> state'[u] = ABSENT
                        /\ state[u] = "COMPLETED" => state'[u] = "COMPLETED" \/ wave[u] # "none"
                        /\ state'[u] = "COMPLETED" => state[u] = "COMPLETED"
    BY <2>1 DEF ABSENT
  <2> QED BY <1>1, <1>3, <2>1, <2>2, <2>3, <2>4, <2>5
<1> QED BY <1>4, <1>5, <1>6, <1>7, <1>8, <1>9 DEF Work
-----------------------------------------------------------------------------
\* A step that leaves the dag alone and counts no iteration back.
LEMMA DagSame ==
  ASSUME Inv, UNCHANGED <<state, deps, retries, wave, lives>>, verdict' \in Verdict,
         iteration' \in 0 .. IterationCap, iteration <= iteration'
  PROVE  WaveInv' /\ Sound(Now') /\ Ahead(Now', Now)
<1>1. WaveInv'
  BY DEF Inv, WaveInv
<1>2. /\ Now \in Rows /\ iteration \in 0 .. IterationCap
      /\ \A t \in Task : retries[t] <= retries[t] /\ lives[t] <= lives[t]
  BY WavesAssumption DEF Inv, Sound, Rows, Now
<1>3. Now' \in Rows
  BY <1>2 DEF Now, Rows
<1>4. Sound(Now')
  BY <1>3 DEF Inv, Sound, Now, Done, Untouched
<1>5. Ahead(Now', Now)
  BY <1>2 DEF Ahead, Now, Done
<1> QED BY <1>1, <1>4, <1>5

\* Counting an iteration keeps to the limit of the graph.
LEMMA Counted ==
  ASSUME Inv, node = "replan", NextIteration
  PROVE  /\ iteration' \in 0 .. IterationCap /\ iteration <= iteration'
         /\ node' \in {"execute", "loop"} /\ (node' = "loop" => mode = "resume")
         /\ mode = "graph" => iteration' <= MaxIterations
<1>1. iteration \in 0 .. IterationCap /\ IterationCap \in Nat /\ MaxIterations \in Nat
  BY WorkflowAssumption DEF Inv, Sound, Rows, Now
<1>2. mode = "graph" => iteration < MaxIterations /\ iteration <= MaxIterations
  BY DEF Inv, NodeInv
<1> QED BY <1>1, <1>2 DEF NextIteration, Inv, Rest

\* TerminalStatus is one of the status of TaskStatus.
LEMMA StatusType ==
  ASSUME NEW v
  PROVE  TerminalStatus(v) \in {"none", "COMPLETED", "STOPPED", "FAILED", "INCOMPLETE", "NEED_VERIFICATION"}
BY DEF TerminalStatus

LEMMA DecomposeStep == ASSUME Inv, Decompose PROVE Inv' /\ Ahead(disk', disk)
<1>1. PICK p \in Plans :
        LET planned == [t \in Task |-> IF t \in p.tasks THEN "PENDING" ELSE ABSENT]
        IN IF HasCycle(planned, p.deps)
           THEN node' = "crashed" /\ Forget /\ UNCHANGED disk
           ELSE /\ state' = planned /\ deps' = p.deps /\ Put(p.tasks)
                /\ node' = "execute"
                /\ UNCHANGED <<retries, wave, verdict, iteration>>
                /\ Persist
  BY DEF Decompose
<1> DEFINE planned == [t \in Task |-> IF t \in p.tasks THEN "PENDING" ELSE ABSENT]
<1>2. CASE HasCycle(planned, p.deps)
  <2>1. node' = "crashed" /\ Forget /\ UNCHANGED disk
    BY <1>1, <1>2
  <2>2. Rest' /\ UNCHANGED mode /\ node' \in Ended
    BY <2>1 DEF Decompose, Inv, Rest, Forget, Restore, Nodes, Ended
  <2> QED BY <2>1, <2>2, Forgotten
<1>3. CASE ~HasCycle(planned, p.deps)
  <2>1. /\ state' = planned /\ deps' = p.deps /\ node' = "execute"
        /\ lives' = [t \in Task |-> IF t \in p.tasks THEN lives[t] + 1 ELSE lives[t]]
        /\ UNCHANGED <<retries, wave, verdict, iteration, mode, token, broke, status, resumes>>
        /\ disk' \in {disk, Now'} /\ node = "decompose"
    BY <1>1, <1>3 DEF Decompose, Persist, Put
  <2>2. p.tasks \subseteq Task /\ p.tasks # {} /\ p.deps \in [Task -> Seq(Task)] /\ MaxRetries \in Nat
    BY WavesAssumption, WorkflowAssumption
  <2>3. Now = Blank /\ Idle /\ Now \in Rows
    BY <2>1 DEF Inv, NodeInv, Ended, Sound
  <2>4. /\ retries = Blank.retries /\ iteration = 0 /\ lives = [t \in Task |-> 0]
        /\ Known(Blank.state) = {} /\ \A t \in Task : ~Done(Blank, t) /\ Blank.retries[t] = 0
    BY <2>3 DEF Now, Blank, Known, Done, ABSENT
  <2>5. state' \in [Task -> TaskState \cup {ABSENT}] /\ Known(state') = p.tasks
        /\ \A t \in Task : state'[t] \in OpenState \cup {ABSENT}
    BY <2>1, <2>2 DEF TaskState, OpenState, Known, ABSENT
  <2>13. lives' = [t \in Task |-> IF t \in p.tasks THEN 1 ELSE 0]
    BY <2>1, <2>4
  <2>6. Now' \in Rows
    <3>1. lives' \in [Task -> Nat]
      BY <2>13
    <3> QED BY <2>1, <2>2, <2>3, <2>5, <3>1 DEF Now, Rows
  <2>7. Sound(Now')
    <3>1. \A t \in Known(state') : lives'[t] >= 1
      BY <2>2, <2>5, <2>13
    <3>2. \A t \in Task : state'[t] # "COMPLETED"
      BY <2>5 DEF OpenState, ABSENT
    <3> QED BY <2>6, <3>1, <3>2 DEF Sound, Now, Done
  <2>8. Ahead(Now', Now)
    <3>1. \A t \in Task : lives[t] <= lives'[t] /\ retries[t] <= retries'[t]
      BY <2>1, <2>4, <2>13
    <3>2. Known(state) = {} /\ iteration <= iteration' /\ \A t \in Task : state[t] # "COMPLETED"
      BY <2>1, <2>3, <2>4 DEF Now, Blank, Done
    <3> QED BY <3>1, <3>2 DEF Ahead, Now, Done
  <2>9. WaveInv'
    BY <2>1, <2>3, <2>5 DEF WaveInv, Idle, OpenState, ABSENT
  <2>10. Rest'
    BY <2>1 DEF Inv, Rest, Nodes
  <2>11. Idle'
    BY <2>1, <2>3 DEF Idle
  <2>12. mode = "graph" => iteration' <= MaxIterations
    BY <2>1 DEF Inv, NodeInv
  <2> QED BY <2>1, <2>2, <2>5, <2>7, <2>8, <2>9, <2>10, <2>11, <2>12, MovesOn DEF Ended
<1> QED BY <1>2, <1>3

LEMMA WaveSteps == ASSUME Inv, Dispatch \/ InWave \/ FinishWave PROVE Inv' /\ Ahead(disk', disk)
<1>1. /\ node \notin Ended \cup {"decompose", "replan"} /\ node' \notin {"decompose", "replan"} /\ node' \in Nodes
      /\ UNCHANGED <<verdict, iteration, mode, broke, lives, status, resumes>> /\ disk' \in {disk, Now'}
  BY DEF Dispatch, InWave, FinishWave, AfterSubtask, flowVars, Persist, Ended, Nodes
<1>2. WaveKept
  BY <1>1, WaveKeeps DEF Dispatch, InWave, FinishWave
<1>3. Rest'
  BY <1>1, <1>2 DEF Inv, Rest, WaveKept
<1>4. (node' # "wave" => Idle') /\ (disk' # disk => Idle')
  BY DEF Dispatch, InWave, FinishWave, EndWave, Idle, flowVars
<1>5. (mode = "graph" => iteration' <= MaxIterations) /\ (node' = "loop" => mode = "resume")
  BY <1>1 DEF Inv, NodeInv, Rest, Dispatch, InWave, FinishWave, AfterSubtask, flowVars
<1>6. Idle' \/ NotStored'
  BY <1>1, <1>2, <1>4 DEF NotStored, WaveKept
<1> QED BY <1>1, <1>2, <1>3, <1>4, <1>5, <1>6, MovesOn DEF WaveKept

\* The nodes that leave the dag alone, and what may happen beside them.
LEMMA SameSteps ==
  ASSUME Inv, DispatchBroke \/ Review \/ ReplanBroke \/ LoopExit \/ AskCancel \/ BudgetRunsOut
  PROVE  Inv' /\ Ahead(disk', disk)
<1>1. /\ UNCHANGED <<state, deps, retries, wave, lives, mode, resumes>> /\ verdict' \in Verdict /\ node \notin Ended
      /\ disk' \in {disk, Now'} /\ token' \in BOOLEAN /\ broke' \in BOOLEAN
  BY DEF DispatchBroke, Review, ReplanBroke, LoopExit, AskCancel, RequestCancel, BudgetRunsOut, Persist,
     waveVars, flowVars, Inv, Rest, Sound, Rows, Now, Ended
<1>2. iteration' \in 0 .. IterationCap /\ iteration <= iteration'
  <2>1. iteration \in 0 .. IterationCap /\ iteration <= iteration
    BY WorkflowAssumption DEF Inv, Sound, Rows, Now
  <2>2. CASE ReplanBroke
    BY <2>2, Counted DEF ReplanBroke
  <2>3. CASE ~ReplanBroke
    BY <2>1, <2>3 DEF DispatchBroke, Review, LoopExit, AskCancel, BudgetRunsOut, flowVars
  <2> QED BY <2>2, <2>3
<1>3. WaveInv' /\ Sound(Now') /\ Ahead(Now', Now)
  BY <1>1, <1>2, DagSame
<1>4. /\ status' \in {"none", "COMPLETED", "STOPPED", "FAILED", "INCOMPLETE", "NEED_VERIFICATION"}
      /\ node' \in Nodes
  <2>1. CASE ReplanBroke
    BY <2>1, Counted DEF ReplanBroke, Inv, Rest, Nodes
  <2>2. CASE ~ReplanBroke
    BY <2>2, StatusType DEF DispatchBroke, Review, LoopExit, AskCancel, BudgetRunsOut, AfterSubtask, flowVars,
       Inv, Rest, Nodes, Ended
  <2> QED BY <2>1, <2>2
<1>5. Rest'
  BY <1>1, <1>4 DEF Inv, Rest
<1>6. CASE AskCancel \/ BudgetRunsOut
  <2>1. UNCHANGED <<node, disk, verdict, iteration>>
    BY <1>6 DEF AskCancel, BudgetRunsOut, flowVars
  <2>2. Now' = Now /\ Known(state') = Known(state) /\ (Idle => Idle')
    BY <1>1, <2>1 DEF Now, Idle
  <2>3. NodeInv'
    BY <1>1, <2>1, <2>2 DEF Inv, NodeInv
  <2>4. Ahead(disk', disk)
    BY <2>1, AheadSelf DEF Inv, Sound
  <2>5. NobodyWaits' /\ NotStored'
    BY <1>1, <2>1, <2>2 DEF Inv, NobodyWaits, NotStored
  <2> QED BY <1>3, <1>5, <2>1, <2>2, <2>3, <2>4, <2>5 DEF Inv
<1>7. CASE DispatchBroke \/ Review \/ ReplanBroke \/ LoopExit
  <2>1. /\ node \in {"execute", "review", "replan", "loop"} /\ node' \notin {"wave", "decompose"}
        /\ node' = "loop" => mode = "resume"
    BY <1>7, Counted DEF DispatchBroke, Review, ReplanBroke, LoopExit, AfterSubtask
  <2>2. Idle'
    BY <1>1, <2>1 DEF Inv, NodeInv, Idle
  <2>3. mode = "graph" => iteration' <= MaxIterations /\ (node' = "replan" => iteration' < MaxIterations)
    <3> SUFFICES ASSUME mode = "graph"
                 PROVE  iteration' <= MaxIterations /\ (node' = "replan" => iteration' < MaxIterations)
      OBVIOUS
    <3>1. CASE ReplanBroke
      BY <3>1, Counted DEF ReplanBroke
    <3>2. CASE DispatchBroke
      BY <3>2 DEF DispatchBroke, AfterSubtask, Inv, NodeInv
    <3>3. CASE Review
      BY <3>3, <1>2, WorkflowAssumption DEF Review, AtLimit, Inv, NodeInv
    <3>4. CASE LoopExit
      <4>1. node = "loop" /\ UNCHANGED <<iteration, mode>>
        BY <3>4 DEF LoopExit
      <4> QED BY <4>1 DEF Inv, NodeInv, Ended
    <3> QED BY <1>7, <3>1, <3>2, <3>3, <3>4
  <2> QED BY <1>1, <1>3, <1>5, <2>1, <2>2, <2>3, MovesOn
<1> QED BY <1>6, <1>7

LEMMA ForgetSteps == ASSUME Inv, DispatchNothing \/ Cancel \/ Crash PROVE Inv' /\ Ahead(disk', disk)
<1>1. Forget /\ node' \in Ended /\ UNCHANGED <<disk, mode, broke, resumes, token>>
  BY DEF DispatchNothing, Cancel, Crash, Ended
<1>2. Rest'
  BY <1>1 DEF DispatchNothing, Cancel, Crash, Inv, Rest, Forget, Restore, Nodes, Ended
<1> QED BY <1>1, <1>2, Forgotten

LEMMA CircuitBreakerStep == ASSUME Inv, CircuitBreaker PROVE Inv' /\ Ahead(disk', disk)
<1>1. /\ node = "replan" /\ NextIteration /\ UNCHANGED <<deps, wave, token, mode, verdict, broke, lives, status, resumes>>
      /\ disk' \in {disk, Now'}
  BY DEF CircuitBreaker, Persist
<1>2. /\ state \in [Task -> TaskState \cup {ABSENT}] /\ deps \in [Task -> Seq(Task)]
      /\ retries \in [Task -> 0 .. MaxRetries] /\ iteration \in 0 .. IterationCap /\ verdict \in Verdict
      /\ MaxRetries \in Nat /\ lives \in [Task -> Nat]
  BY WavesAssumption DEF Inv, Sound, Rows, Now
<1>3. /\ iteration' \in 0 .. IterationCap /\ iteration <= iteration'
      /\ node' \in {"execute", "loop"} /\ (node' = "loop" => mode = "resume")
      /\ mode = "graph" => iteration' <= MaxIterations
  BY <1>1, Counted
<1>4. Idle /\ Idle'
  BY <1>1 DEF Inv, NodeInv, Idle
<1>5. /\ \A t \in Task : state'[t] = state[t] \/ (state[t] = "FAILED" /\ state'[t] = "READY")
      /\ state' \in [Task -> TaskState \cup {ABSENT}]
  BY <1>2 DEF CircuitBreaker, Retriable, Failed, TaskState, OpenState
<1>6. /\ retries' \in [Task -> 0 .. MaxRetries]
      /\ \A t \in Task : retries[t] <= retries'[t]
  <2>1. retries' = [t \in Task |-> IF t \in Retriable THEN retries[t] + 1 ELSE retries[t]]
    BY DEF CircuitBreaker
  <2>2. ASSUME NEW t \in Task
        PROVE  retries'[t] \in 0 .. MaxRetries /\ retries[t] <= retries'[t]
    <3>1. retries[t] \in 0 .. MaxRetries
      BY <1>2
    <3>2. CASE t \in Retriable
      <4>1. retries'[t] = retries[t] + 1 /\ retries[t] < MaxRetries
        BY <2>1, <3>2 DEF Retriable
      <4> QED BY <1>2, <3>1, <4>1
    <3>3. CASE t \notin Retriable
      <4>1. retries'[t] = retries[t]
        BY <2>1, <3>3
      <4> QED BY <1>2, <3>1, <4>1
    <3> QED BY <3>2, <3>3
  <2>3. retries' = [t \in Task |-> retries'[t]]
    BY <2>1
  <2> QED BY <2>2, <2>3
<1>7. Known(state') = Known(state)
  BY <1>5 DEF Known, ABSENT
<1>8. \A t \in Task : state'[t] = "COMPLETED" <=> state[t] = "COMPLETED"
  BY <1>5
<1>9. Untouched(Now) => \A t \in Task : state'[t] = "COMPLETED" => Satisfied(state', deps[t])
  <2>1. Untouched(Now) => \A t \in Task : state[t] = "COMPLETED" => Satisfied(state, deps[t])
    BY DEF Inv, Sound, Now, Done
  <2> QED BY <1>2, <1>8, <2>1, SatisfiedKept
<1>10. Now' \in Rows
  BY <1>1, <1>2, <1>3, <1>5, <1>6 DEF Now, Rows
<1>11. Sound(Now')
  <2>1. \A t \in Known(state') : lives[t] >= 1
    BY <1>7 DEF Inv, Sound, Now
  <2> QED BY <1>1, <1>9, <1>10, <2>1 DEF Sound, Now, Done, Untouched
<1>12. Ahead(Now', Now)
  <2>1. \A t \in Task : lives[t] <= lives[t]
    BY <1>2
  <2> QED BY <1>1, <1>3, <1>6, <1>7, <1>8, <2>1 DEF Ahead, Now, Done
<1>13. WaveInv'
  BY <1>4, <1>5 DEF Inv, WaveInv, Idle
<1>14. Rest'
  BY <1>1, <1>3 DEF Inv, Rest, Nodes
<1> QED BY <1>1, <1>3, <1>4, <1>11, <1>12, <1>13, <1>14, MovesOn DEF Ended
-----------------------------------------------------------------------------
\* The tasks that add_task puts into the dag in this step, new or in the place
\* of others.
Arrivals == {t \in Task : lives'[t] # lives[t]}

\* What grafting a remedy onto the dag does to it: of the tasks that stay only
\* open ones change and only lists with failed ones.
LEMMA RemediateDag ==
  ASSUME Inv, Remediate
  PROVE  /\ state' \in [Task -> TaskState \cup {ABSENT}] /\ deps' \in [Task -> Seq(Task)]
         /\ retries' = [t \in Task |-> IF t \in Arrivals THEN 0 ELSE retries[t]]
         /\ lives' = [t \in Task |-> IF t \in Arrivals THEN lives[t] + 1 ELSE lives[t]]
         /\ \A t \in Arrivals : state'[t] = "PENDING"
         /\ \A t \in Task \ Arrivals :
              /\ state[t] \notin OpenState => state'[t] = state[t]
              /\ state[t] \in OpenState => state'[t] \in OpenState \cup {"SKIPPED_REDUNDANT"}
              /\ Untouched(Now) /\ state[t] = "COMPLETED" => deps'[t] = deps[t]
<1> DEFINE F == Failed(state)
<1>1. PICK r \in Remedies[iteration + 1], S \in SUBSET OpenTasks(state) :
        LET pruned == PruneTasks(state, deps, S)
            kept   == IF r.architectural THEN InvalidateDependents(pruned, deps, F) ELSE pruned
        IN /\ state'   = Injected(kept, F, r).state
           /\ deps'    = Injected(kept, F, r).deps
           /\ retries' = [t \in Task |-> IF t \in Added(r) THEN 0 ELSE retries[t]]
           /\ lives' = [t \in Task |-> IF t \in Added(r) THEN lives[t] + 1 ELSE lives[t]]
  BY DEF Remediate, Put
<1> DEFINE pruned == PruneTasks(state, deps, S)
           kept   == IF r.architectural THEN InvalidateDependents(pruned, deps, F) ELSE pruned
<1>2. /\ state \in [Task -> TaskState \cup {ABSENT}] /\ deps \in [Task -> Seq(Task)]
      /\ iteration \in 0 .. IterationCap /\ iteration < IterationCap /\ IterationCap \in Nat
      /\ lives \in [Task -> Nat]
  BY WorkflowAssumption DEF Inv, Sound, Rows, Now, Remediate
<1>3. iteration + 1 \in 1 .. IterationCap
  BY <1>2
<1>4. /\ r.tasks \in Seq(Task) /\ Len(r.tasks) > 0 /\ r.deps \in [Task -> Seq(Task)]
  BY <1>3, WorkflowAssumption
<1>5. Added(r) \subseteq Task /\ Terminal(r) \in Task
  BY <1>4 DEF Added, Terminal
<1>6. Added(r) = Arrivals
  <2>1. \A t \in Task : lives[t] + 1 # lives[t]
    BY <1>2
  <2> QED BY <1>1, <1>5, <2>1 DEF Arrivals
<1>7. OpenStep(state, kept)
  <2>1. OpenStep(state, pruned) /\ pruned \in [Task -> TaskState \cup {ABSENT}]
    BY <1>2, PruneOpen DEF OpenStep
  <2>2. OpenStep(pruned, InvalidateDependents(pruned, deps, F))
    BY <2>1, InvalidateOpen
  <2> QED BY <2>1, <2>2 DEF OpenStep, OpenState
<1>8. state' = [t \in Task |-> IF t \in Added(r) THEN "PENDING" ELSE Unblock(kept, deps, Rerouted(F, r))[t]]
  BY <1>1 DEF Injected
<1>9. deps' = [t \in Task |-> IF t \in Added(r)
                              THEN Retarget(r.deps[t], Rerouted(F, r) \ Primary(F), Terminal(r))
                              ELSE Retarget(deps[t], Rerouted(F, r), Terminal(r))]
  BY <1>1 DEF Injected
<1> HIDE DEF kept, F
<1>10. \A t \in Task : Unblock(kept, deps, Rerouted(F, r))[t] \in {kept[t], "PENDING"}
                       /\ (Unblock(kept, deps, Rerouted(F, r))[t] # kept[t] => kept[t] = "BLOCKED")
  BY DEF Unblock
<1>11. kept \in [Task -> TaskState \cup {ABSENT}]
  BY <1>7 DEF OpenStep
<1>12. state' \in [Task -> TaskState \cup {ABSENT}]
  BY <1>8, <1>10, <1>11 DEF TaskState, OpenState
<1>13. deps' \in [Task -> Seq(Task)]
  <2>1. \A t \in Task : Retarget(r.deps[t], Rerouted(F, r) \ Primary(F), Terminal(r)) \in Seq(Task)
    BY <1>4, <1>5, RetargetIsList
  <2>2. \A t \in Task : Retarget(deps[t], Rerouted(F, r), Terminal(r)) \in Seq(Task)
    BY <1>2, <1>5, RetargetIsList
  <2> QED BY <1>9, <2>1, <2>2
<1>14. ASSUME NEW t \in Task \ Added(r), Untouched(Now), state[t] = "COMPLETED" PROVE deps'[t] = deps[t]
  <2>1. Satisfied(state, deps[t]) /\ deps[t] \in Seq(Task)
    BY <1>2, <1>14 DEF Inv, Sound, Now, Done
  <2>2. \A i \in DOMAIN deps[t] : deps[t][i] \notin Rerouted(F, r)
    BY <2>1 DEF Satisfied, Rerouted, F, Failed
  <2>3. deps'[t] = Retarget(deps[t], Rerouted(F, r), Terminal(r))
    BY <1>9, <1>14
  <2>4. deps[t] = [i \in DOMAIN deps[t] |-> deps[t][i]]
    BY <2>1
  <2> QED BY <2>2, <2>3, <2>4 DEF Retarget
<1>15. ASSUME NEW t \in Task \ Added(r)
       PROVE  /\ state[t] \notin OpenState => state'[t] = state[t]
              /\ state[t] \in OpenState => state'[t] \in OpenState \cup {"SKIPPED_REDUNDANT"}
  <2>1. state'[t] \in {kept[t], "PENDING"} /\ (state'[t] # kept[t] => kept[t] = "BLOCKED")
    BY <1>8, <1>10
  <2> QED BY <2>1, <1>7 DEF OpenStep, OpenState
<1> QED BY <1>1, <1>5, <1>6, <1>8, <1>12, <1>13, <1>14, <1>15

LEMMA RemediateStep == ASSUME Inv, Remediate PROVE Inv' /\ Ahead(disk', disk)
<1>1. /\ node = "replan" /\ NextIteration /\ UNCHANGED <<wave, token, mode, verdict, broke, status, resumes>>
      /\ disk' \in {disk, Now'}
  BY DEF Remediate, Persist
<1>2. /\ state \in [Task -> TaskState \cup {ABSENT}] /\ retries \in [Task -> 0 .. MaxRetries]
      /\ iteration \in 0 .. IterationCap /\ verdict \in Verdict /\ MaxRetries \in Nat
      /\ deps \in [Task -> Seq(Task)] /\ lives \in [Task -> Nat]
  BY WavesAssumption DEF Inv, Sound, Rows, Now
<1>3. /\ iteration' \in 0 .. IterationCap /\ iteration <= iteration'
      /\ node' \in {"execute", "loop"} /\ (node' = "loop" => mode = "resume")
      /\ mode = "graph" => iteration' <= MaxIterations
  BY <1>1, Counted
<1>4. Idle /\ Idle' /\ \A t \in Task : wave[t] = "none" /\ wave'[t] = "none"
  BY <1>1 DEF Inv, NodeInv, Idle
<1>5. /\ state' \in [Task -> TaskState \cup {ABSENT}] /\ deps' \in [Task -> Seq(Task)]
      /\ retries' = [t \in Task |-> IF t \in Arrivals THEN 0 ELSE retries[t]]
      /\ lives' = [t \in Task |-> IF t \in Arrivals THEN lives[t] + 1 ELSE lives[t]]
      /\ \A t \in Arrivals : state'[t] = "PENDING"
      /\ \A t \in Task \ Arrivals :
           /\ state[t] \notin OpenState => state'[t] = state[t]
           /\ state[t] \in OpenState => state'[t] \in OpenState \cup {"SKIPPED_REDUNDANT"}
           /\ Untouched(Now) /\ state[t] = "COMPLETED" => deps'[t] = deps[t]
  BY RemediateDag
<1>6. \A t \in Task \ Arrivals : state'[t] = "COMPLETED" <=> state[t] = "COMPLETED"
  BY <1>5 DEF OpenState
<1>7. Known(state') = Known(state) \cup Arrivals
  BY <1>5 DEF Known, OpenState, ABSENT, Arrivals
<1>8. /\ retries' \in [Task -> 0 .. MaxRetries] /\ lives' \in [Task -> Nat]
      /\ \A t \in Task : lives[t] <= lives'[t]
      /\ \A t \in Task \ Arrivals : retries[t] <= retries'[t]
  BY <1>2, <1>5
<1>9. Untouched(Now') => Untouched(Now) /\ Arrivals \cap Known(state) = {}
  <2>1. ASSUME Untouched(Now'), NEW t \in Task PROVE lives'[t] <= 1 /\ lives[t] <= 1
    BY <1>2, <1>8, <2>1 DEF Untouched, Now
  <2>2. ASSUME NEW t \in Arrivals, t \in Known(state), lives'[t] <= 1 PROVE FALSE
    <3>1. lives[t] >= 1 /\ lives'[t] = lives[t] + 1 /\ lives[t] \in Nat
      BY <1>2, <1>5, <2>2 DEF Inv, Sound, Now, Arrivals
    <3> QED BY <2>2, <3>1
  <2> QED BY <2>1, <2>2 DEF Untouched, Now, Arrivals
<1>10. Untouched(Now') => \A t \in Task : state'[t] = "COMPLETED" => Satisfied(state', deps'[t])
  <2>1. ASSUME Untouched(Now'), NEW t \in Task, state'[t] = "COMPLETED" PROVE Satisfied(state', deps'[t])
    <3>1. state[t] = "COMPLETED" /\ t \notin Arrivals /\ deps'[t] = deps[t]
      BY <2>1, <1>5, <1>6, <1>9
    <3>2. Satisfied(state, deps[t]) /\ deps[t] \in Seq(Task)
      BY <2>1, <3>1, <1>2, <1>9 DEF Inv, Sound, Now, Done
    <3>3. \A u \in Task : state[u] = "COMPLETED" => state'[u] = "COMPLETED"
      BY <1>6, <1>9, <2>1 DEF Known, ABSENT
    <3> QED BY <3>1, <3>2, <3>3, SatisfiedKept
  <2> QED BY <2>1
<1>11. Now' \in Rows
  BY <1>1, <1>2, <1>3, <1>5, <1>8 DEF Now, Rows
<1>12. \A t \in Known(state') : lives'[t] >= 1
  <2>1. \A t \in Known(state) : lives[t] >= 1
    BY DEF Inv, Sound, Now
  <2>2. ASSUME NEW t \in Known(state') PROVE lives'[t] >= 1
    <3>1. t \in Task /\ lives[t] \in Nat /\ (t \in Arrivals \/ lives[t] >= 1)
      BY <1>2, <1>7, <2>1, <2>2 DEF Known
    <3> QED BY <1>5, <3>1
  <2> QED BY <2>2
<1>13. Sound(Now')
  BY <1>10, <1>11, <1>12 DEF Sound, Now, Done
<1>14. Ahead(Now', Now)
  BY <1>3, <1>6, <1>7, <1>8 DEF Ahead, Now, Done, Arrivals
<1>15. WaveInv'
  <2>1. \A t \in Task : state'[t] \notin {"RUNNING", "VERIFYING"}
    BY <1>4, <1>5 DEF Inv, WaveInv, OpenState
  <2> QED BY <1>4, <2>1 DEF WaveInv
<1>16. Rest'
  BY <1>1, <1>3 DEF Inv, Rest, Nodes
<1> QED BY <1>1, <1>3, <1>4, <1>13, <1>14, <1>15, <1>16, MovesOn DEF Ended
-----------------------------------------------------------------------------
\* Rewriting open tasks of stored rows, as recovery does.
LEMMA OpenRows ==
  ASSUME NEW d, Sound(d), Still(d), NEW n, OpenStep(d.state, n)
  PROVE  LET e == [d EXCEPT !.state = n]
         IN Sound(e) /\ Still(e) /\ Ahead(e, d) /\ Known(e.state) = Known(d.state)
<1> DEFINE e == [d EXCEPT !.state = n]
<1>1. /\ d \in Rows /\ n \in [Task -> TaskState \cup {ABSENT}]
      /\ d.deps \in [Task -> Seq(Task)] /\ d.retries \in [Task -> 0 .. MaxRetries] /\ d.iteration \in 0 .. IterationCap
      /\ MaxRetries \in Nat /\ IterationCap \in Nat /\ d.lives \in [Task -> Nat]
  BY WavesAssumption, WorkflowAssumption DEF Sound, Rows, OpenStep
<1>2. /\ e \in Rows /\ e.state = n /\ e.deps = d.deps /\ e.retries = d.retries /\ e.iteration = d.iteration
      /\ e.lives = d.lives
  BY <1>1 DEF Rows
<1>3. \A t \in Task : /\ d.state[t] = ABSENT <=> n[t] = ABSENT
                      /\ d.state[t] = "COMPLETED" <=> n[t] = "COMPLETED"
                      /\ n[t] \notin {"RUNNING", "VERIFYING"}
  BY OpenLeaves DEF Still
<1>4. Known(n) = Known(d.state)
  BY <1>3 DEF Known
<1> HIDE DEF e
<1>5. Untouched(d) => \A t \in Task : n[t] = "COMPLETED" => Satisfied(n, d.deps[t])
  <2>1. ASSUME Untouched(d), NEW t \in Task, n[t] = "COMPLETED" PROVE Satisfied(n, d.deps[t])
    <3>1. Satisfied(d.state, d.deps[t]) /\ d.deps[t] \in Seq(Task)
      BY <1>1, <1>3, <2>1 DEF Sound, Done
    <3> QED BY <1>3, <3>1, SatisfiedKept
  <2> QED BY <2>1
<1>6. Sound(e)
  BY <1>2, <1>3, <1>4, <1>5 DEF Sound, Done, Untouched
<1>7. Still(e)
  BY <1>2, <1>3 DEF Still
<1>8. (\A t \in Task : d.retries[t] <= d.retries[t] /\ d.lives[t] <= d.lives[t]) /\ d.iteration <= d.iteration
  BY <1>1
<1>9. Ahead(e, d)
  BY <1>2, <1>3, <1>4, <1>8 DEF Ahead, Done
<1> QED BY <1>2, <1>4, <1>6, <1>7, <1>9 DEF e

LEMMA ResumeStep == ASSUME Inv, Resume PROVE Inv' /\ Ahead(disk', disk)
<1>1. Sound(disk) /\ Still(disk) /\ disk \in Rows
  BY DEF Inv, Sound
<1>2. resumes' \in 0 .. MaxResumes /\ token' = FALSE /\ broke' = FALSE /\ status' = status
  BY WorkflowAssumption DEF Resume, Inv, Rest
<1>3. CASE Known(disk.state) = {}
  <2>1. Restore(Blank) /\ node' = "decompose" /\ mode' = "graph" /\ disk' = disk
    BY <1>3 DEF Resume
  <2>2. disk = Blank /\ Now' = Blank /\ Blank.iteration = 0
    BY <1>3, <2>1 DEF Inv, NodeInv, Restore, Now, Blank
  <2>3. Ahead(disk, disk)
    BY <1>1, AheadSelf
  <2>4. WaveInv' /\ Idle'
    BY <2>1 DEF Restore, Blank, WaveInv, Idle, ABSENT
  <2>5. NodeInv'
    BY <2>1, <2>2, <2>4, WorkflowAssumption DEF NodeInv, Restore
  <2>6. Rest'
    BY <1>2, <2>1 DEF Inv, Rest, Restore, Nodes
  <2> QED BY <1>1, <2>1, <2>2, <2>3, <2>4, <2>5, <2>6, IdleNow DEF Inv
<1>4. CASE Known(disk.state) # {}
  <2>1. PICK n \in Task :
          LET fixed == [t \in Task |-> IF t <= n THEN Reconciled(disk)[t] ELSE disk.state[t]]
              whole == \A t \in Task : t <= n
              found == Refresh(fixed, disk.deps)
          IN /\ disk' = [disk EXCEPT !.state = fixed]
             /\ Restore([disk EXCEPT !.state = IF whole THEN found ELSE fixed])
             /\ mode' = "resume"
             /\ node' = CASE ~whole -> "crashed"
                          [] whole /\ AllCompleted(found) /\ verdict' = "PASS" -> "over"
                          [] OTHER  -> "loop"
    BY <1>4 DEF Resume
  <2> DEFINE fixed == [t \in Task |-> IF t <= n THEN Reconciled(disk)[t] ELSE disk.state[t]]
             whole == \A t \in Task : t <= n
             now   == IF whole THEN Refresh(fixed, disk.deps) ELSE fixed
             e     == [disk EXCEPT !.state = fixed]
             m     == [disk EXCEPT !.state = now]
  <2>2. /\ disk' = e /\ Restore(m) /\ mode' = "resume"
        /\ node' \in {"crashed", "over", "loop"}
    BY <2>1
  <2>3. OpenStep(disk.state, fixed)
    <3>1. disk.state \in [Task -> TaskState \cup {ABSENT}]
      BY <1>1 DEF Rows
    <3>2. \A t \in Task : Reconciled(disk)[t] = disk.state[t]
                          \/ (disk.state[t] = "PENDING" /\ Reconciled(disk)[t] = "READY")
      BY <1>1 DEF Reconciled, Still
    <3> QED BY <3>1, <3>2 DEF OpenStep, TaskState, OpenState
  <2>4. Sound(e) /\ Still(e) /\ Ahead(e, disk) /\ Known(e.state) = Known(disk.state)
    BY <1>1, <2>3, OpenRows
  <2>5. e.state = fixed /\ e.deps = disk.deps /\ [e EXCEPT !.state = now] = m /\ fixed \in [Task -> TaskState \cup {ABSENT}]
    BY <1>1, <2>3 DEF Rows, OpenStep
  <2> HIDE DEF fixed
  <2>6. OpenStep(fixed, now)
    BY <2>5, RefreshOpen DEF OpenStep, OpenState
  <2> HIDE DEF e, now
  <2>7. Sound(m) /\ Still(m) /\ Ahead(m, e) /\ Known(m.state) = Known(e.state)
    BY <2>4, <2>5, <2>6, OpenRows
  <2> HIDE DEF m
  <2>8. Now' = m /\ wave' = [t \in Task |-> "none"] /\ state' = m.state
    <3>1. m \in Rows
      BY <2>7 DEF Sound
    <3> QED BY <2>2, <3>1 DEF Restore, Now, Rows
  <2>9. WaveInv' /\ Idle'
    BY <2>7, <2>8 DEF WaveInv, Idle, Still
  <2>10. NodeInv'
    BY <1>4, <2>2, <2>4, <2>7, <2>8, <2>9 DEF NodeInv, Ended
  <2>11. Rest'
    BY <1>2, <2>2, <2>8 DEF Inv, Rest, Nodes, Ended
  <2> QED BY <2>2, <2>4, <2>7, <2>8, <2>9, <2>10, <2>11, IdleNow DEF Inv
<1> QED BY <1>3, <1>4

\* Every step keeps the invariant, and what is stored never goes back.
LEMMA StepInv == ASSUME Inv, [Next]_vars PROVE Inv' /\ Ahead(disk', disk)
<1>1. CASE Progress
  BY <1>1, DecomposeStep, WaveSteps, SameSteps, ForgetSteps, CircuitBreakerStep, RemediateStep DEF Progress
<1>2. CASE Crash \/ AskCancel \/ BudgetRunsOut \/ Resume
  BY <1>2, ForgetSteps, SameSteps, ResumeStep
<1>3. CASE UNCHANGED vars
  <2>1. UNCHANGED <<state, deps, retries, wave, token, node, mode, verdict, iteration, broke, lives, disk, status, resumes>>
    BY <1>3 DEF vars, waveVars, flowVars
  <2>2. Ahead(disk, disk)
    BY AheadSelf DEF Inv, Sound
  <2>3. Now' = Now
    BY <2>1 DEF Now
  <2> QED BY <2>1, <2>2, <2>3 DEF Inv, Rest, WaveInv, NodeInv, NobodyWaits, NotStored, Idle
<1> QED BY <1>1, <1>2, <1>3 DEF Next

\* What memory and store say of one another and of the orchestrator's place,
\* whatever is re-planned, saved, cancelled, lost and resumed.
THEOREM Invariance == Spec => []Inv
<1>1. Inv /\ [Next]_vars => Inv'
  BY StepInv
<1> QED BY <1>1, InitInv, PTL DEF Spec

\* Every variable keeps its type, the stored rows included.
THEOREM TypeCorrect == Spec => []FlowTypeOK
<1>1. Inv => FlowTypeOK
  BY DEF Inv, Rest, Sound, Rows, Now, FlowTypeOK, WaveTypeOK
<1> QED BY <1>1, Invariance, PTL

\* What a wave has taken up rests on completed work, in every wave of a session.
THEOREM Prepared == Spec => []DependenciesComplete
<1>1. Inv => DependenciesComplete
  BY DEF Inv, WaveInv, DependenciesComplete
<1> QED BY <1>1, Invariance, PTL

\* The graph keeps the re-plan limit, over budget and after crashes too.
THEOREM LimitHolds == Spec => []IterationsBounded
<1>1. Inv => IterationsBounded
  BY DEF Inv, NodeInv, IterationsBounded
<1> QED BY <1>1, Invariance, PTL

\* What a crash leaves behind has nobody at work, and completed work on completed
\* work as long as no task has been replaced.
THEOREM DiskHolds == Spec => []RecoverableDisk
<1>1. Inv => RecoverableDisk
  BY DEF Inv, Sound, Still, Done, RecoverableDisk
<1> QED BY <1>1, Invariance, PTL

\* A task stored COMPLETED stays so, unless add_task replaces it.
THEOREM KeptWork == Spec => WorkIsKept
<1>1. Inv /\ [Next]_vars =>
        [\A t \in Task : disk.state[t] = "COMPLETED" /\ disk'.lives[t] = disk.lives[t]
                           => disk'.state[t] = "COMPLETED"]_vars
  BY StepInv DEF Ahead, Done
<1> QED BY <1>1, Invariance, PTL DEF Spec, WorkIsKept

\* Stored iteration and retries never go back, but for a task that another
\* has replaced.
THEOREM LimitsHold == Spec => LimitsSurvive
<1>1. ASSUME Inv, [Next]_vars
      PROVE  /\ disk'.iteration >= disk.iteration
             /\ \A t \in Task : disk'.lives[t] = disk.lives[t] => disk'.retries[t] >= disk.retries[t]
  <2>1. Ahead(disk', disk) /\ disk \in Rows /\ disk' \in Rows
    BY <1>1, StepInv DEF Inv, Sound
  <2>2. \A t \in Task : disk.retries[t] \in Nat /\ disk'.retries[t] \in Nat
    BY <2>1, WavesAssumption DEF Rows
  <2>3. disk.iteration \in Nat /\ disk'.iteration \in Nat
    BY <2>1, WorkflowAssumption DEF Rows
  <2> QED BY <2>1, <2>2, <2>3 DEF Ahead
<1>2. Inv /\ [Next]_vars =>
        [/\ disk'.iteration >= disk.iteration
         /\ \A t \in Task : disk'.lives[t] = disk.lives[t] => disk'.retries[t] >= disk.retries[t]]_vars
  BY <1>1
<1> QED BY <1>2, Invariance, PTL DEF Spec, LimitsSurvive
-----------------------------------------------------------------------------
\* What _invalidate_downstream leaves open does not wait for a failed task.
LEMMA InvalidatedWaitNot ==
  ASSUME NEW s, NEW d, NEW S, NEW t \in Task,
         InvalidateDependents(s, d, S)[t] \in OpenState
  PROVE  ~ WaitsFor(d, S, t)
<1> SUFFICES ASSUME WaitsFor(d, S, t) PROVE FALSE
  OBVIOUS
<1>1. s[t] \in OpenState /\ t \notin Descendants(s, d, S)
  BY DEF InvalidateDependents, Skip, OpenState
<1>2. t \in Known(s)
  BY <1>1 DEF Known, OpenState, ABSENT
<1>3. \A D : t \in Dependents(s, d, S \cup D)
  BY <1>2 DEF Dependents, WaitsFor
<1>4. t \in Descendants(s, d, S)
  BY <1>2, <1>3 DEF Descendants
<1> QED BY <1>1, <1>4

\* Grafting a remedy leaves no open task that stays waiting for a failed one.
LEMMA RemediateOpens ==
  ASSUME Inv, Remediate
  PROVE  \A t \in OpenTasks(state') \ Arrivals : ~ WaitsFor(deps', Failed(state'), t)
<1> DEFINE F == Failed(state)
<1>1. PICK r \in Remedies[iteration + 1], S \in SUBSET OpenTasks(state) :
        LET pruned == PruneTasks(state, deps, S)
            kept   == IF r.architectural THEN InvalidateDependents(pruned, deps, F) ELSE pruned
        IN /\ state'   = Injected(kept, F, r).state
           /\ deps'    = Injected(kept, F, r).deps
           /\ lives' = [t \in Task |-> IF t \in Added(r) THEN lives[t] + 1 ELSE lives[t]]
  BY DEF Remediate, Put
<1> DEFINE pruned == PruneTasks(state, deps, S)
           kept   == IF r.architectural THEN InvalidateDependents(pruned, deps, F) ELSE pruned
<1>2. iteration + 1 \in 1 .. IterationCap
  <2>1. iteration \in 0 .. IterationCap /\ iteration < IterationCap /\ IterationCap \in Nat
    BY WorkflowAssumption DEF Inv, Sound, Rows, Now, Remediate
  <2> QED BY <2>1
<1>3. r.tasks \in Seq(Task) /\ Len(r.tasks) > 0
  BY <1>2, WorkflowAssumption
<1>4. Added(r) = Arrivals /\ Terminal(r) \in Arrivals
  <2>1. \A t \in Task : lives[t] + 1 # lives[t]
    BY DEF Inv, Sound, Rows, Now
  <2>2. Added(r) \subseteq Task /\ Terminal(r) \in Added(r)
    BY <1>3 DEF Added, Terminal
  <2> QED BY <1>1, <2>1, <2>2 DEF Arrivals
<1>5. Failed(state') \subseteq F \ Arrivals
  BY RemediateDag DEF Failed, OpenState
<1>6. state' = [t \in Task |-> IF t \in Added(r) THEN "PENDING" ELSE Unblock(kept, deps, Rerouted(F, r))[t]]
  BY <1>1 DEF Injected
<1>7. deps' = [t \in Task |-> IF t \in Added(r)
                              THEN Retarget(r.deps[t], Rerouted(F, r) \ Primary(F), Terminal(r))
                              ELSE Retarget(deps[t], Rerouted(F, r), Terminal(r))]
  BY <1>1 DEF Injected
<1> SUFFICES ASSUME NEW t \in Task, t \notin Added(r), state'[t] \in OpenState
             PROVE  ~ WaitsFor(deps', Failed(state'), t)
  BY <1>4 DEF OpenTasks
<1>9. CASE ~r.architectural
  <2>1. deps'[t] = Retarget(deps[t], F, Terminal(r))
    BY <1>7, <1>9 DEF Rerouted
  <2> QED BY <2>1, <1>4, <1>5 DEF Retarget, WaitsFor
<1>10. CASE r.architectural
  <2>1. deps'[t] = Retarget(deps[t], {}, Terminal(r)) /\ state'[t] = Unblock(kept, deps, {})[t]
    BY <1>6, <1>7, <1>10 DEF Rerouted
  <2>2. kept[t] \in OpenState
    BY <2>1 DEF Unblock, WaitsFor
  <2>3. ~ WaitsFor(deps, F, t)
    BY <2>2, <1>10, InvalidatedWaitNot
  <2> QED BY <2>1, <2>3, <1>5 DEF Retarget, WaitsFor
<1> QED BY <1>9, <1>10

\* Of what may happen in the place of a re-plan only a remedy adds tasks.
LEMMA OnlyRemediesAdd ==
  ASSUME Inv, [Next]_vars, node = "replan", \E t \in Task : lives'[t] > lives[t]
  PROVE  Remediate
<1>1. lives \in [Task -> Nat] /\ disk.lives \in [Task -> Nat] /\ \A t \in Task : disk.lives[t] <= lives[t]
  BY DEF Inv, Sound, Rows, Ahead, Now
<1>2. lives' # lives /\ lives' # disk.lives
  BY <1>1
<1>3. ~ Forget
  BY <1>2 DEF Forget, Restore
<1>4. Remediate \/ Crash \/ Cancel \/ ReplanBroke \/ CircuitBreaker \/ AskCancel \/ BudgetRunsOut \/ UNCHANGED vars
  BY DEF Next, Progress, Decompose, Dispatch, DispatchNothing, DispatchBroke, InWave, FinishWave, Review,
     LoopExit, Resume, Ended
<1> QED BY <1>2, <1>3, <1>4
        DEF Crash, Cancel, ReplanBroke, CircuitBreaker, AskCancel, BudgetRunsOut, vars, flowVars

\* Remediation opens the way, whatever ids the remedy takes: nothing older that
\* may still run waits for a failed task, nothing older that had run is touched.
THEOREM Unblocked == Spec => RemedyUnblocks
<1>1. ASSUME Inv, [Next]_vars, node = "replan", \E t \in Task : lives'[t] > lives[t],
             NEW t \in Known(state), lives'[t] = lives[t]
      PROVE  /\ t \in OpenTasks(state') => ~ WaitsFor(deps', Failed(state'), t)
             /\ t \notin OpenTasks(state) => state'[t] = state[t]
  <2>1. Remediate
    BY <1>1, OnlyRemediesAdd
  <2>2. t \in Task \ Arrivals
    BY <1>1 DEF Known, Arrivals
  <2>3. t \notin OpenTasks(state) => state'[t] = state[t]
    BY <1>1, <2>1, <2>2, RemediateDag DEF OpenTasks
  <2> QED BY <1>1, <2>1, <2>2, <2>3, RemediateOpens
<1>2. Inv /\ [Next]_vars =>
        [node = "replan" /\ (\E t \in Task : lives'[t] > lives[t])
           => \A t \in Known(state) :
                lives'[t] = lives[t] =>
                  /\ t \in OpenTasks(state') => ~ WaitsFor(deps', Failed(state'), t)
                  /\ t \notin OpenTasks(state) => state'[t] = state[t]]_vars
  BY <1>1
<1> QED BY <1>2, Invariance, PTL DEF Spec, RemedyUnblocks
=============================================================================

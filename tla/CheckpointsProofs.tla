------------------------- MODULE CheckpointsProofs --------------------------
(***************************************************************************)
(* A rollback that nothing disturbs is exact, for every set of files,      *)
(* texts and transactions and any number of iterations and sessions.       *)
(***************************************************************************)
EXTENDS Checkpoints, TLAPS

\* A snapshot that is whole holds the files of the workspace of its time, and is not being rewritten.
WholeInv ==
  /\ \A i \in whole : snap[i] = Plain(want[i]) /\ (job.op = "take" => job.id # i)
  /\ \A i \in Id \ made : snap[i] = Empty

\* How far the call in progress has come, if nothing has disturbed it.
JobInv ==
  /\ job.op = "take" /\ job.clean =>
       /\ want[job.id] = ws
       /\ \A f \in File : snap[job.id][f] = IF f \in (Files(ws) \cap Listed) \ job.todo THEN ws[f] ELSE Absent
  /\ job.op = "delete" /\ job.clean =>
       \A f \in File \ Files(snap[job.id]) : ws[f] \notin Text \/ f \in job.todo
  /\ job.op = "restore" /\ job.clean =>
       \A f \in File : Plain(ws)[f] = snap[job.id][f] \/ f \in job.todo
  /\ job.op = "done" /\ job.clean => Plain(ws) = snap[job.id]

\* Who is at work, and on which directory.
CallerInv ==
  /\ job.op = "take" => job.id \in made /\ job.todo \subseteq Listed
                        /\ (job.by = "baseline" \/ job.id \in Tx)
  /\ job.by = "baseline" => job.op = "take" /\ job.id = iteration
  /\ job.by = "replan" => /\ job.op # "take" /\ iteration < MaxIteration
                          /\ Working /\ (iteration \in made => job.id = iteration)
  /\ job.op = "none" => job = NoJob

\* In the first session the baseline of an iteration is taken before anyone
\* writes in it, or the iteration is known to have started without.
BaselineInv ==
  /\ Working => iteration \in made \cup missed
  /\ session = 1 => /\ \A i \in (made \cap Nat) \cup missed : i <= iteration
                    /\ iteration \notin made \cup missed => ws = began /\ job.op = "none"
                    /\ iteration \in whole \ missed => want[iteration] = began
                    /\ job.by = "baseline" /\ iteration \notin missed => want[iteration] = began

Inv == TypeOK /\ WholeInv /\ JobInv /\ CallerInv /\ BaselineInv
-----------------------------------------------------------------------------
\* Two trees with the same files are equal.
LEMMA SameTree ==
  ASSUME NEW a \in Copies, NEW b \in Copies, \A f \in File : a[f] = b[f]
  PROVE  a = b
  BY DEF Copies

LEMMA PlainType ==
  ASSUME NEW t \in Tree
  PROVE  Plain(t) \in Copies /\ \A f \in File : Plain(t)[f] = IF t[f] = Dir THEN Absent ELSE t[f]
  BY DEF Plain, Tree, Copies

\* The forms in which calls go on and end.
LEMMA JobTypes ==
  ASSUME TypeOK, NEW S \in SUBSET File
  PROVE  /\ NoJob \in Job
         /\ job.id \in Id /\ job.todo \subseteq File
         /\ [job EXCEPT !.todo = S] \in Job
         /\ [job EXCEPT !.todo = S, !.clean = FALSE] \in Job
  <1>1. 0 \in Id
    BY CheckpointAssumption DEF CheckpointAssumption, Id
  <1>2. NoJob \in Job
    BY <1>1 DEF Job, NoJob
  <1>3. job \in Job
    BY DEF TypeOK
  <1> QED
    BY <1>2, <1>3 DEF Job

\* The forms in which calls begin.
LEMMA NewJob ==
  ASSUME NEW o \in {"take", "delete", "done"}, NEW i \in Id, NEW b \in {"baseline", "replan", "tool"} \cup Tx,
         NEW S \in SUBSET File, NEW c \in BOOLEAN
  PROVE  [op |-> o, id |-> i, by |-> b, todo |-> S, clean |-> c] \in Job
  BY DEF Job

\* A new iteration has no directory yet; it starts in the main loop, or is known to have no baseline.
LEMMA IterationBegins ==
  ASSUME TypeOK, BaselineInv, Working, iteration < MaxIteration, NextIteration,
         UNCHANGED <<ws, made, session, want, whole>>, job' = NoJob
  PROVE  /\ BaselineInv'
         /\ iteration' \in 0..MaxIteration /\ node' \in {"execute", "wave", "resume"}
         /\ began' \in Tree /\ missed' \subseteq 0..MaxIteration
  <1>1. /\ iteration \in 0..MaxIteration /\ MaxIteration \in Nat /\ ws \in Tree /\ missed \subseteq 0..MaxIteration
        /\ iteration' = iteration + 1 /\ began' = ws
    BY CheckpointAssumption DEF TypeOK, NextIteration
  <1>2. iteration' \in 0..MaxIteration /\ iteration' \in Id /\ iteration' \in Nat /\ iteration < iteration'
    BY <1>1 DEF Id
  <1>3. \/ node' = "resume" /\ missed' = missed \cup {iteration'}
        \/ node' = "execute" /\ missed' = missed
    BY <1>1 DEF NextIteration
  <1>4. session = 1 => \A i \in (made \cap Nat) \cup missed : i <= iteration
    BY DEF BaselineInv
  <1>6. session = 1 => \A i \in (made \cap Nat) \cup missed : i \in Nat /\ i < iteration'
    <2> SUFFICES ASSUME session = 1, NEW i \in (made \cap Nat) \cup missed PROVE i \in Nat /\ i < iteration'
      OBVIOUS
    <2>1. missed \subseteq Nat /\ iteration \in Nat
      BY <1>1
    <2>2. i \in Nat /\ i <= iteration
      BY <1>4, <2>1
    <2> QED
      BY <1>1, <2>1, <2>2
  <1>7. session = 1 => iteration' \notin made \cup missed
    BY <1>2, <1>6
  <1>8. session = 1 => \A i \in (made \cap Nat) \cup missed' : i <= iteration'
    BY <1>2, <1>3, <1>6
  <1>9. Working' => iteration' \in missed'
    BY <1>3 DEF Working
  <1>10. whole \subseteq made /\ job'.op = "none" /\ job'.by = "none"
    BY DEF TypeOK, NoJob
  <1> QED
    BY <1>1, <1>2, <1>3, <1>7, <1>8, <1>9, <1>10 DEF BaselineInv

\* A rollback that comes to its end, or raises.
LEMMA CloseInv ==
  ASSUME Inv, NEW how \in {"none", "failed"}, Close(how), job.op \in {"restore", "done"}
  PROVE  Inv'
  <1>1. /\ job' = NoJob /\ UNCHANGED <<ws, snap, made, events, want, whole, session>>
        /\ registry' \in [Tx -> {"none", "active", "failed"}]
        /\ (job.by = "replan" /\ NextIteration) \/ UNCHANGED <<node, iteration, began, missed>>
    BY Zenon DEF Close, Inv, TypeOK
  <1>2. NoJob \in Job
    BY JobTypes DEF Inv
  <1>3. /\ BaselineInv' /\ iteration' \in 0..MaxIteration /\ node' \in {"execute", "wave", "resume"}
        /\ began' \in Tree /\ missed' \subseteq 0..MaxIteration
    <2>1. CASE job.by = "replan" /\ NextIteration
      BY <1>1, <2>1, IterationBegins DEF Inv, CallerInv
    <2>2. CASE UNCHANGED <<node, iteration, began, missed>>
      BY <1>1, <2>2 DEF Inv, TypeOK, BaselineInv, Working, NoJob
    <2> QED
      BY <1>1, <2>1, <2>2
  <1>4. TypeOK'
    BY <1>1, <1>2, <1>3 DEF Inv, TypeOK
  <1>5. WholeInv' /\ JobInv' /\ CallerInv'
    BY <1>1 DEF Inv, WholeInv, JobInv, CallerInv, NoJob
  <1> QED
    BY <1>3, <1>4, <1>5 DEF Inv

LEMMA InitInv == Init => Inv
  <1> SUFFICES ASSUME Init PROVE Inv
    OBVIOUS
  <1> USE CheckpointAssumption DEF CheckpointAssumption
  <1>1. 0 \in Id /\ NoJob \in Job
    BY DEF Id, NoJob, Job
  <1>2. Empty \in Tree /\ Empty \in Copies /\ Copies \subseteq Tree
    BY DEF Empty, Tree, Copies
  <1>3. TypeOK
    BY <1>1, <1>2 DEF Init, TypeOK
  <1> QED
    BY <1>3 DEF Init, Inv, WholeInv, JobInv, CallerInv, BaselineInv, NoJob, Working

LEMMA NextInv == Inv /\ [Next]_vars => Inv'
  <1> SUFFICES ASSUME Inv, [Next]_vars PROVE Inv'
    OBVIOUS
  <1> USE CheckpointAssumption DEF CheckpointAssumption
  <1> USE DEF Inv, Orchestrator, Idle, Working
  <1>1. CASE EndSnapshot
    <2>1. TypeOK'
      <3>1. NoJob \in Job
        BY JobTypes
      <3>2. registry' \in [Tx -> {"none", "active", "failed"}] /\ whole' \subseteq made' /\ node' \in {"execute", "wave", "resume"}
        <4>1. registry' \in [Tx -> {"none", "active", "failed"}]
          BY <1>1, Zenon DEF EndSnapshot, TypeOK
        <4>2. whole' \subseteq made'
          BY <1>1 DEF EndSnapshot, TypeOK, CallerInv
        <4>3. node' \in {"execute", "wave", "resume"}
          BY <1>1 DEF EndSnapshot, TypeOK
        <4> QED
          BY <4>1, <4>2, <4>3
      <3> QED
        BY <1>1, <3>1, <3>2 DEF EndSnapshot, TypeOK
    <2>2. WholeInv'
      <3>1. job.id \in Id /\ snap \in [Id -> Copies] /\ want \in [Id -> Tree]
        BY JobTypes DEF TypeOK
      <3>2. ASSUME job.clean, Files(want[job.id]) \subseteq Listed
            PROVE  snap[job.id] = Plain(want[job.id])
        <4>1. snap[job.id] \in Copies /\ Plain(want[job.id]) \in Copies /\ want[job.id] \in Tree
          BY <3>1, PlainType
        <4>2. want[job.id] = ws /\ \A f \in File : snap[job.id][f] = IF f \in Files(ws) \cap Listed THEN ws[f] ELSE Absent
          BY <1>1, <3>2 DEF EndSnapshot, JobInv
        <4>3. ASSUME NEW f \in File PROVE snap[job.id][f] = Plain(want[job.id])[f]
          <5>1. Plain(want[job.id])[f] = (IF ws[f] = Dir THEN Absent ELSE ws[f]) /\ ws[f] \in Text \cup {Absent, Dir}
            BY <4>1, <4>2, PlainType DEF Tree
          <5>2. ws[f] \in Text => f \in Listed /\ ws[f] # Dir
            BY <3>2, <4>2 DEF Files, Dir
          <5>3. snap[job.id][f] = IF ws[f] \in Text THEN ws[f] ELSE Absent
            BY <4>2, <5>2 DEF Files
          <5> QED
            BY <5>1, <5>2, <5>3
        <4> QED
          BY <4>1, <4>3, SameTree
      <3>3. job' = NoJob /\ snap' = snap /\ want' = want /\ made' = made
            /\ \A i \in whole' : i \in whole \/ (i = job.id /\ job.clean /\ Files(want[job.id]) \subseteq Listed)
        BY <1>1 DEF EndSnapshot
      <3> QED
        BY <3>2, <3>3 DEF WholeInv, NoJob
    <2>3. JobInv'
      BY <1>1 DEF EndSnapshot, TypeOK, WholeInv, JobInv, CallerInv, Tree, Copies, Files, Empty, Job, Id, NoJob
    <2>4. CallerInv'
      BY <1>1 DEF EndSnapshot, TypeOK, CallerInv, Job, Id, NoJob, BaselineInv
    <2>5. BaselineInv'
      <3>1. job.id \in made /\ (job.by = "baseline" => job.id = iteration)
        BY <1>1 DEF EndSnapshot, CallerInv
      <3>2. job' = NoJob /\ NoJob.by = "none" /\ NoJob.op = "none" /\ UNCHANGED <<ws, made, want, session, iteration, began, missed>>
        BY <1>1 DEF EndSnapshot, NoJob
      <3>3. node' = "wave" => node = "wave" \/ job.by = "baseline"
        BY <1>1 DEF EndSnapshot
      <3>4. session = 1 /\ iteration \in whole' \ missed => want[iteration] = began
        <4>1. CASE iteration \in whole
          BY <4>1 DEF BaselineInv
        <4>2. CASE iteration \notin whole
          <5>1. iteration \in whole' => job.id = iteration
            BY <1>1, <4>2 DEF EndSnapshot
          <5>2. iteration \in whole' => job.by = "baseline"
            BY <1>1, <5>1 DEF EndSnapshot, CallerInv, TypeOK
          <5> QED
            BY <5>2 DEF BaselineInv
        <4> QED
          BY <4>1, <4>2
      <3>5. node' # "execute" => iteration \in made \cup missed
        <4>1. node' = node \/ job.by = "baseline"
          BY <1>1 DEF EndSnapshot
        <4> QED
          BY <3>1, <4>1 DEF BaselineInv
      <3>7. session = 1 => /\ \A i \in (made \cap Nat) \cup missed : i <= iteration
                           /\ iteration \notin made \cup missed => ws = began
        BY DEF BaselineInv
      <3> QED
        BY <3>2, <3>4, <3>5, <3>7 DEF BaselineInv
    <2> QED
      BY <2>1, <2>2, <2>3, <2>4, <2>5
  <1>2. CASE StartRestore
    <2>1. /\ job.op = "delete" /\ job.todo = {} /\ job' = [job EXCEPT !.op = "restore", !.todo = Files(snap[job.id])]
          /\ UNCHANGED <<ws, snap, made, registry, events, want, whole, node, session, iteration, began, missed>>
      BY <1>2 DEF StartRestore
    <2>2. /\ job' \in Job /\ job'.op = "restore" /\ job'.todo = Files(snap[job.id])
          /\ job'.id = job.id /\ job'.by = job.by /\ job'.clean = job.clean
      BY <2>1 DEF TypeOK, Job, Files
    <2>3. TypeOK'
      BY <2>1, <2>2 DEF TypeOK
    <2>4. WholeInv' /\ CallerInv' /\ BaselineInv'
      BY <2>1, <2>2 DEF WholeInv, CallerInv, BaselineInv
    <2>5. ASSUME job.clean, NEW f \in File PROVE Plain(ws)[f] = snap[job.id][f] \/ f \in job'.todo
      <3>1. f \notin Files(snap[job.id]) => ws[f] \notin Text /\ snap[job.id][f] = Absent
        <4>1. snap[job.id] \in Copies
          BY JobTypes DEF TypeOK
        <4>2. f \notin Files(snap[job.id]) => snap[job.id][f] = Absent
          BY <2>5, <4>1 DEF Files, Copies
        <4> QED
          BY <2>1, <2>5, <4>2 DEF JobInv
      <3>2. Plain(ws)[f] = (IF ws[f] = Dir THEN Absent ELSE ws[f]) /\ ws[f] \in Text \cup {Absent, Dir}
        BY <2>5, PlainType DEF TypeOK, Tree
      <3> QED
        BY <2>2, <3>1, <3>2
    <2>6. JobInv'
      BY <2>1, <2>2, <2>5 DEF JobInv, Plain
    <2> QED
      BY <2>3, <2>4, <2>6
  <1>3. CASE EndRestore
    <2>1. /\ job.op = "restore" /\ job.todo = {} /\ job' = [job EXCEPT !.op = "done"]
          /\ UNCHANGED <<ws, snap, made, registry, events, want, whole, node, session, iteration, began, missed>>
      BY <1>3 DEF EndRestore
    <2>2. /\ job' \in Job /\ job'.op = "done"
          /\ job'.id = job.id /\ job'.by = job.by /\ job'.clean = job.clean
      BY <2>1 DEF TypeOK, Job
    <2>3. TypeOK'
      BY <2>1, <2>2 DEF TypeOK
    <2>4. WholeInv' /\ CallerInv' /\ BaselineInv'
      BY <2>1, <2>2 DEF WholeInv, CallerInv, BaselineInv
    <2>5. job.clean => Plain(ws) = snap[job.id]
      <3>1. Plain(ws) \in Copies /\ snap[job.id] \in Copies
        BY PlainType, JobTypes DEF TypeOK
      <3>2. job.clean => \A f \in File : Plain(ws)[f] = snap[job.id][f]
        BY <2>1 DEF JobInv
      <3> QED
        BY <3>1, <3>2, SameTree
    <2>6. JobInv'
      BY <2>1, <2>2, <2>5 DEF JobInv, Plain
    <2> QED
      BY <2>3, <2>4, <2>6
  <1>4. CASE Report
    BY <1>4, CloseInv DEF Report
  <1>5. CASE RestoreFails
    BY <1>5, CloseInv DEF RestoreFails
  <1>6. CASE Baseline
    <2>1. TypeOK'
      <3>1. iteration \in Id /\ Files(ws) \cap Listed \in SUBSET File
        BY DEF TypeOK, Id, Files
      <3>2. made' \subseteq Id /\ whole' \subseteq made' /\ want' \in [Id -> Tree]
        BY <1>6, <3>1 DEF Baseline, StartSnapshot, TypeOK
      <3>3. job' \in Job
        <4>1. CASE job' = job
          BY <4>1 DEF TypeOK
        <4>2. CASE job' = [op |-> "take", id |-> iteration, by |-> "baseline", todo |-> Files(ws) \cap Listed,
                           clean |-> iteration \notin made]
          BY <3>1, <4>2, NewJob
        <4> QED
          BY <1>6, <4>1, <4>2 DEF Baseline, StartSnapshot
      <3> QED
        BY <1>6, <3>2, <3>3 DEF Baseline, TypeOK
    <2>2. WholeInv'
      BY <1>6 DEF Baseline, StartSnapshot, TypeOK, WholeInv, CallerInv, NoJob
    <2>3. JobInv'
      <3>1. CASE job' = job /\ UNCHANGED <<snap, ws, want>>
        BY <1>6, <3>1 DEF Baseline, Idle, JobInv
      <3>2. CASE StartSnapshot(iteration, "baseline") /\ UNCHANGED <<snap, ws>>
        <4>1. iteration \in Id
          BY DEF TypeOK, Id
        <4>2. /\ job'.op = "take" /\ job'.id = iteration /\ job'.todo = Files(ws) \cap Listed
              /\ job'.clean = (iteration \notin made) /\ want'[iteration] = ws
          BY <3>2, <4>1 DEF StartSnapshot, TypeOK
        <4>3. iteration \notin made => snap[iteration] = Empty
          BY <4>1 DEF WholeInv
        <4>4. ASSUME job'.clean, NEW f \in File
              PROVE  snap[iteration][f] = IF f \in (Files(ws) \cap Listed) \ job'.todo THEN ws[f] ELSE Absent
          BY <4>2, <4>3, <4>4 DEF Empty
        <4>5. job'.clean => want'[job'.id] = ws'
          BY <3>2, <4>2
        <4> QED
          BY <3>2, <4>2, <4>4, <4>5 DEF JobInv, Files
      <3> QED
        BY <1>6, <3>1, <3>2 DEF Baseline
    <2>4. CallerInv'
      BY <1>6 DEF Baseline, StartSnapshot, TypeOK, CallerInv, Job, Id, NoJob, BaselineInv
    <2>5. BaselineInv'
      <3>1. UNCHANGED <<ws, session, iteration, began, missed, node>> \/ (node' = "wave" /\ iteration \in made /\ UNCHANGED <<ws, made, session, iteration, began, missed, job, want, whole>>)
        BY <1>6 DEF Baseline
      <3>2. CASE iteration \in made
        BY <1>6, <3>2 DEF Baseline, BaselineInv
      <3>3. CASE iteration \notin made
        <4>1. /\ made' = made \cup {iteration} /\ want'[iteration] = ws /\ whole' = whole \ {iteration}
              /\ node = "execute" /\ UNCHANGED <<ws, session, iteration, began, missed, node>>
          <5>1. iteration \in Id
            BY DEF TypeOK, Id
          <5> QED
            BY <1>6, <3>3, <5>1 DEF Baseline, StartSnapshot, TypeOK
        <4>2. session = 1 /\ iteration \notin missed => ws = began
          BY <3>3 DEF BaselineInv
        <4>3. session = 1 => \A i \in (made' \cap Nat) \cup missed : i <= iteration
          BY <4>1 DEF BaselineInv, TypeOK
        <4> QED
          BY <4>1, <4>2, <4>3 DEF BaselineInv
      <3> QED
        BY <3>2, <3>3
    <2> QED
      BY <2>1, <2>2, <2>3, <2>4, <2>5
  <1>7. CASE NextWave
    BY <1>7 DEF NextWave, TypeOK, WholeInv, JobInv, CallerInv, BaselineInv, NoJob, Job, Id, Tree, Copies, Files
  <1>8. CASE Replan
    <2>1. /\ job = NoJob /\ Working /\ iteration < MaxIteration
          /\ UNCHANGED <<ws, snap, made, registry, events, want, whole, session>>
      BY <1>8 DEF Replan, CallerInv
    <2>2. CASE NextIteration /\ job' = job
      <3>1. /\ BaselineInv' /\ iteration' \in 0..MaxIteration /\ node' \in {"execute", "wave", "resume"}
            /\ began' \in Tree /\ missed' \subseteq 0..MaxIteration
        BY <2>1, <2>2, IterationBegins
      <3>2. TypeOK'
        BY <2>1, <2>2, <3>1 DEF TypeOK
      <3>3. WholeInv' /\ JobInv' /\ CallerInv'
        BY <2>1, <2>2 DEF WholeInv, JobInv, CallerInv, NoJob
      <3> QED
        BY <3>1, <3>2, <3>3
    <2>3. ASSUME NEW i \in made, iteration \in made => i = iteration, StartRollback(i, "replan"), UNCHANGED Orchestrator
          PROVE  Inv'
      <3>1. /\ job' = [op |-> "delete", id |-> i, by |-> "replan", todo |-> Files(ws) \ Files(snap[i]), clean |-> TRUE]
            /\ UNCHANGED <<node, iteration, began, missed>>
        BY <2>3 DEF StartRollback
      <3>2. job' \in Job
        BY <3>1, NewJob DEF TypeOK, Files
      <3>3. TypeOK'
        BY <2>1, <3>1, <3>2 DEF TypeOK
      <3>4. JobInv'
        BY <2>1, <3>1 DEF JobInv, Files
      <3>5. WholeInv' /\ CallerInv' /\ BaselineInv'
        BY <2>1, <2>3, <3>1 DEF WholeInv, CallerInv, BaselineInv, NoJob
      <3> QED
        BY <3>3, <3>4, <3>5
    <2> QED
      BY <1>8, <2>2, <2>3 DEF Replan
  <1>9. CASE NewSession
    <2>1. /\ job = NoJob /\ session' = session + 1 /\ session < MaxSession /\ iteration' = 0 /\ node' = "execute"
          /\ began' = ws /\ events' \in 0..MaxEvents
          /\ UNCHANGED <<ws, snap, made, registry, job, want, missed, whole>>
      BY <1>9 DEF NewSession, Event, CallerInv, TypeOK
    <2>2. TypeOK' /\ session' # 1
      BY <2>1 DEF TypeOK
    <2>3. WholeInv' /\ JobInv' /\ CallerInv' /\ BaselineInv'
      BY <2>1, <2>2 DEF WholeInv, JobInv, CallerInv, BaselineInv, NoJob
    <2> QED
      BY <2>2, <2>3
  <1>10. CASE RollbackTool
    BY <1>10 DEF RollbackTool, Other, Event, StartRollback, TypeOK, WholeInv, JobInv, CallerInv, BaselineInv, NoJob, Job, Id, Tree, Copies, Files
  <1>11. CASE Crash
    <2>1. /\ job' = NoJob /\ node' = "resume" /\ missed' = missed \cup ({iteration} \ made) /\ events' \in 0..MaxEvents
          /\ registry' \in [Tx -> {"none", "active", "failed"}] /\ NoJob \in Job
          /\ UNCHANGED <<ws, snap, made, session, iteration, want, began, whole>>
      <3>1. /\ job' = NoJob /\ node' = "resume" /\ missed' = missed \cup ({iteration} \ made)
            /\ events' = events + 1 /\ events < MaxEvents /\ registry' = [t \in Tx |-> "none"]
            /\ UNCHANGED <<ws, snap, made, session, iteration, want, began, whole>>
        BY <1>11 DEF Crash, Event
      <3>2. NoJob \in Job
        BY JobTypes
      <3>3. events' \in 0..MaxEvents
        BY <3>1 DEF TypeOK
      <3> QED
        BY <3>1, <3>2, <3>3
    <2>2. TypeOK'
      BY <2>1 DEF TypeOK, Id
    <2>3. WholeInv' /\ JobInv' /\ CallerInv'
      BY <2>1 DEF WholeInv, JobInv, CallerInv, NoJob
    <2>4. iteration \in made \cup missed' /\ iteration \in Nat /\ missed \subseteq missed'
      BY <2>1 DEF TypeOK
    <2>5. session = 1 => \A i \in (made \cap Nat) \cup missed' : i <= iteration
      BY <2>1, <2>4 DEF BaselineInv
    <2>6. session = 1 /\ iteration \in whole \ missed' => want[iteration] = began
      BY <2>4 DEF BaselineInv
    <2>7. BaselineInv'
      BY <2>1, <2>4, <2>5, <2>6 DEF BaselineInv, NoJob
    <2> QED
      BY <2>2, <2>3, <2>7
  <1>12. ASSUME NEW f \in File, TakeFile(f) PROVE Inv'
    <2>1. TypeOK'
      <3>1. job' \in Job
        <4>1. job.todo \ {f} \in SUBSET File
          BY JobTypes
        <4>2. [job EXCEPT !.todo = job.todo \ {f}] \in Job /\ [job EXCEPT !.todo = job.todo \ {f}, !.clean = FALSE] \in Job
          BY <4>1, JobTypes
        <4> QED
          BY <1>12, <4>2, Zenon DEF TakeFile
      <3>2. snap' \in [Id -> Copies]
        <4>1. job.id \in Id /\ snap \in [Id -> Copies] /\ ws \in Tree
          BY JobTypes DEF TypeOK
        <4>2. ws[f] \in Text => [snap EXCEPT ![job.id][f] = ws[f]] \in [Id -> Copies]
          BY <4>1 DEF Copies
        <4> QED
          BY <1>12, <4>1, <4>2 DEF TakeFile
      <3> QED
        BY <1>12, <3>1, <3>2 DEF TakeFile, TypeOK
    <2>2. WholeInv'
      BY <1>12 DEF TakeFile, TypeOK, WholeInv, JobInv, CallerInv, Tree, Copies, Files, Empty, Job, Id, NoJob
    <2>3. JobInv'
      <3>1. /\ job.id \in Id /\ snap[job.id] \in Copies /\ job.op = "take"
            /\ f \in job.todo /\ job.todo \subseteq Listed
        BY <1>12, JobTypes DEF TakeFile, TypeOK, CallerInv
      <3>2. CASE ws[f] \in Text /\ snap' = [snap EXCEPT ![job.id][f] = ws[f]] /\ job' = [job EXCEPT !.todo = @ \ {f}]
        <4>1. job'.op = "take" /\ job'.id = job.id /\ job'.clean = job.clean /\ job'.todo = job.todo \ {f}
          BY <3>1, <3>2 DEF TypeOK, Job
        <4>2. snap'[job.id] = [snap[job.id] EXCEPT ![f] = ws[f]] /\ ws' = ws /\ want' = want
          BY <1>12, <3>1, <3>2 DEF TakeFile, TypeOK
        <4>3. \A g \in File : snap'[job.id][g] = IF g = f THEN ws[f] ELSE snap[job.id][g]
          BY <3>1, <4>2 DEF Copies
        <4>4. job.clean => f \in Files(ws) \cap Listed /\ want[job.id] = ws
          BY <3>1, <3>2 DEF JobInv, Files
        <4>5. job.clean => \A g \in File : snap'[job.id][g] = IF g \in (Files(ws) \cap Listed) \ job'.todo THEN ws[g] ELSE Absent
          <5>1. job.clean => \A g \in File : snap[job.id][g] = IF g \in (Files(ws) \cap Listed) \ job.todo THEN ws[g] ELSE Absent
            BY <3>1 DEF JobInv
          <5> QED
            BY <3>1, <4>1, <4>3, <4>4, <5>1
        <4> QED
          BY <4>1, <4>2, <4>4, <4>5 DEF JobInv, Files
      <3>3. CASE job' = [job EXCEPT !.todo = @ \ {f}, !.clean = FALSE]
        <4>1. job'.op = "take" /\ ~job'.clean
          BY <3>1, <3>3 DEF TypeOK, Job
        <4> QED
          BY <4>1 DEF JobInv
      <3> QED
        BY <1>12, <3>2, <3>3 DEF TakeFile
    <2>4. CallerInv'
      <3>1. /\ job'.op = "take" /\ job'.id = job.id /\ job'.by = job.by /\ job'.todo = job.todo \ {f}
            /\ job.op = "take" /\ UNCHANGED <<made, node, iteration>>
        BY <1>12 DEF TakeFile, TypeOK, Job
      <3> QED
        BY <3>1 DEF CallerInv
    <2>5. BaselineInv'
      BY <1>12 DEF TakeFile, TypeOK, CallerInv, BaselineInv, Job, Id, NoJob
    <2> QED
      BY <2>1, <2>2, <2>3, <2>4, <2>5
  <1>13. ASSUME NEW f \in File, DeleteFile(f) PROVE Inv'
    <2>1. TypeOK'
      <3>1. job' \in Job
        BY <1>13, JobTypes DEF DeleteFile
      <3>2. ws' \in Tree
        BY <1>13 DEF DeleteFile, TypeOK, Tree
      <3> QED
        BY <1>13, <3>1, <3>2 DEF DeleteFile, TypeOK
    <2>2. WholeInv'
      BY <1>13 DEF DeleteFile, TypeOK, WholeInv, JobInv, CallerInv, Tree, Copies, Files, Empty, Job, Id, NoJob
    <2>3. JobInv'
      <3>1. job.op = "delete" /\ f \in job.todo /\ snap' = snap
        BY <1>13 DEF DeleteFile
      <3>2. CASE ws[f] # Dir /\ ws' = [ws EXCEPT ![f] = Absent] /\ job' = [job EXCEPT !.todo = @ \ {f}]
        <4>1. job'.op = "delete" /\ job'.id = job.id /\ job'.clean = job.clean /\ job'.todo = job.todo \ {f}
          BY <3>1, <3>2 DEF TypeOK, Job
        <4>2. \A g \in File : ws'[g] = IF g = f THEN Absent ELSE ws[g]
          BY <3>2 DEF TypeOK, Tree
        <4>3. Absent \notin Text
          BY DEF Absent
        <4>4. job.clean => \A g \in File \ Files(snap[job.id]) : ws'[g] \notin Text \/ g \in job'.todo
          BY <3>1, <4>1, <4>2, <4>3 DEF JobInv
        <4> QED
          BY <3>1, <4>1, <4>4 DEF JobInv, Files
      <3>3. CASE job' = [job EXCEPT !.todo = @ \ {f}, !.clean = FALSE]
        <4>1. job'.op = "delete" /\ ~job'.clean
          BY <3>1, <3>3 DEF TypeOK, Job
        <4> QED
          BY <4>1 DEF JobInv
      <3> QED
        BY <1>13, <3>2, <3>3 DEF DeleteFile
    <2>4. CallerInv'
      BY <1>13 DEF DeleteFile, TypeOK, CallerInv, Job, Id, NoJob, BaselineInv
    <2>5. BaselineInv'
      BY <1>13 DEF DeleteFile, TypeOK, CallerInv, BaselineInv, Job, Id, NoJob
    <2> QED
      BY <2>1, <2>2, <2>3, <2>4, <2>5
  <1>14. ASSUME NEW f \in File, RestoreFile(f) PROVE Inv'
    <2>1. TypeOK'
      <3>1. job' \in Job
        BY <1>14, JobTypes DEF RestoreFile
      <3>2. ws' \in Tree
        <4>1. snap[job.id] \in Copies /\ ws \in Tree
          BY JobTypes DEF TypeOK
        <4> QED
          BY <1>14, <4>1 DEF RestoreFile, Copies, Tree
      <3> QED
        BY <1>14, <3>1, <3>2 DEF RestoreFile, TypeOK
    <2>2. WholeInv'
      BY <1>14 DEF RestoreFile, TypeOK, WholeInv, JobInv, CallerInv, Tree, Copies, Files, Empty, Job, Id, NoJob
    <2>3. JobInv'
      <3>1. job.op = "restore" /\ f \in job.todo /\ snap' = snap /\ snap[job.id] \in Copies /\ ws \in Tree
        BY <1>14, JobTypes DEF RestoreFile, TypeOK
      <3>2. CASE ws[f] # Dir /\ ws' = [ws EXCEPT ![f] = snap[job.id][f]] /\ job' = [job EXCEPT !.todo = @ \ {f}]
        <4>1. job'.op = "restore" /\ job'.id = job.id /\ job'.clean = job.clean /\ job'.todo = job.todo \ {f}
          BY <3>1, <3>2 DEF TypeOK, Job
        <4>2. \A g \in File : ws'[g] = IF g = f THEN snap[job.id][f] ELSE ws[g]
          BY <3>1, <3>2 DEF Tree
        <4>3. snap[job.id][f] # Dir
          BY <3>1 DEF Copies, Dir, Absent
        <4>4. ASSUME job.clean, NEW g \in File PROVE Plain(ws')[g] = snap[job.id][g] \/ g \in job'.todo
          BY <3>1, <4>1, <4>2, <4>3, <4>4 DEF JobInv, Plain
        <4> QED
          BY <3>1, <4>1, <4>4 DEF JobInv, Plain
      <3>3. CASE job' = [job EXCEPT !.todo = @ \ {f}, !.clean = FALSE]
        <4>1. job'.op = "restore" /\ ~job'.clean
          BY <3>1, <3>3 DEF TypeOK, Job
        <4> QED
          BY <4>1 DEF JobInv
      <3> QED
        BY <1>14, <3>2, <3>3 DEF RestoreFile
    <2>4. CallerInv'
      BY <1>14 DEF RestoreFile, TypeOK, CallerInv, Job, Id, NoJob, BaselineInv
    <2>5. BaselineInv'
      BY <1>14 DEF RestoreFile, TypeOK, CallerInv, BaselineInv, Job, Id, NoJob
    <2> QED
      BY <2>1, <2>2, <2>3, <2>4, <2>5
  <1>15. ASSUME NEW f \in File, Write(f) PROVE Inv'
    <2>1. TypeOK'
      <3>1. job' \in Job
        BY <1>15 DEF Write, Disturb, TypeOK, Job
      <3>2. ws' \in Tree
        BY <1>15 DEF Write, TypeOK, Tree
      <3> QED
        BY <1>15, <3>1, <3>2 DEF Write, Event, TypeOK
    <2>2. WholeInv'
      BY <1>15 DEF Write, Event, Disturb, TypeOK, WholeInv, JobInv, CallerInv, Tree, Copies, Files, Empty, Job, Id, NoJob
    <2>3. JobInv'
      BY <1>15 DEF Write, Event, Disturb, TypeOK, WholeInv, JobInv, CallerInv, Tree, Copies, Files, Empty, Job, Id, NoJob
    <2>4. CallerInv'
      BY <1>15 DEF Write, Event, Disturb, TypeOK, CallerInv, Job, Id, NoJob, BaselineInv
    <2>5. BaselineInv'
      BY <1>15 DEF Write, Event, Disturb, TypeOK, CallerInv, BaselineInv, Job, Id, NoJob
    <2> QED
      BY <2>1, <2>2, <2>3, <2>4, <2>5
  <1>16. ASSUME NEW t \in Tx, Begin(t) PROVE Inv'
    <2>1. TypeOK'
      <3>1. t \in Id /\ Files(ws) \cap Listed \in SUBSET File
        BY DEF TypeOK, Id, Files
      <3>2. made' \subseteq Id /\ whole' \subseteq made' /\ want' \in [Id -> Tree]
        BY <1>16, <3>1 DEF Begin, StartSnapshot, TypeOK
      <3>3. job' \in Job
        BY <1>16, <3>1, NewJob DEF Begin, StartSnapshot, TypeOK
      <3> QED
        BY <1>16, <3>2, <3>3 DEF Begin, Other, Event, TypeOK
    <2>2. WholeInv'
      BY <1>16 DEF Begin, StartSnapshot, Other, Event, TypeOK, WholeInv, JobInv, CallerInv, Tree, Copies, Files, Empty, Job, Id, NoJob
    <2>3. JobInv'
      <3>1. t \in Id /\ job'.op = "take" /\ job'.id = t /\ job'.clean = (t \notin made)
            /\ job'.todo = Files(ws) \cap Listed /\ snap' = snap /\ ws' = ws /\ want' = [want EXCEPT ![t] = ws]
        BY <1>16 DEF Begin, StartSnapshot, Id
      <3>2. want'[t] = ws
        BY <3>1 DEF TypeOK
      <3>3. t \notin made => \A f \in File : snap[t][f] = Absent
        <4>1. t \notin made => snap[t] = Empty
          BY <3>1 DEF WholeInv
        <4> QED
          BY <4>1 DEF Empty
      <3> QED
        BY <3>1, <3>2, <3>3 DEF JobInv
    <2>4. CallerInv'
      BY <1>16 DEF Begin, StartSnapshot, Other, Event, TypeOK, CallerInv, Job, Id, NoJob, BaselineInv
    <2>5. BaselineInv'
      BY <1>16 DEF Begin, StartSnapshot, Other, Event, TypeOK, CallerInv, BaselineInv, Job, Id, NoJob
    <2> QED
      BY <2>1, <2>2, <2>3, <2>4, <2>5
  <1>17. ASSUME NEW t \in Tx, Commit(t) PROVE Inv'
    BY <1>17 DEF Commit, Other, Event, TypeOK, WholeInv, JobInv, CallerInv, BaselineInv, NoJob, Job, Id, Tree, Copies, Files
  <1>18. ASSUME NEW t \in Tx, Rollback(t) PROVE Inv'
    <2>1. /\ job' = [op |-> "delete", id |-> t, by |-> t, todo |-> Files(ws) \ Files(snap[t]), clean |-> TRUE]
          /\ UNCHANGED <<ws, snap, made, registry, want, whole, node, session, iteration, began, missed>>
          /\ job.op = "none" /\ Working /\ t \in Id /\ events' \in 0..MaxEvents
      BY <1>18 DEF Rollback, StartRollback, Other, Event, TypeOK, Id
    <2>2. TypeOK'
      <3>1. job' \in Job
        BY <2>1, NewJob DEF Files
      <3> QED
        BY <2>1, <3>1 DEF TypeOK
    <2>3. JobInv'
      BY <2>1 DEF JobInv, Files
    <2> QED
      BY <2>1, <2>2, <2>3 DEF WholeInv, CallerInv, BaselineInv
  <1>19. ASSUME NEW t \in Tx, RollbackAgain(t) PROVE Inv'
    BY <1>19 DEF RollbackAgain, Other, Event, TypeOK, WholeInv, JobInv, CallerInv, BaselineInv, NoJob, Job, Id, Tree, Copies, Files
  <1>21. CASE BaselineFails
    BY <1>21 DEF BaselineFails, TypeOK, WholeInv, JobInv, CallerInv, BaselineInv, NoJob, Id
  <1>20. CASE UNCHANGED vars
    BY <1>20 DEF vars, TypeOK, WholeInv, JobInv, CallerInv, BaselineInv
  <1> QED
    BY <1>1, <1>2, <1>3, <1>4, <1>5, <1>6, <1>7, <1>8, <1>9, <1>10, <1>11, <1>12, <1>13, <1>14,
       <1>15, <1>16, <1>17, <1>18, <1>19, <1>20, <1>21 DEF Next

THEOREM Invariance == Spec => []Inv
  <1> QED
    BY InitInv, NextInv, PTL DEF Spec

\* Whatever agents, transactions and crashes do, every variable keeps its type.
THEOREM TypeCorrect == Spec => []TypeOK
  <1>1. Inv => TypeOK
    BY DEF Inv
  <1> QED
    BY <1>1, Invariance, PTL

\* An undisturbed rollback to a whole snapshot restores the files of the
\* workspace as they were when the snapshot was begun.
THEOREM Exactness == Spec => []RollbackExact
  <1>1. Inv => RollbackExact
    BY DEF Inv, WholeInv, JobInv, RollbackExact
  <1> QED
    BY <1>1, Invariance, PTL

\* An undisturbed re-plan restores what its iteration found, in the first session
\* of a workspace, if the iteration did not start without a baseline.
THEOREM Undoing == Spec => []IterationUndone
  <1>1. Inv => IterationUndone
    BY DEF Inv, TypeOK, WholeInv, JobInv, CallerInv, BaselineInv, IterationUndone
  <1> QED
    BY <1>1, Invariance, PTL
=============================================================================

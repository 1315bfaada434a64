------------------------ MODULE WorkspaceEditsProofs ------------------------
(***************************************************************************)
(* The editing tools on the main workspace, for every set of agents,       *)
(* files, texts and operation ids and any number of calls.                 *)
(***************************************************************************)
EXTENDS WorkspaceEdits, TLAPS

\* What a lock tells of its holder.
AtWork(a, f) ==
  \/ pc[a] = "second" /\ f = call[a].f
  \/ pc[a] = "write" /\ (f = call[a].f \/ (call[a].kind = "rename" /\ f = call[a].g))

\* What the place of an agent tells of its call, and of the files it is at work on.
AgentInv(a) ==
  /\ pc[a] \in {"idle", "revision"} => call[a] = NoCall
  /\ pc[a] \in {"backup", "undo"} => call[a].kind = "patch"
  /\ pc[a] = "second" => call[a].kind = "rename"
  /\ pc[a] = "tree" <=> call[a].kind = "tree"
  /\ call[a].kind = "rename" => call[a].g # call[a].f
  /\ call[a].kind \notin {"patch", "tree"} => call[a].todo = {}
  /\ \A f \in File : AtWork(a, f) => lock[f] = a
  /\ pc[a] = "write" =>
       /\ call[a].f \notin spoiled => call[a].before = disk[call[a].f]
       /\ call[a].checked => call[a].before = view[a].text

\* The journal is true of a file, locked or not.
Truth(f) == IF latest[f] = Unrecorded THEN disk[f] = orig[f]
                                      ELSE first[f] = orig[f] /\ latest[f] = disk[f]

\* An id that no two calls had at once, nor a patch, is applied once, and by then in the ledger.
OpInv(o) ==
  o \notin loose =>
    /\ \A a, b \in Agent : call[a].op = o /\ call[b].op = o => a = b
    /\ (\E a \in Agent : call[a].op = o) => applied[o] = 0
    /\ applied[o] <= 1
    /\ applied[o] = 1 => o \in done

Inv == /\ TypeOK /\ LocksReleased
       /\ \A a \in Agent : AgentInv(a)
       /\ \A f \in File \ spoiled : Truth(f)
       /\ \A o \in Op : OpInv(o)
-----------------------------------------------------------------------------
LEMMA NoCallType == NoCall \in Call /\ SomeFile \in File
<1>1. SomeFile \in File
  BY EditsAssumption DEF SomeFile
<1> QED BY <1>1 DEF NoCall, Call, Content

LEMMA InitInv == Init => Inv
<1> SUFFICES ASSUME Init PROVE Inv
  OBVIOUS
<1>1. TypeOK
  BY NoCallType, EditsAssumption DEF Init, TypeOK, Phase, Content, Absent, Unrecorded
<1>2. LocksReleased
  BY EditsAssumption DEF Init, LocksReleased, Free
<1>3. \A a \in Agent : AgentInv(a)
  BY DEF Init, AgentInv, AtWork, NoCall
<1>4. \A f \in File : Truth(f)
  BY DEF Init, Truth
<1>5. \A o \in Op : OpInv(o)
  BY EditsAssumption DEF Init, OpInv, NoCall, NoOp
<1> QED BY <1>1, <1>2, <1>3, <1>4, <1>5 DEF Inv

\* The invariant survives a step of agent a that leaves alone what others hold.
LEMMA OthersKeep ==
  ASSUME Inv, NEW a \in Agent, TypeOK', AgentInv(a)',
         \A b \in Agent \ {a} : pc'[b] = pc[b] /\ call'[b] = call[b] /\ view'[b] = view[b],
         \A f \in File, b \in Agent \ {a} : lock'[f] = b <=> lock[f] = b,
         \A f \in File : lock'[f] = a => AtWork(a, f)',
         spoiled \subseteq spoiled',
         \A f \in File \ spoiled' : disk'[f] = disk[f] \/ lock[f] = a,
         \A f \in File \ spoiled' : Truth(f)',
         \A o \in Op : OpInv(o)'
  PROVE  Inv'
<1>1. \A b \in Agent \ {a} : AgentInv(b)'
  <2> SUFFICES ASSUME NEW b \in Agent \ {a} PROVE AgentInv(b)'
    OBVIOUS
  <2>1. AgentInv(b) /\ pc'[b] = pc[b] /\ call'[b] = call[b] /\ view'[b] = view[b]
    BY DEF Inv
  <2>2. \A f \in File : AtWork(b, f)' <=> AtWork(b, f)
    BY <2>1 DEF AtWork
  <2>3. \A f \in File : AtWork(b, f)' => lock'[f] = b
    BY <2>1, <2>2 DEF AgentInv
  <2>4. ASSUME pc[b] = "write", call[b].f \notin spoiled' PROVE call[b].before = disk'[call[b].f]
    <3>1. call[b].f \in File
      BY DEF Inv, TypeOK, Call
    <3>2. lock[call[b].f] = b /\ call[b].before = disk[call[b].f]
      BY <2>1, <2>4, <3>1 DEF AgentInv, AtWork
    <3> QED BY <2>4, <3>1, <3>2
  <2> QED BY <2>1, <2>3, <2>4 DEF AgentInv
<1>2. LocksReleased'
  <2> SUFFICES ASSUME NEW f \in File, NEW b \in Agent, lock'[f] = b PROVE AtWork(b, f)'
    BY DEF LocksReleased, AtWork
  <2>1. CASE b = a
    BY <2>1
  <2>2. CASE b # a
    BY <2>2 DEF Inv, LocksReleased, AtWork
  <2> QED BY <2>1, <2>2
<1> QED BY <1>1, <1>2 DEF Inv

\* Reading changes no more than the reader's view.
LEMMA ReadSteps ==
  ASSUME Inv, NEW a \in Agent, (\E f \in File : Read(a, f)) \/ ReadRevision(a)
  PROVE  Inv'
<1>1. /\ UNCHANGED <<files, lock, done, call, calls, hist>>
      /\ pc[a] \in {"idle", "revision"} /\ pc' \in [Agent -> Phase] /\ pc'[a] \in {"idle", "revision"}
      /\ \A b \in Agent \ {a} : pc'[b] = pc[b] /\ view'[b] = view[b]
      /\ view' \in [Agent -> [file : File, text : Content, rev : Nat]]
  <2>1. CASE \E f \in File : Read(a, f)
    BY <2>1 DEF Inv, TypeOK, Read, Goto, Phase
  <2>2. CASE ReadRevision(a)
    <3>1. view[a] \in [file : File, text : Content, rev : Nat] /\ Revision(view[a].file) \in Nat
      BY DEF Inv, TypeOK, Revision
    <3>2. [view[a] EXCEPT !.rev = Revision(view[a].file)] \in [file : File, text : Content, rev : Nat]
      BY <3>1
    <3>3. view' = [view EXCEPT ![a] = [view[a] EXCEPT !.rev = Revision(view[a].file)]]
      BY <2>2 DEF ReadRevision, Inv, TypeOK
    <3>4. view' \in [Agent -> [file : File, text : Content, rev : Nat]]
          /\ \A b \in Agent \ {a} : view'[b] = view[b]
      BY <3>2, <3>3 DEF Inv, TypeOK
    <3>5. /\ UNCHANGED <<files, lock, done, call, calls, hist>>
          /\ pc[a] = "revision" /\ pc' = [pc EXCEPT ![a] = "idle"]
      BY <2>2 DEF ReadRevision, Goto
    <3> QED BY <3>4, <3>5 DEF Inv, TypeOK, Phase
  <2> QED BY <2>1, <2>2
<1>2. UNCHANGED <<call, lock, disk, spoiled, first, latest, orig, rev, loose, applied, done, calls>>
  BY <1>1 DEF files, hist
<1>3. TypeOK'
  BY <1>1, <1>2 DEF Inv, TypeOK
<1>4. AgentInv(a)'
  <2>1. call'[a] = NoCall /\ pc'[a] \in {"idle", "revision"}
    BY <1>1, <1>2 DEF Inv, AgentInv
  <2>2. NoCall.kind = "none" /\ NoCall.todo = {}
    BY DEF NoCall
  <2> QED BY <2>1, <2>2 DEF AgentInv, AtWork
<1>5. \A f \in File : lock[f] # a
  BY <1>1 DEF Inv, LocksReleased
<1>6. (\A f \in File \ spoiled : Truth(f)') /\ \A o \in Op : OpInv(o)'
  BY <1>2 DEF Inv, Truth, OpInv
<1> QED BY <1>1, <1>2, <1>3, <1>4, <1>5, <1>6, OthersKeep

\* The calls an agent begins with, and where.
Beginning(c, p) ==
  /\ c \in Call /\ p \in {"lock", "backup", "tree"}
  /\ p = "backup" => c.kind = "patch"
  /\ p = "tree" <=> c.kind = "tree"
  /\ c.kind = "rename" => c.g # c.f
  /\ c.kind \notin {"patch", "tree"} => c.todo = {}

LEMMA Submits ==
  ASSUME Inv, NEW a \in Agent, NEW c, NEW p, Beginning(c, p), Submit(a, c, p)
  PROVE  Inv'
<1>1. /\ pc[a] = "idle" /\ c.op \notin done /\ calls' \in 0 .. MaxCalls
      /\ call' \in [Agent -> Call] /\ call'[a] = c
      /\ pc' \in [Agent -> Phase] /\ pc'[a] = p
      /\ \A b \in Agent \ {a} : pc'[b] = pc[b] /\ call'[b] = call[b]
      /\ UNCHANGED <<files, lock, done, view, orig, spoiled, applied>>
  BY EditsAssumption DEF Inv, TypeOK, Submit, Goto, Beginning, Phase
<1>2. loose' = loose \cup ({call[b].op : b \in Agent} \cap {c.op} \cap Op)
  BY DEF Submit
<1>3. TypeOK'
  BY <1>1, <1>2 DEF Inv, TypeOK, files
<1>4. AgentInv(a)' /\ \A f \in File : lock[f] # a
  BY <1>1 DEF Inv, LocksReleased, AgentInv, AtWork, Beginning
<1>5. \A o \in Op : OpInv(o)'
  <2> SUFFICES ASSUME NEW o \in Op, o \notin loose' PROVE OpInv(o)'
    BY DEF OpInv
  <2>1. o \notin loose /\ OpInv(o) /\ applied[o] \in Nat
    BY <1>2 DEF Inv, TypeOK
  <2>2. CASE c.op # o
    BY <1>1, <2>1, <2>2 DEF OpInv
  <2>3. CASE c.op = o
    <3>1. \A b \in Agent : call[b].op # o
      BY <1>2, <2>3
    <3>2. applied[o] = 0
      BY <1>1, <2>1, <2>3 DEF OpInv
    <3> QED BY <1>1, <2>1, <3>1, <3>2 DEF OpInv
  <2> QED BY <2>2, <2>3
<1>6. \A f \in File \ spoiled : Truth(f)'
  BY <1>1 DEF Inv, Truth, files
<1> QED BY <1>1, <1>3, <1>4, <1>5, <1>6, OthersKeep DEF files

LEMMA SubmitSteps ==
  ASSUME Inv, NEW a \in Agent, SubmitOne(a) \/ SubmitRename(a) \/ SubmitPatch(a) \/ SubmitTree(a)
  PROVE  Inv'
<1>1. view[a].file \in File /\ NoCall \in Call
  BY NoCallType DEF Inv, TypeOK
<1>2. CASE SubmitOne(a)
  <2>1. PICK kind \in {"write", "edit", "delete"}, op \in Op \cup {NoOp} :
          Submit(a, [NoCall EXCEPT !.kind = kind, !.op = op, !.f = view[a].file], "lock")
    BY <1>2 DEF SubmitOne
  <2>2. Beginning([NoCall EXCEPT !.kind = kind, !.op = op, !.f = view[a].file], "lock")
    BY <1>1 DEF Beginning, Call, NoCall
  <2> QED BY <2>1, <2>2, Submits
<1>3. CASE SubmitRename(a)
  <2>1. PICK g \in File \ {view[a].file}, over \in BOOLEAN, op \in Op \cup {NoOp} :
          Submit(a, [NoCall EXCEPT !.kind = "rename", !.op = op, !.f = view[a].file, !.g = g, !.over = over], "lock")
    BY <1>3 DEF SubmitRename
  <2>2. Beginning([NoCall EXCEPT !.kind = "rename", !.op = op, !.f = view[a].file, !.g = g, !.over = over], "lock")
    BY <1>1 DEF Beginning, Call, NoCall
  <2> QED BY <2>1, <2>2, Submits
<1>4. CASE SubmitPatch(a)
  <2>1. PICK S \in SUBSET File \ {{}}, op \in Op \cup {NoOp} :
          Submit(a, [NoCall EXCEPT !.kind = "patch", !.op = op, !.all = S, !.todo = S], "backup")
    BY <1>4 DEF SubmitPatch
  <2>2. Beginning([NoCall EXCEPT !.kind = "patch", !.op = op, !.all = S, !.todo = S], "backup")
    BY <1>1 DEF Beginning, Call, NoCall
  <2> QED BY <2>1, <2>2, Submits
<1>5. CASE SubmitTree(a)
  <2>1. PICK gone \in SUBSET File, moved \in SUBSET File, op \in Op \cup {NoOp} :
          Submit(a, [NoCall EXCEPT !.kind = "tree", !.op = op, !.all = moved, !.todo = gone], "tree")
    BY <1>5, EditsAssumption DEF SubmitTree
  <2>2. Beginning([NoCall EXCEPT !.kind = "tree", !.op = op, !.all = moved, !.todo = gone], "tree")
    BY <1>1 DEF Beginning, Call, NoCall
  <2> QED BY <2>1, <2>2, Submits
<1> QED BY <1>2, <1>3, <1>4, <1>5

LEMMA DeleteNothingStep == ASSUME Inv, NEW a \in Agent, DeleteNothing(a) PROVE Inv'
<1>1. /\ UNCHANGED <<files, lock, pc, call, view, hist>>
      /\ done \subseteq done' /\ done' \subseteq Op /\ calls' \in 0 .. MaxCalls /\ pc[a] = "idle"
  BY EditsAssumption DEF Inv, TypeOK, DeleteNothing
<1>2. TypeOK'
  BY <1>1 DEF Inv, TypeOK, files, hist
<1>3. AgentInv(a)' /\ \A f \in File : lock[f] # a
  BY <1>1 DEF Inv, LocksReleased, AgentInv, AtWork, files, hist
<1>4. (\A f \in File \ spoiled : Truth(f)') /\ \A o \in Op : OpInv(o)'
  BY <1>1 DEF Inv, Truth, OpInv, files, hist
<1> QED BY <1>1, <1>2, <1>3, <1>4, OthersKeep DEF files, hist
-----------------------------------------------------------------------------
\* A call in progress goes on, under a lock it has or none.
LEMMA BackupStep == ASSUME Inv, NEW a \in Agent, NEW f \in File, Backup(a, f) PROVE Inv'
<1> DEFINE rest == call[a].todo \ {f}
           c == [call[a] EXCEPT !.backup[f] = disk[f], !.todo = IF rest = {} THEN call[a].all ELSE rest]
<1>1. call[a] \in Call /\ disk[f] \in Content /\ call[a].kind = "patch" /\ pc[a] = "backup"
  BY DEF Inv, TypeOK, Backup, AgentInv
<1>2. c \in Call /\ c.kind = "patch" /\ c.op = call[a].op
  BY <1>1 DEF Call
<1>3. call' = [call EXCEPT ![a] = c]
  BY <1>1 DEF Backup, Inv, TypeOK
<1> HIDE DEF c
<1>4. /\ UNCHANGED <<files, lock, done, view, calls, hist>>
      /\ call' \in [Agent -> Call] /\ call'[a] = c
      /\ pc' \in [Agent -> Phase] /\ pc'[a] \in {"lock", "backup"}
      /\ \A b \in Agent \ {a} : pc'[b] = pc[b] /\ call'[b] = call[b]
  BY <1>2, <1>3 DEF Backup, Inv, TypeOK, Goto, Phase
<1>5. UNCHANGED <<lock, disk, spoiled, view, first, latest, orig, rev, loose, applied, done, calls>>
  BY <1>4 DEF files, hist
<1>6. TypeOK'
  BY <1>4, <1>5 DEF Inv, TypeOK
<1>7. AgentInv(a)' /\ \A g \in File : lock[g] # a
  BY <1>1, <1>2, <1>4, <1>5 DEF Inv, LocksReleased, AgentInv, AtWork
<1>8. \A g \in File \ spoiled : Truth(g)'
  BY <1>5 DEF Inv, Truth
<1>9. \A o \in Op : OpInv(o)'
  <2>1. \A b \in Agent : call'[b].op = call[b].op
    BY <1>2, <1>4
  <2> QED BY <1>5, <2>1 DEF Inv, OpInv
<1> QED BY <1>4, <1>5, <1>6, <1>7, <1>8, <1>9, OthersKeep

LEMMA LockFirstStep == ASSUME Inv, NEW a \in Agent, LockFirst(a) PROVE Inv'
<1>1. /\ pc[a] = "lock" /\ call[a].kind = "rename" /\ lock[call[a].f] = Free
      /\ UNCHANGED <<files, done, call, view, calls, hist>>
      /\ call[a].f \in File
      /\ pc' \in [Agent -> Phase] /\ pc'[a] = "second"
      /\ \A b \in Agent \ {a} : pc'[b] = pc[b]
      /\ lock' \in [File -> Agent \cup {Free}]
      /\ \A f \in File : lock'[f] = IF f = call[a].f THEN a ELSE lock[f]
  BY DEF LockFirst, Inv, TypeOK, Goto, Phase, Call
<1>2. UNCHANGED <<disk, spoiled, view, first, latest, orig, rev, loose, applied, done, calls, call>>
  BY <1>1 DEF files, hist
<1>3. TypeOK'
  BY <1>1, <1>2 DEF Inv, TypeOK
<1>4. AgentInv(a)' /\ (\A f \in File : lock'[f] = a => AtWork(a, f)') /\ Free \notin Agent
  BY <1>1, <1>2, EditsAssumption DEF Inv, LocksReleased, AgentInv, AtWork, Free
<1>5. (\A f \in File \ spoiled : Truth(f)') /\ \A o \in Op : OpInv(o)'
  BY <1>2 DEF Inv, Truth, OpInv
<1> QED BY <1>1, <1>2, <1>3, <1>4, <1>5, OthersKeep

\* The last lock is taken and the caller's version compared.
LEMMA ValidateStep == ASSUME Inv, NEW a \in Agent, NEW f \in File, Validate(a, f) PROVE Inv'
<1>1. PICK expect \in {"any", "hash", "revision"}, t \in Outcome(a, f) :
        /\ UpToDate(a, f, expect)
        /\ call' = [call EXCEPT ![a].f = f, ![a].before = disk[f], ![a].text = t, ![a].checked = (expect = "hash")]
  BY DEF Validate
<1> DEFINE c == [call[a] EXCEPT !.f = f, !.before = disk[f], !.text = t, !.checked = (expect = "hash")]
           last == IF pc[a] = "second" THEN call[a].g ELSE f
<1>2. call[a] \in Call /\ disk[f] \in Content /\ t \in Content /\ AgentInv(a)
  BY <1>1 DEF Inv, TypeOK, Outcome, Content
<1>3. /\ c \in Call /\ c.f = f /\ c.before = disk[f] /\ c.checked = (expect = "hash")
      /\ c.kind = call[a].kind /\ c.op = call[a].op /\ c.todo = call[a].todo /\ c.g = call[a].g
  BY <1>2 DEF Call
<1>4. call' = [call EXCEPT ![a] = c]
  BY <1>1, <1>2 DEF Inv, TypeOK
<1> HIDE DEF c
<1>5. /\ UNCHANGED <<files, done, view, calls, hist>>
      /\ call' \in [Agent -> Call] /\ call'[a] = c
      /\ pc' \in [Agent -> Phase] /\ pc'[a] = "write"
      /\ \A b \in Agent \ {a} : pc'[b] = pc[b] /\ call'[b] = call[b]
  BY <1>3, <1>4 DEF Validate, Inv, TypeOK, Goto, Phase
<1>6. UNCHANGED <<disk, spoiled, view, first, latest, orig, rev, loose, applied, done, calls>>
  BY <1>5 DEF files, hist
<1>7. /\ lock[last] = Free /\ last \in File
      /\ \/ pc[a] = "second" /\ call[a].kind = "rename" /\ f = call[a].f /\ last = call[a].g
         \/ pc[a] = "lock" /\ call[a].kind # "rename" /\ last = f
  BY <1>2 DEF Validate, Locking, AgentInv, Call
<1>8. /\ lock' \in [File -> Agent \cup {Free}]
      /\ \A g \in File : lock'[g] = IF g = last THEN a ELSE lock[g]
  BY <1>7 DEF Validate, Inv, TypeOK
<1>9. TypeOK'
  BY <1>5, <1>6, <1>8 DEF Inv, TypeOK
<1>10. \A g \in File : lock[g] = a => AtWork(a, g)
  BY DEF Inv, LocksReleased, AtWork
<1>11. \A g \in File : AtWork(a, g)' <=> (g = f \/ (c.kind = "rename" /\ g = c.g))
  BY <1>3, <1>5 DEF AtWork
<1>12. \A g \in File : lock'[g] = a <=> AtWork(a, g)'
  BY <1>2, <1>3, <1>7, <1>8, <1>10, <1>11 DEF AtWork, AgentInv
<1>13. expect = "hash" => disk[f] = view[a].text
  BY <1>1 DEF UpToDate
<1>14. AgentInv(a)'
  <2>1. /\ c.kind = "rename" => c.g # c.f
        /\ c.kind # "tree"
        /\ c.kind # "patch" => c.todo = {}
    BY <1>2, <1>3, <1>7 DEF AgentInv
  <2> QED BY <1>3, <1>5, <1>6, <1>12, <1>13, <2>1 DEF AgentInv
<1>15. \A g \in File \ spoiled : Truth(g)'
  BY <1>6 DEF Inv, Truth
<1>16. \A o \in Op : OpInv(o)'
  <2>1. \A b \in Agent : call'[b].op = call[b].op
    BY <1>3, <1>5
  <2> QED BY <1>6, <2>1 DEF Inv, OpInv
<1>17. Free \notin Agent
  BY EditsAssumption DEF Free
<1> QED BY <1>5, <1>6, <1>7, <1>8, <1>9, <1>12, <1>14, <1>15, <1>16, <1>17, OthersKeep
-----------------------------------------------------------------------------
\* A call that returns, or a patch that goes on to its next file.
Left(a) ==
  /\ pc' \in [Agent -> Phase] /\ call' \in [Agent -> Call] /\ lock' \in [File -> Agent \cup {Free}]
  /\ \A b \in Agent \ {a} : pc'[b] = pc[b] /\ call'[b] = call[b]
  /\ \A f \in File : lock'[f] = IF lock[f] = a THEN Free ELSE lock[f]
  /\ \/ pc'[a] = "idle" /\ call'[a] = NoCall
     \/ /\ pc'[a] = "lock" /\ call[a].kind = "patch"
        /\ call'[a].kind = "patch" /\ call'[a].op = call[a].op

LEMMA Returns == ASSUME Inv, NEW a \in Agent, Return(a) PROVE Left(a)
BY NoCallType DEF Inv, TypeOK, Return, Goto, Release, Left, Phase

LEMMA Proceeds ==
  ASSUME Inv, NEW a \in Agent, NEW f, Proceed(a, f), pc[a] = "tree" => call[a].todo = {}
  PROVE  Left(a)
<1>1. CASE call[a].todo \ {f} = {}
  BY <1>1, Returns DEF Proceed
<1>2. CASE call[a].todo \ {f} # {}
  <2> DEFINE c == [call[a] EXCEPT !.todo = call[a].todo \ {f}]
  <2>1. call[a] \in Call /\ AgentInv(a)
    BY DEF Inv, TypeOK
  <2>2. call[a].kind = "patch"
    BY <1>2, <2>1 DEF AgentInv
  <2>3. c \in Call /\ c.kind = call[a].kind /\ c.op = call[a].op
    BY <2>1 DEF Call
  <2>4. call' = [call EXCEPT ![a] = c]
    BY <1>2 DEF Proceed, Inv, TypeOK
  <2> HIDE DEF c
  <2>5. Goto(a, "lock") /\ Release(a)
    BY <1>2 DEF Proceed
  <2> QED BY <2>2, <2>3, <2>4, <2>5 DEF Inv, TypeOK, Goto, Release, Left, Phase
<1> QED BY <1>1, <1>2

\* What is left when the files, the journal and the ledger have been seen to.
LEMMA Leaves ==
  ASSUME Inv, NEW a \in Agent, Left(a), TypeOK', view' = view,
         spoiled \subseteq spoiled',
         \A f \in File \ spoiled' : disk'[f] = disk[f] \/ lock[f] = a,
         \A f \in File \ spoiled' : Truth(f)',
         \A o \in Op : OpInv(o)'
  PROVE  Inv'
<1>1. Free \notin Agent
  BY EditsAssumption DEF Free
<1>2. \A f \in File : lock'[f] # a
  BY <1>1 DEF Left
<1>3. AgentInv(a)'
  BY DEF Left, AgentInv, AtWork, NoCall
<1>4. \A f \in File, b \in Agent \ {a} : lock'[f] = b <=> lock[f] = b
  BY <1>1 DEF Left
<1>5. \A b \in Agent \ {a} : pc'[b] = pc[b] /\ call'[b] = call[b] /\ view'[b] = view[b]
  BY DEF Left
<1> QED BY <1>2, <1>3, <1>4, <1>5, OthersKeep

\* A call that applies nothing may tell the ledger of its id.
LEMMA NothingApplied ==
  ASSUME Inv, NEW a \in Agent, Left(a), UNCHANGED <<applied, loose>>, done \subseteq done'
  PROVE  \A o \in Op : OpInv(o)'
<1>1. \A o \in Op, b \in Agent : call'[b].op = o => call[b].op = o
  BY EditsAssumption DEF Left, NoCall, NoOp
<1> QED BY <1>1 DEF Inv, OpInv

LEMMA AloneSteps ==
  ASSUME Inv, NEW a \in Agent, NEW f \in File, Conflict(a, f) \/ NoChange(a, f)
  PROVE  Inv'
<1>1. Left(a) /\ UNCHANGED <<files, view, calls, hist>>
  BY Returns, Proceeds DEF Conflict, NoChange, Locking
<1>2. UNCHANGED <<disk, spoiled, view, first, latest, orig, rev, loose, applied, calls>>
  BY <1>1 DEF files, hist
<1>3. done \subseteq done' /\ done' \subseteq Op
  BY DEF Conflict, NoChange, Executed, Inv, TypeOK
<1>4. TypeOK'
  BY <1>1, <1>2, <1>3 DEF Inv, TypeOK, Left
<1>5. \A g \in File \ spoiled : Truth(g)'
  BY <1>2 DEF Inv, Truth
<1>6. \A o \in Op : OpInv(o)'
  BY <1>1, <1>2, <1>3, NothingApplied
<1> QED BY <1>1, <1>2, <1>4, <1>5, <1>6, Leaves

\* Who has something to write holds the locks of what it writes, and knows what it replaces.
LEMMA Writing ==
  ASSUME Inv, NEW a \in Agent, pc[a] = "write"
  PROVE  /\ call[a] \in Call /\ AgentInv(a)
         /\ lock[call[a].f] = a /\ (call[a].kind = "rename" => lock[call[a].g] = a /\ call[a].g # call[a].f)
<1>1. call[a] \in Call /\ AgentInv(a) /\ call[a].f \in File /\ call[a].g \in File
  BY DEF Inv, TypeOK, Call
<1>2. AtWork(a, call[a].f) /\ (call[a].kind = "rename" => AtWork(a, call[a].g))
  BY DEF AtWork
<1> QED BY <1>1, <1>2 DEF AgentInv

\* A recorded change is in the ledger and its id used up, or a patch has used it.
LEMMA Records ==
  ASSUME Inv, NEW a \in Agent, Recorded(a), pc[a] = "tree" => call[a].todo = {}
  PROVE  /\ Left(a)
         /\ applied' \in [Op -> Nat] /\ done' \subseteq Op /\ loose' \subseteq Op
         /\ \A o \in Op : OpInv(o)'
<1>1. /\ Proceed(a, call[a].f)
      /\ done' = IF call[a].kind = "patch" THEN done ELSE done \cup ({call[a].op} \cap Op)
      /\ loose' = IF call[a].kind = "patch" THEN loose \cup ({call[a].op} \cap Op) ELSE loose
      /\ applied' = [o \in Op |-> IF o = call[a].op THEN applied[o] + 1 ELSE applied[o]]
  BY DEF Recorded, Executed
<1>2. Left(a)
  BY <1>1, Proceeds
<1>3. applied' \in [Op -> Nat] /\ done' \subseteq Op /\ loose' \subseteq Op
  BY <1>1 DEF Inv, TypeOK
<1>4. ASSUME NEW o \in Op, o \notin loose' PROVE OpInv(o)'
  <2>1. OpInv(o) /\ applied[o] \in Nat /\ o # NoOp /\ o \notin loose
    BY <1>1, <1>4, EditsAssumption DEF Inv, TypeOK, NoOp
  <2>2. \A b \in Agent : call'[b].op = o => call[b].op = o
    BY <1>2, <2>1 DEF Left, NoCall
  <2>3. CASE call[a].op = o
    <3>1. call[a].kind # "patch"
      BY <1>1, <1>4, <2>3
    <3>2. applied[o] = 0 /\ \A b \in Agent \ {a} : call[b].op # o
      BY <2>1, <2>3 DEF OpInv
    <3>3. \A b \in Agent : call'[b].op # o
      BY <1>2, <2>1, <2>2, <3>1, <3>2 DEF Left, NoCall
    <3>4. applied'[o] = 1 /\ o \in done'
      BY <1>1, <2>3, <3>1, <3>2
    <3> QED BY <3>3, <3>4 DEF OpInv
  <2>4. CASE call[a].op # o
    <3>1. applied'[o] = applied[o] /\ done \subseteq done'
      BY <1>1, <2>4
    <3> QED BY <2>1, <2>2, <3>1 DEF OpInv
  <2> QED BY <2>3, <2>4
<1>5. \A o \in Op : OpInv(o)'
  BY <1>4 DEF OpInv
<1> QED BY <1>2, <1>3, <1>5

LEMMA NotifiedType == ASSUME NEW f \in File, NEW b, rev[f] \in Nat PROVE Notified(f, b) \in Nat \ {0}
BY DEF Notified

LEMMA PutStep == ASSUME Inv, NEW a \in Agent, Put(a) PROVE Inv'
<1> DEFINE f == call[a].f
           t == call[a].text
<1>1. /\ pc[a] = "write" /\ Recorded(a)
      /\ disk'   = [disk EXCEPT ![f] = t]
      /\ first'  = [first EXCEPT ![f] = Before(f, call[a].before)]
      /\ latest' = [latest EXCEPT ![f] = t]
      /\ rev'    = [rev EXCEPT ![f] = Notified(f, call[a].before = Absent)]
      /\ UNCHANGED <<view, calls, orig, spoiled>>
  BY DEF Put
<1>2. /\ Left(a) /\ applied' \in [Op -> Nat] /\ done' \subseteq Op /\ loose' \subseteq Op
      /\ \A o \in Op : OpInv(o)'
  BY <1>1, Records
<1>3. /\ AgentInv(a) /\ f \in File /\ t \in Content /\ call[a].before \in Content
      /\ lock[f] = a /\ TypeOK
  BY <1>1, Writing DEF Call, Inv
<1> HIDE DEF f, t
<1>4. Unrecorded \notin Content
  BY EditsAssumption DEF Content, Unrecorded, Absent
<1>5. Before(f, call[a].before) \in Content
  BY <1>3, <1>4 DEF Before, TypeOK
<1>6. Notified(f, call[a].before = Absent) \in Nat \ {0}
  BY <1>3, NotifiedType DEF TypeOK
<1>7. /\ disk' \in [File -> Content] /\ first' \in [File -> Content \cup {Unrecorded}]
      /\ latest' \in [File -> Content \cup {Unrecorded}] /\ rev' \in [File -> Nat]
      /\ \A g \in File : /\ disk'[g] = IF g = f THEN t ELSE disk[g]
                         /\ first'[g] = IF g = f THEN Before(f, call[a].before) ELSE first[g]
                         /\ latest'[g] = IF g = f THEN t ELSE latest[g]
                         /\ rev'[g] = IF g = f THEN Notified(f, call[a].before = Absent) ELSE rev[g]
  BY <1>1, <1>3, <1>5, <1>6 DEF TypeOK
<1>8. \A g \in File : (rev'[g] = 0) = (first'[g] = Unrecorded) /\ (first'[g] = Unrecorded) = (latest'[g] = Unrecorded)
  BY <1>3, <1>4, <1>5, <1>6, <1>7 DEF TypeOK
<1>9. TypeOK'
  BY <1>1, <1>2, <1>3, <1>7, <1>8 DEF TypeOK, Left
<1>10. ASSUME NEW g \in File \ spoiled PROVE Truth(g)'
  <2>1. Truth(g) /\ orig' = orig
    BY <1>1 DEF Inv
  <2>2. CASE g = f
    <3>1. call[a].before = disk[f]
      BY <1>1, <1>3, <2>2 DEF AgentInv, f
    <3>2. Before(f, call[a].before) = orig[f]
      BY <1>3, <2>1, <2>2, <3>1 DEF Before, Truth, TypeOK
    <3> QED BY <1>3, <1>4, <1>7, <2>1, <2>2, <3>2 DEF Truth
  <2>3. CASE g # f
    BY <1>7, <2>1, <2>3 DEF Truth
  <2> QED BY <2>2, <2>3
<1> QED BY <1>1, <1>2, <1>3, <1>7, <1>9, <1>10, Leaves

\* A rename that removes its destination, or moves a file without a true entry, spoils it.
LEMMA MoveStep == ASSUME Inv, NEW a \in Agent, Move(a) PROVE Inv'
<1> DEFINE f == call[a].f
           g == call[a].g
<1>1. /\ pc[a] = "write" /\ call[a].kind = "rename" /\ Recorded(a)
      /\ disk'   = [disk EXCEPT ![f] = Absent, ![g] = disk[f]]
      /\ first'  = [first EXCEPT ![f] = Before(f, call[a].before), ![g] = Before(g, Absent)]
      /\ latest' = [latest EXCEPT ![f] = Absent, ![g] = call[a].before]
      /\ rev'    = [rev EXCEPT ![f] = Notified(f, FALSE), ![g] = Notified(g, TRUE)]
      /\ Replaced(f, g)
      /\ UNCHANGED <<view, calls, orig>>
  BY DEF Move
<1>2. /\ Left(a) /\ applied' \in [Op -> Nat] /\ done' \subseteq Op /\ loose' \subseteq Op
      /\ \A o \in Op : OpInv(o)'
  BY <1>1, Records
<1>3. /\ AgentInv(a) /\ f \in File /\ g \in File /\ f # g /\ call[a].before \in Content
      /\ lock[f] = a /\ lock[g] = a /\ TypeOK
  BY <1>1, Writing DEF Call, Inv
<1> HIDE DEF f, g
<1>4. Unrecorded \notin Content /\ Absent \in Content
  BY EditsAssumption DEF Content, Unrecorded, Absent
<1>5. Before(f, call[a].before) \in Content /\ Before(g, Absent) \in Content
  BY <1>3, <1>4 DEF Before, TypeOK
<1>6. Notified(f, FALSE) \in Nat \ {0} /\ Notified(g, TRUE) \in Nat \ {0}
  BY <1>3, NotifiedType DEF TypeOK
<1>7. disk' \in [File -> Content]
      /\ \A h \in File : disk'[h] = IF h = g THEN disk[f] ELSE IF h = f THEN Absent ELSE disk[h]
  BY <1>1, <1>3, <1>4 DEF TypeOK
<1>8. first' \in [File -> Content \cup {Unrecorded}]
      /\ \A h \in File : first'[h] = IF h = g THEN Before(g, Absent)
                                     ELSE IF h = f THEN Before(f, call[a].before) ELSE first[h]
  BY <1>1, <1>3, <1>5 DEF TypeOK
<1>9. latest' \in [File -> Content \cup {Unrecorded}]
      /\ \A h \in File : latest'[h] = IF h = g THEN call[a].before ELSE IF h = f THEN Absent ELSE latest[h]
  BY <1>1, <1>3, <1>4 DEF TypeOK
<1>10. rev' \in [File -> Nat]
       /\ \A h \in File : rev'[h] = IF h = g THEN Notified(g, TRUE) ELSE IF h = f THEN Notified(f, FALSE) ELSE rev[h]
  BY <1>1, <1>3, <1>6 DEF TypeOK
<1>11. \A h \in File : (rev'[h] = 0) = (first'[h] = Unrecorded) /\ (first'[h] = Unrecorded) = (latest'[h] = Unrecorded)
  <2>1. ASSUME NEW h \in {f, g} PROVE rev'[h] # 0 /\ first'[h] # Unrecorded /\ latest'[h] # Unrecorded
    BY <1>3, <1>4, <1>5, <1>6, <1>8, <1>9, <1>10
  <2>2. ASSUME NEW h \in File \ {f, g} PROVE rev'[h] = rev[h] /\ first'[h] = first[h] /\ latest'[h] = latest[h]
    BY <1>8, <1>9, <1>10
  <2> QED BY <1>3, <2>1, <2>2 DEF TypeOK
<1>12. spoiled \subseteq spoiled' /\ spoiled' \subseteq File
       /\ (g \notin spoiled' => disk[g] = Absent /\ f \notin spoiled)
  BY <1>1, <1>3 DEF Replaced, TypeOK
<1>13. TypeOK'
  BY <1>1, <1>2, <1>3, <1>7, <1>8, <1>9, <1>10, <1>11, <1>12 DEF TypeOK, Left
<1>14. ASSUME NEW h \in File \ spoiled' PROVE Truth(h)'
  <2>1. Truth(h) /\ orig' = orig /\ h \notin spoiled
    BY <1>1, <1>12 DEF Inv
  <2>2. f \notin spoiled => call[a].before = disk[f]
    BY <1>1, <1>3 DEF AgentInv, f
  <2>3. CASE h = f
    <3>1. Before(f, call[a].before) = orig[f]
      BY <1>3, <2>1, <2>2, <2>3 DEF Before, Truth, TypeOK
    <3> QED BY <1>3, <1>4, <1>7, <1>8, <1>9, <2>1, <2>3, <3>1 DEF Truth
  <2>4. CASE h = g
    <3>1. disk[g] = Absent /\ call[a].before = disk[f]
      BY <1>12, <2>2, <2>4
    <3>2. Before(g, Absent) = orig[g]
      BY <1>3, <2>1, <2>4, <3>1 DEF Before, Truth, TypeOK
    <3> QED BY <1>3, <1>4, <1>7, <1>8, <1>9, <2>1, <2>4, <3>1, <3>2 DEF Truth
  <2>5. CASE h # f /\ h # g
    BY <1>7, <1>8, <1>9, <2>1, <2>5 DEF Truth
  <2> QED BY <2>3, <2>4, <2>5
<1>15. \A h \in File \ spoiled' : disk'[h] = disk[h] \/ lock[h] = a
  BY <1>3, <1>7
<1> QED BY <1>1, <1>2, <1>12, <1>13, <1>14, <1>15, Leaves

LEMMA MoveFailsStep == ASSUME Inv, NEW a \in Agent, MoveFails(a) PROVE Inv'
<1> DEFINE g == call[a].g
<1>1. /\ pc[a] = "write" /\ call[a].kind = "rename" /\ Return(a)
      /\ disk' = (IF call[a].over THEN [disk EXCEPT ![g] = Absent] ELSE disk)
      /\ Replaced(call[a].f, g)
      /\ UNCHANGED <<first, latest, rev, done, view, calls, orig, applied, loose>>
  BY DEF MoveFails
<1>2. Left(a) /\ g \in File /\ lock[g] = a
  BY <1>1, Returns, Writing DEF Call
<1> HIDE DEF g
<1>3. /\ disk' \in [File -> Content]
      /\ \A h \in File : disk'[h] = disk[h] \/ (h = g /\ disk'[h] = Absent)
  BY <1>1, <1>2 DEF Inv, TypeOK, Content
<1>4. /\ spoiled \subseteq spoiled' /\ spoiled' \subseteq File
      /\ g \notin spoiled' => disk[g] = Absent
  BY <1>1, <1>2 DEF Replaced, Inv, TypeOK
<1>5. \A h \in File \ spoiled' : disk'[h] = disk[h]
  BY <1>3, <1>4
<1>6. \A h \in File \ spoiled' : Truth(h)'
  BY <1>1, <1>4, <1>5 DEF Inv, Truth
<1>7. TypeOK'
  BY <1>1, <1>2, <1>3, <1>4 DEF Inv, TypeOK, Left
<1>8. \A o \in Op : OpInv(o)'
  BY <1>1, <1>2, NothingApplied
<1> QED BY <1>1, <1>2, <1>4, <1>5, <1>6, <1>7, <1>8, Leaves

LEMMA RefusedStep == ASSUME Inv, NEW a \in Agent, Refused(a) PROVE Inv'
<1>1. UNCHANGED <<files, done, view, calls, hist>> /\ pc[a] = "lock"
  BY DEF Refused
<1>2. UNCHANGED <<disk, spoiled, view, first, latest, orig, rev, loose, applied, done, calls>>
  BY <1>1 DEF files, hist
<1>3. \A g \in File \ spoiled : Truth(g)'
  BY <1>2 DEF Inv, Truth
<1>4. CASE call[a].kind = "patch"
  <2> DEFINE c == [call[a] EXCEPT !.todo = call[a].all]
  <2>1. call[a] \in Call /\ AgentInv(a)
    BY DEF Inv, TypeOK
  <2>2. c \in Call /\ c.kind = "patch" /\ c.op = call[a].op
    BY <1>4, <2>1 DEF Call, AgentInv
  <2>3. call' = [call EXCEPT ![a] = c] /\ lock' = lock
    BY <1>4 DEF Refused, Inv, TypeOK
  <2> HIDE DEF c
  <2>4. /\ call' \in [Agent -> Call] /\ call'[a] = c
        /\ pc' \in [Agent -> Phase] /\ pc'[a] = "undo"
        /\ \A b \in Agent \ {a} : pc'[b] = pc[b] /\ call'[b] = call[b]
    BY <1>4, <2>2, <2>3 DEF Refused, Inv, TypeOK, Goto, Phase
  <2>5. TypeOK'
    BY <1>2, <2>3, <2>4 DEF Inv, TypeOK
  <2>6. AgentInv(a)' /\ \A g \in File : lock[g] # a
    BY <1>1, <1>2, <2>2, <2>3, <2>4 DEF Inv, LocksReleased, AgentInv, AtWork
  <2>7. \A o \in Op : OpInv(o)'
    <3>1. \A b \in Agent : call'[b].op = call[b].op
      BY <2>2, <2>4
    <3> QED BY <1>2, <3>1 DEF Inv, OpInv
  <2> QED BY <1>2, <1>3, <2>3, <2>4, <2>5, <2>6, <2>7, OthersKeep
<1>5. CASE call[a].kind # "patch"
  <2>1. Left(a)
    BY <1>5, Returns DEF Refused
  <2>2. TypeOK'
    BY <1>2, <2>1 DEF Inv, TypeOK, Left
  <2>3. \A o \in Op : OpInv(o)'
    BY <1>2, <2>1, NothingApplied
  <2> QED BY <1>2, <1>3, <2>1, <2>2, <2>3, Leaves
<1> QED BY <1>4, <1>5

\* An undo that changes a file spoils it.
LEMMA UndoStep == ASSUME Inv, NEW a \in Agent, NEW f \in File, Undo(a, f) PROVE Inv'
<1>1. /\ pc[a] = "undo" /\ disk' = [disk EXCEPT ![f] = call[a].backup[f]]
      /\ spoiled' = IF disk' # disk THEN spoiled \cup {f} ELSE spoiled
      /\ UNCHANGED <<first, latest, rev, done, view, calls, orig, applied, loose>>
  BY DEF Undo
<1>2. call[a] \in Call /\ AgentInv(a) /\ call[a].kind = "patch"
  BY <1>1 DEF Inv, TypeOK, AgentInv
<1>3. call[a].backup[f] \in Content
  BY <1>2 DEF Call
<1>4. /\ disk' \in [File -> Content] /\ spoiled \subseteq spoiled' /\ spoiled' \subseteq File
      /\ \A h \in File \ spoiled' : disk'[h] = disk[h]
  BY <1>1, <1>3 DEF Inv, TypeOK
<1>5. \A h \in File \ spoiled' : Truth(h)'
  BY <1>1, <1>4 DEF Inv, Truth
<1>6. CASE call[a].todo = {f}
  <2>1. Left(a)
    BY <1>6, Returns DEF Undo
  <2>2. TypeOK'
    BY <1>1, <1>4, <2>1 DEF Inv, TypeOK, Left
  <2>3. \A o \in Op : OpInv(o)'
    BY <1>1, <2>1, NothingApplied
  <2> QED BY <1>1, <1>4, <1>5, <2>1, <2>2, <2>3, Leaves
<1>7. CASE call[a].todo # {f}
  <2> DEFINE c == [call[a] EXCEPT !.todo = call[a].todo \ {f}]
  <2>1. c \in Call /\ c.kind = "patch" /\ c.op = call[a].op
    BY <1>2 DEF Call
  <2>2. call' = [call EXCEPT ![a] = c] /\ UNCHANGED <<pc, lock>>
    BY <1>7 DEF Undo, Inv, TypeOK
  <2> HIDE DEF c
  <2>3. call' \in [Agent -> Call] /\ call'[a] = c /\ \A b \in Agent \ {a} : call'[b] = call[b]
    BY <2>1, <2>2 DEF Inv, TypeOK
  <2>4. TypeOK'
    BY <1>1, <1>4, <2>2, <2>3 DEF Inv, TypeOK
  <2>5. AgentInv(a)' /\ \A g \in File : lock[g] # a
    BY <1>1, <2>1, <2>2, <2>3 DEF Inv, LocksReleased, AgentInv, AtWork
  <2>6. \A o \in Op : OpInv(o)'
    <3>1. \A b \in Agent : call'[b].op = call[b].op
      BY <2>1, <2>3
    <3> QED BY <1>1, <3>1 DEF Inv, OpInv
  <2> QED BY <1>1, <1>4, <1>5, <2>2, <2>3, <2>4, <2>5, <2>6, OthersKeep
<1> QED BY <1>6, <1>7

\* What happens to a directory spoils the files it changes.
LEMMA Spoils ==
  ASSUME Inv, disk' \in [File -> Content], Spoil, UNCHANGED <<first, latest, orig>>
  PROVE  /\ spoiled \subseteq spoiled' /\ spoiled' \subseteq File
         /\ \A f \in File \ spoiled' : disk'[f] = disk[f] /\ Truth(f)'
<1>1. /\ spoiled \subseteq spoiled' /\ spoiled' \subseteq File
      /\ \A f \in File \ spoiled' : disk'[f] = disk[f]
  BY DEF Spoil, Inv, TypeOK
<1>2. \A f \in File \ spoiled' : Truth(f)'
  BY <1>1 DEF Inv, Truth
<1> QED BY <1>1, <1>2

LEMMA SweepStep == ASSUME Inv, NEW a \in Agent, NEW f \in File, Sweep(a, f) PROVE Inv'
<1> DEFINE c == [call[a] EXCEPT !.todo = call[a].todo \ {f}]
<1>1. /\ pc[a] = "tree" /\ disk' = [disk EXCEPT ![f] = Absent] /\ Spoil
      /\ UNCHANGED <<first, latest, rev, lock, done, pc, view, calls, orig, applied, loose>>
  BY DEF Sweep
<1>2. call[a] \in Call /\ AgentInv(a) /\ call[a].kind = "tree"
  BY <1>1 DEF Inv, TypeOK, AgentInv
<1>3. c \in Call /\ c.kind = "tree" /\ c.op = call[a].op
  BY <1>2 DEF Call
<1>4. call' = [call EXCEPT ![a] = c]
  BY DEF Sweep, Inv, TypeOK
<1> HIDE DEF c
<1>5. call' \in [Agent -> Call] /\ call'[a] = c /\ \A b \in Agent \ {a} : call'[b] = call[b]
  BY <1>3, <1>4 DEF Inv, TypeOK
<1>6. disk' \in [File -> Content]
  BY <1>1 DEF Inv, TypeOK, Content
<1>7. /\ spoiled \subseteq spoiled' /\ spoiled' \subseteq File
      /\ \A g \in File \ spoiled' : disk'[g] = disk[g] /\ Truth(g)'
  BY <1>1, <1>6, Spoils
<1>8. TypeOK'
  BY <1>1, <1>5, <1>6, <1>7 DEF Inv, TypeOK
<1>9. AgentInv(a)' /\ \A g \in File : lock[g] # a
  BY <1>1, <1>2, <1>3, <1>5 DEF Inv, LocksReleased, AgentInv, AtWork
<1>10. \A o \in Op : OpInv(o)'
  <2>1. \A b \in Agent : call'[b].op = call[b].op
    BY <1>3, <1>5
  <2> QED BY <1>1, <2>1 DEF Inv, OpInv
<1> QED BY <1>1, <1>5, <1>7, <1>8, <1>9, <1>10, OthersKeep

LEMMA TreeDoneStep == ASSUME Inv, NEW a \in Agent, TreeDone(a) PROVE Inv'
<1>1. /\ call[a].todo = {} /\ Spoil /\ Recorded(a)
      /\ UNCHANGED <<first, latest, rev, view, calls, orig>>
  BY DEF TreeDone
<1>2. /\ Left(a) /\ applied' \in [Op -> Nat] /\ done' \subseteq Op /\ loose' \subseteq Op
      /\ \A o \in Op : OpInv(o)'
  BY <1>1, Records
<1>3. disk' \in [File -> Content]
  BY DEF TreeDone, Moves, Inv, TypeOK
<1>4. /\ spoiled \subseteq spoiled' /\ spoiled' \subseteq File
      /\ \A g \in File \ spoiled' : disk'[g] = disk[g] /\ Truth(g)'
  BY <1>1, <1>3, Spoils
<1>5. TypeOK'
  BY <1>1, <1>2, <1>3, <1>4 DEF Inv, TypeOK, Left
<1> QED BY <1>1, <1>2, <1>4, <1>5, Leaves

LEMMA TreeFailsStep == ASSUME Inv, NEW a \in Agent, TreeFails(a) PROVE Inv'
<1>1. Left(a) /\ UNCHANGED <<files, done, view, calls, hist>>
  BY Returns DEF TreeFails
<1>2. UNCHANGED <<disk, spoiled, view, first, latest, orig, rev, loose, applied, calls, done>>
  BY <1>1 DEF files, hist
<1>3. TypeOK'
  BY <1>1, <1>2 DEF Inv, TypeOK, Left
<1>4. \A g \in File \ spoiled : Truth(g)'
  BY <1>2 DEF Inv, Truth
<1>5. \A o \in Op : OpInv(o)'
  BY <1>1, <1>2, NothingApplied
<1> QED BY <1>1, <1>2, <1>3, <1>4, <1>5, Leaves
-----------------------------------------------------------------------------
LEMMA StepInv == ASSUME Inv, [Next]_vars PROVE Inv'
<1>1. ASSUME NEW a \in Agent,
             \/ SubmitOne(a) \/ DeleteNothing(a) \/ SubmitRename(a) \/ SubmitPatch(a) \/ SubmitTree(a)
             \/ (\E f \in File : Read(a, f)) \/ Refused(a) \/ Work(a)
      PROVE  Inv'
  BY <1>1, SubmitSteps, DeleteNothingStep, ReadSteps, RefusedStep, LockFirstStep, PutStep, MoveStep, MoveFailsStep,
     BackupStep, ValidateStep, AloneSteps, UndoStep, SweepStep, TreeDoneStep, TreeFailsStep DEF Work
<1>2. CASE UNCHANGED vars
  <2>1. UNCHANGED <<disk, first, latest, rev, lock, done, pc, call, view, calls, orig, spoiled, applied, loose>>
    BY <1>2 DEF vars, files, hist
  <2> QED BY <2>1 DEF Inv, TypeOK, LocksReleased, AgentInv, AtWork, Truth, OpInv
<1> QED BY <1>1, <1>2 DEF Next

\* Whatever the agents do at once, what their calls, locks and revisions say of the files holds.
THEOREM Invariance == Spec => []Inv
<1>1. Inv /\ [Next]_vars => Inv'
  BY StepInv
<1> QED BY <1>1, InitInv, PTL DEF Spec

\* Every variable keeps its type, and a file has a revision when the journal has it.
THEOREM TypeCorrect == Spec => []TypeOK
<1>1. Inv => TypeOK
  BY DEF Inv
<1> QED BY <1>1, Invariance, PTL

\* The journal shows what a file was first and what it is, but for files that a
\* rename replaced, an undone patch put back or a directory took with it.
THEOREM JournalIsTrue == Spec => []JournalAgrees
<1>1. Inv => JournalAgrees
  BY DEF Inv, Truth, JournalAgrees
<1> QED BY <1>1, Invariance, PTL

\* An operation called again, with calls that fail in between, is applied once,
\* unless its calls overlap or a patch has changed a file under its id.
THEOREM OncePerId == Spec => []AppliedOnce
<1>1. Inv => AppliedOnce
  BY DEF Inv, OpInv, AppliedOnce
<1> QED BY <1>1, Invariance, PTL

\* No path of any operation leaves a lock behind.
THEOREM NoLockLeft == Spec => []LocksReleased
<1>1. Inv => LocksReleased
  BY DEF Inv
<1> QED BY <1>1, Invariance, PTL

\* What an edit by hash replaces is what its agent has read, but for those files.
THEOREM SeenBeforeEdit == Spec => NoBlindEdit
<1>1. ASSUME Inv, NEW a \in Agent, pc[a] = "write", call[a].checked, call[a].f \notin spoiled
      PROVE  disk[call[a].f] = view[a].text
  BY <1>1 DEF Inv, AgentInv
<1>2. Inv => [\A a \in Agent :
                pc[a] = "write" /\ pc'[a] # "write" /\ call[a].checked /\ call[a].f \notin spoiled
                => disk[call[a].f] = view[a].text]_vars
  BY <1>1
<1> QED BY <1>2, Invariance, PTL DEF NoBlindEdit
=============================================================================

---------------------------- MODULE SandboxMerge ----------------------------
(***************************************************************************)
(* SandboxedWorkspace of agent_orchestrator/tools/workspace.py: every      *)
(* worker clones the main workspace into a sandbox, has its agent work,    *)
(* and merges the sandbox file by file into main, under the lock of each   *)
(* file, with a three-way merge against the text it was branched from.     *)
(* The agent of a resumed task edits the sandbox; the agents of the wave   *)
(* scheduler are bound to the main workspace and write there directly.     *)
(*                                                                         *)
(* A text is a function from regions, stretches of lines separated by      *)
(* lines nobody edits, to whoever wrote the region last.  A write is       *)
(* atomic.  Cloning takes no lock: a file is copied and then read again    *)
(* for its base text, and a merge may come in between.                     *)
(***************************************************************************)
EXTENDS Naturals, FiniteSets

CONSTANTS Worker,    \* tasks at work at the same time
          Direct,    \* those the wave scheduler runs: their agents write to main
          Rerun,     \* those whose sandbox directory a crashed run has left behind
          File, Region,
          Original,  \* who wrote what is there at the start, in main or in a sandbox
          Existing   \* the files there at the start

ASSUME MergeAssumption ==
  Direct \subseteq Worker /\ Rerun \subseteq Worker /\ Existing \subseteq File /\ Original \notin Worker /\ Region # {}

VARIABLES main,     \* the text of each file, or Absent
          pc,       \* where a worker is: new, copy (and, with nothing left to clone, edit), base,
                    \*   merge (and, with nothing left to merge, merged), conflict
          todo,     \* files it has still to clone, then to merge
          sandbox,  \* its texts
          base,     \* _base_contents, Absent where it has none
          origin,   \* history: what copy2 found
          edits,    \* history: <<file, region>> the agent wrote
          landed    \* history: those of them that reached main

vars == <<main, pc, todo, sandbox, base, origin, edits, landed>>

Absent == [r \in {} |-> Original]
Text   == [Region -> Worker \cup {Original}]
Texts  == [File -> Text \cup {Absent}]
Places == File \X Region

TypeOK ==
  /\ main \in Texts
  /\ pc \in [Worker -> {"new", "copy", "base", "merge", "conflict"}]
  /\ todo \in [Worker -> SUBSET File]
  /\ sandbox \in [Worker -> Texts] /\ base \in [Worker -> Texts] /\ origin \in [Worker -> Texts]
  /\ edits \in [Worker -> SUBSET Places] /\ landed \in [Worker -> SUBSET Places]

Nothing == [f \in File |-> Absent]

Init ==
  /\ main = [f \in File |-> IF f \in Existing THEN [r \in Region |-> Original] ELSE Absent]
  /\ pc = [w \in Worker |-> "new"]
  /\ todo = [w \in Worker |-> {}]
  /\ sandbox = [w \in Worker |-> Nothing]
  /\ base    = [w \in Worker |-> Nothing]
  /\ origin  = [w \in Worker |-> Nothing]
  /\ edits  = [w \in Worker |-> {}]
  /\ landed = [w \in Worker |-> {}]
-----------------------------------------------------------------------------
(***************************************************************************)
(* _sync_from_main                                                         *)
(***************************************************************************)
\* list_files: a file created from now on is not cloned.  A directory that a crashed
\* run of the task has left is taken as it is: what main does not have stays in it.
List(w) ==
  /\ pc[w] = "new"
  /\ todo' = [todo EXCEPT ![w] = {f \in File : main[f] # Absent}]
  /\ \E L \in SUBSET {f \in File : w \in Rerun /\ main[f] = Absent} :
       sandbox' = [sandbox EXCEPT ![w] =
                     [f \in File |-> IF f \in L THEN [r \in Region |-> Original] ELSE Absent]]
  /\ pc' = [pc EXCEPT ![w] = "copy"]
  /\ UNCHANGED <<main, base, origin, edits, landed>>

\* shutil.copy2 of the next file.
Copy(w, f) ==
  /\ pc[w] = "copy" /\ f \in todo[w]
  /\ sandbox' = [sandbox EXCEPT ![w][f] = main[f]]
  /\ origin'  = [origin EXCEPT ![w][f] = main[f]]
  /\ pc' = [pc EXCEPT ![w] = "base"]
  /\ UNCHANGED <<main, todo, base, edits, landed>>

\* read_text of the file just copied gives its base text and hash.
ReadBase(w, f) ==
  /\ pc[w] = "base" /\ f \in todo[w] /\ sandbox[w][f] # Absent
  /\ base' = [base EXCEPT ![w][f] = main[f]]
  /\ todo' = [todo EXCEPT ![w] = @ \ {f}]
  /\ pc' = [pc EXCEPT ![w] = "copy"]
  /\ UNCHANGED <<main, sandbox, origin, edits, landed>>

\* A tool call of the agent writes some regions of a file of the main workspace.
\* Bound: one call per file and worker.
WriteMain(w, f) ==
  /\ w \in Direct /\ pc[w] = "copy" /\ todo[w] = {}
  /\ \A r \in Region : <<f, r>> \notin edits[w]
  /\ \E R \in SUBSET Region \ {{}} :
       /\ main[f] = Absent => R = Region
       /\ main' = [main EXCEPT ![f] = [r \in Region |-> IF r \in R THEN w ELSE main[f][r]]]
       /\ edits'  = [edits EXCEPT ![w] = @ \cup ({f} \X R)]
       /\ landed' = [landed EXCEPT ![w] = @ \cup ({f} \X R)]
  /\ UNCHANGED <<pc, todo, sandbox, base, origin>>

\* The agent is done, and its work passes verification.  Unless it works in
\* main it has edited some regions of its sandbox and written new files there;
\* what is in the sandbox is to be merged.
Edit(w) ==
  /\ pc[w] = "copy" /\ todo[w] = {}
  /\ \E P \in SUBSET Places :
       LET text(f) == [r \in Region |-> IF <<f, r>> \in P THEN w ELSE sandbox[w][f][r]]
           written == {p[1] : p \in P}
       IN /\ w \in Direct => P = {}
          /\ \A f \in written : sandbox[w][f] = Absent => {f} \X Region \subseteq P
          /\ edits' = [edits EXCEPT ![w] = @ \cup P]
          /\ sandbox' = [sandbox EXCEPT ![w] =
                           [f \in File |-> IF f \in written THEN text(f) ELSE @[f]]]
  /\ todo' = [todo EXCEPT ![w] = {f \in File : sandbox'[w][f] # Absent}]
  /\ pc' = [pc EXCEPT ![w] = "merge"]
  /\ UNCHANGED <<main, base, origin, landed>>
-----------------------------------------------------------------------------
(***************************************************************************)
(* merge_into_main                                                         *)
(***************************************************************************)
\* Mutant of Overlap: overlapping changes are not looked for.
OverlapNever(b, ours, theirs) == FALSE

\* three_way_merge_text, its conflict and its result.
Overlap(b, ours, theirs) ==
  \E r \in Region : ours[r] # b[r] /\ theirs[r] # b[r] /\ ours[r] # theirs[r]

\* Mutant of ThreeWay: our text wins.
OursWins(b, ours, theirs) == ours

ThreeWay(b, ours, theirs) ==
  [r \in Region |-> IF ours[r] = b[r] THEN theirs[r] ELSE ours[r]]

\* Main has not changed since the sandbox was branched, or nothing is known.
FastForward(w, f) == base[w][f] \in {Absent, main[f]}

Conflict(w, f) ==
  /\ main[f] \notin {Absent, sandbox[w][f]}
  /\ ~FastForward(w, f)
  /\ Overlap(base[w][f], sandbox[w][f], main[f])

Merged(w, f) ==
  CASE main[f] \in {Absent, sandbox[w][f]} -> sandbox[w][f]
    [] FastForward(w, f)                   -> sandbox[w][f]
    [] OTHER -> ThreeWay(base[w][f], sandbox[w][f], main[f])

IsNext(w, f) == pc[w] = "merge" /\ f \in todo[w] /\ \A g \in todo[w] : f <= g

MergeFile(w, f) ==
  /\ IsNext(w, f) /\ ~Conflict(w, f)
  /\ main' = [main EXCEPT ![f] = Merged(w, f)]
  /\ landed' = [landed EXCEPT ![w] = @ \cup {p \in edits[w] : p[1] = f}]
  /\ todo' = [todo EXCEPT ![w] = @ \ {f}]
  /\ UNCHANGED <<pc, sandbox, base, origin, edits>>

\* MergeConflictError: the files merged so far stay merged.
RaiseConflict(w, f) ==
  /\ IsNext(w, f) /\ Conflict(w, f)
  /\ pc' = [pc EXCEPT ![w] = "conflict"]
  /\ UNCHANGED <<main, todo, sandbox, base, origin, edits, landed>>

Step(w) == \/ List(w) \/ Edit(w)
           \/ \E f \in File : \/ Copy(w, f) \/ ReadBase(w, f) \/ WriteMain(w, f)
                               \/ MergeFile(w, f) \/ RaiseConflict(w, f)

Next == \E w \in Worker : Step(w)

Spec == Init /\ [][Next]_vars
-----------------------------------------------------------------------------
\* A merge of w replaces what region r of f holds, and it is not what w copied.
ReplacesUnseen(w, f, r) ==
  /\ pc[w] = "merge" /\ f \in todo[w] \ todo'[w]
  /\ main[f] # Absent /\ main'[f][r] # main[f][r]
  /\ origin[w][f] = Absent \/ main[f][r] # origin[w][f][r]

\* Nothing is overwritten unseen: whatever others merge or write into main
\* while w works, a merge of w only replaces text that w had copied, for a
\* file that was there when w branched and whose clone was not torn by a write
\* between the two reads of _sync_from_main.
OverlapSeen ==
  [][\A w \in Worker, f \in File, r \in Region :
       ReplacesUnseen(w, f, r) => origin[w][f] = Absent \/ base[w][f] # origin[w][f]]_vars

\* What w has to merge into f is in part from a crashed run.
Leftover(w, f) ==
  /\ pc[w] \in {"merge", "conflict"} /\ sandbox[w][f] # Absent /\ origin[w][f] = Absent
  /\ \E r \in Region : sandbox[w][f][r] = Original

\* No one has a base text that differs from the text copied, or leftovers.
Clean(f) == \A u \in Worker : base[u][f] \in {Absent, origin[u][f]} /\ ~Leftover(u, f)

\* No merge undoes another: unless a clone was torn or a sandbox held the file
\* already, an edit that landed is in main for good if no one else edits the
\* region, whatever the others merge.
NoLostEdit ==
  \A w \in Worker, f \in File, r \in Region :
    /\ <<f, r>> \in landed[w] /\ Clean(f)
    /\ \A u \in Worker \ {w} : <<f, r>> \notin edits[u]
    => main[f][r] = w
=============================================================================

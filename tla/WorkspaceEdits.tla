--------------------------- MODULE WorkspaceEdits ---------------------------
(***************************************************************************)
(* The editing operations of WorkspaceManager (tools/workspace.py) on the  *)
(* main workspace, called by the tools of several agents at once           *)
(* (tools/registry.py), with the change journal, the file revisions and    *)
(* the operation ledger they keep.                                         *)
(*                                                                         *)
(* Every file has a lock.  An operation decides under the lock whether its *)
(* caller has seen the latest text, and replaces it.  Existence is checked *)
(* before the lock is taken, and a patch that fails is undone without it.  *)
(* A directory is deleted or renamed under the lock of its own name alone. *)
(* What a caller passes (text, version, whether to overwrite) is chosen    *)
(* where the call uses it.  Taking the last lock and reading are one step, *)
(* and so are writing and recording: what others do in between commutes.   *)
(***************************************************************************)
EXTENDS Naturals, FiniteSets

CONSTANTS Agent, File, Text,
          Directory, \* the directories: each the set of its files
          Op,        \* operation ids
          MaxCalls   \* bound: editing calls

ASSUME EditsAssumption ==
  /\ MaxCalls \in Nat /\ File # {} /\ Directory \subseteq SUBSET File
  /\ Text \cap {"absent", "unrecorded"} = {} /\ "none" \notin Op /\ "free" \notin Agent

Absent     == "absent"
Unrecorded == "unrecorded"
Content    == Text \cup {Absent}
Free       == "free"
NoOp       == "none"
SomeFile   == CHOOSE f \in File : TRUE

VARIABLES disk,
          first, latest,   \* the change journal: before the first and after the last change
          rev,             \* _file_revisions, 0 where there is no entry
          lock,            \* _file_locks
          done,            \* ids the ledger holds as executed
          pc, call,        \* where each agent is in which call
          view,            \* what each agent last read: file, text and revision
          calls,           \* counted for MaxCalls
          orig,            \* history: the workspace at the beginning
          spoiled,         \* history: files changed without a true entry in the journal
          applied,         \* history: how many changes an id made
          loose            \* history: ids that two calls had at once, or that a patch used

files == <<disk, first, latest, rev>>
hist  == <<orig, spoiled, applied, loose>>
vars  == <<files, lock, done, pc, call, view, calls, hist>>

\* f, g: the files of the call, where only a rename has a second.  text, before:
\* what it puts, Absent for a deletion, and what it found.  all, todo, backup:
\* the files of a patch, those it has before it, and what it read of them.  A
\* tree removes the files todo of a directory, then moves all to another.
Call == [kind : {"none", "write", "edit", "delete", "rename", "patch", "tree"}, op : Op \cup {NoOp},
         f : File, g : File, checked : BOOLEAN, over : BOOLEAN, text : Content, before : Content,
         all : SUBSET File, todo : SUBSET File, backup : [File -> Content]]

Phase == {"idle", "revision", "backup", "lock", "second", "write", "undo", "tree"}

NoCall == [kind |-> "none", op |-> NoOp, f |-> SomeFile, g |-> SomeFile, checked |-> FALSE, over |-> FALSE,
           text |-> Absent, before |-> Absent, all |-> {}, todo |-> {}, backup |-> [f \in File |-> Absent]]

Init ==
  /\ disk \in [File -> Content]
  /\ first = [f \in File |-> Unrecorded] /\ latest = first
  /\ rev = [f \in File |-> 0]
  /\ lock = [f \in File |-> Free]
  /\ done = {}
  /\ pc = [a \in Agent |-> "idle"] /\ call = [a \in Agent |-> NoCall]
  /\ view = [a \in Agent |-> [file |-> SomeFile, text |-> Absent, rev |-> 0]]
  /\ calls = 0
  /\ orig = disk /\ spoiled = {} /\ applied = [o \in Op |-> 0] /\ loose = {}

Revision(f) == IF rev[f] = 0 THEN 1 ELSE rev[f]

\* Mutant of Notified: a file that was not known before gets no revision.
NotifiedKnown(f, created) == IF rev[f] = 0 THEN 0 ELSE rev[f] + 1

\* _notify_file_changed
Notified(f, created) == IF rev[f] = 0 THEN (IF created THEN 1 ELSE 2) ELSE rev[f] + 1

Goto(a, p) == pc' = [pc EXCEPT ![a] = p]
Release(a) == lock' = [f \in File |-> IF lock[f] = a THEN Free ELSE lock[f]]
Return(a)  == Goto(a, "idle") /\ Release(a) /\ call' = [call EXCEPT ![a] = NoCall]
-----------------------------------------------------------------------------
(***************************************************************************)
(* The tool read_file returns the text, and the revision the file has a    *)
(* moment later.                                                           *)
(***************************************************************************)
Read(a, f) ==
  /\ pc[a] = "idle" /\ lock[f] = Free /\ calls < MaxCalls
  /\ view' = [view EXCEPT ![a] = [file |-> f, text |-> disk[f], rev |-> 0]]
  /\ Goto(a, "revision")
  /\ UNCHANGED <<files, lock, done, call, calls, hist>>

ReadRevision(a) ==
  /\ pc[a] = "revision"
  /\ view' = [view EXCEPT ![a].rev = Revision(view[a].file)]
  /\ Goto(a, "idle")
  /\ UNCHANGED <<files, lock, done, call, calls, hist>>
-----------------------------------------------------------------------------
(***************************************************************************)
(* A call is let through if the ledger does not know its id and its files  *)
(* exist, or do not, as it needs.                                          *)
(***************************************************************************)
Submit(a, c, p) ==
  /\ pc[a] = "idle" /\ calls < MaxCalls /\ c.op \notin done
  /\ calls' = calls + 1
  /\ call' = [call EXCEPT ![a] = c]
  /\ Goto(a, p)
  /\ loose' = loose \cup ({call[b].op : b \in Agent} \cap {c.op} \cap Op)
  /\ UNCHANGED <<files, lock, done, view, orig, spoiled, applied>>

\* write_file; replace_file_content, insert_lines, delete_lines and apply_diff_blocks; delete_file.
SubmitOne(a) ==
  \E kind \in {"write", "edit", "delete"}, op \in Op \cup {NoOp} :
    /\ kind = "write" \/ disk[view[a].file] # Absent
    /\ Submit(a, [NoCall EXCEPT !.kind = kind, !.op = op, !.f = view[a].file], "lock")

\* delete_file of a file that is gone: the ledger is told that nothing was to do.
DeleteNothing(a) ==
  /\ pc[a] = "idle" /\ calls < MaxCalls /\ disk[view[a].file] = Absent
  /\ calls' = calls + 1
  /\ \E op \in Op \ done : done' = done \cup {op}
  /\ UNCHANGED <<files, lock, pc, call, view, hist>>

\* rename_file and move_file
SubmitRename(a) ==
  \E g \in File \ {view[a].file}, over \in BOOLEAN, op \in Op \cup {NoOp} :
    /\ disk[view[a].file] # Absent /\ (disk[g] # Absent => over)
    /\ Submit(a, [NoCall EXCEPT !.kind = "rename", !.op = op, !.f = view[a].file, !.g = g, !.over = over], "lock")

\* apply_patch
SubmitPatch(a) ==
  \E S \in SUBSET File \ {{}}, op \in Op \cup {NoOp} :
    Submit(a, [NoCall EXCEPT !.kind = "patch", !.op = op, !.all = S, !.todo = S], "backup")

\* delete_file of a directory, which moves nothing; rename_file and move_file of
\* one, which remove what is in the directory they put it in place of.
SubmitTree(a) ==
  \E gone \in Directory \cup {{}}, moved \in Directory \cup {{}}, op \in Op \cup {NoOp} :
    /\ gone \cap moved = {} /\ gone \cup moved # {}
    /\ Submit(a, [NoCall EXCEPT !.kind = "tree", !.op = op, !.all = moved, !.todo = gone], "tree")

\* It reads its files once more, for a rollback.
Backup(a, f) ==
  /\ pc[a] = "backup" /\ f \in call[a].todo /\ lock[f] = Free
  /\ LET rest == call[a].todo \ {f} IN
     /\ call' = [call EXCEPT ![a].backup[f] = disk[f], ![a].todo = IF rest = {} THEN call[a].all ELSE rest]
     /\ Goto(a, IF rest = {} THEN "lock" ELSE "backup")
  /\ UNCHANGED <<files, lock, done, view, calls, hist>>
-----------------------------------------------------------------------------
(***************************************************************************)
(* Under the lock                                                          *)
(***************************************************************************)
\* Mutant of UpToDate: the version was compared before the lock was taken.
UpToDateBefore(a, f, expect) ==
  expect = "revision" => disk[f] # Absent

\* _validate_expected_version, of a caller that passes nothing, the hash or the revision it has read.
UpToDate(a, f, expect) ==
  \/ expect = "any"
  \/ expect = "hash" /\ disk[f] = view[a].text
  \/ expect = "revision" /\ disk[f] # Absent /\ Revision(f) = view[a].rev

\* What the call may put in place of what it finds.
Outcome(a, f) ==
  CASE call[a].kind = "write" -> Text
    [] call[a].kind = "edit"  -> IF disk[f] = Absent THEN {} ELSE Text
    [] call[a].kind = "patch" -> Content
    [] OTHER                  -> {Absent}

\* It can take the last lock it needs: the file's, or the second of a rename.
Locking(a, f) ==
  \/ /\ pc[a] = "lock" /\ call[a].kind # "rename" /\ lock[f] = Free
     /\ IF call[a].kind = "patch" THEN f \in call[a].todo ELSE f = call[a].f
  \/ pc[a] = "second" /\ f = call[a].f /\ lock[call[a].g] = Free

LockFirst(a) ==
  /\ pc[a] = "lock" /\ call[a].kind = "rename" /\ lock[call[a].f] = Free
  /\ lock' = [lock EXCEPT ![call[a].f] = a]
  /\ Goto(a, "second")
  /\ UNCHANGED <<files, done, call, view, calls, hist>>

Validate(a, f) ==
  /\ Locking(a, f)
  /\ lock' = [lock EXCEPT ![IF pc[a] = "second" THEN call[a].g ELSE f] = a]
  /\ \E expect \in (IF call[a].kind = "patch" THEN {"any"} ELSE {"any", "hash", "revision"}), t \in Outcome(a, f) :
       /\ UpToDate(a, f, expect) /\ (t = Absent \/ t # disk[f])
       /\ call' = [call EXCEPT ![a].f = f, ![a].before = disk[f], ![a].text = t, ![a].checked = (expect = "hash")]
  /\ Goto(a, "write")
  /\ UNCHANGED <<files, done, view, calls, hist>>

\* Mutant of Conflict: the exception leaves the locks taken.
ConflictLocked(a, f) ==
  /\ Locking(a, f) /\ call[a].kind # "patch"
  /\ lock' = [lock EXCEPT ![f] = a]
  /\ Goto(a, "idle") /\ call' = [call EXCEPT ![a] = NoCall]
  /\ UNCHANGED <<files, done, view, calls, hist>>

\* The caller's version is not the latest, or the edit does not fit the text.
Conflict(a, f) ==
  /\ Locking(a, f) /\ call[a].kind # "patch"
  /\ Return(a)
  /\ UNCHANGED <<files, done, view, calls, hist>>

\* The next file of a patch, or the end of the call.
Proceed(a, f) ==
  LET rest == call[a].todo \ {f} IN
  IF rest # {}
    THEN Goto(a, "lock") /\ Release(a) /\ call' = [call EXCEPT ![a].todo = rest]
    ELSE Return(a)

\* Mutant of Executed: only the tool that writes a file tells the ledger.
ExecutedWrites(a) == done' = IF call[a].kind = "write" THEN done \cup ({call[a].op} \cap Op) ELSE done

\* OperationLedger.record: what a patch does to its files goes there without its id.
Executed(a) == done' = IF call[a].kind = "patch" THEN done ELSE done \cup ({call[a].op} \cap Op)

\* The text is there already: nothing is written.
NoChange(a, f) ==
  /\ Locking(a, f) /\ disk[f] \in Outcome(a, f) \ {Absent}
  /\ Executed(a) /\ Proceed(a, f)
  /\ UNCHANGED <<files, view, calls, hist>>

\* record_mutation: the first entry of a file keeps what was there before.
Before(f, t) == IF first[f] = Unrecorded THEN t ELSE first[f]

\* The change was made: it is recorded with its id.
Recorded(a) ==
  /\ applied' = [o \in Op |-> IF o = call[a].op THEN applied[o] + 1 ELSE applied[o]]
  /\ loose' = IF call[a].kind = "patch" THEN loose \cup ({call[a].op} \cap Op) ELSE loose
  /\ Executed(a) /\ Proceed(a, call[a].f)

\* Mutant of Put: the journal keeps the text the caller was told of.
PutUnseen(a) ==
  /\ pc[a] = "write" /\ call[a].kind # "rename"
  /\ LET f == call[a].f  t == call[a].text IN
     /\ disk'   = [disk EXCEPT ![f] = t]
     /\ first'  = [first EXCEPT ![f] = Before(f, view[a].text)]
     /\ latest' = [latest EXCEPT ![f] = t]
     /\ rev'    = [rev EXCEPT ![f] = Notified(f, call[a].before = Absent)]
  /\ Recorded(a)
  /\ UNCHANGED <<view, calls, orig, spoiled>>

\* write_text or unlink, of which the latter is skipped if the file is gone.
Put(a) ==
  /\ pc[a] = "write" /\ call[a].kind # "rename"
  /\ LET f == call[a].f  t == call[a].text IN
     /\ disk'   = [disk EXCEPT ![f] = t]
     /\ first'  = [first EXCEPT ![f] = Before(f, call[a].before)]
     /\ latest' = [latest EXCEPT ![f] = t]
     /\ rev'    = [rev EXCEPT ![f] = Notified(f, call[a].before = Absent)]
  /\ Recorded(a)
  /\ UNCHANGED <<view, calls, orig, spoiled>>

\* The destination is removed, if it may be, and the source moved onto it.
Replaced(f, g) == spoiled' = IF disk[g] # Absent \/ f \in spoiled THEN spoiled \cup {g} ELSE spoiled

Move(a) ==
  /\ pc[a] = "write" /\ call[a].kind = "rename"
  /\ LET f == call[a].f  g == call[a].g IN
     /\ disk[f] # Absent
     /\ disk'   = [disk EXCEPT ![f] = Absent, ![g] = disk[f]]
     /\ first'  = [first EXCEPT ![f] = Before(f, call[a].before), ![g] = Before(g, Absent)]
     /\ latest' = [latest EXCEPT ![f] = Absent, ![g] = call[a].before]
     /\ rev'    = [rev EXCEPT ![f] = Notified(f, FALSE), ![g] = Notified(g, TRUE)]
     /\ Replaced(f, g)
  /\ Recorded(a)
  /\ UNCHANGED <<view, calls, orig>>

\* If the source is gone by now shutil.move raises, after the destination was removed.
MoveFails(a) ==
  /\ pc[a] = "write" /\ call[a].kind = "rename" /\ disk[call[a].f] = Absent
  /\ disk' = IF call[a].over THEN [disk EXCEPT ![call[a].g] = Absent] ELSE disk
  /\ Replaced(call[a].f, call[a].g)
  /\ Return(a)
  /\ UNCHANGED <<first, latest, rev, done, view, calls, orig, applied, loose>>
-----------------------------------------------------------------------------
(***************************************************************************)
(* The authorizer, the access policy or the resource budget refuses a      *)
(* call, or a file of a patch.  The patch then puts back what it has read. *)
(***************************************************************************)
Refused(a) ==
  /\ pc[a] = "lock"
  /\ IF call[a].kind = "patch"
       THEN Goto(a, "undo") /\ call' = [call EXCEPT ![a].todo = call[a].all] /\ UNCHANGED lock
       ELSE Return(a)
  /\ UNCHANGED <<files, done, view, calls, hist>>

Undo(a, f) ==
  /\ pc[a] = "undo" /\ f \in call[a].todo
  /\ disk' = [disk EXCEPT ![f] = call[a].backup[f]]
  /\ spoiled' = IF disk' # disk THEN spoiled \cup {f} ELSE spoiled
  /\ IF call[a].todo = {f}
       THEN Return(a)
       ELSE call' = [call EXCEPT ![a].todo = @ \ {f}] /\ UNCHANGED <<pc, lock>>
  /\ UNCHANGED <<first, latest, rev, done, view, calls, orig, applied, loose>>

-----------------------------------------------------------------------------
(***************************************************************************)
(* A directory: its files change without their locks, with no entry in the *)
(* journal and no revision of theirs.                                      *)
(***************************************************************************)
Spoil == spoiled' = spoiled \cup {f \in File : disk'[f] # disk[f]}

\* shutil.rmtree, file by file
Sweep(a, f) ==
  /\ pc[a] = "tree" /\ f \in call[a].todo
  /\ disk' = [disk EXCEPT ![f] = Absent]
  /\ Spoil
  /\ call' = [call EXCEPT ![a].todo = @ \ {f}]
  /\ UNCHANGED <<first, latest, rev, lock, done, pc, view, calls, orig, applied, loose>>

\* Where shutil.move may put the files: each changes place with one that is not there.
Moves(moved) ==
  {m \in [File -> File] : \A f \in File :
     /\ m[m[f]] = f
     /\ f \in moved => m[f] \notin moved /\ disk[m[f]] = Absent
     /\ m[f] = f \/ f \in moved \/ m[f] \in moved}

TreeDone(a) ==
  /\ pc[a] = "tree" /\ call[a].todo = {}
  /\ \E m \in Moves(call[a].all) : disk' = [f \in File |-> disk[m[f]]]
  /\ Spoil
  /\ Recorded(a)
  /\ UNCHANGED <<first, latest, rev, view, calls, orig>>

\* Either raises half-way.
TreeFails(a) ==
  /\ pc[a] = "tree"
  /\ Return(a)
  /\ UNCHANGED <<files, done, view, calls, hist>>
-----------------------------------------------------------------------------
Work(a) ==
  \/ ReadRevision(a) \/ LockFirst(a) \/ Put(a) \/ Move(a) \/ MoveFails(a) \/ TreeDone(a) \/ TreeFails(a)
  \/ \E f \in File : Backup(a, f) \/ Validate(a, f) \/ Conflict(a, f) \/ NoChange(a, f) \/ Undo(a, f) \/ Sweep(a, f)

Next == \E a \in Agent :
  \/ SubmitOne(a) \/ DeleteNothing(a) \/ SubmitRename(a) \/ SubmitPatch(a) \/ SubmitTree(a)
  \/ (\E f \in File : Read(a, f)) \/ Refused(a) \/ Work(a)

Spec == Init /\ [][Next]_vars
-----------------------------------------------------------------------------
\* The state has its shape: a file has a revision when the journal has it.
TypeOK ==
  /\ disk \in [File -> Content] /\ orig \in [File -> Content]
  /\ first \in [File -> Content \cup {Unrecorded}] /\ latest \in [File -> Content \cup {Unrecorded}]
  /\ rev \in [File -> Nat]
  /\ lock \in [File -> Agent \cup {Free}]
  /\ done \subseteq Op /\ loose \subseteq Op /\ applied \in [Op -> Nat]
  /\ pc \in [Agent -> Phase] /\ call \in [Agent -> Call]
  /\ view \in [Agent -> [file : File, text : Content, rev : Nat]]
  /\ calls \in 0..MaxCalls /\ spoiled \subseteq File
  /\ \A f \in File : (rev[f] = 0) = (first[f] = Unrecorded) /\ (first[f] = Unrecorded) = (latest[f] = Unrecorded)

\* While nobody works on a file the journal tells the truth about it, unless a
\* rename replaced it, a patch was undone or its directory deleted or renamed:
\* it shows what the file was first and what it is, and a file it does not know
\* is as it was.
JournalAgrees ==
  \A f \in File \ spoiled : lock[f] = Free =>
    IF latest[f] = Unrecorded THEN disk[f] = orig[f] ELSE first[f] = orig[f] /\ latest[f] = disk[f]

\* An operation is applied once however often it is called and however its
\* calls fail, unless two calls with its id overlap or a patch has used the id.
AppliedOnce == \A o \in Op \ loose : applied[o] <= 1

\* An edit by hash never replaces a text its agent has not read, whoever else
\* edits, renames or deletes the file, unless a failed patch was undone there or
\* the directory deleted or renamed.
NoBlindEdit ==
  [][\A a \in Agent :
       pc[a] = "write" /\ pc'[a] # "write" /\ call[a].checked /\ call[a].f \notin spoiled
       => disk[call[a].f] = view[a].text]_vars

\* A lock is held by a call that is at work on the file, never by one that has
\* returned or failed: only a rename that waits for its second file holds the
\* first, so that calls wait for each other only where two renames cross.
LocksReleased ==
  \A f \in File, a \in Agent : lock[f] = a =>
    \/ pc[a] = "second" /\ f = call[a].f
    \/ pc[a] = "write" /\ (f = call[a].f \/ (call[a].kind = "rename" /\ f = call[a].g))
=============================================================================

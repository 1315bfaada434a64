----------------------------- MODULE Messaging -----------------------------
(***************************************************************************)
(* The message bus (runtime/messaging.py), its dual writes to the store    *)
(* and what a resumed session gets back of it (persistence/                *)
(* state_store.py).  The store holds two kinds of rows in one table: the   *)
(* messages of the bus, and the trace of the session state, which every    *)
(* save inserts again under fresh ids.                                     *)
(*                                                                         *)
(* A message is its identity `at`, the moment it was made, its recipient   *)
(* and the message it answers; contents and topics are left out.           *)
(***************************************************************************)
EXTENDS Naturals, Sequences, SequencesExt, FiniteSets

CONSTANTS Peer,        \* agents that send and read messages
          MaxMade,     \* bound: messages and notes made
          MaxSaves,    \* bound: calls of save_session
          MaxResumes   \* bound: calls of resume_workflow

Everyone == "*"
Original == 0          \* in_reply_to of a message that answers nothing

\* No agent has the name that stands for all of them.
ASSUME MessagingAssumption ==
  {MaxMade, MaxSaves, MaxResumes} \subseteq Nat /\ Everyone \notin Peer

VARIABLES history,  \* the bus: messages in the order of delivery
          inbox,    \* the bus: from the recipients that have an inbox
          sending,  \* per agent: the call of the bus under way
          trace,    \* messages of the session state, as their moments
          rows,     \* table messages: id and message
          clock,    \* moments and ids used up
          made, saves, resumes,  \* counted for the bounds
          cleared,  \* history: what readers have cleared from the inboxes since they were loaded
          delivered,\* history: messages the bus has delivered in this session
          unsaved,  \* history: those whose dual write has failed
          lost      \* history: those that were not stored when the session was loaded again

bus     == <<history, inbox>>
ledger  == <<delivered, unsaved, lost>>
busVars == <<bus, sending, trace, rows, clock, made, saves, resumes, cleared, ledger>>

Idle == [step |-> "idle"]

BusInit ==
  /\ history = <<>>
  /\ inbox = <<>>
  /\ sending = [a \in Peer |-> Idle]
  /\ trace = <<>>
  /\ rows = {}
  /\ clock = 0 /\ made = 0 /\ saves = 0 /\ resumes = 0
  /\ cleared = {} /\ delivered = {} /\ unsaved = {} /\ lost = {}

Make == made < MaxMade /\ made' = made + 1 /\ clock' = clock + 1

Message(to, re) == [at |-> clock + 1, to |-> to, re |-> re]

-----------------------------------------------------------------------------
\* send_agent_message, publish_finding and query_agent make the message, and
\* with it its timestamp, before they call the bus.
Compose(a) ==
  /\ sending[a] = Idle
  /\ Make
  /\ \E to \in (Peer \ {a}) \cup {Everyone}, query \in BOOLEAN :
       /\ query => to # Everyone
       /\ sending' = [sending EXCEPT ![a] =
                        [step |-> "deliver", msg |-> Message(to, Original), query |-> query]]
  /\ UNCHANGED <<bus, trace, rows, saves, resumes, cleared, ledger>>

\* Mutant of Delivered: a message to an agent without an inbox is dropped.
DeliveredToKnown(boxes, m) ==
  [r \in DOMAIN boxes |-> IF m.to \in {r, Everyone} THEN Append(boxes[r], m) ELSE boxes[r]]

\* Under the bus lock: a broadcast goes to the inboxes there are, any other
\* message to its recipient's, which is made if it is not there.
Delivered(boxes, m) ==
  IF m.to = Everyone THEN [r \in DOMAIN boxes |-> Append(boxes[r], m)]
  ELSE [r \in DOMAIN boxes \cup {m.to} |->
          (IF r \in DOMAIN boxes THEN boxes[r] ELSE <<>>) \o (IF r = m.to THEN <<m>> ELSE <<>>)]

Deliver(a) ==
  /\ sending[a].step = "deliver"
  /\ history' = Append(history, sending[a].msg)
  /\ inbox' = Delivered(inbox, sending[a].msg)
  /\ sending' = [sending EXCEPT ![a].step = "save"]
  /\ delivered' = delivered \cup {sending[a].msg}
  /\ UNCHANGED <<trace, rows, clock, made, saves, resumes, cleared, unsaved, lost>>

\* The dual write comes after the lock is released; an error of it is
\* reported as an event and goes no further.
Store(a) ==
  /\ sending[a].step = "save"
  /\ \/ rows' = rows \cup {[id |-> sending[a].msg.at, msg |-> sending[a].msg]} /\ UNCHANGED unsaved
     \/ unsaved' = unsaved \cup {sending[a].msg} /\ UNCHANGED rows
  /\ sending' = [sending EXCEPT ![a] = IF sending[a].query THEN [@ EXCEPT !.step = "ask"] ELSE Idle]
  /\ UNCHANGED <<bus, trace, clock, made, saves, resumes, cleared, delivered, lost>>

\* query_agent_sync after its request: the peer's answer is sent in the same
\* thread, or the model call raises.
Answer(a) ==
  /\ sending[a].step = "ask"
  /\ \/ /\ Make
        /\ sending' = [sending EXCEPT ![a] =
             [step |-> "deliver", msg |-> Message(a, sending[a].msg.at), query |-> FALSE]]
     \/ sending' = [sending EXCEPT ![a] = Idle] /\ UNCHANGED <<made, clock>>
  /\ UNCHANGED <<bus, trace, rows, saves, resumes, cleared, ledger>>

\* read_inbox with clear; without it nothing changes.
ReadInbox(r) ==
  /\ r \in DOMAIN inbox
  /\ inbox[r] # <<>>
  /\ inbox' = [inbox EXCEPT ![r] = <<>>]
  /\ cleared' = cleared \cup {<<r, m.at>> : m \in ToSet(inbox[r])}
  /\ UNCHANGED <<history, sending, trace, rows, clock, made, saves, resumes, ledger>>

-----------------------------------------------------------------------------
\* OrchestratorState.add_message: agents leave notes in the session state.
AddNote ==
  /\ Make
  /\ trace' = Append(trace, clock + 1)
  /\ UNCHANGED <<bus, sending, rows, saves, resumes, cleared, ledger>>

\* save_session makes a broadcast of every message of the state, which keeps
\* its timestamp and gets a fresh id.
CopyOf(i) == [id |-> clock + i, msg |-> [at |-> trace[i], to |-> Everyone, re |-> Original]]

SaveSession ==
  /\ saves < MaxSaves
  /\ trace # <<>>
  /\ saves' = saves + 1
  /\ rows' = rows \cup {CopyOf(i) : i \in 1..Len(trace)}
  /\ clock' = clock + Len(trace)
  /\ UNCHANGED <<bus, sending, trace, made, resumes, cleared, ledger>>

\* Mutant of Earlier: ORDER BY rowid.
InsertedEarlier(p, q) == p.id < q.id

\* get_messages: ORDER BY timestamp, rows of one timestamp in the order of insertion.
Earlier(p, q) == p.msg.at < q.msg.at \/ (p.msg.at = q.msg.at /\ p.id < q.id)

\* The rows S that come before p, and the messages of S in order.
Before(S, p) == {q \in S : Earlier(q, p)}
InOrder(S) ==
  [i \in 1..Cardinality(S) |-> (CHOOSE p \in S : Cardinality(Before(S, p)) = i - 1).msg]

GetMessages == InOrder(rows)

\* Mutant of LoadedInboxes: get_messages(session, recipient) for each, which returns
\* the broadcasts too.
LoadedWithBroadcasts ==
  LET theirs(r) == {p \in rows : p.msg.to \in {r, Everyone}}
  IN  [r \in {a \in Peer : theirs(a) # {}} |-> InOrder(theirs(r))]

\* load_history_from_store: an inbox per recipient that has a message of its own.
LoadedInboxes ==
  LET direct(r) == {p \in rows : p.msg.to = r}
  IN  [r \in {a \in Peer : direct(a) # {}} |-> InOrder(direct(r))]

\* resume_workflow, in a fresh process after a crash at any point or in the
\* old one: the bus and the state are loaded from the rows.  A session without
\* tasks is run from the start, with an empty state.  The rows are read before the
\* lock of the bus is taken: no agent runs yet that could send a message then.
ResumeWorkflow ==
  /\ resumes < MaxResumes
  /\ resumes' = resumes + 1
  /\ history' = GetMessages
  /\ inbox' = LoadedInboxes
  /\ trace' \in {[i \in 1..Len(GetMessages) |-> GetMessages[i].at], <<>>}
  /\ sending' = [a \in Peer |-> Idle]
  /\ cleared' = {}
  /\ lost' = lost \cup unsaved \cup {sending[a].msg : a \in {b \in Peer : sending[b].step = "save"}}
  /\ UNCHANGED <<rows, clock, made, saves, delivered, unsaved>>

BusNext ==
  \/ \E a \in Peer : Compose(a) \/ Deliver(a) \/ Store(a) \/ Answer(a) \/ ReadInbox(a)
  \/ AddNote
  \/ SaveSession
  \/ ResumeWorkflow

BusSpec == BusInit /\ [][BusNext]_busVars

-----------------------------------------------------------------------------
\* A message for one agent that the bus has delivered is in the inbox of its
\* recipient until the recipient clears it, or until the session is loaded again
\* when it was not stored: its dual write had failed or had not come yet.  What
\* was cleared before that comes back.  Deliveries, the dual writes, the copies of
\* the trace and the rebuilding of the inboxes must agree on this.
DirectSurvives ==
  \A m \in delivered \ lost :
    m.to # Everyone =>
      \/ <<m.to, m.at>> \in cleared
      \/ m.to \in DOMAIN inbox /\ m \in ToSet(inbox[m.to])

\* No reader finds one message twice in an inbox.  The rows hold a message of
\* a resumed session once for itself and once more for every save since; only
\* because the copies are broadcasts, and a loaded broadcast goes to no inbox,
\* do they stay out.
DeliveredOnce ==
  \A r \in DOMAIN inbox : \A i, j \in 1..Len(inbox[r]) :
    inbox[r][i].at = inbox[r][j].at => i = j

\* An answer never comes before its question in the history, be it as
\* delivered, with deliveries of other threads in between, or as loaded from
\* rows that were inserted in another order, each question several times.
QuestionFirst ==
  \A i, j \in 1..Len(history) :
    history[j].re = history[i].at => i < j
=============================================================================

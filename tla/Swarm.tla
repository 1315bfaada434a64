-------------------------------- MODULE Swarm --------------------------------
(***************************************************************************)
(* The agents of a swarm, kept in two registers under two locks: those     *)
(* AgentLifecycleManager (runtime/lifecycle_manager.py) runs, and the      *)
(* instances of SwarmPool (swarm/lifecycle.py), which the manager, the     *)
(* delegations and handoffs (swarm/delegation.py), the supervisor          *)
(* (swarm/watchdog.py) and the tools of the agents (swarm/tools.py) change *)
(* from several threads.                                                   *)
(*                                                                         *)
(* What a subtask does is left out, but that it may cost a token.  Roles   *)
(* are too: a delegation takes a READY agent or finds none of its role.    *)
(* Ids are given by the pool, but a caller of the manager may choose one,  *)
(* and may name any id as the parent.                                      *)
(***************************************************************************)
EXTENDS Naturals, FiniteSets

CONSTANTS Agent,    \* ids
          Thread,   \* callers
          MaxCalls  \* bound: operations that are called

ASSUME SwarmAssumption == MaxCalls \in Nat /\ "none" \notin Agent \cup Thread

None == "none"

VARIABLES live,      \* _live_agents: lifecycle_state, or gone
          pool,      \* _instances: state, or absent
          parent,    \* parent_id of the agent that was spawned last under this id
          children,  \* children_ids in the pool
          holder,    \* the thread that keeps the manager's lock
          job,       \* what each thread does, with which agent, what it has read and has to add
          used,      \* tokens_used
          stale,     \* threads whose agent has been registered anew, so that theirs is not in the pool
          calls,     \* counted for MaxCalls
          spent,     \* history: tokens the delegations of an agent have reported
          killed,    \* history: agents a termination should have reached
          taken,     \* history: those another call had in hand then, or names to pause or resume them
          apart,     \* history: agents two delegations worked with at once
          stray      \* history: agents registered while their parent was not, or not registered since they or
                     \*   their parent were spawned anew

registers == <<live, pool, parent, children>>
tokens == <<used, stale>>
hist == <<spent, killed, taken, apart, stray>>
vars == <<registers, holder, job, tokens, calls, hist>>

LiveState == {"gone", "READY", "PAUSED", "RUNNING"}
PoolState == {"absent", "READY", "ACTIVE", "SUSPENDED", "TERMINATED"}
Step      == {"idle", "register", "suspend", "resume", "terminate", "take", "work", "tokens", "release", "accept"}

Free == [at |-> "idle", agent |-> None, parent |-> None, cascade |-> FALSE, old |-> 0, cost |-> 0]

Init ==
  /\ live = [a \in Agent |-> "gone"] /\ pool = [a \in Agent |-> "absent"]
  /\ parent = [a \in Agent |-> None] /\ children = [a \in Agent |-> {}]
  /\ holder = None /\ job = [t \in Thread |-> Free]
  /\ used = [a \in Agent |-> 0] /\ stale = {} /\ calls = 0
  /\ spent = used /\ killed = {} /\ taken = {} /\ apart = {} /\ stray = {}

Busy(a)  == {t \in Thread : job[t].agent = a}
Fresh(a) == live[a] = "gone" /\ pool[a] = "absent" /\ Busy(a) = {} /\ \A b \in Agent : parent[b] # a

\* An operation begins.
Called(t) == job[t] = Free /\ calls < MaxCalls /\ calls' = calls + 1

\* It goes on with agent a, or returns.
With(t, at, a) == job' = [job EXCEPT ![t] = [Free EXCEPT !.at = at, !.agent = a]]
Goto(t, at)    == job' = [job EXCEPT ![t].at = at]
Return(t)      == job' = [job EXCEPT ![t] = Free]
-----------------------------------------------------------------------------
(***************************************************************************)
(* SwarmPool                                                               *)
(***************************************************************************)
\* register: a new instance without children, a child of its parent if that is in the pool.
Register(a, p) ==
  /\ pool' = [pool EXCEPT ![a] = "READY"]
  /\ children' = [b \in Agent |-> CASE b = a -> {}
                                    [] b = p /\ pool[p] # "absent" -> children[b] \cup {a}
                                    [] OTHER -> children[b]]
  /\ LET known == p = parent'[a] /\ (p = None \/ pool[p] # "absent")
     IN stray' = (stray \ {a}) \cup {b \in Agent : parent'[b] = a} \cup (IF known THEN {} ELSE {a})

\* transition_state asks for no state, and does nothing for an agent that is not there.
Transition(a, s) == pool' = [pool EXCEPT ![a] = IF @ = "absent" THEN @ ELSE s]

\* Mutant of Below: the cascade reaches the children only.
BelowOne(S) == S \cup UNION {children[b] : b \in S}

\* The agents S and the subagents below them.
Below(S) ==
  {a \in Agent : \A B \in SUBSET Agent :
     S \subseteq B /\ (\A b \in B : children[b] \subseteq B) => a \in B}

\* What a cascade is meant to reach, whatever the pool has noted of children.
Lineage(S) ==
  {a \in Agent : \A B \in SUBSET Agent :
     S \subseteq B /\ (\A b \in Agent \ stray : parent[b] \in B => b \in B) => a \in B}

\* The agents S are terminated, each with the subagents below it if it cascades.
TerminateAll(S, cascade) ==
  LET hit == {a \in IF cascade THEN Below(S) ELSE S : pool[a] # "absent"} IN
  pool' = [a \in Agent |-> IF a \in hit THEN "TERMINATED" ELSE pool[a]]

\* S is killed by thread t: what others have in hand is excused.
Kill(t, S) ==
  /\ killed' = killed \cup S
  /\ taken' = taken \cup {a \in S : Busy(a) \ {t} # {}}
  /\ UNCHANGED <<spent, apart, stray>>

\* A pause or a resumption of a, by its name.
Named(a) == taken' = taken \cup ({a} \cap killed) /\ UNCHANGED <<spent, killed, apart, stray>>

\* Assumed of the callers: nobody is made its own ancestor (terminate_agent would not end).
Parent(a, p) ==
  /\ \E B \in SUBSET Agent : p \in B \cup {None} /\ a \notin B /\ \A b \in B : parent[b] \in B \cup {None}
  /\ parent' = [parent EXCEPT ![a] = p]
-----------------------------------------------------------------------------
(***************************************************************************)
(* AgentLifecycleManager                                                   *)
(***************************************************************************)
\* spawn_agent: the agent is live before it is in the pool.  It replaces an agent
\* of the same id, be that alive or dead.
Spawn(t, a, p) ==
  /\ Called(t) /\ holder = None
  /\ live' = [live EXCEPT ![a] = "READY"]
  /\ Parent(a, p)
  /\ job' = [job EXCEPT ![t] = [Free EXCEPT !.at = "register", !.agent = a, !.parent = p]]
  /\ stray' = stray \cup {a} /\ killed' = killed \ {a} /\ taken' = taken \ {a}
  /\ UNCHANGED <<pool, children, holder, tokens, spent, apart>>

\* Its tokens are counted from nought, and delegations at work go on with the old instance.
SpawnRegister(t) ==
  /\ job[t].at = "register" /\ UNCHANGED parent
  /\ LET a == job[t].agent IN
     /\ Register(a, job[t].parent)
     /\ stale' = stale \cup {u \in Busy(a) : job[u].at \in {"take", "work", "tokens"}}
     /\ used' = [used EXCEPT ![a] = 0] /\ spent' = [spent EXCEPT ![a] = 0]
     /\ apart' = apart \ {a}
  /\ Return(t)
  /\ UNCHANGED <<live, holder, calls, killed, taken>>

\* pause_agent
Pause(t, a) ==
  /\ Called(t) /\ live[a] # "gone" /\ holder = None
  /\ live' = [live EXCEPT ![a] = "PAUSED"]
  /\ With(t, "suspend", a)
  /\ Named(a)
  /\ UNCHANGED <<pool, parent, children, holder, tokens>>

PauseSuspend(t) ==
  /\ job[t].at = "suspend"
  /\ Transition(job[t].agent, "SUSPENDED")
  /\ Return(t)
  /\ UNCHANGED <<live, parent, children, holder, tokens, calls, hist>>

\* resume_agent asks for no state, and keeps the lock while the agent runs.
Resume(t, a) ==
  /\ Called(t) /\ live[a] # "gone" /\ holder = None
  /\ live' = [live EXCEPT ![a] = "RUNNING"]
  /\ Transition(a, "ACTIVE")
  /\ holder' = t
  /\ With(t, "resume", a)
  /\ Named(a)
  /\ UNCHANGED <<parent, children, tokens>>

\* Mutant of ResumeReturns: an agent that raises leaves the lock taken.
ResumeRaises(t) ==
  /\ job[t].at = "resume"
  /\ UNCHANGED live
  /\ Return(t)
  /\ UNCHANGED <<pool, parent, children, holder, tokens, calls, hist>>

\* An agent that raises stays RUNNING.
ResumeReturns(t) ==
  /\ job[t].at = "resume"
  /\ live' = [live EXCEPT ![job[t].agent] = "READY"] \/ UNCHANGED live
  /\ holder' = None
  /\ Return(t)
  /\ UNCHANGED <<pool, parent, children, tokens, calls, hist>>

\* terminate_agent: the live children it cascades to leave both registers
\* before the lock is released, the agent itself the pool after it.
LiveBelow(a) ==
  {b \in Agent : live[b] # "gone" /\ \A B \in SUBSET Agent :
     a \in B /\ (\A c \in Agent : live[c] # "gone" /\ parent[c] \in B => c \in B) => b \in B}

Terminate(t, a, cascade) ==
  /\ Called(t) /\ live[a] # "gone" /\ holder = None
  /\ LET S == IF cascade THEN LiveBelow(a) ELSE {a} IN
     /\ live' = [b \in Agent |-> IF b \in S THEN "gone" ELSE live[b]]
     /\ TerminateAll(S \ {a}, TRUE)
     /\ Kill(t, IF cascade THEN {a} \cup {b \in Lineage(S \ {a}) : pool[b] # "absent" \/ b \in S} ELSE {a})
  /\ job' = [job EXCEPT ![t] = [Free EXCEPT !.at = "terminate", !.agent = a, !.cascade = cascade]]
  /\ UNCHANGED <<parent, children, holder, tokens>>

TerminateInPool(t) ==
  /\ job[t].at = "terminate"
  /\ LET a == job[t].agent IN
     /\ TerminateAll({a}, job[t].cascade)
     /\ Kill(t, IF job[t].cascade /\ pool[a] # "absent" THEN {b \in Lineage({a}) : pool[b] # "absent"} ELSE {a})
  /\ Return(t)
  /\ UNCHANGED <<live, parent, children, holder, tokens, calls>>
-----------------------------------------------------------------------------
(***************************************************************************)
(* DelegationManager                                                       *)
(***************************************************************************)
Candidate(a) == pool[a] = "READY"

\* delegate_subtask takes an agent it discovers or spawns.
Discover(t, a) ==
  /\ Called(t) /\ Candidate(a)
  /\ With(t, "take", a)
  /\ UNCHANGED <<registers, holder, tokens, hist>>

SpawnSubagent(t, a, p) ==
  /\ Called(t) /\ Fresh(a)
  /\ Parent(a, p) /\ Register(a, p)
  /\ With(t, "take", a)
  /\ UNCHANGED <<live, holder, tokens, spent, killed, taken, apart>>

Working(a) == {t \in Busy(a) \ stale : job[t].at \in {"work", "tokens"}}

Take(t) ==
  /\ job[t].at = "take"
  /\ Transition(job[t].agent, "ACTIVE")
  /\ Goto(t, "work")
  /\ apart' = IF t \notin stale /\ Working(job[t].agent) # {} THEN apart \cup {job[t].agent} ELSE apart
  /\ UNCHANGED <<live, parent, children, holder, tokens, calls, spent, killed, taken, stray>>

\* The executor reports its tokens, or raises, when whatever it has used counts
\* for none.  record_usage adds to what it has read, and is in no lock.
ReadTokens(t) ==
  /\ job[t].at = "work"
  /\ \E n \in {0, 1} :
       job' = [job EXCEPT ![t].at = "tokens", ![t].old = used[job[t].agent], ![t].cost = n]
  /\ UNCHANGED <<registers, holder, tokens, calls, hist>>

\* The instance in the pool gets n tokens if it is the one that t works with.
Record(t, n) ==
  /\ used' = IF t \in stale THEN used ELSE [used EXCEPT ![job[t].agent] = job[t].old + n]
  /\ spent' = IF t \in stale THEN spent ELSE [spent EXCEPT ![job[t].agent] = @ + job[t].cost]

\* Mutant of AddTokens: what a failed subtask reports is not counted.
AddTokensDone(t) ==
  /\ job[t].at = "tokens"
  /\ \E n \in {0, job[t].cost} : Record(t, n)
  /\ Goto(t, "release")
  /\ UNCHANGED <<registers, holder, stale, calls, killed, taken, apart, stray>>

AddTokens(t) ==
  /\ job[t].at = "tokens"
  /\ Record(t, job[t].cost)
  /\ Goto(t, "release")
  /\ UNCHANGED <<registers, holder, stale, calls, killed, taken, apart, stray>>

\* Whatever it is by now, the agent is READY again.
Release(t) ==
  /\ job[t].at = "release"
  /\ Transition(job[t].agent, "READY")
  /\ Return(t)
  /\ stale' = stale \ {t}
  /\ UNCHANGED <<live, parent, children, holder, used, calls, hist>>

\* handoff_to_agent
Handoff(t, a) ==
  /\ Called(t) /\ pool[a] \in {"READY", "ACTIVE"}
  /\ With(t, "accept", a)
  /\ UNCHANGED <<registers, holder, tokens, hist>>

Accept(t) ==
  /\ job[t].at = "accept"
  /\ Transition(job[t].agent, "ACTIVE")
  /\ Return(t)
  /\ UNCHANGED <<live, parent, children, holder, tokens, calls, hist>>
-----------------------------------------------------------------------------
(***************************************************************************)
(* SupervisorWatchdog.intervene, and the tool terminate_subagent           *)
(***************************************************************************)
Suspend(t, a) ==
  /\ Called(t) /\ pool[a] # "absent"
  /\ Transition(a, "SUSPENDED")
  /\ Named(a)
  /\ UNCHANGED <<live, parent, children, holder, job, tokens>>

Intervene(t, a) ==
  /\ Called(t) /\ pool[a] # "absent"
  /\ TerminateAll({a}, TRUE)
  /\ Kill(t, {b \in Lineage({a}) : pool[b] # "absent"})
  /\ UNCHANGED <<live, parent, children, holder, job, tokens>>

Proceed(t) ==
  \/ SpawnRegister(t) \/ PauseSuspend(t) \/ ResumeReturns(t) \/ TerminateInPool(t)
  \/ Take(t) \/ ReadTokens(t) \/ AddTokens(t) \/ Release(t) \/ Accept(t)

Next == \E t \in Thread :
  \/ Proceed(t)
  \/ \E a \in Agent :
       \/ Pause(t, a) \/ Resume(t, a) \/ (\E c \in BOOLEAN : Terminate(t, a, c))
       \/ Discover(t, a) \/ Handoff(t, a) \/ Suspend(t, a) \/ Intervene(t, a)
       \/ \E p \in Agent \cup {None} : Spawn(t, a, p) \/ SpawnSubagent(t, a, p)

Spec == Init /\ [][Next]_vars
-----------------------------------------------------------------------------
\* The state has its shape: only a resumption keeps the manager's lock.
TypeOK ==
  /\ live \in [Agent -> LiveState] /\ pool \in [Agent -> PoolState]
  /\ parent \in [Agent -> Agent \cup {None}] /\ children \in [Agent -> SUBSET Agent]
  /\ job \in [Thread -> [at : Step, agent : Agent \cup {None}, parent : Agent \cup {None},
                          cascade : BOOLEAN, old : Nat, cost : {0, 1}]]
  /\ \A t \in Thread : (job[t].at = "idle") = (job[t].agent = None)
  /\ holder \in Thread \cup {None} /\ \A t \in Thread : holder = t <=> job[t].at = "resume"
  /\ used \in [Agent -> Nat] /\ spent \in [Agent -> Nat] /\ calls \in 0..MaxCalls
  /\ killed \subseteq Agent /\ taken \subseteq Agent /\ apart \subseteq Agent
  /\ stray \subseteq Agent /\ stale \subseteq Thread

\* A termination reaches its agent and every subagent below it in both
\* registers, and they stay terminated: only a call that had an agent in hand at
\* that moment, or one that pauses, resumes or spawns it by name, brings it back.
\* Below means: but for children that came into the pool before their parent did,
\* or before their parent's id was spawned anew.
KilledStaysDead ==
  \A a \in killed \ taken : Busy(a) = {} => pool[a] = "TERMINATED"

\* Every token that a delegation has reported is counted for the agent that is in
\* the pool, unless two of them worked with it at once.
TokensCounted == \A a \in Agent \ apart : used[a] = spent[a]
=============================================================================

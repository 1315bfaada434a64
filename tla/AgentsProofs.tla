---------------------------- MODULE AgentsProofs ----------------------------
(***************************************************************************)
(* The agents and their messages, for any set of them and any number of    *)
(* calls.  First, terminations reach everybody they should and tokens are  *)
(* counted (Swarm); then, messages are neither lost nor found twice, in    *)
(* the bus and in what a resumed session loads of it (Messaging).          *)
(***************************************************************************)
EXTENDS Swarm, Messaging, FiniteSetTheorems, TLAPS

Job == [at : Step, agent : Agent \cup {None}, parent : Agent \cup {None},
        cascade : BOOLEAN, old : Nat, cost : {0, 1}]

\* The threads: who waits for nothing has no agent, who resumes one has the lock.
JobsOK ==
  /\ job \in [Thread -> Job] /\ \A t \in Thread : (job[t].at = "idle") = (job[t].agent = None)
  /\ holder \in Thread \cup {None} /\ \A t \in Thread : holder = t <=> job[t].at = "resume"

InPool(a) == pool[a] # "absent"

\* An agent is in the pool, or about to be registered there.
Present(a) == InPool(a) \/ \E t \in Thread : job[t].at = "register" /\ job[t].agent = a

\* Unless it is astray, the pool knows the parent of an agent, and the agent as its child.
FamilyInv ==
  \A a \in Agent \ stray :
    InPool(a) /\ parent[a] # None => InPool(parent[a]) /\ a \in children[parent[a]]

\* Only agents that are present are live, in somebody's hands, or killed.
PresentInv ==
  \A a \in Agent : live[a] # "gone" \/ a \in killed \/ Busy(a) # {} => Present(a)

\* Nobody will touch a killed agent again, but the thread that is still at it.
KillInv ==
  \A a \in killed \ taken :
    \/ \E t \in Thread : job[t].at = "terminate" /\ job[t].agent = a
    \/ pool[a] = "TERMINATED" /\ Busy(a) = {}

\* One thread at a time works with the agent in the pool, and knows its tokens.
TokenInv ==
  \A a \in Agent \ apart :
    /\ used[a] = spent[a]
    /\ \A t, u \in Working(a) : t = u
    /\ \A t \in Working(a) : job[t].at = "tokens" => job[t].old = used[a]

Inv == TypeOK /\ FamilyInv /\ PresentInv /\ KillInv /\ TokenInv
-----------------------------------------------------------------------------
LEMMA FreeJob == Free \in Job /\ Free.agent = None /\ None \notin Agent /\ None \notin Thread
BY SwarmAssumption DEF Free, Job, Step, None

LEMMA InitInv == Init => Inv
<1> SUFFICES ASSUME Init PROVE Inv
  OBVIOUS
<1>1. TypeOK
  BY FreeJob, SwarmAssumption DEF Init, TypeOK, LiveState, PoolState, Job, Free
<1>2. FamilyInv
  BY DEF Init, FamilyInv
<1>3. \A a \in Agent : Busy(a) = {}
  BY FreeJob DEF Init, Busy
<1>4. PresentInv /\ KillInv /\ TokenInv
  BY <1>3 DEF Init, PresentInv, KillInv, TokenInv, Working
<1> QED BY <1>1, <1>2, <1>4 DEF Inv

\* Thread t is now at some step with agent a, or idle with none; the others go on as they were.
Moves(t, at, a) ==
  /\ job' \in [Thread -> Job] /\ job'[t].at = at /\ job'[t].agent = a
  /\ \A u \in Thread \ {t} : job'[u] = job[u]

LEMMA JobMoves ==
  ASSUME TypeOK, NEW t \in Thread
  PROVE  /\ \A at \in Step, a \in Agent : With(t, at, a) => Moves(t, at, a)
         /\ \A at \in Step : Goto(t, at) => Moves(t, at, job[t].agent)
         /\ Return(t) => Moves(t, "idle", None)
<1>1. job \in [Thread -> Job]
  BY DEF TypeOK, Job
<1>2. ASSUME NEW at \in Step, NEW a \in Agent, With(t, at, a) PROVE Moves(t, at, a)
  <2> DEFINE j == [Free EXCEPT !.at = at, !.agent = a]
  <2>1. j \in Job /\ j.at = at /\ j.agent = a
    BY DEF Free, Job
  <2>2. job' = [job EXCEPT ![t] = j]
    BY <1>2 DEF With
  <2> HIDE DEF j
  <2> QED BY <1>1, <2>1, <2>2 DEF Moves
<1>3. ASSUME NEW at \in Step, Goto(t, at) PROVE Moves(t, at, job[t].agent)
  <2> DEFINE j == [job[t] EXCEPT !.at = at]
  <2>1. j \in Job /\ j.at = at /\ j.agent = job[t].agent
    BY <1>1 DEF Job
  <2>2. job' = [job EXCEPT ![t] = j]
    BY <1>1, <1>3 DEF Goto
  <2> HIDE DEF j
  <2> QED BY <1>1, <2>1, <2>2 DEF Moves
<1>4. ASSUME Return(t) PROVE Moves(t, "idle", None)
  BY <1>1, <1>4, FreeJob DEF Return, Moves, Free
<1> QED BY <1>2, <1>3, <1>4

LEMMA Transitions ==
  ASSUME TypeOK, NEW a \in Agent, NEW s \in PoolState \ {"absent"}, Transition(a, s)
  PROVE  /\ pool' \in [Agent -> PoolState]
         /\ \A b \in Agent : /\ InPool(b)' <=> InPool(b)
                             /\ b # a => pool'[b] = pool[b]
<1>1. pool' = [pool EXCEPT ![a] = IF pool[a] = "absent" THEN pool[a] ELSE s]
  BY DEF Transition
<1> QED BY <1>1 DEF TypeOK, InPool

\* The pool takes the agent up as a child of its parent.
LEMMA Registered ==
  ASSUME TypeOK, NEW a \in Agent, NEW p, Register(a, p)
  PROVE  /\ pool' \in [Agent -> PoolState] /\ children' \in [Agent -> SUBSET Agent]
         /\ \A b \in Agent : /\ InPool(b)' <=> (InPool(b) \/ b = a)
                             /\ b # a => pool'[b] = pool[b]
                             /\ b # a => children[b] \subseteq children'[b]
         /\ p \in Agent \ {a} /\ InPool(p) => a \in children'[p]
BY DEF TypeOK, Register, InPool, PoolState

\* The family stands, but for those that go astray.
LEMMA RegisterKeepsFamily ==
  ASSUME Inv, NEW a \in Agent, NEW p \in Agent \cup {None}, Register(a, p),
         parent' \in [Agent -> Agent \cup {None}], \A b \in Agent \ {a} : parent'[b] = parent[b]
  PROVE  FamilyInv' /\ stray' \subseteq Agent
<1>1. /\ \A b \in Agent : /\ InPool(b)' <=> (InPool(b) \/ b = a)
                          /\ b # a => children[b] \subseteq children'[b]
      /\ p \in Agent \ {a} /\ InPool(p) => a \in children'[p]
  BY Registered DEF Inv
<1>2. /\ stray \ {a} \subseteq stray' /\ stray' \subseteq Agent
      /\ \A b \in Agent : parent'[b] = a => b \in stray'
      /\ a \in stray' \/ (p = parent'[a] /\ (p = None \/ InPool(p)))
  BY DEF Register, InPool, Inv, TypeOK
<1>3. ASSUME NEW b \in Agent \ stray', InPool(b)', parent'[b] # None
      PROVE  pool'[parent'[b]] # "absent" /\ b \in children'[parent'[b]]
  <2>1. parent'[b] \in Agent \ {a}
    BY <1>2, <1>3
  <2>2. CASE b = a
    <3>1. p = parent'[a] /\ InPool(p)
      BY <1>2, <1>3, <2>2
    <3> QED BY <1>1, <2>1, <2>2, <3>1 DEF InPool
  <2>3. CASE b # a
    <3>1. parent'[b] = parent[b] /\ InPool(b) /\ b \notin stray
      BY <1>1, <1>2, <1>3, <2>3
    <3>2. InPool(parent[b]) /\ b \in children[parent[b]]
      BY <1>3, <3>1 DEF Inv, FamilyInv
    <3> QED BY <1>1, <2>1, <3>1, <3>2 DEF InPool
  <2> QED BY <2>2, <2>3
<1> QED BY <1>2, <1>3 DEF FamilyInv, InPool
-----------------------------------------------------------------------------
\* A step of t that registers nobody.
LEMMA FamilyKeeps ==
  ASSUME Inv, TypeOK', NEW t \in Thread, NEW at, NEW who, Moves(t, at, who),
         UNCHANGED <<parent, children, stray>>, \A a \in Agent : InPool(a)' <=> InPool(a),
         job[t].at # "register", at # "register",
         who \in Agent => Present(who),
         \A a \in Agent : live'[a] # "gone" => live[a] # "gone",
         \A a \in killed' : a \in killed \/ Present(a)
  PROVE  FamilyInv' /\ PresentInv'
<1>2. \A u \in Thread : job[u].at = "register" => job'[u] = job[u]
  BY DEF Moves
<1>4. FamilyInv'
  BY DEF Inv, FamilyInv, TypeOK
<1>6. \A a \in Agent : Present(a) => Present(a)'
  BY <1>2 DEF Present
<1>7. PresentInv'
  <2> SUFFICES ASSUME NEW a \in Agent, live'[a] # "gone" \/ a \in killed' \/ Busy(a)' # {}
               PROVE  Present(a)
    BY <1>6 DEF PresentInv
  <2>1. CASE live'[a] # "gone" \/ a \in killed'
    BY <2>1 DEF Inv, PresentInv
  <2>2. CASE Busy(a)' # {}
    <3>1. PICK u \in Thread : job'[u].agent = a
      BY <2>2 DEF Busy
    <3>2. CASE u = t
      BY <3>1, <3>2 DEF Moves
    <3>3. CASE u # t
      BY <3>1, <3>3 DEF Moves, Busy, Inv, PresentInv
    <3> QED BY <3>2, <3>3
  <2> QED BY <2>1, <2>2
<1> QED BY <1>4, <1>7

\* A step that kills nobody.
LEMMA KilledKeep ==
  ASSUME Inv, NEW t \in Thread, NEW at, NEW who, Moves(t, at, who), job[t].at # "terminate",
         killed' \ taken' \subseteq killed \ taken,
         \A a \in killed' \ taken' :
           pool[a] = "TERMINATED" /\ Busy(a) = {} => pool'[a] = "TERMINATED" /\ who # a
  PROVE  KillInv'
<1> SUFFICES ASSUME NEW a \in killed' \ taken'
             PROVE  \/ \E u \in Thread : job'[u].at = "terminate" /\ job'[u].agent = a
                    \/ pool'[a] = "TERMINATED" /\ Busy(a)' = {}
  BY DEF KillInv
<1>1. CASE \E u \in Thread : job[u].at = "terminate" /\ job[u].agent = a
  BY <1>1 DEF Moves
<1>2. CASE pool[a] = "TERMINATED" /\ Busy(a) = {}
  BY <1>2 DEF Moves, Busy
<1> QED BY <1>1, <1>2 DEF Inv, KillInv

\* A step that kills S.
LEMMA KillsS ==
  ASSUME Inv, NEW t \in Thread, NEW at, NEW who, Moves(t, at, who), NEW S, Kill(t, S),
         job[t].at = "terminate" => job[t].agent \in S,
         who = None \/ (who \in S /\ at = "terminate"),
         S \subseteq Agent,
         \A a \in S \ taken' : pool'[a] = "TERMINATED" \/ who = a,
         \A a \in Agent : pool[a] = "TERMINATED" => pool'[a] = "TERMINATED"
  PROVE  KillInv'
<1>1. killed' = killed \cup S /\ taken' = taken \cup {a \in S : Busy(a) \ {t} # {}}
  BY DEF Kill
<1> SUFFICES ASSUME NEW a \in killed', a \notin taken'
             PROVE  \/ \E u \in Thread : job'[u].at = "terminate" /\ job'[u].agent = a
                    \/ pool'[a] = "TERMINATED" /\ Busy(a)' = {}
  BY DEF KillInv
<1>2. a \in Agent
  BY <1>1 DEF Inv, TypeOK
<1>3. CASE a \in S
  <2>1. CASE who = a
    BY <1>2, <2>1, FreeJob DEF Moves
  <2>2. CASE who # a
    <3>1. \A u \in Thread \ {t} : job[u].agent # a
      BY <1>1, <1>3 DEF Busy
    <3>2. Busy(a)' = {}
      BY <2>2, <3>1 DEF Busy, Moves
    <3> QED BY <1>3, <2>2, <3>2
  <2> QED BY <2>1, <2>2
<1>4. CASE a \notin S
  <2>1. a \in killed \ taken /\ who # a
    BY <1>1, <1>2, <1>4, FreeJob
  <2>2. CASE \E u \in Thread : job[u].at = "terminate" /\ job[u].agent = a
    BY <1>4, <2>2 DEF Moves
  <2>3. CASE pool[a] = "TERMINATED" /\ Busy(a) = {}
    BY <1>2, <2>1, <2>3 DEF Moves, Busy
  <2> QED BY <2>1, <2>2, <2>3 DEF Inv, KillInv
<1> QED BY <1>3, <1>4

\* A step that has nothing to do with tokens.
LEMMA TokensKeep ==
  ASSUME Inv, NEW t \in Thread, NEW at, NEW who, Moves(t, at, who), UNCHANGED <<used, spent, apart>>,
         at \notin {"work", "tokens"}, stale \ {t} \subseteq stale'
  PROVE  TokenInv'
<1>1. \A a \in Agent : Working(a)' \subseteq Working(a) \ {t}
  BY DEF Working, Busy, Moves
<1>2. \A u \in Thread \ {t} : job'[u] = job[u]
  BY DEF Moves
<1>3. \A a \in Agent : Working(a) \subseteq Thread
  BY DEF Working, Busy
<1> QED BY <1>1, <1>2, <1>3 DEF Inv, TokenInv

\* A cascade reaches what it is meant to, as far as it is in the pool.
LEMMA Reached ==
  ASSUME Inv, NEW S \in SUBSET Agent, NEW a \in Lineage(S), InPool(a)
  PROVE  a \in Below(S)
<1> SUFFICES ASSUME NEW B \in SUBSET Agent, S \subseteq B, \A b \in B : children[b] \subseteq B
             PROVE  a \in B
  BY DEF Lineage, Below
<1> DEFINE C == B \cup {b \in Agent : ~InPool(b)}
<1>1. \A b \in Agent \ stray : parent[b] \in C => b \in C
  <2> SUFFICES ASSUME NEW b \in Agent \ stray, parent[b] \in C, InPool(b) PROVE b \in B
    OBVIOUS
  <2>1. parent[b] # None
    BY FreeJob
  <2>2. InPool(parent[b]) /\ b \in children[parent[b]]
    BY <2>1 DEF Inv, FamilyInv
  <2> QED BY <2>2
<1>2. C \in SUBSET Agent /\ S \subseteq C
  OBVIOUS
<1>3. a \in C
  BY <1>1, <1>2 DEF Lineage
<1> QED BY <1>3
-----------------------------------------------------------------------------
\* A thread and the manager's lock.
LEMMA Turns ==
  ASSUME TypeOK, NEW t \in Thread, NEW at \in Step, NEW who, Moves(t, at, who), at = "idle" <=> who = None,
         \/ holder' = holder /\ (at = "resume" <=> job[t].at = "resume")
         \/ holder = None /\ holder' = t /\ at = "resume"
         \/ holder = t /\ holder' = None /\ at # "resume"
  PROVE  JobsOK'
<1>1. \A u \in Thread : (job'[u].at = "idle") = (job'[u].agent = None)
  BY DEF TypeOK, Moves
<1>2. holder' \in Thread \cup {None}
  BY DEF TypeOK
<1>3. \A u \in Thread : holder = u <=> job[u].at = "resume"
  BY DEF TypeOK
<1>4. \A u \in Thread : holder' = u <=> job'[u].at = "resume"
  BY <1>3, FreeJob DEF Moves
<1> QED BY <1>1, <1>2, <1>4 DEF JobsOK, Moves

\* A call begins, or goes on, with an agent that is there, and leaves the registers alone.
LEMMA ChooseSteps ==
  ASSUME Inv, NEW t \in Thread, NEW a \in Agent, Discover(t, a) \/ Handoff(t, a)
  PROVE  Inv'
<1>1. PICK at \in {"take", "accept"} : With(t, at, a)
  BY DEF Discover, Handoff
<1>2. Moves(t, at, a) /\ TypeOK
  BY <1>1, JobMoves DEF Inv, Step
<1>3. /\ job[t].at = "idle" /\ pool[a] \in {"READY", "ACTIVE"} /\ calls' \in 0 .. MaxCalls
      /\ UNCHANGED <<registers, holder, tokens, hist>>
  BY SwarmAssumption DEF Discover, Handoff, Called, Candidate, Free, Inv, TypeOK
<1>4. UNCHANGED <<live, pool, parent, children, holder, used, stale, spent, killed, taken, apart, stray>>
  BY <1>3 DEF registers, tokens, hist
<1>5. TypeOK'
  <2>1. JobsOK'
    BY <1>2, <1>3, <1>4, FreeJob, Turns DEF Step
  <2> QED BY <1>2, <1>3, <1>4, <2>1 DEF TypeOK, JobsOK, Job
<1>6. FamilyInv' /\ PresentInv'
  BY <1>2, <1>3, <1>4, <1>5, FamilyKeeps DEF InPool, Present
<1>7. KillInv'
  BY <1>2, <1>3, <1>4, KilledKeep
<1>8. TokenInv'
  BY <1>2, <1>4, TokensKeep
<1> QED BY <1>5, <1>6, <1>7, <1>8 DEF Inv

\* The pool takes note of what an agent is now, and the call returns.
LEMMA NoteSteps ==
  ASSUME Inv, NEW t \in Thread, PauseSuspend(t) \/ Release(t) \/ Accept(t)
  PROVE  Inv'
<1> DEFINE a == job[t].agent
<1>1. PICK s \in {"SUSPENDED", "READY", "ACTIVE"} : Transition(a, s)
  BY DEF PauseSuspend, Release, Accept
<1>2. /\ job[t].at \in {"suspend", "release", "accept"} /\ Return(t)
      /\ UNCHANGED <<live, parent, children, holder, used, calls, hist>>
      /\ stale \ {t} \subseteq stale' /\ stale' \subseteq stale
  BY DEF PauseSuspend, Release, Accept, tokens
<1>3. UNCHANGED <<live, parent, children, holder, used, calls, spent, killed, taken, apart, stray>>
  BY <1>2 DEF hist
<1>4. Moves(t, "idle", None) /\ TypeOK /\ a \in Agent
  BY <1>2, JobMoves DEF Inv, TypeOK
<1>5. /\ pool' \in [Agent -> PoolState]
      /\ \A b \in Agent : (InPool(b)' <=> InPool(b)) /\ (b # a => pool'[b] = pool[b])
  BY <1>1, <1>4, Transitions DEF PoolState
<1>6. TypeOK'
  <2>1. JobsOK'
    BY <1>2, <1>3, <1>4, <1>5, FreeJob, Turns DEF Step
  <2> QED BY <1>2, <1>3, <1>4, <1>5, <2>1 DEF TypeOK, JobsOK, Job
<1>7. FamilyInv' /\ PresentInv'
  BY <1>2, <1>3, <1>4, <1>5, <1>6, FreeJob, FamilyKeeps
<1>8. \A b \in killed \ taken : None # b /\ (Busy(b) = {} => pool'[b] = pool[b])
  BY <1>4, <1>5, FreeJob DEF Busy, TypeOK
<1>9. KillInv'
  <2>1. job[t].at # "terminate"
    BY <1>2
  <2> HIDE DEF a
  <2> QED BY <1>3, <1>4, <1>8, <2>1, KilledKeep
<1>10. TokenInv'
  BY <1>2, <1>3, <1>4, TokensKeep
<1> QED BY <1>6, <1>7, <1>9, <1>10 DEF Inv

\* A pause or a resumption begins; who asks for a killed agent by name has it back.
LEMMA NamedSteps ==
  ASSUME Inv, NEW t \in Thread, NEW a \in Agent, Pause(t, a) \/ Resume(t, a)
  PROVE  Inv'
<1>1. /\ job[t].at = "idle" /\ live[a] # "gone" /\ calls' \in 0 .. MaxCalls /\ holder = None
      /\ taken' = taken \cup ({a} \cap killed)
      /\ UNCHANGED <<parent, children, used, stale, spent, killed, apart, stray>>
      /\ live' \in [Agent -> LiveState] /\ \A b \in Agent : live'[b] # "gone" => live[b] # "gone"
  BY SwarmAssumption DEF Pause, Resume, Called, Named, Free, Inv, TypeOK, LiveState, tokens
<1>2. /\ pool' \in [Agent -> PoolState]
      /\ \A b \in Agent : (InPool(b)' <=> InPool(b)) /\ (b # a => pool'[b] = pool[b])
  <2>1. TypeOK /\ "ACTIVE" \in PoolState \ {"absent"}
    BY DEF Inv, PoolState
  <2>2. CASE Pause(t, a)
    BY <2>1, <2>2 DEF Pause, TypeOK, InPool
  <2>3. CASE Resume(t, a)
    BY <2>1, <2>3, Transitions DEF Resume
  <2> QED BY <2>2, <2>3
<1>3. PICK at \in {"suspend", "resume"} :
        /\ With(t, at, a)
        /\ at = "suspend" => holder' = holder
        /\ at = "resume" => holder' = t
  BY DEF Pause, Resume
<1>4. Moves(t, at, a) /\ TypeOK
  BY <1>3, JobMoves DEF Inv, Step
<1>5. TypeOK'
  <2>1. JobsOK'
    BY <1>1, <1>2, <1>3, <1>4, FreeJob, Turns DEF Step
  <2> QED BY <1>1, <1>2, <1>3, <1>4, <2>1 DEF TypeOK, JobsOK, Job
<1>6. Present(a)
  BY <1>1 DEF Inv, PresentInv
<1>7. FamilyInv' /\ PresentInv'
  BY <1>1, <1>2, <1>4, <1>5, <1>6, FamilyKeeps
<1>8. killed \subseteq Agent
  BY <1>4 DEF TypeOK
<1>9. KillInv'
  BY <1>1, <1>2, <1>4, <1>8, KilledKeep
<1>10. TokenInv'
  BY <1>1, <1>4, TokensKeep
<1> QED BY <1>5, <1>7, <1>9, <1>10 DEF Inv

LEMMA ResumeReturnsStep == ASSUME Inv, NEW t \in Thread, ResumeReturns(t) PROVE Inv'
<1>1. /\ job[t].at = "resume" /\ holder' = None
      /\ UNCHANGED <<pool, parent, children, used, stale, calls, spent, killed, taken, apart, stray>>
      /\ Moves(t, "idle", None) /\ TypeOK /\ holder = t
  BY JobMoves DEF ResumeReturns, tokens, hist, Inv, TypeOK
<1>2. Present(job[t].agent) /\ job[t].agent \in Agent
  BY <1>1 DEF Inv, PresentInv, Busy, TypeOK
<1>3. live' \in [Agent -> LiveState] /\ \A b \in Agent : live'[b] # "gone" => live[b] # "gone" \/ b = job[t].agent
  BY <1>1 DEF ResumeReturns, TypeOK, LiveState
<1>4. TypeOK'
  <2>1. JobsOK'
    BY <1>1, <1>3, FreeJob, Turns DEF Step
  <2> QED BY <1>1, <1>3, <2>1 DEF TypeOK, JobsOK, Job
<1>5. FamilyInv' /\ KillInv'
  <2>1. FamilyInv'
    BY <1>1 DEF Inv, FamilyInv, InPool
  <2>2. KillInv'
    BY <1>1, FreeJob, KilledKeep DEF TypeOK
  <2> QED BY <2>1, <2>2
<1>6. PresentInv'
  <2>1. \A b \in Agent : Present(b) => Present(b)'
    BY <1>1 DEF Present, InPool, Moves
  <2>2. \A b \in Agent : Busy(b)' \subseteq Busy(b)
    BY <1>1, FreeJob DEF Busy, Moves
  <2> QED BY <1>1, <1>2, <1>3, <2>1, <2>2 DEF Inv, PresentInv
<1>7. TokenInv'
  BY <1>1, TokensKeep
<1> QED BY <1>4, <1>5, <1>6, <1>7 DEF Inv
-----------------------------------------------------------------------------
LEMMA FreshIsNew ==
  ASSUME Inv, NEW a \in Agent, Fresh(a)
  PROVE  /\ ~InPool(a) /\ a \notin killed /\ \A u \in Thread : job[u].agent # a
BY DEF Inv, PresentInv, Present, Fresh, Busy, InPool

LEMMA SpawnStep ==
  ASSUME Inv, NEW t \in Thread, NEW a \in Agent, NEW p \in Agent \cup {None}, Spawn(t, a, p)
  PROVE  Inv'
<1>1. /\ job[t].at = "idle" /\ calls' \in 0 .. MaxCalls
      /\ UNCHANGED <<pool, children, holder, used, stale, spent, apart>>
      /\ live' = [live EXCEPT ![a] = "READY"] /\ parent' = [parent EXCEPT ![a] = p]
      /\ stray' = stray \cup {a} /\ killed' = killed \ {a} /\ taken' = taken \ {a}
  BY SwarmAssumption DEF Spawn, Called, Parent, Free, tokens, Inv, TypeOK
<1>2. Moves(t, "register", a) /\ TypeOK
  <2> DEFINE j == [Free EXCEPT !.at = "register", !.agent = a, !.parent = p]
  <2>1. j \in Job /\ j.at = "register" /\ j.agent = a
    BY DEF Free, Job, Step
  <2>2. job' = [job EXCEPT ![t] = j] /\ TypeOK
    BY DEF Spawn, Inv
  <2> HIDE DEF j
  <2> QED BY <2>1, <2>2 DEF Moves, TypeOK, Job
<1>4. /\ live' \in [Agent -> LiveState] /\ parent' \in [Agent -> Agent \cup {None}]
      /\ \A b \in Agent \ {a} : live'[b] = live[b] /\ parent'[b] = parent[b]
  BY <1>1, <1>2 DEF TypeOK, LiveState
<1>5. TypeOK'
  <2>1. JobsOK'
    BY <1>1, <1>2, <1>4, FreeJob, Turns DEF Step
  <2> QED BY <1>1, <1>2, <1>4, <2>1 DEF TypeOK, JobsOK, Job
<1>6. FamilyInv'
  BY <1>1, <1>4 DEF Inv, FamilyInv, InPool
<1>8. PresentInv'
  <2>1. \A b \in Agent : Present(b) \/ b = a => Present(b)'
    BY <1>1, <1>2 DEF Present, InPool, Moves
  <2>2. \A b \in Agent \ {a} : Busy(b)' \subseteq Busy(b)
    BY <1>2 DEF Busy, Moves
  <2> QED BY <1>1, <1>4, <2>1, <2>2 DEF Inv, PresentInv
<1>9. KillInv'
  <2>1. killed' \ taken' \subseteq killed \ taken /\ a \notin killed' \ taken'
    BY <1>1
  <2> QED BY <1>1, <1>2, <2>1, KilledKeep
<1>10. TokenInv'
  BY <1>1, <1>2, TokensKeep
<1> QED BY <1>5, <1>6, <1>8, <1>9, <1>10 DEF Inv

LEMMA SpawnRegisterStep == ASSUME Inv, NEW t \in Thread, SpawnRegister(t) PROVE Inv'
<1> DEFINE a == job[t].agent
           p == job[t].parent
<1>1. /\ job[t].at = "register" /\ Register(a, p)
      /\ stale' = stale \cup {u \in Busy(a) : job[u].at \in {"take", "work", "tokens"}}
      /\ used' = [used EXCEPT ![a] = 0] /\ spent' = [spent EXCEPT ![a] = 0] /\ apart' = apart \ {a}
      /\ UNCHANGED <<live, parent, holder, calls, killed, taken>>
  BY DEF SpawnRegister
<1>2. Moves(t, "idle", None) /\ TypeOK /\ a \in Agent /\ p \in Agent \cup {None}
  BY <1>1, JobMoves DEF SpawnRegister, Inv, TypeOK
<1> HIDE DEF p
<1>3. parent' \in [Agent -> Agent \cup {None}] /\ \A b \in Agent \ {a} : parent'[b] = parent[b]
  BY <1>1, <1>2 DEF TypeOK
<1>4. /\ pool' \in [Agent -> PoolState] /\ children' \in [Agent -> SUBSET Agent]
      /\ \A b \in Agent : /\ InPool(b)' <=> (InPool(b) \/ b = a)
                          /\ b # a => pool'[b] = pool[b]
  BY <1>1, <1>2, Registered
<1>5. FamilyInv' /\ stray' \subseteq Agent
  BY <1>1, <1>2, <1>3, RegisterKeepsFamily
<1>6. /\ used' \in [Agent -> Nat] /\ spent' \in [Agent -> Nat] /\ apart' \subseteq Agent
      /\ stale' \subseteq Thread
      /\ used'[a] = 0 /\ spent'[a] = 0
      /\ \A b \in Agent \ {a} : used'[b] = used[b] /\ spent'[b] = spent[b]
  BY <1>1, <1>2 DEF TypeOK, Busy
<1>7. TypeOK'
  <2>1. job[t].at # "resume"
    BY <1>1
  <2> HIDE DEF a
  <2>2. JobsOK'
    BY <1>1, <1>2, <2>1, FreeJob, Turns DEF Step
  <2> QED BY <1>1, <1>2, <1>3, <1>4, <1>5, <1>6, <2>2 DEF TypeOK, JobsOK, Job
<1>9. PresentInv'
  <2>1. \A b \in Agent : Present(b) => Present(b)'
    <3>1. \A b \in Agent : b # a => \A u \in Thread :
            job[u].at = "register" /\ job[u].agent = b => job'[u] = job[u]
      BY <1>2 DEF Moves
    <3> QED BY <1>4, <3>1 DEF Present
  <2>2. \A b \in Agent : Busy(b)' \subseteq Busy(b)
    BY <1>2, FreeJob DEF Busy, Moves
  <2> QED BY <1>1, <2>1, <2>2 DEF Inv, PresentInv
<1>10. KillInv'
  <2>1. \A b \in killed \ taken : b \in Agent /\ None # b /\ (Busy(b) = {} => pool'[b] = pool[b])
    BY <1>2, <1>4, FreeJob DEF Busy, TypeOK
  <2>2. job[t].at # "terminate" /\ killed' = killed /\ taken' = taken
    BY <1>1
  <2> HIDE DEF a
  <2> QED BY <1>2, <2>1, <2>2, KilledKeep
<1>11. TokenInv'
  <2>1. \A u \in Thread \ {t} : job'[u] = job[u]
    BY <1>2 DEF Moves
  <2>2. job'[t].at = "idle"
    BY <1>2 DEF Moves
  <2>3. \A b \in Agent : b = a => Working(b)' = {}
    <3> SUFFICES ASSUME NEW b \in Agent, b = a, NEW u \in Thread, job'[u].agent = b, job'[u].at \in {"work", "tokens"}
                 PROVE  u \in stale'
      BY DEF Working, Busy
    <3>1. u # t
      BY <2>2
    <3> QED BY <1>1, <2>1, <3>1 DEF Busy
  <2>4. \A b \in Agent : \A u \in Working(b)' : u \in Working(b) /\ job'[u] = job[u]
    BY <1>1, <2>1, <2>2 DEF Working, Busy
  <2> SUFFICES ASSUME NEW b \in Agent \ apart'
               PROVE  /\ used'[b] = spent'[b]
                      /\ \A u, v \in Working(b)' : u = v
                      /\ \A u \in Working(b)' : job'[u].at = "tokens" => job'[u].old = used'[b]
    BY DEF TokenInv
  <2>5. CASE b = a
    BY <1>6, <2>3, <2>5
  <2>6. CASE b # a
    <3>1. b \notin apart /\ used'[b] = used[b] /\ spent'[b] = spent[b]
      BY <1>1, <1>6, <2>6
    <3> QED BY <2>4, <3>1 DEF Inv, TokenInv
  <2> QED BY <2>5, <2>6
<1> QED BY <1>5, <1>7, <1>9, <1>10, <1>11 DEF Inv

LEMMA SpawnSubagentStep ==
  ASSUME Inv, NEW t \in Thread, NEW a \in Agent, NEW p \in Agent \cup {None}, SpawnSubagent(t, a, p)
  PROVE  Inv'
<1>1. /\ job[t].at = "idle" /\ calls' \in 0 .. MaxCalls /\ Register(a, p)
      /\ UNCHANGED <<live, holder, used, stale, spent, killed, taken, apart>>
      /\ parent' = [parent EXCEPT ![a] = p]
  BY SwarmAssumption DEF SpawnSubagent, Called, Parent, Free, tokens, Inv, TypeOK
<1>2. Moves(t, "take", a) /\ TypeOK
  BY JobMoves DEF SpawnSubagent, Inv, Step
<1>3. a \notin killed /\ \A u \in Thread : job[u].agent # a
  BY FreshIsNew DEF SpawnSubagent
<1>4. /\ pool' \in [Agent -> PoolState] /\ children' \in [Agent -> SUBSET Agent]
      /\ \A b \in Agent : /\ InPool(b)' <=> (InPool(b) \/ b = a)
                          /\ b # a => pool'[b] = pool[b]
  BY <1>1, <1>2, Registered
<1>5. parent' \in [Agent -> Agent \cup {None}] /\ \A b \in Agent \ {a} : parent'[b] = parent[b]
  BY <1>1, <1>2 DEF TypeOK
<1>6. FamilyInv' /\ stray' \subseteq Agent
  BY <1>1, <1>5, RegisterKeepsFamily
<1>7. TypeOK'
  <2>1. JobsOK'
    BY <1>1, <1>2, <1>4, <1>5, FreeJob, Turns DEF Step
  <2> QED BY <1>1, <1>2, <1>4, <1>5, <1>6, <2>1 DEF TypeOK, JobsOK, Job
<1>10. PresentInv'
  <2>1. \A b \in Agent : Present(b) \/ b = a => Present(b)'
    BY <1>1, <1>2, <1>4 DEF Present, Moves
  <2>2. \A b \in Agent \ {a} : Busy(b)' \subseteq Busy(b)
    BY <1>2 DEF Busy, Moves
  <2> QED BY <1>1, <2>1, <2>2 DEF Inv, PresentInv
<1>11. KillInv'
  <2>1. \A b \in killed \ taken : b \in Agent /\ a # b /\ pool'[b] = pool[b]
    BY <1>2, <1>3, <1>4 DEF TypeOK
  <2> QED BY <1>1, <1>2, <2>1, KilledKeep
<1>12. TokenInv'
  BY <1>1, <1>2, TokensKeep
<1> QED BY <1>6, <1>7, <1>10, <1>11, <1>12 DEF Inv
-----------------------------------------------------------------------------
LEMMA Terminations ==
  ASSUME TypeOK, NEW S, NEW cascade, TerminateAll(S, cascade)
  PROVE  /\ pool' \in [Agent -> PoolState]
         /\ \A b \in Agent : /\ InPool(b)' <=> InPool(b)
                             /\ pool[b] = "TERMINATED" => pool'[b] = "TERMINATED"
         /\ \A b \in Agent : InPool(b) /\ b \in (IF cascade THEN Below(S) ELSE S) => pool'[b] = "TERMINATED"
<1> DEFINE hit == {b \in IF cascade THEN Below(S) ELSE S : pool[b] # "absent"}
<1>1. pool' = [b \in Agent |-> IF b \in hit THEN "TERMINATED" ELSE pool[b]]
  BY DEF TerminateAll
<1>2. \A b \in hit : InPool(b)
  BY DEF InPool
<1>3. \A b \in Agent : InPool(b) /\ b \in (IF cascade THEN Below(S) ELSE S) => b \in hit
  BY DEF InPool
<1> HIDE DEF hit
<1> QED BY <1>1, <1>2, <1>3 DEF TypeOK, InPool, PoolState

LEMMA TerminateStep ==
  ASSUME Inv, NEW t \in Thread, NEW a \in Agent, NEW c \in BOOLEAN, Terminate(t, a, c)
  PROVE  Inv'
<1> DEFINE S == IF c THEN LiveBelow(a) ELSE {a}
           K == IF c THEN {a} \cup {b \in Lineage(S \ {a}) : pool[b] # "absent" \/ b \in S} ELSE {a}
<1>1. /\ job[t].at = "idle" /\ live[a] # "gone" /\ calls' \in 0 .. MaxCalls
      /\ UNCHANGED <<parent, children, holder, used, stale>>
      /\ TypeOK
  BY SwarmAssumption DEF Terminate, Called, Free, tokens, Inv, TypeOK
<1>2. /\ live' = [b \in Agent |-> IF b \in S THEN "gone" ELSE live[b]]
      /\ TerminateAll(S \ {a}, TRUE)
      /\ Kill(t, K)
  BY DEF Terminate
<1>3. Moves(t, "terminate", a)
  <2> DEFINE j == [Free EXCEPT !.at = "terminate", !.agent = a, !.cascade = c]
  <2>1. j \in Job /\ j.at = "terminate" /\ j.agent = a
    BY DEF Free, Job, Step
  <2>2. job' = [job EXCEPT ![t] = j]
    BY DEF Terminate
  <2> HIDE DEF j
  <2> QED BY <1>1, <2>1, <2>2 DEF Moves, TypeOK, Job
<1>4. S \subseteq Agent /\ \A b \in S : live[b] # "gone"
  BY <1>1 DEF LiveBelow
<1>5. K \subseteq Agent /\ a \in K
  BY DEF Lineage
<1>6. \A b \in K : Present(b)
  <2>1. \A b \in K : b = a \/ InPool(b) \/ live[b] # "gone"
    BY <1>4 DEF InPool
  <2> QED BY <1>1, <1>5, <2>1 DEF Present, Inv, PresentInv
<1>7. \A b \in K : b = a \/ (b \in Lineage(S \ {a}) /\ (InPool(b) \/ b \in S))
  BY DEF InPool
<1> HIDE DEF K, S
<1>8. /\ pool' \in [Agent -> PoolState]
      /\ \A b \in Agent : /\ InPool(b)' <=> InPool(b)
                          /\ pool[b] = "TERMINATED" => pool'[b] = "TERMINATED"
      /\ \A b \in Agent : InPool(b) /\ b \in Below(S \ {a}) => pool'[b] = "TERMINATED"
  BY <1>1, <1>2, Terminations
<1>9. /\ killed' = killed \cup K /\ taken' = taken \cup {b \in K : Busy(b) \ {t} # {}}
      /\ UNCHANGED <<spent, apart, stray>>
  BY <1>2 DEF Kill
<1>10. /\ live' \in [Agent -> LiveState]
       /\ \A b \in Agent : live'[b] # "gone" => live[b] # "gone"
  BY <1>1, <1>2 DEF TypeOK, LiveState
<1>11. TypeOK'
  <2>1. JobsOK'
    BY <1>1, <1>3, <1>5, <1>8, <1>9, <1>10, FreeJob, Turns DEF Step
  <2> QED BY <1>1, <1>3, <1>5, <1>8, <1>9, <1>10, <2>1 DEF TypeOK, JobsOK, Job
<1>12. FamilyInv' /\ PresentInv'
  <2>1. Present(a) /\ \A b \in killed' : b \in killed \/ Present(b)
    BY <1>5, <1>6, <1>9
  <2> QED BY <1>1, <1>3, <1>8, <1>9, <1>10, <1>11, <2>1, FamilyKeeps
<1>13. KillInv'
  <2>1. ASSUME NEW b \in K \ taken' PROVE pool'[b] = "TERMINATED" \/ a = b
    <3> SUFFICES ASSUME a # b PROVE pool'[b] = "TERMINATED"
      OBVIOUS
    <3>1. InPool(b)
      <4>1. \A u \in Thread : job[u].at = "register" => job[u].agent # b
        BY <1>1, <1>9 DEF Busy
      <4> QED BY <1>6, <4>1 DEF Present
    <3>2. b \in Lineage(S \ {a}) /\ S \ {a} \in SUBSET Agent
      BY <1>4, <1>7
    <3> QED BY <1>5, <1>8, <3>1, <3>2, Reached
  <2> QED BY <1>1, <1>2, <1>3, <1>5, <1>8, <2>1, KillsS
<1>14. TokenInv'
  BY <1>1, <1>3, <1>9, TokensKeep
<1> QED BY <1>11, <1>12, <1>13, <1>14 DEF Inv

LEMMA TerminateInPoolStep == ASSUME Inv, NEW t \in Thread, TerminateInPool(t) PROVE Inv'
<1> DEFINE a == job[t].agent
           c == job[t].cascade
           K == IF c /\ pool[a] # "absent" THEN {b \in Lineage({a}) : pool[b] # "absent"} ELSE {a}
<1>1. /\ job[t].at = "terminate" /\ TerminateAll({a}, c) /\ Kill(t, K)
      /\ UNCHANGED <<live, parent, children, holder, used, stale, calls>>
  BY DEF TerminateInPool, tokens
<1>2. Moves(t, "idle", None) /\ TypeOK /\ a \in Agent /\ t \in Busy(a)
  BY <1>1, JobMoves DEF TerminateInPool, Inv, TypeOK, Busy
<1>3. K \subseteq Agent /\ a \in K
  BY <1>2 DEF Lineage
<1>4. \A b \in K : InPool(b) \/ b = a
  BY DEF InPool
<1>5. \A b \in K : InPool(b) => (IF c THEN b \in Lineage({a}) ELSE b = a)
  BY DEF InPool, Lineage
<1>6. \A b \in K : Present(b)
  BY <1>2, <1>4 DEF Present, Inv, PresentInv
<1> HIDE DEF K, c
<1>7. /\ pool' \in [Agent -> PoolState]
      /\ \A b \in Agent : /\ InPool(b)' <=> InPool(b)
                          /\ pool[b] = "TERMINATED" => pool'[b] = "TERMINATED"
      /\ \A b \in Agent : InPool(b) /\ b \in (IF c THEN Below({a}) ELSE {a}) => pool'[b] = "TERMINATED"
  BY <1>1, <1>2, Terminations
<1>8. /\ killed' = killed \cup K /\ taken' = taken \cup {b \in K : Busy(b) \ {t} # {}}
      /\ UNCHANGED <<spent, apart, stray>>
  BY <1>1 DEF Kill
<1>9. TypeOK'
  <2>1. job[t].at # "resume"
    BY <1>1
  <2> HIDE DEF a
  <2>2. JobsOK'
    BY <1>1, <1>2, <2>1, FreeJob, Turns DEF Step
  <2> QED BY <1>1, <1>2, <1>3, <1>7, <1>8, <2>2 DEF TypeOK, JobsOK, Job
<1>10. FamilyInv' /\ PresentInv'
  <2>1. \A b \in killed' : b \in killed \/ Present(b)
    BY <1>6, <1>8
  <2> QED BY <1>1, <1>2, <1>7, <1>8, <1>9, <2>1, FreeJob, FamilyKeeps
<1>11. KillInv'
  <2>1. ASSUME NEW b \in K \ taken' PROVE pool'[b] = "TERMINATED"
    <3>1. InPool(b)
      <4>1. \A u \in Thread : job[u].at = "register" => job[u].agent # b
        BY <1>1, <1>8 DEF Busy
      <4> QED BY <1>6, <4>1 DEF Present
    <3>2. b \in (IF c THEN Below({a}) ELSE {a})
      BY <1>2, <1>5, <3>1, Reached
    <3> QED BY <1>3, <1>7, <3>1, <3>2
  <2> QED BY <1>1, <1>2, <1>3, <1>7, <2>1, KillsS
<1>12. TokenInv'
  BY <1>1, <1>2, <1>8, TokensKeep
<1> QED BY <1>9, <1>10, <1>11, <1>12 DEF Inv
-----------------------------------------------------------------------------
\* A step of a delegation: it goes on with its agent.
LEMMA DelegationKeeps ==
  ASSUME Inv, NEW t \in Thread, NEW at \in {"work", "tokens", "release"}, Moves(t, at, job[t].agent),
         job[t].at \in {"take", "work", "tokens"},
         pool' \in [Agent -> PoolState],
         \A b \in Agent : (InPool(b)' <=> InPool(b)) /\ (b # job[t].agent => pool'[b] = pool[b]),
         UNCHANGED <<live, parent, children, holder, stale, calls, killed, taken, stray>>,
         used' \in [Agent -> Nat], spent' \in [Agent -> Nat], apart' \subseteq Agent
  PROVE  TypeOK' /\ FamilyInv' /\ PresentInv' /\ KillInv'
<1> DEFINE a == job[t].agent
<1>1. TypeOK /\ a \in Agent /\ at # "idle" /\ at # "resume" /\ at # "register" /\ at \in Step
  BY DEF Inv, TypeOK, Step
<1>2. a # None /\ t \in Busy(a) /\ job[t].at \notin {"resume", "register", "terminate"}
  BY <1>1, FreeJob DEF Busy
<1>3. Present(a)
  BY <1>1, <1>2 DEF Inv, PresentInv
<1> HIDE DEF a
<1>4. Moves(t, at, a) /\ \A b \in Agent : (InPool(b)' <=> InPool(b)) /\ (b # a => pool'[b] = pool[b])
  BY DEF a
<1>5. TypeOK'
  <2>1. JobsOK'
    BY <1>1, <1>2, <1>4, FreeJob, Turns DEF Step
  <2> QED BY <1>1, <1>2, <1>4, <2>1 DEF TypeOK, JobsOK, Job
<1>6. FamilyInv' /\ PresentInv'
  BY <1>1, <1>2, <1>3, <1>4, <1>5, FamilyKeeps
<1>7. KillInv'
  <2>1. \A b \in killed \ taken : b \in Agent /\ (Busy(b) = {} => a # b /\ pool'[b] = pool[b])
    BY <1>1, <1>2, <1>4 DEF TypeOK
  <2> QED BY <1>2, <1>4, <2>1, KilledKeep
<1> QED BY <1>5, <1>6, <1>7

LEMMA TakeStep == ASSUME Inv, NEW t \in Thread, Take(t) PROVE Inv'
<1> DEFINE a == job[t].agent
<1>1. /\ job[t].at = "take" /\ Transition(a, "ACTIVE")
      /\ apart' = IF t \notin stale /\ Working(a) # {} THEN apart \cup {a} ELSE apart
      /\ UNCHANGED <<live, parent, children, holder, used, stale, calls, spent, killed, taken, stray>>
  BY DEF Take, tokens
<1>2. Moves(t, "work", a) /\ TypeOK /\ a \in Agent
  BY <1>1, JobMoves DEF Take, Inv, TypeOK, Step
<1>3. /\ pool' \in [Agent -> PoolState]
      /\ \A b \in Agent : (InPool(b)' <=> InPool(b)) /\ (b # a => pool'[b] = pool[b])
  BY <1>1, <1>2, Transitions DEF PoolState
<1>4. used' \in [Agent -> Nat] /\ spent' \in [Agent -> Nat] /\ apart' \subseteq Agent
  BY <1>1, <1>2 DEF TypeOK
<1>5. TypeOK' /\ FamilyInv' /\ PresentInv' /\ KillInv'
  BY <1>1, <1>2, <1>3, <1>4, DelegationKeeps
<1>6. TokenInv'
  <2> SUFFICES ASSUME NEW b \in Agent \ apart'
               PROVE  /\ used[b] = spent[b]
                      /\ \A u, v \in Working(b)' : u = v
                      /\ \A u \in Working(b)' : job'[u].at = "tokens" => job'[u].old = used[b]
    BY <1>1 DEF TokenInv
  <2>1. b \notin apart /\ (b = a => t \in stale \/ Working(b) = {})
    BY <1>1
  <2>2. \A u \in Working(b)' : \/ u = t /\ b = a /\ t \notin stale
                               \/ u # t /\ u \in Working(b) /\ job'[u] = job[u]
    BY <1>1, <1>2 DEF Working, Busy, Moves
  <2>3. job'[t].at = "work"
    BY <1>2 DEF Moves
  <2> QED BY <2>1, <2>2, <2>3 DEF Inv, TokenInv
<1> QED BY <1>5, <1>6 DEF Inv

LEMMA ReadTokensStep == ASSUME Inv, NEW t \in Thread, ReadTokens(t) PROVE Inv'
<1> DEFINE a == job[t].agent
<1>0. PICK n \in {0, 1} : job' = [job EXCEPT ![t].at = "tokens", ![t].old = used[a], ![t].cost = n]
  BY DEF ReadTokens
<1>1. /\ job[t].at = "work"
      /\ UNCHANGED <<live, pool, parent, children, holder, used, stale, calls, spent, killed, taken, apart, stray>>
  BY DEF ReadTokens, registers, tokens, hist
<1>2. TypeOK /\ a \in Agent
  BY <1>1 DEF Inv, TypeOK
<1>3. Moves(t, "tokens", a) /\ job'[t].old = used[a]
  <2> DEFINE j == [job[t] EXCEPT !.at = "tokens", !.old = used[a], !.cost = n]
  <2>1. j \in Job /\ j.at = "tokens" /\ j.agent = a /\ j.old = used[a]
    BY <1>2 DEF Job, Step, TypeOK
  <2>2. job' = [job EXCEPT ![t] = j]
    BY <1>0, <1>2 DEF TypeOK
  <2> HIDE DEF j
  <2> QED BY <1>2, <2>1, <2>2 DEF Moves, TypeOK, Job
<1>4. TypeOK' /\ FamilyInv' /\ PresentInv' /\ KillInv'
  BY <1>1, <1>2, <1>3, DelegationKeeps DEF TypeOK, InPool
<1>5. TokenInv'
  <2>1. \A b \in Agent : Working(b)' \subseteq Working(b)
    BY <1>1, <1>2, <1>3 DEF Working, Busy, Moves
  <2>2. \A b \in Agent : t \in Working(b)' => b = a
    BY <1>3 DEF Working, Busy, Moves
  <2>3. \A b \in Agent : \A u \in Working(b)' \ {t} : job'[u] = job[u]
    BY <1>3 DEF Moves, Working, Busy
  <2> SUFFICES ASSUME NEW b \in Agent \ apart
               PROVE  /\ used[b] = spent[b]
                      /\ \A u, v \in Working(b)' : u = v
                      /\ \A u \in Working(b)' : job'[u].at = "tokens" => job'[u].old = used[b]
    BY <1>1 DEF TokenInv
  <2>4. used[b] = spent[b] /\ \A u, v \in Working(b)' : u = v
    BY <2>1 DEF Inv, TokenInv
  <2>5. ASSUME NEW u \in Working(b)', job'[u].at = "tokens" PROVE job'[u].old = used[b]
    <3>1. CASE u = t
      BY <1>3, <2>2, <3>1
    <3>2. CASE u # t
      BY <2>1, <2>3, <2>5, <3>2 DEF Inv, TokenInv
    <3> QED BY <3>1, <3>2
  <2> QED BY <2>4, <2>5
<1> QED BY <1>4, <1>5 DEF Inv

LEMMA AddTokensStep == ASSUME Inv, NEW t \in Thread, AddTokens(t) PROVE Inv'
<1> DEFINE a == job[t].agent
           n == job[t].cost
<1>1. /\ job[t].at = "tokens" /\ Record(t, n)
      /\ UNCHANGED <<live, pool, parent, children, holder, stale, calls, killed, taken, apart, stray>>
  BY DEF AddTokens, registers
<1>2. TypeOK /\ a \in Agent /\ job[t].old \in Nat /\ n \in {0, 1}
  BY <1>1 DEF Inv, TypeOK
<1>3. Moves(t, "release", a)
  BY <1>2, JobMoves DEF AddTokens, Step
<1>4. /\ used' \in [Agent -> Nat] /\ spent' \in [Agent -> Nat]
      /\ \A b \in Agent : b # a \/ t \in stale => used'[b] = used[b] /\ spent'[b] = spent[b]
      /\ t \notin stale => used'[a] = job[t].old + n /\ spent'[a] = spent[a] + n
  <2>1. CASE t \in stale
    BY <1>1, <1>2, <2>1 DEF Record, TypeOK
  <2>2. CASE t \notin stale
    <3>1. used' = [used EXCEPT ![a] = job[t].old + n] /\ spent' = [spent EXCEPT ![a] = spent[a] + n]
      BY <1>1, <2>2 DEF Record
    <3>2. n \in Nat
      BY <1>2
    <3> HIDE DEF a, n
    <3> QED BY <1>2, <2>2, <3>1, <3>2 DEF TypeOK
  <2> QED BY <2>1, <2>2
<1>5. TypeOK' /\ FamilyInv' /\ PresentInv' /\ KillInv'
  BY <1>1, <1>2, <1>3, <1>4, DelegationKeeps DEF TypeOK, InPool
<1>6. TokenInv'
  <2>1. \A b \in Agent : Working(b)' \subseteq Working(b) \ {t}
    BY <1>1, <1>3 DEF Working, Busy, Moves
  <2>2. \A b \in Agent : \A u \in Working(b)' : job'[u] = job[u]
    BY <1>3, <2>1 DEF Moves, Working, Busy
  <2>3. a \notin apart /\ t \notin stale => /\ used[a] = spent[a] /\ job[t].old = used[a]
                                           /\ \A u \in Working(a) : u = t
    <3>1. t \notin stale => t \in Working(a)
      BY <1>1 DEF Working, Busy
    <3> QED BY <1>1, <1>2, <3>1 DEF Inv, TokenInv
  <2> SUFFICES ASSUME NEW b \in Agent \ apart
               PROVE  /\ used'[b] = spent'[b]
                      /\ \A u, v \in Working(b)' : u = v
                      /\ \A u \in Working(b)' : job'[u].at = "tokens" => job'[u].old = used'[b]
    BY <1>1 DEF TokenInv
  <2>4. CASE b = a /\ t \notin stale
    <3>1. Working(b)' = {}
      BY <2>1, <2>3, <2>4
    <3>2. used'[b] = spent'[b]
      BY <1>4, <2>3, <2>4
    <3> QED BY <2>4, <3>1, <3>2
  <2>5. CASE b # a \/ t \in stale
    <3>1. used'[b] = used[b] /\ spent'[b] = spent[b]
      BY <1>4, <2>5
    <3> QED BY <2>1, <2>2, <3>1 DEF Inv, TokenInv
  <2> QED BY <2>4, <2>5
<1> QED BY <1>5, <1>6 DEF Inv
-----------------------------------------------------------------------------
\* The supervisor suspends or terminates an agent in one go.
LEMMA AtOnce == ASSUME Inv, NEW t \in Thread, Called(t), job' = job PROVE Moves(t, "idle", None)
BY DEF Called, Moves, Free, Inv, TypeOK, Job

LEMMA SuspendStep == ASSUME Inv, NEW t \in Thread, NEW a \in Agent, Suspend(t, a) PROVE Inv'
<1>1. /\ Moves(t, "idle", None) /\ job[t].at = "idle" /\ calls' \in 0 .. MaxCalls /\ TypeOK
      /\ UNCHANGED <<live, parent, children, holder, used, stale, spent, killed, apart, stray>>
      /\ taken' = taken \cup ({a} \cap killed)
  <2>1. Moves(t, "idle", None)
    BY AtOnce DEF Suspend
  <2> QED BY <2>1, SwarmAssumption DEF Suspend, Called, Named, Free, tokens, Inv, TypeOK
<1>2. /\ pool' \in [Agent -> PoolState]
      /\ \A b \in Agent : (InPool(b)' <=> InPool(b)) /\ (b # a => pool'[b] = pool[b])
  BY <1>1, Transitions DEF Suspend, PoolState
<1>3. TypeOK'
  <2>1. JobsOK'
    BY <1>1, <1>2, FreeJob, Turns DEF Step
  <2> QED BY <1>1, <1>2, <2>1 DEF TypeOK, JobsOK, Job
<1>4. FamilyInv' /\ PresentInv'
  BY <1>1, <1>2, <1>3, FreeJob, FamilyKeeps
<1>5. KillInv'
  <2>1. \A b \in killed \ taken' : b \in Agent /\ None # b /\ pool'[b] = pool[b]
    BY <1>1, <1>2, FreeJob DEF TypeOK
  <2> QED BY <1>1, <2>1, KilledKeep
<1>6. TokenInv'
  BY <1>1, TokensKeep
<1> QED BY <1>3, <1>4, <1>5, <1>6 DEF Inv

LEMMA InterveneStep == ASSUME Inv, NEW t \in Thread, NEW a \in Agent, Intervene(t, a) PROVE Inv'
<1> DEFINE K == {b \in Lineage({a}) : pool[b] # "absent"}
<1>1. /\ Moves(t, "idle", None) /\ job[t].at = "idle" /\ calls' \in 0 .. MaxCalls /\ TypeOK
      /\ UNCHANGED <<live, parent, children, holder, used, stale>>
      /\ TerminateAll({a}, TRUE) /\ Kill(t, K)
  <2>1. Moves(t, "idle", None)
    BY AtOnce DEF Intervene
  <2>2. Called(t) /\ TerminateAll({a}, TRUE) /\ Kill(t, K) /\ UNCHANGED <<live, parent, children, holder, used, stale>>
    BY DEF Intervene, tokens
  <2>3. job[t].at = "idle" /\ calls' \in 0 .. MaxCalls /\ TypeOK
    BY <2>2, SwarmAssumption DEF Called, Free, Inv, TypeOK
  <2> QED BY <2>1, <2>2, <2>3
<1>2. K \subseteq Agent /\ \A b \in K : InPool(b) /\ b \in Lineage({a})
  BY DEF Lineage, InPool
<1> HIDE DEF K
<1>3. /\ pool' \in [Agent -> PoolState]
      /\ \A b \in Agent : /\ InPool(b)' <=> InPool(b)
                          /\ pool[b] = "TERMINATED" => pool'[b] = "TERMINATED"
      /\ \A b \in Agent : InPool(b) /\ b \in Below({a}) => pool'[b] = "TERMINATED"
  BY <1>1, Terminations
<1>4. /\ killed' = killed \cup K /\ taken' = taken \cup {b \in K : Busy(b) \ {t} # {}}
      /\ UNCHANGED <<spent, apart, stray>>
  BY <1>1 DEF Kill
<1>5. TypeOK'
  <2>1. JobsOK'
    BY <1>1, <1>2, <1>3, <1>4, FreeJob, Turns DEF Step
  <2> QED BY <1>1, <1>2, <1>3, <1>4, <2>1 DEF TypeOK, JobsOK, Job
<1>6. FamilyInv' /\ PresentInv'
  <2>1. \A b \in killed' : b \in killed \/ Present(b)
    BY <1>2, <1>4 DEF Present
  <2> QED BY <1>1, <1>3, <1>4, <1>5, <2>1, FreeJob, FamilyKeeps
<1>7. KillInv'
  <2>1. \A b \in K \ taken' : pool'[b] = "TERMINATED" \/ None = b
    BY <1>2, <1>3, Reached
  <2>2. \A b \in Agent : pool[b] = "TERMINATED" => pool'[b] = "TERMINATED"
    BY <1>3
  <2>3. Moves(t, "idle", None) /\ job[t].at # "terminate" /\ Kill(t, K)
    BY <1>1
  <2> QED BY <1>2, <2>1, <2>2, <2>3, KillsS
<1>8. TokenInv'
  BY <1>1, <1>4, TokensKeep
<1> QED BY <1>5, <1>6, <1>7, <1>8 DEF Inv

\* Every step keeps the invariant.
LEMMA StepInv == ASSUME Inv, [Next]_vars PROVE Inv'
<1>1. CASE UNCHANGED vars
  <2>1. UNCHANGED <<live, pool, parent, children, holder, job, used, stale, calls, spent, killed, taken, apart, stray>>
    BY <1>1 DEF vars, registers, tokens, hist
  <2> QED BY <2>1 DEF Inv, TypeOK, FamilyInv, PresentInv, KillInv, TokenInv,
                    InPool, Present, Busy, Working
<1>2. ASSUME NEW t \in Thread, Proceed(t) PROVE Inv'
  BY <1>2, SpawnRegisterStep, NoteSteps, ResumeReturnsStep, TerminateInPoolStep, TakeStep,
     ReadTokensStep, AddTokensStep DEF Proceed
<1>3. ASSUME NEW t \in Thread, NEW a \in Agent,
             \/ Pause(t, a) \/ Resume(t, a) \/ (\E c \in BOOLEAN : Terminate(t, a, c))
             \/ Discover(t, a) \/ Handoff(t, a) \/ Suspend(t, a) \/ Intervene(t, a)
             \/ \E p \in Agent \cup {None} : Spawn(t, a, p) \/ SpawnSubagent(t, a, p)
      PROVE  Inv'
  BY <1>3, NamedSteps, TerminateStep, ChooseSteps, SuspendStep, InterveneStep, SpawnStep, SpawnSubagentStep
<1> QED BY <1>1, <1>2, <1>3 DEF Next
-----------------------------------------------------------------------------
\* The invariant: who is in the pool, whose child, in whose hands and with which tokens.
THEOREM Invariance == Spec => []Inv
BY InitInv, StepInv, PTL DEF Spec

\* The state has its shape: only a resumption keeps the manager's lock.
THEOREM TypeCorrect == Spec => []TypeOK
<1>1. Inv => TypeOK
  BY DEF Inv
<1> QED BY <1>1, Invariance, PTL

\* A termination reaches its agent and every subagent below it that is not
\* astray, and they stay terminated unless a call had one in hand then, or pauses,
\* resumes or spawns one by its name.
THEOREM DeadStay == Spec => []KilledStaysDead
<1>1. Inv => KilledStaysDead
  <2> SUFFICES ASSUME Inv, NEW a \in killed \ taken, Busy(a) = {} PROVE pool[a] = "TERMINATED"
    BY DEF KilledStaysDead
  <2>1. ~\E t \in Thread : job[t].at = "terminate" /\ job[t].agent = a
    BY DEF Busy
  <2> QED BY <2>1 DEF Inv, KillInv
<1> QED BY <1>1, Invariance, PTL

\* Of the tokens that delegations have reported of the agent in the pool none is
\* lost, unless two of them worked with it at once.
THEOREM TokensHold == Spec => []TokensCounted
<1>1. Inv => TokensCounted
  BY DEF Inv, TokenInv, TokensCounted
<1> QED BY <1>1, Invariance, PTL

-----------------------------------------------------------------------------
(***************************************************************************)
(* Messaging                                                               *)
(***************************************************************************)
\* The messages that can have been made until now: one answers an older one.
Msg  == {m \in [at : 1..clock, to : Peer \cup {Everyone}, re : Nat] : m.re < m.at}
Row  == [id : 1..clock, msg : Msg]
Call == [step : {"deliver", "save", "ask"}, msg : Msg, query : BOOLEAN]

BusType ==
  /\ clock \in Nat
  /\ history \in Seq(Msg)
  /\ DOMAIN inbox \subseteq Peer /\ inbox \in [DOMAIN inbox -> Seq(Msg)]
  /\ sending \in [Peer -> {Idle} \cup Call]
  /\ trace \in Seq(1..clock)
  /\ rows \subseteq Row /\ IsFiniteSet(rows)

\* A message for one agent waits in its inbox, or has been cleared from it or lost with an old session.
Survives(m) ==
  m.to # Everyone =>
    \/ m \in lost
    \/ <<m.to, m.at>> \in cleared
    \/ m.to \in DOMAIN inbox /\ m \in ToSet(inbox[m.to])

\* It is stored, or about to be, unless its dual write has failed or came too late.
Recorded(m) ==
  m.to # Everyone =>
    \/ m \in unsaved \cup lost
    \/ \E p \in rows : p.msg = m
    \/ \E a \in Peer : sending[a].step = "save" /\ sending[a].msg = m

LedgerInv == \A m \in delivered : Survives(m) /\ Recorded(m)

\* Ids are used once, and the row of a message for one agent has the message's own.
RowInv ==
  /\ \A p, q \in rows : p.id = q.id => p = q
  /\ \A p \in rows : p.msg.to # Everyone => p.id = p.msg.at

\* A message that is not delivered yet is in no inbox, and has no answer.
New(m) ==
  /\ \A x \in ToSet(history) : m.at # x.at /\ m.at # x.re
  /\ \A r \in DOMAIN inbox : \A x \in ToSet(inbox[r]) : x.at # m.at
  /\ \A b \in Peer : sending[b] # Idle => sending[b].msg.re # m.at

CallInv ==
  \A a \in Peer : sending[a] # Idle =>
    /\ \A b \in Peer \ {a} : sending[b] # Idle => sending[b].msg.at # sending[a].msg.at
    /\ sending[a].step # "ask" => \A p \in rows : p.id # sending[a].msg.at
    /\ sending[a].step = "deliver" => New(sending[a].msg)

BusInv == BusType /\ LedgerInv /\ RowInv /\ CallInv /\ QuestionFirst /\ DeliveredOnce
-----------------------------------------------------------------------------
\* Rows that get_messages can put in order.
Sortable(S) ==
  /\ IsFiniteSet(S) /\ S \subseteq [id : Nat, msg : [at : Nat, to : Peer \cup {Everyone}, re : Nat]]
  /\ \A p, q \in S : p.id = q.id => p = q

Rank(S, p) == Cardinality(Before(S, p))

LEMMA RankGrows ==
  ASSUME NEW S, Sortable(S), NEW p \in S, NEW q \in S, Earlier(p, q)
  PROVE  Rank(S, p) < Rank(S, q)
<1> DEFINE P == Before(S, p)
           Q == Before(S, q)
<1>1. \A x \in S : x.id \in Nat /\ x.msg.at \in Nat
  BY DEF Sortable
<1>2. P \subseteq Q /\ p \in Q /\ p \notin P /\ Q \subseteq S
  BY <1>1 DEF Before, Earlier
<1>3. IsFiniteSet(Q) /\ Cardinality(Q) \in Nat
  BY <1>2, FS_Subset, FS_CardinalityType DEF Sortable
<1>4. IsFiniteSet(P) /\ Cardinality(P) \in Nat /\ Cardinality(P) <= Cardinality(Q) /\ Cardinality(P) # Cardinality(Q)
  BY <1>2, <1>3, FS_Subset, FS_CardinalityType
<1> QED BY <1>3, <1>4 DEF Rank

\* Each row has a place of its own, and each place a row.
LEMMA Ranked ==
  ASSUME NEW S, Sortable(S)
  PROVE  /\ Cardinality(S) \in Nat
         /\ \A p \in S : Rank(S, p) \in 0 .. Cardinality(S) - 1
         /\ \A p, q \in S : Rank(S, p) = Rank(S, q) => p = q
         /\ \A i \in 1 .. Cardinality(S) : \E p \in S : Rank(S, p) = i - 1
<1> DEFINE n == Cardinality(S)
           places == 0 .. n - 1
           rank == [p \in S |-> Rank(S, p)]
<1>1. IsFiniteSet(S) /\ n \in Nat
  BY FS_CardinalityType DEF Sortable
<1>2. \A p \in S : Rank(S, p) \in places
  <2> SUFFICES ASSUME NEW p \in S PROVE Rank(S, p) \in places
    OBVIOUS
  <2>1. Before(S, p) \subseteq S /\ p \notin Before(S, p)
    BY DEF Before, Earlier, Sortable
  <2>2. IsFiniteSet(Before(S, p)) /\ Cardinality(Before(S, p)) \in Nat
        /\ Cardinality(Before(S, p)) <= n /\ Cardinality(Before(S, p)) # n
    BY <1>1, <2>1, FS_Subset, FS_CardinalityType
  <2> QED BY <1>1, <2>2 DEF Rank
<1>3. \A p, q \in S : Rank(S, p) = Rank(S, q) => p = q
  <2> SUFFICES ASSUME NEW p \in S, NEW q \in S, p # q PROVE Rank(S, p) # Rank(S, q)
    OBVIOUS
  <2>1. Earlier(p, q) \/ Earlier(q, p)
    BY DEF Sortable, Earlier
  <2>2. Rank(S, p) \in Nat /\ Rank(S, q) \in Nat
    BY <1>1, <1>2
  <2> QED BY <2>1, <2>2, RankGrows
<1>4. IsFiniteSet(places) /\ Cardinality(places) = n
  BY <1>1, FS_Interval
<1>5. rank \in Injection(S, places)
  BY <1>2, <1>3 DEF Injection, IsInjective
<1>6. rank \in Surjection(S, places)
  BY <1>4, <1>5, FS_Injection
<1>7. ASSUME NEW i \in 1 .. n PROVE \E p \in S : Rank(S, p) = i - 1
  <2>1. i - 1 \in places
    BY <1>1
  <2> HIDE DEF places, n
  <2> QED BY <1>6, <2>1 DEF Surjection
<1> QED BY <1>1, <1>2, <1>3, <1>7

\* A query returns each row once, and no later message before an earlier one.
LEMMA Ordered ==
  ASSUME NEW S, Sortable(S)
  PROVE  \E row \in [1 .. Cardinality(S) -> S] :
           /\ Cardinality(S) \in Nat
           /\ InOrder(S) = [i \in 1 .. Cardinality(S) |-> row[i].msg]
           /\ \A p \in S : \E i \in 1 .. Cardinality(S) : row[i] = p
           /\ \A i, j \in 1 .. Cardinality(S) : row[i] = row[j] => i = j
           /\ \A i, j \in 1 .. Cardinality(S) : row[i].msg.at < row[j].msg.at => i < j
<1> DEFINE n == Cardinality(S)
           row == [i \in 1 .. n |-> CHOOSE p \in S : Rank(S, p) = i - 1]
<1>1. n \in Nat
  BY Ranked
<1>2. \A i \in 1 .. n : row[i] \in S /\ Rank(S, row[i]) = i - 1
  BY Ranked
<1>3. InOrder(S) = [i \in 1 .. n |-> row[i].msg]
  BY DEF InOrder, Rank
<1>4. row \in [1 .. n -> S]
  BY <1>2
<1>5. ASSUME NEW p \in S PROVE \E i \in 1 .. n : row[i] = p
  <2>1. Rank(S, p) + 1 \in 1 .. n /\ Rank(S, p) \in Nat
    BY <1>1, Ranked
  <2>2. Rank(S, row[Rank(S, p) + 1]) = Rank(S, p) /\ row[Rank(S, p) + 1] \in S
    BY <1>2, <2>1
  <2> HIDE DEF row, n
  <2> QED BY <2>1, <2>2, Ranked
<1> HIDE DEF row
<1>6. \A i, j \in 1 .. n : row[i] = row[j] => i = j
  BY <1>1, <1>2
<1>7. ASSUME NEW i \in 1 .. n, NEW j \in 1 .. n, row[i].msg.at < row[j].msg.at PROVE i < j
  BY <1>1, <1>2, <1>7, RankGrows DEF Earlier
<1> QED BY <1>1, <1>3, <1>4, <1>5, <1>6, <1>7
-----------------------------------------------------------------------------
LEMMA BusInitInv == BusInit => BusInv
<1> SUFFICES ASSUME BusInit PROVE BusInv
  OBVIOUS
<1>1. BusType
  BY FS_EmptySet DEF BusInit, BusType
<1>2. LedgerInv /\ RowInv /\ CallInv /\ DeliveredOnce
  BY DEF BusInit, LedgerInv, RowInv, CallInv, DeliveredOnce
<1>3. QuestionFirst
  BY DEF BusInit, QuestionFirst
<1> QED BY <1>1, <1>2, <1>3 DEF BusInv

\* Who is in a call has made a message.
LEMMA InCall ==
  ASSUME BusType, NEW a \in Peer
  PROVE  /\ sending[a] = Idle \/ sending[a] \in Call
         /\ sending[a].step \in {"deliver", "save", "ask"} => sending[a] \in Call
         /\ sending[a] \in Call => sending[a].step # "idle" /\ sending[a] # Idle
BY DEF BusType, Idle, Call

LEMMA TimePasses ==
  ASSUME clock \in Nat, clock' \in Nat, clock <= clock'
  PROVE  Msg \subseteq Msg' /\ Row \subseteq Row' /\ Call \subseteq Call'
<1>1. 1 .. clock \subseteq 1 .. clock'
  OBVIOUS
<1>2. Msg \subseteq Msg'
  BY <1>1 DEF Msg
<1> QED BY <1>1, <1>2 DEF Row, Call

LEMMA SeqGrows == ASSUME NEW S, NEW T, S \subseteq T, NEW s \in Seq(S) PROVE s \in Seq(T)
OBVIOUS

LEMMA Elements ==
  ASSUME NEW S, NEW s \in Seq(S), NEW m \in S
  PROVE  /\ ToSet(s) \subseteq S
         /\ Append(s, m) \in Seq(S) /\ ToSet(Append(s, m)) = ToSet(s) \cup {m}
<1>1. DOMAIN s = 1 .. Len(s) /\ Len(s) \in Nat /\ \A i \in DOMAIN s : s[i] \in S
  OBVIOUS
<1>2. /\ Append(s, m) \in Seq(S) /\ DOMAIN Append(s, m) = 1 .. Len(s) + 1
      /\ \A i \in 1 .. Len(s) : Append(s, m)[i] = s[i]
      /\ Append(s, m)[Len(s) + 1] = m
  OBVIOUS
<1>3. 1 .. Len(s) + 1 = (1 .. Len(s)) \cup {Len(s) + 1}
  BY <1>1
<1> QED BY <1>1, <1>2, <1>3 DEF ToSet

\* No message is forgotten but by a reader who clears its inbox, and what is to
\* be stored is stored, or fails to be.
LEMMA Kept ==
  ASSUME BusInv, UNCHANGED <<delivered, lost>>, cleared \subseteq cleared', unsaved \subseteq unsaved', rows \subseteq rows',
         \A r \in DOMAIN inbox : r \in DOMAIN inbox' /\
           \A x \in ToSet(inbox[r]) : x \in ToSet(inbox'[r]) \/ <<r, x.at>> \in cleared',
         \A a \in Peer : sending[a].step = "save" =>
           \/ sending'[a] = sending[a]
           \/ sending[a].msg \in unsaved'
           \/ \E p \in rows' : p.msg = sending[a].msg
  PROVE  LedgerInv'
<1>1. \A m : Survives(m) => Survives(m)'
  BY DEF Survives
<1>2. \A m : Recorded(m) => Recorded(m)'
  BY DEF Recorded
<1> QED BY <1>1, <1>2 DEF BusInv, LedgerInv

-----------------------------------------------------------------------------
\* A call of a makes the message m, which nothing has been told of.
LEMMA MakesMessage ==
  ASSUME BusInv, NEW a \in Peer, NEW m, NEW query \in BOOLEAN, m \in Msg', m.at = clock + 1, clock' = clock + 1,
         sending' = [sending EXCEPT ![a] = [step |-> "deliver", msg |-> m, query |-> query]],
         UNCHANGED <<history, inbox, trace, rows, cleared, delivered, unsaved, lost>>,
         sending[a].step # "save",
         \A b \in Peer \ {a} : sending[b].step = "deliver" => sending[b].msg.at # m.re
  PROVE  BusInv'
<1> DEFINE call == [step |-> "deliver", msg |-> m, query |-> query]
<1>1. BusType /\ clock \in Nat
  BY DEF BusInv, BusType
<1>2. Msg \subseteq Msg' /\ Row \subseteq Row' /\ Call \subseteq Call' /\ 1 .. clock \subseteq 1 .. clock'
  BY <1>1, TimePasses
<1>3. call \in Call' /\ call.msg = m /\ call.step = "deliver" /\ call # Idle
  BY DEF Call, Idle
<1>4. sending' \in [Peer -> {Idle} \cup Call']
  BY <1>1, <1>2, <1>3 DEF BusType
<1>5. sending'[a] = call /\ \A b \in Peer \ {a} : sending'[b] = sending[b]
  BY <1>1 DEF BusType
<1> HIDE DEF call
<1>6. BusType'
  <2>1. history' \in Seq(Msg') /\ trace' \in Seq(1 .. clock')
    BY <1>1, <1>2, SeqGrows DEF BusType
  <2>2. DOMAIN inbox' \subseteq Peer /\ inbox' \in [DOMAIN inbox' -> Seq(Msg')]
    BY <1>1, <1>2, SeqGrows DEF BusType
  <2>3. rows' \subseteq Row' /\ IsFiniteSet(rows')
    BY <1>1, <1>2 DEF BusType
  <2> QED BY <1>1, <1>4, <2>1, <2>2, <2>3 DEF BusType
<1>7. LedgerInv'
  BY <1>5, Kept
<1>8. RowInv' /\ QuestionFirst' /\ DeliveredOnce'
  BY DEF BusInv, RowInv, DeliveredOnce, QuestionFirst
<1>9. /\ \A x \in ToSet(history) : x.at # m.at /\ x.re # m.at
      /\ \A r \in DOMAIN inbox : \A x \in ToSet(inbox[r]) : x.at # m.at
      /\ \A p \in rows : p.id # m.at
      /\ \A b \in Peer : sending[b] # Idle => sending[b].msg.at # m.at /\ sending[b].msg.re # m.at
      /\ m.re # m.at
  <2>1. \A x \in Msg : x.at # m.at /\ x.re # m.at
    BY <1>1 DEF Msg
  <2>2. ToSet(history) \subseteq Msg /\ \A r \in DOMAIN inbox : ToSet(inbox[r]) \subseteq Msg
    BY <1>1 DEF BusType, ToSet
  <2>3. \A p \in rows : p.id \in 1 .. clock
    BY <1>1 DEF BusType, Row
  <2>4. \A b \in Peer : sending[b] # Idle => sending[b].msg \in Msg
    BY <1>1, InCall DEF Call
  <2>5. m.re < m.at /\ m.re \in Nat /\ m.at \in Nat
    BY <1>1 DEF Msg
  <2> QED BY <1>1, <2>1, <2>2, <2>3, <2>4, <2>5
<1>10. CallInv'
  <2> SUFFICES ASSUME NEW b \in Peer, sending'[b] # Idle
               PROVE  /\ \A c \in Peer \ {b} : sending'[c] # Idle => sending'[c].msg.at # sending'[b].msg.at
                      /\ sending'[b].step # "ask" => \A p \in rows' : p.id # sending'[b].msg.at
                      /\ sending'[b].step = "deliver" => New(sending[b].msg)'
    BY DEF CallInv
  <2>1. CASE b = a
    <3>1. New(sending[b].msg)'
      BY <1>3, <1>5, <1>9, <2>1 DEF New
    <3> QED BY <1>3, <1>5, <1>9, <2>1, <3>1
  <2>2. CASE b # a
    <3>1. sending'[b] = sending[b] /\ sending[b] # Idle
      BY <1>5, <2>2
    <3>2. \A c \in Peer \ {b} : sending'[c] # Idle => sending'[c].msg.at # sending'[b].msg.at
      BY <1>3, <1>5, <1>9, <3>1 DEF BusInv, CallInv
    <3>3. sending'[b].step # "ask" => \A p \in rows' : p.id # sending'[b].msg.at
      BY <3>1 DEF BusInv, CallInv
    <3>5. ASSUME sending'[b].step = "deliver" PROVE New(sending[b].msg)'
      <4>1. New(sending[b].msg) /\ sending[b].msg.at # m.re
        BY <2>2, <3>1, <3>5 DEF BusInv, CallInv
      <4> QED BY <1>3, <1>5, <3>1, <4>1 DEF New
    <3> QED BY <3>2, <3>3, <3>5
  <2> QED BY <2>1, <2>2
<1> QED BY <1>6, <1>7, <1>8, <1>10 DEF BusInv

LEMMA ComposeStep == ASSUME BusInv, NEW a \in Peer, Compose(a) PROVE BusInv'
<1>1. PICK to \in (Peer \ {a}) \cup {Everyone}, query \in BOOLEAN :
        sending' = [sending EXCEPT ![a] = [step |-> "deliver", msg |-> Message(to, Original), query |-> query]]
  BY DEF Compose
<1>2. /\ clock' = clock + 1 /\ clock \in Nat
      /\ UNCHANGED <<history, inbox, trace, rows, cleared, delivered, unsaved, lost>>
      /\ sending[a].step # "save"
  BY DEF Compose, Make, Idle, bus, ledger, BusInv, BusType
<1> DEFINE m == [at |-> clock + 1, to |-> to, re |-> 0]
<1>3. m \in Msg' /\ m.at = clock + 1 /\ m.re = 0
  BY <1>2 DEF Msg
<1>4. \A b \in Peer \ {a} : sending[b].step = "deliver" => sending[b].msg.at # 0
  BY InCall DEF BusInv, Call, Msg
<1>5. sending' = [sending EXCEPT ![a] = [step |-> "deliver", msg |-> m, query |-> query]]
  BY <1>1 DEF Message, Original
<1>6. \A b \in Peer \ {a} : sending[b].step = "deliver" => sending[b].msg.at # m.re
  BY <1>4
<1> HIDE DEF m
<1>7. query \in BOOLEAN /\ m \in Msg' /\ m.at = clock + 1
  BY <1>3
<1> QED BY <1>2, <1>5, <1>6, <1>7, MakesMessage

\* A call ends, or waits for its answer.
LEMMA GoesOn ==
  ASSUME BusInv, NEW a \in Peer, sending[a] # Idle,
         sending' \in [Peer -> {Idle} \cup Call], \A b \in Peer \ {a} : sending'[b] = sending[b],
         \/ sending'[a] = Idle
         \/ sending'[a].step = "ask" /\ sending'[a].msg = sending[a].msg,
         UNCHANGED <<history, inbox, trace, clock, cleared, delivered, lost>>, unsaved \subseteq unsaved',
         \/ rows' = rows /\ (sending[a].step = "save" => sending[a].msg \in unsaved')
         \/ /\ sending[a].step = "save"
            /\ rows' = rows \cup {[id |-> sending[a].msg.at, msg |-> sending[a].msg]}
  PROVE  BusInv'
<1>1. BusType /\ sending[a] \in Call
  BY InCall DEF BusInv
<1>2. UNCHANGED <<Msg, Row, Call>>
  BY DEF Msg, Row, Call
<1> DEFINE row == [id |-> sending[a].msg.at, msg |-> sending[a].msg]
<1>3. row \in Row /\ row.id = sending[a].msg.at /\ row.msg = sending[a].msg
  BY <1>1 DEF Call, Row, Msg
<1>4. /\ rows \subseteq rows' /\ \A p \in rows' : p \in rows \/ (p = row /\ sending[a].step = "save")
      /\ sending[a].step = "save" => sending[a].msg \in unsaved' \/ row \in rows'
  OBVIOUS
<1>5. IsFiniteSet(rows')
  <2>1. IsFiniteSet(rows)
    BY <1>1 DEF BusType
  <2>2. rows' = rows \/ rows' = rows \cup {row}
    OBVIOUS
  <2> HIDE DEF row
  <2> QED BY <2>1, <2>2, FS_AddElement
<1> HIDE DEF row
<1>6. BusType'
  BY <1>1, <1>2, <1>3, <1>4, <1>5 DEF BusType
<1>7. LedgerInv'
  BY <1>3, <1>4, Kept
<1>8. QuestionFirst' /\ DeliveredOnce'
  BY DEF BusInv, DeliveredOnce, QuestionFirst
<1>9. RowInv'
  <2>1. sending[a].step = "save" => \A p \in rows : p.id # row.id
    BY <1>3 DEF BusInv, CallInv
  <2>2. row.msg.to # Everyone => row.id = row.msg.at
    BY <1>3
  <2> QED BY <1>4, <2>1, <2>2 DEF BusInv, RowInv
<1>10. CallInv'
  <2> SUFFICES ASSUME NEW b \in Peer, sending'[b] # Idle
               PROVE  /\ \A c \in Peer \ {b} : sending'[c] # Idle => sending'[c].msg.at # sending'[b].msg.at
                      /\ sending'[b].step # "ask" => \A p \in rows' : p.id # sending'[b].msg.at
                      /\ sending'[b].step = "deliver" => New(sending[b].msg)'
    BY DEF CallInv
  <2>1. /\ sending'[b].msg = sending[b].msg /\ sending[b] # Idle
        /\ sending'[b].step # "ask" => b # a /\ sending'[b] = sending[b]
    OBVIOUS
  <2>2. \A c \in Peer : sending'[c] # Idle => sending[c] # Idle /\ sending'[c].msg = sending[c].msg
    OBVIOUS
  <2>3. \A c \in Peer \ {b} : sending'[c] # Idle => sending'[c].msg.at # sending'[b].msg.at
    BY <2>1, <2>2 DEF BusInv, CallInv
  <2>4. ASSUME sending'[b].step # "ask" PROVE \A p \in rows' : p.id # sending'[b].msg.at
    BY <1>3, <1>4, <2>1, <2>4 DEF BusInv, CallInv
  <2>6. sending'[b].step = "deliver" => New(sending[b].msg)'
    BY <2>1, <2>2 DEF BusInv, CallInv, New
  <2> QED BY <2>3, <2>4, <2>6
<1> QED BY <1>6, <1>7, <1>8, <1>9, <1>10 DEF BusInv

LEMMA StoreStep == ASSUME BusInv, NEW a \in Peer, Store(a) PROVE BusInv'
<1>1. /\ sending[a].step = "save" /\ unsaved \subseteq unsaved'
      /\ UNCHANGED <<history, inbox, trace, clock, cleared, delivered, lost>>
      /\ \/ rows' = rows /\ sending[a].msg \in unsaved'
         \/ rows' = rows \cup {[id |-> sending[a].msg.at, msg |-> sending[a].msg]}
  BY DEF Store, bus
<1>2. BusType /\ sending[a] \in Call /\ sending[a] # Idle
  BY <1>1, InCall DEF BusInv
<1> DEFINE call == IF sending[a].query THEN [sending[a] EXCEPT !.step = "ask"] ELSE Idle
<1>3. sending' = [sending EXCEPT ![a] = call]
  BY <1>2 DEF Store, BusType
<1>4. /\ call \in {Idle} \cup Call
      /\ call = Idle \/ (call.step = "ask" /\ call.msg = sending[a].msg)
  BY <1>2 DEF Call
<1> HIDE DEF call
<1>5. /\ sending' \in [Peer -> {Idle} \cup Call] /\ sending'[a] = call
      /\ \A b \in Peer \ {a} : sending'[b] = sending[b]
  BY <1>2, <1>3, <1>4 DEF BusType
<1> QED BY <1>1, <1>2, <1>4, <1>5, GoesOn

LEMMA AnswerStep == ASSUME BusInv, NEW a \in Peer, Answer(a) PROVE BusInv'
<1>1. /\ sending[a].step = "ask"
      /\ UNCHANGED <<history, inbox, trace, rows, cleared, delivered, unsaved, lost>>
      /\ BusType /\ clock \in Nat /\ sending[a] \in Call /\ sending[a] # Idle
  BY InCall DEF Answer, bus, ledger, BusInv, BusType
<1> DEFINE m == [at |-> clock + 1, to |-> a, re |-> sending[a].msg.at]
<1>2. CASE /\ Make
           /\ sending' = [sending EXCEPT ![a] =
                [step |-> "deliver", msg |-> Message(a, sending[a].msg.at), query |-> FALSE]]
  <2>1. clock' = clock + 1
    BY <1>2 DEF Make
  <2>2. m \in Msg' /\ m.at = clock + 1 /\ m.re = sending[a].msg.at
    BY <1>1, <2>1 DEF Call, Msg
  <2>3. sending' = [sending EXCEPT ![a] = [step |-> "deliver", msg |-> m, query |-> FALSE]]
    BY <1>2 DEF Message
  <2> HIDE DEF m
  <2>4. \A b \in Peer \ {a} : sending[b].step = "deliver" => sending[b].msg.at # m.re
    BY <1>1, <2>2, InCall DEF BusInv, CallInv
  <2>5. FALSE \in BOOLEAN /\ m.at = clock + 1 /\ m \in Msg'
    BY <2>2
  <2> QED BY <1>1, <2>1, <2>3, <2>4, <2>5, MakesMessage
<1>3. CASE sending' = [sending EXCEPT ![a] = Idle] /\ UNCHANGED <<made, clock>>
  <2>1. /\ sending' \in [Peer -> {Idle} \cup Call] /\ sending'[a] = Idle
        /\ \A b \in Peer \ {a} : sending'[b] = sending[b]
    BY <1>1, <1>3 DEF BusType
  <2> QED BY <1>1, <1>3, <2>1, GoesOn
<1> QED BY <1>2, <1>3 DEF Answer
-----------------------------------------------------------------------------
LEMMA OnceMore ==
  ASSUME NEW S, NEW s \in Seq(S), NEW m \in S, \A x \in ToSet(s) : x.at # m.at,
         \A i, j \in 1 .. Len(s) : s[i].at = s[j].at => i = j
  PROVE  \A i, j \in 1 .. Len(Append(s, m)) : Append(s, m)[i].at = Append(s, m)[j].at => i = j
<1>1. /\ Len(s) \in Nat /\ Len(Append(s, m)) = Len(s) + 1
      /\ \A i \in 1 .. Len(s) : Append(s, m)[i] = s[i] /\ s[i] \in ToSet(s)
      /\ Append(s, m)[Len(s) + 1] = m
  BY DEF ToSet
<1>2. \A i \in 1 .. Len(s) + 1 : i \in 1 .. Len(s) \/ i = Len(s) + 1
  BY <1>1
<1> QED BY <1>1, <1>2

\* Where a message is delivered, it is the last one; the other inboxes stay.
LEMMA Boxes ==
  ASSUME BusType, NEW m \in Msg
  PROVE  LET boxes == Delivered(inbox, m)
             old(r) == IF r \in DOMAIN inbox THEN inbox[r] ELSE <<>>
         IN  /\ DOMAIN inbox \subseteq DOMAIN boxes /\ DOMAIN boxes \subseteq Peer
             /\ \A r \in DOMAIN boxes : boxes[r] = old(r) \/ boxes[r] = Append(old(r), m)
             /\ m.to # Everyone => m.to \in DOMAIN boxes /\ boxes[m.to] = Append(old(m.to), m)
             /\ boxes = [r \in DOMAIN boxes |-> boxes[r]]
<1> DEFINE old(r) == IF r \in DOMAIN inbox THEN inbox[r] ELSE <<>>
<1>1. \A r : old(r) \in Seq(Msg)
  BY DEF BusType
<1>2. \A r : old(r) \o <<>> = old(r) /\ old(r) \o <<m>> = Append(old(r), m)
  BY <1>1
<1>3. m.to \in Peer \cup {Everyone}
  BY DEF Msg
<1> HIDE DEF old
<1>4. CASE m.to = Everyone
  <2>1. Delivered(inbox, m) = [r \in DOMAIN inbox |-> Append(inbox[r], m)]
    BY <1>4 DEF Delivered
  <2>2. \A r \in DOMAIN inbox : old(r) = inbox[r]
    BY DEF old
  <2> QED BY <1>4, <2>1, <2>2 DEF BusType, old
<1>5. CASE m.to # Everyone
  <2>1. Delivered(inbox, m) =
          [r \in DOMAIN inbox \cup {m.to} |-> old(r) \o (IF r = m.to THEN <<m>> ELSE <<>>)]
    BY <1>5 DEF Delivered, old
  <2>2. Delivered(inbox, m) =
          [r \in DOMAIN inbox \cup {m.to} |-> IF r = m.to THEN Append(old(r), m) ELSE old(r)]
    BY <1>2, <2>1
  <2> QED BY <1>3, <1>5, <2>2 DEF BusType, old
<1> QED BY <1>4, <1>5 DEF old

LEMMA DeliverStep == ASSUME BusInv, NEW a \in Peer, Deliver(a) PROVE BusInv'
<1>1. /\ sending[a].step = "deliver" /\ UNCHANGED <<trace, rows, clock, cleared, unsaved, lost>>
      /\ BusType /\ clock \in Nat /\ sending[a] \in Call /\ sending[a] # Idle
  BY InCall DEF Deliver, BusInv, BusType
<1>2. UNCHANGED <<Msg, Row, Call>>
  BY <1>1 DEF Msg, Row, Call
<1>3. PICK m \in Msg : m = sending[a].msg
  BY <1>1 DEF Call
<1>4. history' = Append(history, m) /\ inbox' = Delivered(inbox, m) /\ delivered' = delivered \cup {m}
  BY <1>3 DEF Deliver
<1>5. /\ sending' \in [Peer -> {Idle} \cup Call] /\ \A b \in Peer \ {a} : sending'[b] = sending[b]
      /\ sending'[a].step = "save" /\ sending'[a].msg = m /\ sending'[a] # Idle
  <2> DEFINE call == [sending[a] EXCEPT !.step = "save"]
  <2>1. call \in Call /\ call.step = "save" /\ call.msg = m
    BY <1>1, <1>3 DEF Call
  <2>2. sending' = [sending EXCEPT ![a] = call]
    BY <1>1 DEF Deliver, BusType
  <2> HIDE DEF call
  <2> QED BY <1>1, <2>1, <2>2 DEF BusType, Idle
<1> DEFINE old(r) == IF r \in DOMAIN inbox THEN inbox[r] ELSE <<>>
<1>6. /\ DOMAIN inbox \subseteq DOMAIN inbox' /\ DOMAIN inbox' \subseteq Peer
      /\ \A r \in DOMAIN inbox' : inbox'[r] = old(r) \/ inbox'[r] = Append(old(r), m)
      /\ m.to # Everyone => m.to \in DOMAIN inbox' /\ inbox'[m.to] = Append(old(m.to), m)
      /\ inbox' = [r \in DOMAIN inbox' |-> inbox'[r]]
  BY <1>1, <1>4, Boxes
<1>7. \A r : /\ old(r) \in Seq(Msg)
             /\ Append(old(r), m) \in Seq(Msg) /\ ToSet(Append(old(r), m)) = ToSet(old(r)) \cup {m}
  <2>1. \A r : old(r) \in Seq(Msg)
    BY <1>1 DEF BusType
  <2> HIDE DEF old
  <2> QED BY <2>1, Elements
<1>8. /\ history \in Seq(Msg) /\ history' \in Seq(Msg)
      /\ ToSet(history') = ToSet(history) \cup {m}
  BY <1>1, <1>4, Elements DEF BusType
<1>9. New(m) /\ \A p \in rows : p.id # m.at
  BY <1>1, <1>3 DEF BusInv, CallInv
<1>10. BusType'
  <2>1. inbox' \in [DOMAIN inbox' -> Seq(Msg)]
    BY <1>6, <1>7
  <2> QED BY <1>1, <1>2, <1>5, <1>6, <1>8, <2>1 DEF BusType
<1>11. \A r \in DOMAIN inbox : old(r) = inbox[r]
  OBVIOUS
<1>12. LedgerInv'
  <2>1. \A x : Survives(x) => Survives(x)'
    BY <1>1, <1>6, <1>7, <1>11 DEF Survives
  <2>2. \A x : Recorded(x) => Recorded(x)'
    BY <1>1, <1>5 DEF Recorded
  <2>3. Survives(m)' /\ Recorded(m)'
    BY <1>5, <1>6, <1>7 DEF Survives, Recorded
  <2> QED BY <1>4, <2>1, <2>2, <2>3 DEF BusInv, LedgerInv
<1>14. RowInv'
  BY <1>1 DEF BusInv, RowInv
<1>15. QuestionFirst'
  <2> SUFFICES ASSUME NEW i \in 1 .. Len(history'), NEW j \in 1 .. Len(history'),
                      history'[j].re = history'[i].at
               PROVE  i < j
    BY DEF QuestionFirst
  <2> DEFINE n == Len(history)
  <2>1. /\ n \in Nat /\ i \in 1 .. n + 1 /\ j \in 1 .. n + 1
        /\ \A k \in 1 .. n : history'[k] = history[k] /\ history[k] \in ToSet(history)
        /\ history'[n + 1] = m
    BY <1>4, <1>8 DEF ToSet
  <2>2. m.re < m.at /\ m.re \in Nat /\ m.at \in Nat
    BY <1>1 DEF Msg
  <2>3. \A k \in 1 .. n : history'[k].re # m.at
    BY <1>9, <2>1 DEF New
  <2>4. CASE i \in 1 .. n /\ j \in 1 .. n
    BY <2>1, <2>4 DEF BusInv, QuestionFirst
  <2>5. CASE i = n + 1
    BY <2>1, <2>2, <2>3, <2>5
  <2>6. CASE i # n + 1 /\ j = n + 1
    BY <2>1, <2>6
  <2> QED BY <2>1, <2>4, <2>5, <2>6
<1>16. DeliveredOnce'
  <2> SUFFICES ASSUME NEW r \in DOMAIN inbox'
               PROVE  \A i, j \in 1 .. Len(inbox'[r]) : inbox'[r][i].at = inbox'[r][j].at => i = j
    BY DEF DeliveredOnce
  <2>1. \A i, j \in 1 .. Len(old(r)) : old(r)[i].at = old(r)[j].at => i = j
    BY DEF BusInv, DeliveredOnce
  <2>2. \A x \in ToSet(old(r)) : x.at # m.at
    BY <1>9 DEF New, ToSet
  <2> HIDE DEF old
  <2> QED BY <1>6, <1>7, <2>1, <2>2, OnceMore
<1>17. CallInv'
  <2> SUFFICES ASSUME NEW b \in Peer, sending'[b] # Idle
               PROVE  /\ \A c \in Peer \ {b} : sending'[c] # Idle => sending'[c].msg.at # sending'[b].msg.at
                      /\ sending'[b].step # "ask" => \A p \in rows' : p.id # sending'[b].msg.at
                      /\ sending'[b].step = "deliver" => New(sending[b].msg)'
    BY DEF CallInv
  <2>1. \A c \in Peer : sending'[c] # Idle => sending[c] # Idle /\ sending'[c].msg = sending[c].msg
    BY <1>1, <1>3, <1>5
  <2>2. \A c \in Peer \ {b} : sending'[c] # Idle => sending'[c].msg.at # sending'[b].msg.at
    BY <2>1 DEF BusInv, CallInv
  <2>3. ASSUME sending'[b].step # "ask" PROVE \A p \in rows' : p.id # sending'[b].msg.at
    BY <1>1, <1>5, <1>9, <2>1, <2>3 DEF BusInv, CallInv
  <2>5. ASSUME sending'[b].step = "deliver" PROVE New(sending[b].msg)'
    <3>1. b # a /\ sending'[b] = sending[b] /\ New(sending[b].msg)
      BY <1>5, <2>1, <2>5 DEF BusInv, CallInv
    <3>2. sending[b].msg.at # m.at /\ sending[b].msg.at # m.re
      <4>1. sending[b].msg.at # m.at
        BY <1>1, <1>3, <2>1, <3>1 DEF BusInv, CallInv
      <4>2. sending[b].msg.at # m.re
        BY <1>1, <1>3, <3>1 DEF New
      <4> QED BY <4>1, <4>2
    <3>3. \A x \in ToSet(history') : sending[b].msg.at # x.at /\ sending[b].msg.at # x.re
      BY <1>8, <3>1, <3>2 DEF New
    <3>4. \A r \in DOMAIN inbox' : \A x \in ToSet(inbox'[r]) : x.at # sending[b].msg.at
      <4>1. \A r \in DOMAIN inbox' : \A x \in ToSet(old(r)) : x.at # sending[b].msg.at
        BY <3>1 DEF New, ToSet
      <4>2. \A r \in DOMAIN inbox' : ToSet(inbox'[r]) \subseteq ToSet(old(r)) \cup {m}
        BY <1>6, <1>7
      <4> HIDE DEF old
      <4> QED BY <3>2, <4>1, <4>2
    <3>5. \A c \in Peer : sending'[c] # Idle => sending'[c].msg.re # sending[b].msg.at
      BY <2>1, <3>1 DEF New
    <3> QED BY <3>1, <3>3, <3>4, <3>5 DEF New
  <2> QED BY <2>2, <2>3, <2>5
<1> QED BY <1>10, <1>12, <1>14, <1>15, <1>16, <1>17 DEF BusInv
-----------------------------------------------------------------------------
\* Whatever happens between the calls of the bus, they are as they were.
LEMMA CallsKeep ==
  ASSUME BusInv, UNCHANGED <<sending, history>>,
         \A r \in DOMAIN inbox' : r \in DOMAIN inbox /\ ToSet(inbox'[r]) \subseteq ToSet(inbox[r]),
         \A p \in rows' : p \in rows \/ p.id > clock
  PROVE  CallInv'
<1>1. BusType /\ clock \in Nat
  BY DEF BusInv, BusType
<1> SUFFICES ASSUME NEW a \in Peer, sending[a] # Idle
             PROVE  /\ \A b \in Peer \ {a} : sending[b] # Idle => sending[b].msg.at # sending[a].msg.at
                    /\ sending[a].step # "ask" => \A p \in rows' : p.id # sending[a].msg.at
                    /\ sending[a].step = "deliver" => New(sending[a].msg)'
  BY DEF CallInv
<1>2. sending[a] \in Call /\ sending[a].msg.at \in 1 .. clock
  BY <1>1, InCall DEF Call, Msg
<1>3. \A b \in Peer \ {a} : sending[b] # Idle => sending[b].msg.at # sending[a].msg.at
  BY DEF BusInv, CallInv
<1>4. ASSUME sending[a].step # "ask" PROVE \A p \in rows' : p.id # sending[a].msg.at
  BY <1>1, <1>2, <1>4 DEF BusInv, CallInv
<1>6. sending[a].step = "deliver" => New(sending[a].msg)'
  BY DEF BusInv, CallInv, New
<1> QED BY <1>3, <1>4, <1>6

LEMMA ReadInboxStep == ASSUME BusInv, NEW r \in Peer, ReadInbox(r) PROVE BusInv'
<1>1. /\ r \in DOMAIN inbox /\ inbox' = [inbox EXCEPT ![r] = <<>>]
      /\ cleared' = cleared \cup {<<r, m.at>> : m \in ToSet(inbox[r])}
      /\ UNCHANGED <<history, sending, trace, rows, clock, delivered, unsaved, lost>>
      /\ BusType
  BY DEF ReadInbox, ledger, BusInv
<1>2. UNCHANGED <<Msg, Row, Call>>
  BY <1>1 DEF Msg, Row, Call
<1>3. /\ inbox' \in [DOMAIN inbox -> Seq(Msg)] /\ DOMAIN inbox' = DOMAIN inbox
      /\ inbox'[r] = <<>> /\ \A q \in DOMAIN inbox \ {r} : inbox'[q] = inbox[q]
  BY <1>1 DEF BusType
<1>4. BusType'
  BY <1>1, <1>2, <1>3 DEF BusType
<1>5. LedgerInv'
  BY <1>1, <1>3, Kept
<1>6. RowInv' /\ QuestionFirst'
  BY <1>1 DEF BusInv, RowInv, QuestionFirst
<1>7. DeliveredOnce'
  BY <1>3 DEF BusInv, DeliveredOnce
<1>8. CallInv'
  <2>1. ToSet(<<>>) = {}
    BY DEF ToSet
  <2> QED BY <1>1, <1>3, <2>1, CallsKeep
<1> QED BY <1>4, <1>5, <1>6, <1>7, <1>8 DEF BusInv

LEMMA AddNoteStep == ASSUME BusInv, AddNote PROVE BusInv'
<1>1. /\ clock' = clock + 1 /\ trace' = Append(trace, clock + 1)
      /\ UNCHANGED <<history, inbox, sending, rows, cleared, delivered, unsaved, lost>>
      /\ BusType /\ clock \in Nat
  BY DEF AddNote, Make, bus, ledger, BusInv, BusType
<1>2. Msg \subseteq Msg' /\ Row \subseteq Row' /\ Call \subseteq Call'
  BY <1>1, TimePasses
<1>3. BusType'
  <2>1. history' \in Seq(Msg') /\ DOMAIN inbox' \subseteq Peer /\ inbox' \in [DOMAIN inbox' -> Seq(Msg')]
    BY <1>1, <1>2, SeqGrows DEF BusType
  <2>2. trace' \in Seq(1 .. clock')
    <3>1. trace \in Seq(1 .. clock') /\ clock + 1 \in 1 .. clock'
      BY <1>1, SeqGrows DEF BusType
    <3> QED BY <1>1, <3>1
  <2>3. sending' \in [Peer -> {Idle} \cup Call'] /\ rows' \subseteq Row' /\ IsFiniteSet(rows')
    BY <1>1, <1>2 DEF BusType
  <2> QED BY <1>1, <2>1, <2>2, <2>3 DEF BusType
<1>4. LedgerInv'
  BY <1>1, Kept
<1>5. RowInv' /\ QuestionFirst' /\ DeliveredOnce'
  BY <1>1 DEF BusInv, RowInv, QuestionFirst, DeliveredOnce
<1>6. CallInv'
  BY <1>1, CallsKeep
<1> QED BY <1>3, <1>4, <1>5, <1>6 DEF BusInv

LEMMA SaveSessionStep == ASSUME BusInv, SaveSession PROVE BusInv'
<1> DEFINE copies == {CopyOf(i) : i \in 1 .. Len(trace)}
<1>1. /\ rows' = rows \cup copies /\ clock' = clock + Len(trace)
      /\ UNCHANGED <<history, inbox, sending, trace, cleared, delivered, unsaved, lost>>
      /\ BusType /\ clock \in Nat /\ Len(trace) \in Nat /\ clock' \in Nat /\ clock <= clock'
  BY DEF SaveSession, bus, ledger, BusInv, BusType
<1>2. Msg \subseteq Msg' /\ Row \subseteq Row' /\ Call \subseteq Call' /\ 1 .. clock \subseteq 1 .. clock'
  BY <1>1, TimePasses
<1>3. \A i \in 1 .. Len(trace) : CopyOf(i) \in Row' /\ CopyOf(i).id = clock + i /\ CopyOf(i).msg.to = Everyone
  <2> SUFFICES ASSUME NEW i \in 1 .. Len(trace)
               PROVE  CopyOf(i) \in Row' /\ CopyOf(i).id = clock + i /\ CopyOf(i).msg.to = Everyone
    OBVIOUS
  <2>1. trace[i] \in 1 .. clock
    BY <1>1 DEF BusType
  <2>2. [at |-> trace[i], to |-> Everyone, re |-> 0] \in Msg'
    BY <1>1, <1>2, <2>1 DEF Msg
  <2>3. clock + i \in 1 .. clock'
    BY <1>1
  <2> QED BY <2>2, <2>3 DEF CopyOf, Original, Row
<1>4. \A p \in copies : p \in Row' /\ p.id > clock /\ p.msg.to = Everyone
  BY <1>1, <1>3
<1>5. \A p, q \in copies : p.id = q.id => p = q
  <2> SUFFICES ASSUME NEW i \in 1 .. Len(trace), NEW j \in 1 .. Len(trace), CopyOf(i).id = CopyOf(j).id
               PROVE  CopyOf(i) = CopyOf(j)
    OBVIOUS
  <2>1. i = j
    BY <1>1, <1>3
  <2> QED BY <2>1
<1>6. IsFiniteSet(rows')
  <2>1. IsFiniteSet(1 .. Len(trace))
    BY <1>1, FS_Interval
  <2> DEFINE copy == [i \in 1 .. Len(trace) |-> CopyOf(i)]
  <2>2. copy \in Surjection(1 .. Len(trace), copies)
    BY DEF Surjection
  <2> HIDE DEF copy, copies
  <2>3. IsFiniteSet(copies)
    BY <2>1, <2>2, FS_Surjection
  <2> QED BY <1>1, <2>3, FS_Union DEF BusType, copies
<1> HIDE DEF copies
<1>7. BusType'
  <2>1. history' \in Seq(Msg') /\ DOMAIN inbox' \subseteq Peer /\ inbox' \in [DOMAIN inbox' -> Seq(Msg')]
    BY <1>1, <1>2, SeqGrows DEF BusType
  <2>2. trace' \in Seq(1 .. clock')
    BY <1>1, <1>2, SeqGrows DEF BusType
  <2>3. sending' \in [Peer -> {Idle} \cup Call'] /\ rows' \subseteq Row'
    BY <1>1, <1>2, <1>4 DEF BusType
  <2> QED BY <1>1, <1>6, <2>1, <2>2, <2>3 DEF BusType
<1>8. LedgerInv'
  BY <1>1, Kept
<1>9. RowInv'
  <2>1. \A p \in rows : p.id \in 1 .. clock
    BY <1>1 DEF BusType, Row
  <2>2. \A p, q \in rows' : p.id = q.id => p = q
    BY <1>1, <1>4, <1>5, <2>1 DEF BusInv, RowInv
  <2>3. \A p \in rows' : p.msg.to # Everyone => p.id = p.msg.at
    BY <1>1, <1>4 DEF BusInv, RowInv
  <2> QED BY <2>2, <2>3 DEF RowInv
<1>10. QuestionFirst' /\ DeliveredOnce'
  BY <1>1 DEF BusInv, QuestionFirst, DeliveredOnce
<1>11. CallInv'
  BY <1>1, <1>4, CallsKeep
<1> QED BY <1>7, <1>8, <1>9, <1>10, <1>11 DEF BusInv
-----------------------------------------------------------------------------
\* What is loaded: the messages of the rows, each in its place.
LEMMA Loaded ==
  ASSUME BusType, RowInv, NEW S \in SUBSET rows
  PROVE  /\ InOrder(S) \in Seq(Msg) /\ ToSet(InOrder(S)) = {p.msg : p \in S}
         /\ \A i, j \in 1 .. Len(InOrder(S)) : InOrder(S)[i].at < InOrder(S)[j].at => i < j
         /\ (\A p, q \in S : p.msg.at = q.msg.at => p = q) =>
              \A i, j \in 1 .. Len(InOrder(S)) : InOrder(S)[i].at = InOrder(S)[j].at => i = j
<1>1. Sortable(S)
  <2>1. IsFiniteSet(S)
    BY FS_Subset DEF BusType
  <2>2. Row \subseteq [id : Nat, msg : [at : Nat, to : Peer \cup {Everyone}, re : Nat]]
    BY DEF BusType, Row, Msg
  <2> QED BY <2>1, <2>2 DEF Sortable, BusType, RowInv
<1> DEFINE n == Cardinality(S)
<1>2. PICK row \in [1 .. n -> S] :
        /\ n \in Nat
        /\ InOrder(S) = [i \in 1 .. n |-> row[i].msg]
        /\ \A p \in S : \E i \in 1 .. n : row[i] = p
        /\ \A i, j \in 1 .. n : row[i] = row[j] => i = j
        /\ \A i, j \in 1 .. n : row[i].msg.at < row[j].msg.at => i < j
  BY <1>1, Ordered
<1> HIDE DEF n
<1>3. \A i \in 1 .. n : row[i] \in S /\ row[i].msg \in Msg
  BY DEF BusType, Row
<1>4. InOrder(S) \in Seq(Msg) /\ Len(InOrder(S)) = n /\ \A i \in 1 .. n : InOrder(S)[i] = row[i].msg
  BY <1>2, <1>3
<1>5. ToSet(InOrder(S)) = {p.msg : p \in S}
  BY <1>2, <1>3 DEF ToSet
<1> QED BY <1>2, <1>3, <1>4, <1>5

LEMMA ResumeWorkflowStep == ASSUME BusInv, ResumeWorkflow PROVE BusInv'
<1> DEFINE direct(r) == {p \in rows : p.msg.to = r}
<1>1. /\ history' = InOrder(rows) /\ inbox' = LoadedInboxes /\ sending' = [a \in Peer |-> Idle]
      /\ trace' \in {[i \in 1 .. Len(InOrder(rows)) |-> InOrder(rows)[i].at], <<>>}
      /\ UNCHANGED <<rows, clock, delivered, unsaved>>
      /\ lost' = lost \cup unsaved \cup {sending[a].msg : a \in {b \in Peer : sending[b].step = "save"}}
      /\ BusType /\ RowInv
  BY DEF ResumeWorkflow, GetMessages, BusInv
<1>2. UNCHANGED <<Msg, Row, Call>>
  BY <1>1 DEF Msg, Row, Call
<1>3. /\ InOrder(rows) \in Seq(Msg) /\ ToSet(InOrder(rows)) = {p.msg : p \in rows}
      /\ \A i, j \in 1 .. Len(InOrder(rows)) : InOrder(rows)[i].at < InOrder(rows)[j].at => i < j
  BY <1>1, Loaded
<1>4. inbox' = [r \in {a \in Peer : direct(a) # {}} |-> InOrder(direct(r))]
  BY <1>1 DEF LoadedInboxes
<1>5. \A r \in Peer : /\ InOrder(direct(r)) \in Seq(Msg)
                       /\ ToSet(InOrder(direct(r))) = {p.msg : p \in direct(r)}
                       /\ \A i, j \in 1 .. Len(InOrder(direct(r))) :
                            InOrder(direct(r))[i].at = InOrder(direct(r))[j].at => i = j
  <2> SUFFICES ASSUME NEW r \in Peer
               PROVE  /\ InOrder(direct(r)) \in Seq(Msg)
                      /\ ToSet(InOrder(direct(r))) = {p.msg : p \in direct(r)}
                      /\ \A i, j \in 1 .. Len(InOrder(direct(r))) :
                           InOrder(direct(r))[i].at = InOrder(direct(r))[j].at => i = j
    OBVIOUS
  <2>1. direct(r) \in SUBSET rows
    OBVIOUS
  <2>2. \A p, q \in direct(r) : p.msg.at = q.msg.at => p = q
    BY <1>1, MessagingAssumption DEF RowInv
  <2> HIDE DEF direct
  <2> QED BY <1>1, <2>1, <2>2, Loaded
<1>6. \A p \in rows : p.msg \in Msg /\ p.msg.to \in Peer \cup {Everyone}
  BY <1>1 DEF BusType, Row, Msg
<1>7. /\ DOMAIN inbox' = {a \in Peer : direct(a) # {}}
      /\ \A r \in DOMAIN inbox' : r \in Peer /\ inbox'[r] = InOrder(direct(r))
  BY <1>4
<1>8. BusType'
  <2>1. trace' \in Seq(1 .. clock)
    <3>1. \A i \in 1 .. Len(InOrder(rows)) : InOrder(rows)[i].at \in 1 .. clock
      BY <1>3 DEF Msg
    <3>2. Len(InOrder(rows)) \in Nat
      BY <1>3
    <3>3. CASE trace' = [i \in 1 .. Len(InOrder(rows)) |-> InOrder(rows)[i].at]
      <4> DEFINE n == Len(InOrder(rows))
                 at(i) == InOrder(rows)[i].at
      <4>1. n \in Nat /\ \A i \in 1 .. n : at(i) \in 1 .. clock
        BY <3>1, <3>2
      <4>2. trace' = [i \in 1 .. n |-> at(i)]
        BY <3>3
      <4> HIDE DEF n, at
      <4> QED BY <4>1, <4>2
    <3>4. CASE trace' = <<>>
      BY <3>4
    <3>5. trace' = [i \in 1 .. Len(InOrder(rows)) |-> InOrder(rows)[i].at] \/ trace' = <<>>
      BY <1>1
    <3> QED BY <3>3, <3>4, <3>5
  <2>2. inbox' \in [DOMAIN inbox' -> Seq(Msg)] /\ DOMAIN inbox' \subseteq Peer
    <3> HIDE DEF direct
    <3> QED BY <1>4, <1>5, <1>7
  <2>3. sending' \in [Peer -> {Idle} \cup Call]
    BY <1>1
  <2> QED BY <1>1, <1>2, <1>3, <2>1, <2>2, <2>3 DEF BusType
<1>9. \A p \in rows : p.msg.to # Everyone => p.msg.to \in DOMAIN inbox' /\ p.msg \in ToSet(inbox'[p.msg.to])
  <2> SUFFICES ASSUME NEW p \in rows, p.msg.to # Everyone
               PROVE  p.msg.to \in DOMAIN inbox' /\ p.msg \in ToSet(inbox'[p.msg.to])
    OBVIOUS
  <2>1. p.msg.to \in Peer /\ p \in direct(p.msg.to)
    BY <1>6
  <2> QED BY <1>5, <1>7, <2>1
<1>10. RowInv' /\ LedgerInv'
  <2>1. RowInv'
    BY <1>1 DEF RowInv
  <2> SUFFICES ASSUME NEW m \in delivered, m.to # Everyone
               PROVE  Survives(m)' /\ Recorded(m)'
    BY <1>1, <2>1 DEF LedgerInv, Survives, Recorded
  <2>2. m \in lost' \/ \E p \in rows : p.msg = m
    BY <1>1 DEF BusInv, LedgerInv, Recorded
  <2>3. m \in lost' \/ (m.to \in DOMAIN inbox' /\ m \in ToSet(inbox'[m.to]))
    BY <1>9, <2>2
  <2>4. Recorded(m)'
    BY <1>1, <2>2 DEF Recorded
  <2> QED BY <2>3, <2>4 DEF Survives
<1>11. CallInv'
  BY <1>1 DEF CallInv
<1>12. QuestionFirst'
  <2> SUFFICES ASSUME NEW i \in 1 .. Len(history'), NEW j \in 1 .. Len(history'),
                      history'[j].re = history'[i].at
               PROVE  i < j
    BY DEF QuestionFirst
  <2>1. history'[i] \in Msg /\ history'[j] \in Msg
    BY <1>1, <1>3
  <2>2. history'[i].at < history'[j].at
    BY <2>1 DEF Msg
  <2> QED BY <1>1, <1>3, <2>2
<1>13. DeliveredOnce'
  <2> HIDE DEF direct
  <2> QED BY <1>5, <1>7 DEF DeliveredOnce
<1> QED BY <1>8, <1>10, <1>11, <1>12, <1>13 DEF BusInv

LEMMA BusStepInv == ASSUME BusInv, [BusNext]_busVars PROVE BusInv'
<1>1. CASE UNCHANGED busVars
  <2>1. UNCHANGED <<history, inbox, sending, trace, rows, clock, cleared, delivered, unsaved, lost>>
    BY <1>1 DEF busVars, bus, ledger
  <2>2. UNCHANGED <<Msg, Row, Call>>
    BY <2>1 DEF Msg, Row, Call
  <2>3. LedgerInv'
    BY <2>1, Kept
  <2>4. BusType' /\ RowInv' /\ QuestionFirst' /\ DeliveredOnce'
    BY <2>1, <2>2 DEF BusInv, BusType, RowInv, QuestionFirst, DeliveredOnce
  <2>5. CallInv'
    BY <2>1, CallsKeep
  <2> QED BY <2>3, <2>4, <2>5 DEF BusInv
<1>2. ASSUME NEW a \in Peer, Compose(a) \/ Deliver(a) \/ Store(a) \/ Answer(a) \/ ReadInbox(a) PROVE BusInv'
  BY <1>2, ComposeStep, DeliverStep, StoreStep, AnswerStep, ReadInboxStep
<1> QED BY <1>1, <1>2, AddNoteStep, SaveSessionStep, ResumeWorkflowStep DEF BusNext
-----------------------------------------------------------------------------
\* The invariant: what has been delivered waits in the inboxes and is stored or
\* being stored, but for what failing writes and reloads have cost; what is being
\* sent is in none of them.
THEOREM BusInvariance == BusSpec => []BusInv
BY BusInitInv, BusStepInv, PTL DEF BusSpec

\* A message for one agent waits in its inbox until it is cleared, or until the
\* session is loaded again when its dual write has failed or had not come yet.
THEOREM DirectWaits == BusSpec => []DirectSurvives
<1>1. BusInv => DirectSurvives
  BY DEF BusInv, LedgerInv, Survives, DirectSurvives
<1> QED BY <1>1, BusInvariance, PTL

\* No reader finds a message twice, however often it was saved.
THEOREM NoneTwice == BusSpec => []DeliveredOnce
<1>1. BusInv => DeliveredOnce
  BY DEF BusInv
<1> QED BY <1>1, BusInvariance, PTL

\* An answer comes after its question, be the history delivered or loaded.
THEOREM AnswerLast == BusSpec => []QuestionFirst
<1>1. BusInv => QuestionFirst
  BY DEF BusInv
<1> QED BY <1>1, BusInvariance, PTL
=============================================================================

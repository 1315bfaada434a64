-------------------------- MODULE MCPManagerProofs --------------------------
(***************************************************************************)
(* The breaker of MCPManager for any number of threads, any threshold and  *)
(* any number of trials: it stays consistent and accounts for its trials.  *)
(***************************************************************************)
EXTENDS MCPManager, FiniteSetTheorems, TLAPS

\* Nobody who reconnects holds a trial: the failure that made it reconnect ended the period.
ReconnectInv ==
  \A c \in Thread : /\ left[c] > 0 => c \notin probes /\ pc[c] \in {"stop", "start", "connect", "restarted"}
                    /\ pc[c] \in {"stop", "restarted"} => left[c] > 0

HolderInv == \A c \in probes : pc[c] \in Reporting \cup {"name"} \/ (c \in Dispatched /\ pc[c] = "call")

\* Only the dispatcher's calls go through it.
DispatchInv == \A c \in Thread : pc[c] \in {"claim", "fallback", "call"} => c \in Dispatched

CountInv ==
  /\ breaker.state = "HALF_OPEN" => breaker.trials = Cardinality(probes) + dropped
  /\ breaker.state # "HALF_OPEN" => probes = {} /\ dropped = 0

Inv == TypeOK /\ BreakerConsistent /\ CountInv /\ HolderInv /\ ReconnectInv /\ DispatchInv

\* What a method may assume of the breaker b it is called on, and leaves behind.
Sound(b) == /\ b \in Breaker
            /\ b.state = "CLOSED" => b.failures < Threshold
            /\ b.state # "HALF_OPEN" => b.trials = 0
            /\ b.expired => b.state = "OPEN"

\* The breaker and its history are all that the counts are about.
BreakerInv == /\ breaker \in Breaker /\ probes \subseteq Thread /\ dropped \in 0..MaxTrials
              /\ BreakerConsistent /\ CountInv
-----------------------------------------------------------------------------
\* What the methods of the breaker return.
LEMMA BreakerMethods ==
  ASSUME NEW b, Sound(b)
  PROVE  /\ Success(b) = Closed /\ Reset(b) = Closed
         /\ Sound(Closed) /\ Closed.state # "HALF_OPEN"
         /\ Sound(Failure(b)) /\ Failure(b).state # "HALF_OPEN"
  BY BreakerAssumption, SMT
     DEF Sound, Breaker, Closed, Success, Reset, Failure, Trip, Count, BreakerAssumption

LEMMA BreakerRefresh ==
  ASSUME NEW b, Sound(b)
  PROVE  /\ Sound(Refresh(b))
         /\ b.state = "HALF_OPEN" => Refresh(b) = b
         /\ (b.state # "HALF_OPEN" /\ Refresh(b).state = "HALF_OPEN") => Refresh(b).trials = 0
         /\ ~Allows(b) => Refresh(b) = b
         /\ (Allows(b) /\ ~IsTrial(b)) => Attempt(b) = b /\ b.state = "CLOSED"
         /\ IsTrial(b) => /\ Attempt(b) \in Breaker
                          /\ Attempt(b).state = "HALF_OPEN" /\ ~Attempt(b).expired
                          /\ Attempt(b).trials = Refresh(b).trials + 1
  <1> USE DEF Sound
  <1>1. b.failures \in 0..Threshold /\ b.trials \in 0..MaxTrials /\ b.expired \in BOOLEAN
        /\ b.state \in {"CLOSED", "OPEN", "HALF_OPEN"}
        /\ b = [state |-> b.state, failures |-> b.failures, trials |-> b.trials, expired |-> b.expired]
    BY DEF Breaker
  <1>2. Refresh(b) \in Breaker /\ (b.state = "HALF_OPEN" => Refresh(b) = b)
    BY <1>1, BreakerAssumption, SMT DEF Refresh, Breaker, BreakerAssumption
  <1>3. CASE b.state = "OPEN" /\ b.expired
    <2>1. Refresh(b).state = "HALF_OPEN" /\ Refresh(b).trials = 0 /\ Refresh(b).expired = FALSE
      BY <1>1, <1>3, SMT DEF Refresh
    <2>2. IsTrial(b)
      BY <2>1, BreakerAssumption, SMT DEF IsTrial, Allows, BreakerAssumption
    <2>3. Attempt(b) = [Refresh(b) EXCEPT !.trials = 1]
      BY <2>1, <2>2, SMT DEF Attempt
    <2>4. Attempt(b) \in Breaker /\ Attempt(b).state = "HALF_OPEN" /\ Attempt(b).expired = FALSE
          /\ Attempt(b).trials = 1
      BY <1>2, <2>1, <2>3, BreakerAssumption, SMT DEF Breaker, BreakerAssumption
    <2> QED
      BY <1>2, <1>3, <2>1, <2>2, <2>4, SMT DEF IsTrial
  <1>4. CASE ~(b.state = "OPEN" /\ b.expired)
    <2>1. Refresh(b) = b
      BY <1>4, SMT DEF Refresh
    <2>2. IsTrial(b) => b.state = "HALF_OPEN" /\ b.trials < MaxTrials
      BY <2>1, SMT DEF IsTrial, Allows
    <2>3. IsTrial(b) => Attempt(b) = [b EXCEPT !.trials = b.trials + 1]
      BY <2>1, SMT DEF Attempt
    <2>4. IsTrial(b) => /\ Attempt(b) \in Breaker /\ Attempt(b).state = "HALF_OPEN"
                        /\ ~Attempt(b).expired /\ Attempt(b).trials = b.trials + 1
      BY <1>1, <2>2, <2>3, BreakerAssumption, SMT DEF Breaker, BreakerAssumption
    <2>5. Allows(b) /\ ~IsTrial(b) => Attempt(b) = b /\ b.state = "CLOSED"
      BY <2>1, SMT DEF Attempt, IsTrial, Allows
    <2> QED
      BY <1>1, <2>1, <2>4, <2>5, SMT
  <1> QED
    BY <1>3, <1>4
-----------------------------------------------------------------------------
\* What the steps of a thread do to the breaker and to the history of trials.
LEMMA BreakerSteps ==
  ASSUME BreakerInv, NEW c \in Thread
  PROVE  /\ Becomes(Success(breaker)) => BreakerInv' /\ probes' = {}
         /\ Becomes(Reset(breaker)) => BreakerInv' /\ probes' = {}
         /\ Becomes(Success(Reset(breaker))) => BreakerInv' /\ probes' = {}
         /\ Becomes(Failure(breaker)) => BreakerInv' /\ probes' = {}
         /\ Becomes(Failure(Reset(breaker))) => BreakerInv' /\ probes' = {}
         /\ Becomes(Refresh(breaker)) => BreakerInv' /\ probes' = probes
  <1>1. /\ Sound(breaker)
        /\ breaker.state # "HALF_OPEN" => probes = {} /\ dropped = 0
        /\ breaker.state = "HALF_OPEN" => breaker.trials = Cardinality(probes) + dropped
    BY DEF BreakerInv, BreakerConsistent, CountInv, Sound
  <1>2. Cardinality({}) = 0 /\ 0 \in 0..MaxTrials
    BY FS_EmptySet, BreakerAssumption, SMT DEF BreakerAssumption
  <1>3. ASSUME NEW b, Sound(b), b.state # "HALF_OPEN", Becomes(b)
        PROVE  BreakerInv' /\ probes' = {}
    BY <1>2, <1>3, SMT DEF Sound, BreakerInv, BreakerConsistent, CountInv, Becomes
  <1>4. Success(Reset(breaker)) = Closed
    BY DEF Success, Reset
  <1>5. ASSUME Becomes(Refresh(breaker))
        PROVE  BreakerInv' /\ probes' = probes
    <2>1. CASE breaker.state = "HALF_OPEN"
      <3>1. breaker' = breaker /\ probes' = probes /\ dropped' = dropped
        BY <1>1, <1>5, <2>1, BreakerRefresh, Zenon DEF Becomes
      <3> QED
        BY <3>1 DEF BreakerInv, BreakerConsistent, CountInv
    <2>2. CASE breaker.state # "HALF_OPEN"
      <3>1. breaker' = Refresh(breaker) /\ probes' = {} /\ dropped' = 0
        BY <1>5, <2>2 DEF Becomes
      <3>2. probes = {}
        BY <1>1, <2>2
      <3>3. Sound(Refresh(breaker)) /\ (Refresh(breaker).state = "HALF_OPEN" => Refresh(breaker).trials = 0)
        BY <1>1, <2>2, BreakerRefresh
      <3> QED
        BY <3>1, <3>2, <3>3, <1>2, SMT DEF Sound, BreakerInv, BreakerConsistent, CountInv
    <2> QED
      BY <2>1, <2>2
  <1>6. /\ Success(breaker) = Closed /\ Reset(breaker) = Closed
        /\ Sound(Closed) /\ Closed.state # "HALF_OPEN"
        /\ Sound(Failure(breaker)) /\ Failure(breaker).state # "HALF_OPEN"
        /\ Sound(Failure(Reset(breaker))) /\ Failure(Reset(breaker)).state # "HALF_OPEN"
    BY <1>1, BreakerMethods
  <1> QED
    BY <1>3, <1>4, <1>5, <1>6, Zenon

\* A trial that is not going to be reported leaves the count as it is.
LEMMA DropSteps ==
  ASSUME BreakerInv, NEW c \in Thread, IsFiniteSet(Thread), Drops(c), breaker' = breaker
  PROVE  BreakerInv' /\ probes' \subseteq probes /\ c \notin probes'
  <1>1. /\ breaker \in Breaker /\ probes \subseteq Thread /\ dropped \in 0..MaxTrials
        /\ breaker.state # "HALF_OPEN" => probes = {} /\ dropped = 0
        /\ breaker.state = "HALF_OPEN" => breaker.trials = Cardinality(probes) + dropped
    BY DEF BreakerInv, BreakerConsistent, CountInv
  <1>2. MaxTrials \in Nat
    BY BreakerAssumption DEF BreakerAssumption
  <1>3. IsFiniteSet(probes) /\ Cardinality(probes) \in Nat
    BY <1>1, FS_Subset, FS_CardinalityType, Zenon
  <1>4. Cardinality(probes \ {c}) = IF c \in probes THEN Cardinality(probes) - 1 ELSE Cardinality(probes)
    BY <1>3, FS_RemoveElement, Zenon
  <1>5. CASE c \in probes
    <2>1. probes' = probes \ {c} /\ dropped' = dropped + 1 /\ breaker.state = "HALF_OPEN"
      BY <1>1, <1>5 DEF Drops
    <2>2. breaker.trials \in 0..MaxTrials /\ Cardinality(probes) - 1 \in Nat
      BY <1>1, <1>3, <1>4, <1>5, FS_Subset, FS_CardinalityType, FS_RemoveElement, SMT DEF Breaker
    <2>3. breaker.trials = Cardinality(probes') + dropped' /\ dropped' \in 0..MaxTrials
      BY <1>1, <1>2, <1>3, <1>4, <1>5, <2>1, <2>2, SMT
    <2> QED
      BY <1>1, <2>1, <2>3, SMT DEF BreakerInv, BreakerConsistent, CountInv
  <1>6. CASE c \notin probes
    <2>1. UNCHANGED <<breaker, probes, dropped>>
      BY <1>6 DEF Drops
    <2> QED
      BY <1>6, <2>1 DEF BreakerInv, BreakerConsistent, CountInv
  <1> QED
    BY <1>5, <1>6

\* A thread that holds no trial, or is about to make its call, asks for one.
LEMMA AskSteps ==
  ASSUME BreakerInv, NEW c \in Thread, IsFiniteSet(Thread)
  PROVE  /\ Admitted(c) => BreakerInv' /\ probes' \subseteq probes \cup {c}
         /\ Refused(c) => /\ BreakerInv' /\ probes' \subseteq probes
                          /\ pc[c] = "call" => c \notin probes'
  <1>1. /\ Sound(breaker) /\ breaker \in Breaker
        /\ probes \subseteq Thread /\ dropped \in 0..MaxTrials
        /\ breaker.state # "HALF_OPEN" => probes = {} /\ dropped = 0
        /\ breaker.state = "HALF_OPEN" => breaker.trials = Cardinality(probes) + dropped
    BY DEF BreakerInv, BreakerConsistent, CountInv, Sound
  <1>2. MaxTrials \in Nat /\ Cardinality({}) = 0 /\ IsFiniteSet({})
    BY FS_EmptySet, BreakerAssumption, SMT DEF BreakerAssumption
  <1>3. IsFiniteSet(probes) /\ Cardinality(probes) \in Nat
    BY <1>1, FS_Subset, FS_CardinalityType, Zenon
  <1>4. Cardinality(probes \cup {c}) = IF c \in probes THEN Cardinality(probes) ELSE Cardinality(probes) + 1
    BY <1>3, FS_AddElement, Zenon
  <1>5. Cardinality(probes \ {c}) = IF c \in probes THEN Cardinality(probes) - 1 ELSE Cardinality(probes)
    BY <1>3, FS_RemoveElement, Zenon
  <1>6. Cardinality({} \cup {c}) = 1 /\ {} \cup {c} = {c}
    BY <1>2, FS_AddElement, SMT
  <1>7. /\ (Allows(breaker) /\ ~IsTrial(breaker)) => Attempt(breaker) = breaker /\ breaker.state = "CLOSED"
        /\ IsTrial(breaker) => /\ Attempt(breaker) \in Breaker
                               /\ Attempt(breaker).state = "HALF_OPEN" /\ ~Attempt(breaker).expired
                               /\ Attempt(breaker).trials = Refresh(breaker).trials + 1
        /\ ~Allows(breaker) => Refresh(breaker) = breaker
        /\ breaker.state = "HALF_OPEN" => Refresh(breaker) = breaker
        /\ (breaker.state # "HALF_OPEN" /\ Refresh(breaker).state = "HALF_OPEN") => Refresh(breaker).trials = 0
    BY <1>1, BreakerRefresh, Zenon
  <1>8. ASSUME Admitted(c) PROVE BreakerInv' /\ probes' \subseteq probes \cup {c}
    <2>1. CASE ~IsTrial(breaker)
      <3>1. UNCHANGED <<breaker, probes, dropped>>
        BY <1>7, <1>8, <2>1 DEF Admitted
      <3> QED
        BY <3>1 DEF BreakerInv, BreakerConsistent, CountInv
    <2>2. CASE IsTrial(breaker) /\ breaker.state # "HALF_OPEN"
      <3>1. /\ breaker' = Attempt(breaker) /\ probes' = {c} /\ dropped' = 0
        BY <1>6, <1>8, <2>2, SMT DEF Admitted
      <3>2. Refresh(breaker).trials = 0
        BY <1>7, <2>2 DEF IsTrial
      <3>3. breaker'.trials = 1 /\ breaker' \in Breaker /\ breaker'.state = "HALF_OPEN" /\ ~breaker'.expired
        BY <1>7, <2>2, <3>1, <3>2, SMT
      <3> QED
        BY <1>2, <1>6, <3>1, <3>3, SMT DEF BreakerInv, BreakerConsistent, CountInv
    <2>3. CASE IsTrial(breaker) /\ breaker.state = "HALF_OPEN"
      <3>1. /\ breaker' = Attempt(breaker) /\ probes' = probes \cup {c}
            /\ dropped' = dropped + (IF c \in probes THEN 1 ELSE 0)
        BY <1>8, <2>3 DEF Admitted
      <3>2. /\ breaker' \in Breaker /\ breaker'.state = "HALF_OPEN" /\ ~breaker'.expired
            /\ breaker'.trials = breaker.trials + 1
        BY <1>7, <2>3, <3>1
      <3>3. breaker'.trials \in 0..MaxTrials /\ breaker'.trials = Cardinality(probes) + dropped + 1
        BY <1>1, <2>3, <3>2, SMT DEF Breaker
      <3>4. breaker'.trials = Cardinality(probes') + dropped' /\ dropped' \in 0..MaxTrials
        <4>1. CASE c \in probes
          BY <1>1, <1>2, <1>3, <1>4, <3>1, <3>3, <4>1, SMT
        <4>2. CASE c \notin probes
          BY <1>1, <1>2, <1>3, <1>4, <3>1, <3>3, <4>2, SMT
        <4> QED
          BY <4>1, <4>2
      <3> QED
        BY <1>1, <3>1, <3>2, <3>4, SMT DEF BreakerInv, BreakerConsistent, CountInv
    <2> QED
      BY <2>1, <2>2, <2>3
  <1>9. ASSUME Refused(c)
        PROVE  BreakerInv' /\ probes' \subseteq probes /\ (pc[c] = "call" => c \notin probes')
    <2>1. breaker' = breaker
      BY <1>7, <1>9 DEF Refused
    <2>2. CASE pc[c] = "call"
      BY <1>9, <2>1, <2>2, DropSteps DEF Refused
    <2>3. CASE pc[c] # "call"
      <3>1. UNCHANGED <<breaker, probes, dropped>>
        BY <1>9, <2>1, <2>3 DEF Refused
      <3> QED
        BY <2>3, <3>1 DEF BreakerInv, BreakerConsistent, CountInv
    <2> QED
      BY <2>2, <2>3
  <1> QED
    BY <1>8, <1>9
-----------------------------------------------------------------------------
\* The rest of the invariant, of a step of c that keeps the breaker's part.
LEMMA ThreadSteps ==
  ASSUME Inv, NEW c \in Thread, NEW l \in Phase, Goto(c, l), probes' \subseteq probes \cup {c}, BreakerInv',
         server' \in {"up", "poor", "dead"}, session' \in BOOLEAN, indexed' \in BOOLEAN,
         holds' \in [Thread -> {"none", "current", "other", "closed"}],
         left' \in [Thread -> 0..MaxRetries],
         \A u \in Thread \ {c} : left'[u] = left[u],
         c \in probes' => left'[c] = 0 /\ (l \in Reporting \cup {"name"} \/ (c \in Dispatched /\ l = "call")),
         left'[c] > 0 => l \in {"stop", "start", "connect", "restarted"},
         l \in {"stop", "restarted"} => left'[c] > 0,
         l \in {"claim", "fallback", "call"} => c \in Dispatched
  PROVE  Inv'
  <1>1. pc \in [Thread -> Phase] /\ probes \subseteq Thread
    BY DEF Inv, TypeOK
  <1>2. pc' \in [Thread -> Phase] /\ pc'[c] = l /\ \A u \in Thread \ {c} : pc'[u] = pc[u]
    BY <1>1 DEF Goto
  <1>3. TypeOK' /\ BreakerConsistent' /\ CountInv'
    BY <1>2 DEF BreakerInv, TypeOK
  <1>4. HolderInv'
    BY <1>1, <1>2 DEF Inv, HolderInv, BreakerInv
  <1>5. ReconnectInv'
    <2>1. c \in probes' => ~(left'[c] > 0)
      BY SMT
    <2>2. \A u \in Thread \ {c} : u \in probes' => u \in probes
      OBVIOUS
    <2> QED
      BY <1>2, <2>1, <2>2 DEF Inv, ReconnectInv
  <1>6. DispatchInv'
    BY <1>2 DEF Inv, DispatchInv
  <1> QED
    BY <1>3, <1>4, <1>5, <1>6 DEF Inv

\* An attempt to start the server that has failed.
LEMMA FailKeeps ==
  ASSUME Inv, NEW c \in Thread, pc[c] \in {"connect", "stop"}, StartFails(c),
         server' \in {"up", "poor", "dead"}, session' \in BOOLEAN, indexed' \in BOOLEAN,
         holds' \in [Thread -> {"none", "current", "other", "closed"}]
  PROVE  Inv'
  <1>1. BreakerInv /\ MaxRetries \in Nat \ {0} /\ left \in [Thread -> 0..MaxRetries]
    BY ThreadAssumption DEF Inv, TypeOK, BreakerInv, ThreadAssumption
  <1>2. left' = [left EXCEPT ![c] = IF left[c] = 0 THEN 0 ELSE left[c] - 1] /\ left[c] \in 0..MaxRetries
    BY <1>1 DEF StartFails
  <1>3. left' \in [Thread -> 0..MaxRetries] /\ \A u \in Thread \ {c} : left'[u] = left[u]
    BY <1>1, <1>2, SMT
  <1>4. "stop" \in Phase /\ "idle" \in Phase
    BY DEF Phase
  <1>5. CASE left[c] > 1
    <2>1. Goto(c, "stop") /\ UNCHANGED <<breaker, probes, dropped>>
      BY <1>5 DEF StartFails
    <2>2. BreakerInv'
      BY <1>1, <2>1 DEF BreakerInv, BreakerConsistent, CountInv
    <2>3. left[c] > 0 /\ left'[c] > 0
      BY <1>1, <1>2, <1>5, SMT
    <2>4. c \notin probes'
      BY <2>1, <2>3 DEF Inv, ReconnectInv
    <2> QED
      BY <1>3, <1>4, <2>1, <2>2, <2>3, <2>4, ThreadSteps
  <1>6. CASE ~(left[c] > 1)
    <2>1. Goto(c, "idle") /\ Becomes(Failure(breaker))
      BY <1>6 DEF StartFails
    <2>2. BreakerInv' /\ probes' = {}
      BY <1>1, <2>1, BreakerSteps
    <2>3. left'[c] = 0 /\ ~(left'[c] > 0)
      BY <1>1, <1>2, <1>6, SMT
    <2> QED
      BY <1>3, <1>4, <2>1, <2>2, <2>3, ThreadSteps
  <1> QED
    BY <1>5, <1>6

LEMMA StepKeeps == ASSUME Inv, NEW c \in Thread, Step(c) PROVE Inv'
  <1>1. /\ BreakerInv /\ IsFiniteSet(Thread) /\ MaxRetries \in Nat \ {0}
        /\ Dispatched \cap Direct = {} /\ Caller \cap Checker = {}
        /\ Dispatched \subseteq Caller /\ Direct \subseteq Caller
    BY ThreadAssumption DEF Inv, TypeOK, BreakerInv, ThreadAssumption, Caller
  <1>2. /\ server \in {"up", "poor", "dead"} /\ session \in BOOLEAN /\ indexed \in BOOLEAN
        /\ pc \in [Thread -> Phase] /\ left \in [Thread -> 0..MaxRetries]
        /\ holds \in [Thread -> {"none", "current", "other", "closed"}]
    BY DEF Inv, TypeOK
  <1>3. /\ c \in probes => pc[c] \in {"ready", "start", "connect", "index", "name", "sent", "ping"}
                            \/ (c \in Dispatched /\ pc[c] = "call")
        /\ left[c] = 0 \/ (c \notin probes /\ pc[c] \in {"stop", "start", "connect", "restarted"})
        /\ pc[c] \in {"stop", "restarted"} => left[c] > 0
        /\ pc[c] \in {"claim", "fallback", "call"} => c \in Dispatched
        /\ left[c] \in 0..MaxRetries
    BY <1>1, <1>2, SMT DEF Inv, HolderInv, ReconnectInv, DispatchInv, Reporting
  <1>4. /\ [holds EXCEPT ![c] = "none"] \in [Thread -> {"none", "current", "other", "closed"}]
        /\ [holds EXCEPT ![c] = "current"] \in [Thread -> {"none", "current", "other", "closed"}]
    BY <1>2
  <1>5. Phase = {"idle", "claim", "fallback", "call", "ready", "start", "connect", "index", "name",
                 "sent", "ping", "stop", "restarted"}
        /\ Reporting = {"ready", "start", "connect", "index", "sent", "ping"}
    BY DEF Phase, Reporting
  <1>6. ~(0 > 0)
    BY SMT
  <1>7. CASE Look(c)
    <2>1. /\ Becomes(Refresh(breaker)) /\ UNCHANGED <<server, session, indexed, holds, left>>
          /\ pc[c] = "idle" /\ (Goto(c, "fallback") \/ Goto(c, "claim")) /\ c \in Dispatched
      BY <1>7 DEF Look
    <2>2. BreakerInv' /\ probes' = probes
      BY <1>1, <2>1, BreakerSteps
    <2>3. c \notin probes' /\ left'[c] = 0
      BY <1>3, <2>1, <2>2
    <2> QED
      BY <1>2, <1>5, <1>6, <2>1, <2>2, <2>3, ThreadSteps
  <1>8. CASE Precheck(c)
    <2>1. /\ UNCHANGED <<server, session, indexed, holds, left>> /\ pc[c] = "claim"
          /\ \/ Admitted(c) /\ Goto(c, "call")
             \/ Refused(c) /\ Goto(c, "fallback")
      BY <1>8 DEF Precheck
    <2>2. c \notin probes /\ left'[c] = 0 /\ c \in Dispatched
      BY <1>3, <2>1
    <2>3. CASE Admitted(c) /\ Goto(c, "call")
      BY <1>1, <1>2, <1>5, <1>6, <2>1, <2>2, <2>3, AskSteps, ThreadSteps
    <2>4. CASE Refused(c) /\ Goto(c, "fallback")
      BY <1>1, <1>2, <1>5, <1>6, <2>1, <2>2, <2>4, AskSteps, ThreadSteps
    <2> QED
      BY <2>1, <2>3, <2>4
  <1>9. CASE Fallback(c)
    <2>1. /\ pc[c] = "fallback" /\ (Goto(c, "idle") \/ Goto(c, "call"))
          /\ UNCHANGED <<breaker, server, session, indexed, holds, left, probes, dropped>>
      BY <1>9 DEF Fallback
    <2>2. c \notin probes /\ left'[c] = 0 /\ c \in Dispatched
      BY <1>3, <2>1
    <2>3. BreakerInv'
      BY <1>1, <2>1 DEF BreakerInv, BreakerConsistent, CountInv
    <2> QED
      BY <1>2, <1>5, <1>6, <2>1, <2>2, <2>3, ThreadSteps
  <1>10. CASE Call(c)
    <2>1. /\ pc[c] = "call" \/ pc[c] = "idle"
          /\ UNCHANGED <<server, session, indexed, holds, left>>
          /\ \/ Admitted(c) /\ Goto(c, "ready")
             \/ Refused(c) /\ Goto(c, "idle")
      BY <1>10 DEF Call
    <2>2. left'[c] = 0 /\ (pc[c] # "call" => c \notin probes)
      BY <1>3, <2>1
    <2>3. CASE Admitted(c) /\ Goto(c, "ready")
      BY <1>1, <1>2, <1>5, <1>6, <2>1, <2>2, <2>3, AskSteps, ThreadSteps
    <2>4. CASE Refused(c) /\ Goto(c, "idle")
      <3>1. BreakerInv' /\ probes' \subseteq probes /\ c \notin probes'
        BY <1>1, <2>2, <2>4, AskSteps
      <3> QED
        BY <1>2, <1>5, <1>6, <2>1, <2>2, <2>4, <3>1, ThreadSteps
    <2> QED
      BY <2>1, <2>3, <2>4
  <1>11. CASE Send(c)
    <2>1. /\ pc[c] = "ready" /\ UNCHANGED <<breaker, server, session, indexed, left, probes, dropped>>
          /\ (Goto(c, "index") \/ Goto(c, "start"))
          /\ holds' \in [Thread -> {"none", "current", "other", "closed"}]
      BY <1>2, <1>4, <1>11 DEF Send
    <2>2. left'[c] = 0
      BY <1>3, <2>1
    <2>3. BreakerInv'
      BY <1>1, <2>1 DEF BreakerInv, BreakerConsistent, CountInv
    <2> QED
      BY <1>2, <1>5, <1>6, <2>1, <2>2, <2>3, ThreadSteps
  <1>12. CASE Start(c)
    <2>1. pc[c] = "start" /\ UNCHANGED <<server, session, indexed, left>>
      BY <1>12 DEF Start
    <2>2. CASE session
      <3>1. /\ holds' = [holds EXCEPT ![c] = "current"]
            /\ Goto(c, IF left[c] = 0 THEN "index" ELSE "restarted")
            /\ \/ Becomes(Reset(breaker))
               \/ left[c] = 0 /\ UNCHANGED <<breaker, probes, dropped>>
        BY <1>12, <2>2 DEF Start, Proceed
      <3>2. BreakerInv' /\ probes' \subseteq probes /\ (left[c] # 0 => c \notin probes')
        <4>1. CASE Becomes(Reset(breaker))
          BY <1>1, <4>1, BreakerSteps
        <4>2. CASE left[c] = 0 /\ UNCHANGED <<breaker, probes, dropped>>
          BY <1>1, <4>2 DEF BreakerInv, BreakerConsistent, CountInv
        <4> QED
          BY <3>1, <4>1, <4>2
      <3>3. CASE left[c] = 0
        <4>1. Goto(c, "index") /\ left'[c] = 0
          BY <2>1, <3>1, <3>3
        <4> QED
          BY <1>2, <1>4, <1>5, <1>6, <2>1, <3>1, <3>2, <4>1, ThreadSteps
      <3>4. CASE left[c] # 0
        <4>1. Goto(c, "restarted")
          BY <3>1, <3>4
        <4> QED
          BY <1>2, <1>4, <1>5, <2>1, <3>1, <3>2, <3>4, <4>1, ThreadSteps
      <3> QED
        BY <3>3, <3>4
    <2>3. CASE ~session
      <3>1. Goto(c, "connect") /\ UNCHANGED <<breaker, holds, probes, dropped>>
        BY <1>12, <2>3 DEF Start
      <3>2. BreakerInv'
        BY <1>1, <3>1 DEF BreakerInv, BreakerConsistent, CountInv
      <3>3. c \in probes' => left'[c] = 0
        BY <1>3, <2>1, <3>1
      <3> QED
        BY <1>2, <1>5, <2>1, <3>1, <3>2, <3>3, ThreadSteps
    <2> QED
      BY <2>2, <2>3
  <1>13. CASE Connect(c)
    <2>1. /\ Becomes(Reset(breaker)) /\ UNCHANGED <<server, left>> /\ session' = TRUE /\ indexed' \in BOOLEAN
          /\ Goto(c, IF left[c] = 0 THEN "index" ELSE "restarted")
          /\ holds' \in [Thread -> {"none", "current", "other", "closed"}]
      BY <1>2, <1>13 DEF Connect, Proceed
    <2>2. BreakerInv' /\ probes' = {}
      BY <1>1, <2>1, BreakerSteps
    <2>3. CASE left[c] = 0
      <3>1. Goto(c, "index") /\ left'[c] = 0
        BY <2>1, <2>3
      <3> QED
        BY <1>2, <1>5, <1>6, <2>1, <2>2, <3>1, ThreadSteps
    <2>4. CASE left[c] # 0
      <3>1. Goto(c, "restarted")
        BY <2>1, <2>4
      <3> QED
        BY <1>2, <1>5, <2>1, <2>2, <3>1, ThreadSteps
    <2> QED
      BY <2>3, <2>4
  <1>14. CASE ConnectFails(c)
    <2>1. pc[c] = "connect" /\ UNCHANGED <<server, session, indexed, holds>> /\ StartFails(c)
      BY <1>14 DEF ConnectFails
    <2> QED
      BY <1>2, <2>1, FailKeeps
  <1>15. CASE Answer(c)
    <2>1. /\ pc[c] = "sent" /\ Goto(c, "idle") /\ holds' = [holds EXCEPT ![c] = "none"]
          /\ UNCHANGED <<server, session, indexed, left>>
          /\ Becomes(Success(breaker)) \/ Becomes(Failure(breaker))
      BY <1>15 DEF Answer, Done
    <2>2. BreakerInv' /\ probes' = {} /\ left'[c] = 0
      BY <1>1, <1>3, <2>1, BreakerSteps
    <2> QED
      BY <1>2, <1>4, <1>5, <1>6, <2>1, <2>2, ThreadSteps
  <1>16. CASE CallRaises(c)
    <2>1. /\ pc[c] = "sent" /\ Becomes(Failure(breaker)) /\ UNCHANGED <<server, session, indexed>>
          /\ holds' = [holds EXCEPT ![c] = "none"]
          /\ \/ Goto(c, "idle") /\ UNCHANGED left
             \/ Goto(c, "stop") /\ left' = [left EXCEPT ![c] = MaxRetries]
      BY <1>16 DEF CallRaises, Done
    <2>2. BreakerInv' /\ probes' = {} /\ left[c] = 0
      BY <1>1, <1>3, <2>1, BreakerSteps
    <2>3. CASE Goto(c, "idle") /\ UNCHANGED left
      BY <1>2, <1>4, <1>5, <1>6, <2>1, <2>2, <2>3, ThreadSteps
    <2>4. CASE Goto(c, "stop") /\ left' = [left EXCEPT ![c] = MaxRetries]
      <3>1. /\ left' \in [Thread -> 0..MaxRetries] /\ left'[c] > 0
            /\ \A u \in Thread \ {c} : left'[u] = left[u]
        BY <1>1, <1>2, <2>4, SMT
      <3> QED
        BY <1>2, <1>4, <1>5, <2>1, <2>2, <2>4, <3>1, ThreadSteps
    <2> QED
      BY <2>1, <2>3, <2>4
  <1>17. CASE Stop(c)
    <2>1. /\ pc[c] = "stop" /\ session' = FALSE /\ indexed' \in BOOLEAN /\ UNCHANGED server
          /\ holds' \in [Thread -> {"none", "current", "other", "closed"}]
      BY <1>2, <1>17 DEF Stop, Closes
    <2>2. CASE Goto(c, "start") /\ UNCHANGED <<breaker, left, probes, dropped>>
      <3>1. BreakerInv' /\ c \notin probes'
        BY <1>1, <1>3, <2>1, <2>2 DEF BreakerInv, BreakerConsistent, CountInv
      <3> QED
        BY <1>2, <1>5, <2>1, <2>2, <3>1, ThreadSteps
    <2>3. CASE StartFails(c)
      BY <1>2, <2>1, <2>3, FailKeeps
    <2> QED
      BY <1>17, <2>2, <2>3 DEF Stop
  <1>18. CASE Restarted(c)
    <2>1. /\ Becomes(Success(Reset(breaker))) /\ Goto(c, "idle") /\ UNCHANGED <<server, session, indexed>>
          /\ holds' = [holds EXCEPT ![c] = "none"] /\ left' = [left EXCEPT ![c] = 0]
      BY <1>18 DEF Restarted, Done
    <2>2. BreakerInv' /\ probes' = {}
      BY <1>1, <2>1, BreakerSteps
    <2>3. left' \in [Thread -> 0..MaxRetries] /\ left'[c] = 0 /\ \A u \in Thread \ {c} : left'[u] = left[u]
      BY <1>1, <1>2, <2>1, SMT
    <2> QED
      BY <1>2, <1>4, <1>5, <1>6, <2>1, <2>2, <2>3, ThreadSteps
  <1>21. CASE RestartLost(c)
    <2>1. /\ pc[c] = "restarted" /\ UNCHANGED <<server, session, indexed>>
          /\ holds' = [holds EXCEPT ![c] = "none"] /\ left' = [left EXCEPT ![c] = left[c] - 1]
      BY <1>21 DEF RestartLost
    <2>2. /\ left[c] \in 1..MaxRetries /\ left'[c] = left[c] - 1
          /\ left' \in [Thread -> 0..MaxRetries] /\ \A u \in Thread \ {c} : left'[u] = left[u]
      BY <1>1, <1>2, <1>3, <2>1, SMT
    <2>3. CASE left[c] > 1
      <3>1. Goto(c, "stop") /\ Becomes(Reset(breaker))
        BY <1>21, <2>3 DEF RestartLost
      <3>2. BreakerInv' /\ probes' = {}
        BY <1>1, <3>1, BreakerSteps
      <3>3. left'[c] > 0
        BY <2>2, <2>3, SMT
      <3> QED
        BY <1>2, <1>4, <1>5, <2>1, <2>2, <3>1, <3>2, <3>3, ThreadSteps
    <2>4. CASE ~(left[c] > 1)
      <3>1. Goto(c, "idle") /\ Becomes(Failure(Reset(breaker)))
        BY <1>21, <2>4 DEF RestartLost
      <3>2. BreakerInv' /\ probes' = {}
        BY <1>1, <3>1, BreakerSteps
      <3>3. left'[c] = 0
        BY <2>2, <2>4, SMT
      <3> QED
        BY <1>2, <1>4, <1>5, <1>6, <2>1, <2>2, <3>1, <3>2, <3>3, ThreadSteps
    <2> QED
      BY <2>3, <2>4
  <1>22. CASE Index(c)
    <2>1. /\ pc[c] = "index" /\ UNCHANGED <<breaker, server, session, indexed, holds, left, probes, dropped>>
          /\ (Goto(c, "name") \/ Goto(c, "sent"))
      BY <1>22 DEF Index
    <2>2. left'[c] = 0 /\ BreakerInv'
      BY <1>1, <1>3, <2>1 DEF BreakerInv, BreakerConsistent, CountInv
    <2> QED
      BY <1>2, <1>5, <1>6, <2>1, <2>2, ThreadSteps
  <1>23. CASE Name(c)
    <2>1. pc[c] = "name" /\ UNCHANGED <<breaker, server, session, indexed, left>> /\ left'[c] = 0
      BY <1>3, <1>23 DEF Name
    <2>2. CASE Goto(c, "sent") /\ UNCHANGED <<holds, probes, dropped>>
      <3>1. BreakerInv'
        BY <1>1, <2>1, <2>2 DEF BreakerInv, BreakerConsistent, CountInv
      <3> QED
        BY <1>2, <1>5, <1>6, <2>1, <2>2, <3>1, ThreadSteps
    <2>3. CASE Goto(c, "idle") /\ holds' = [holds EXCEPT ![c] = "none"] /\ Drops(c)
      <3>1. BreakerInv' /\ probes' \subseteq probes /\ c \notin probes'
        BY <1>1, <2>1, <2>3, DropSteps
      <3> QED
        BY <1>2, <1>4, <1>5, <1>6, <2>1, <2>3, <3>1, ThreadSteps
    <2> QED
      BY <1>23, <2>2, <2>3 DEF Name, Done
  <1>19. CASE Check(c)
    <2>1. pc[c] = "idle" /\ UNCHANGED <<server, session, indexed, holds, left>>
      BY <1>19 DEF Check
    <2>2. c \notin probes /\ left'[c] = 0
      BY <1>3, <2>1
    <2>3. CASE Admitted(c) /\ Goto(c, "ping")
      BY <1>1, <1>2, <1>5, <1>6, <2>1, <2>2, <2>3, AskSteps, ThreadSteps
    <2>4. CASE ~(Admitted(c) /\ Goto(c, "ping"))
      <3>1. UNCHANGED pc /\ (Refused(c) \/ Becomes(Refresh(breaker)))
        BY <1>19, <2>4 DEF Check
      <3>2. BreakerInv' /\ probes' \subseteq probes
        BY <1>1, <3>1, AskSteps, BreakerSteps
      <3>3. Goto(c, "idle")
        BY <1>2, <2>1, <3>1 DEF Goto
      <3> QED
        BY <1>2, <1>5, <1>6, <2>1, <2>2, <3>2, <3>3, ThreadSteps
    <2> QED
      BY <2>3, <2>4
  <1>20. CASE Ping(c)
    <2>1. /\ pc[c] = "ping" /\ Becomes(Success(breaker)) /\ Goto(c, "idle")
          /\ UNCHANGED <<server, session, indexed, holds, left>>
      BY <1>20 DEF Ping
    <2>2. BreakerInv' /\ probes' = {} /\ left'[c] = 0
      BY <1>1, <1>3, <2>1, BreakerSteps
    <2> QED
      BY <1>2, <1>5, <1>6, <2>1, <2>2, ThreadSteps
  <1> QED
    BY <1>7, <1>8, <1>9, <1>10, <1>11, <1>12, <1>13, <1>14, <1>15, <1>16, <1>17, <1>18, <1>19, <1>20,
       <1>21, <1>22, <1>23
       DEF Step
-----------------------------------------------------------------------------
LEMMA InitInv == Init => Inv
  <1> SUFFICES ASSUME Init PROVE Inv
    OBVIOUS
  <1>1. MaxRetries \in Nat /\ MaxTrials \in Nat /\ Threshold \in Nat \ {0}
    BY ThreadAssumption, BreakerAssumption DEF ThreadAssumption, BreakerAssumption
  <1>2. TypeOK
    BY <1>1, SMT DEF Init, TypeOK, Closed, Breaker, Phase, Reporting
  <1>3. BreakerConsistent
    BY <1>1, SMT DEF Init, BreakerConsistent, Closed
  <1>4. CountInv
    BY DEF Init, CountInv, Closed
  <1>5. HolderInv /\ ReconnectInv /\ DispatchInv
    BY SMT DEF Init, HolderInv, ReconnectInv, DispatchInv
  <1> QED
    BY <1>2, <1>3, <1>4, <1>5 DEF Inv

\* Every reachable state satisfies the inductive invariant.
THEOREM Invariance == Spec => []Inv
  <1>1. ASSUME Inv, [Next]_vars PROVE Inv'
    <2>1. CASE UNCHANGED vars
      BY <1>1, <2>1 DEF Inv, TypeOK, BreakerConsistent, CountInv, HolderInv, ReconnectInv, DispatchInv, vars
    <2>2. CASE Crash \/ Weather \/ Reindex
      <3>1. /\ UNCHANGED <<breaker, pc, left, probes, dropped>>
            /\ server' \in {"up", "poor", "dead"} /\ session' \in BOOLEAN /\ indexed' \in BOOLEAN
            /\ holds' \in [Thread -> {"none", "current", "other", "closed"}]
        BY <1>1, <2>2 DEF Crash, Weather, Reindex, Closes, Inv, TypeOK
      <3> QED
        BY <1>1, <3>1
        DEF Inv, TypeOK, BreakerConsistent, CountInv, HolderInv, ReconnectInv, DispatchInv
    <2>3. CASE Expire
      <3>1. /\ breaker' = [breaker EXCEPT !.expired = TRUE] /\ breaker.state = "OPEN"
            /\ UNCHANGED <<server, session, indexed, pc, holds, left, probes, dropped>>
            /\ breaker \in Breaker
        BY <1>1, <2>3 DEF Expire, Inv, TypeOK
      <3>2. /\ breaker' \in Breaker /\ breaker'.state = "OPEN" /\ breaker'.trials = breaker.trials
            /\ breaker'.failures = breaker.failures
        BY <3>1 DEF Breaker
      <3> QED
        BY <1>1, <3>1, <3>2
        DEF Inv, TypeOK, BreakerConsistent, CountInv, HolderInv, ReconnectInv, DispatchInv
    <2>4. CASE \E c \in Thread : Step(c)
      BY <1>1, <2>4, StepKeeps
    <2> QED
      BY <1>1, <2>1, <2>2, <2>3, <2>4 DEF Next
  <1> QED
    BY <1>1, InitInv, PTL DEF Spec

\* Whatever the threads do, breaker, trials and reconnection attempts stay within their limits.
THEOREM TypeCorrect == Spec => []TypeOK
  <1>1. Inv => TypeOK
    BY DEF Inv
  <1> QED
    BY <1>1, Invariance, PTL

\* A closed breaker has not reached the threshold, and only a half-open one counts trials.
THEOREM Consistency == Spec => []BreakerConsistent
  <1>1. Inv => BreakerConsistent
    BY DEF Inv
  <1> QED
    BY <1>1, Invariance, PTL

\* A trial in use is held by a thread that will report it, or a dispatcher dropped it.
THEOREM Accounting == Spec => []TrialsAccounted
  <1>1. Inv => TrialsAccounted
    BY DEF Inv, TrialsAccounted, CountInv, HolderInv
  <1> QED
    BY <1>1, Invariance, PTL
=============================================================================

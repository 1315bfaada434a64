------------------------------ MODULE LLMCalls ------------------------------
(***************************************************************************)
(* Calls of language models through ResilientLLMCaller.execute             *)
(* (resilience/resilient_caller.py), from threads that share one           *)
(* ConcurrencyThrottler (llm.py) and one ProviderFailoverPool              *)
(* (resilience/provider_pool.py).                                          *)
(*                                                                         *)
(* Errors are told apart as the loop does (resilience/error_classifier.py  *)
(* puts them in these classes), and the messages are a size that           *)
(* compaction makes smaller.  Time is left out: a cooldown, a backoff and  *)
(* the window of the rate limit end at some moment.                        *)
(***************************************************************************)
EXTENDS Naturals, FiniteSets

CONSTANTS Caller,
          Endpoints,    \* endpoints 1..Endpoints, in order of priority
          Models,       \* models an endpoint is tried with
          MaxRetries,
          Slots,        \* max_concurrency
          PerMinute,    \* requests_per_minute
          Size,         \* how often compaction can make the messages smaller
          MaxCalls      \* bound: calls of execute

ASSUME CallsAssumption ==
  /\ {Endpoints, Models, MaxRetries, Slots, PerMinute} \subseteq Nat \ {0}
  /\ {Size, MaxCalls} \subseteq Nat /\ IsFiniteSet(Caller)

Endpoint  == 1..Endpoints
Threshold == 2

VARIABLES fails,    \* consecutive_failures, up to the threshold
          cooling,  \* time.time() < cooldown_until
          free,     \* slots of the semaphore
          recent,   \* requests of the last minute
          call,     \* what each caller is at
          calls,    \* counted for MaxCalls
          steady,   \* history: endpoints that have been available since the call began
          tried     \* history: endpoints the call has asked

pool == <<fails, cooling>>
hist == <<steady, tried>>
vars == <<pool, free, recent, call, calls, hist>>

Phase == {"idle", "slot", "window", "sent", "asleep", "failed"}
Holding == {"window", "sent", "asleep"}

Idle == [at |-> "idle", ep |-> 1, todo |-> {}, model |-> 1, attempt |-> 0, size |-> 0]

Init ==
  /\ fails = [e \in Endpoint |-> 0] /\ cooling = [e \in Endpoint |-> FALSE]
  /\ free = Slots /\ recent = 0
  /\ call = [c \in Caller |-> Idle] /\ calls = 0
  /\ steady = [c \in Caller |-> {}] /\ tried = [c \in Caller |-> {}]

First(S) == CHOOSE e \in S : \A d \in S : e <= d
-----------------------------------------------------------------------------
(***************************************************************************)
(* ProviderFailoverPool                                                    *)
(***************************************************************************)
\* get_candidate_endpoints: those available, or all if none is.
Candidates ==
  LET available == {e \in Endpoint : ~cooling[e]} IN IF available = {} THEN Endpoint ELSE available

\* Mutant of MarkSuccess: the cooldown goes on.
CountReset(e) ==
  /\ fails' = [fails EXCEPT ![e] = 0]
  /\ UNCHANGED cooling

MarkSuccess(e) ==
  /\ fails' = [fails EXCEPT ![e] = 0]
  /\ cooling' = [cooling EXCEPT ![e] = FALSE]

MarkFailure(e) ==
  /\ fails' = [fails EXCEPT ![e] = IF @ < Threshold THEN @ + 1 ELSE @]
  /\ cooling' = [cooling EXCEPT ![e] = @ \/ fails'[e] = Threshold]
  /\ steady' = [c \in Caller |-> IF cooling'[e] THEN steady[c] \ {e} ELSE steady[c]]

CooldownEnds(e) ==
  /\ cooling[e]
  /\ cooling' = [cooling EXCEPT ![e] = FALSE]
  /\ UNCHANGED <<fails, free, recent, call, calls, hist>>
-----------------------------------------------------------------------------
(***************************************************************************)
(* ConcurrencyThrottler                                                    *)
(***************************************************************************)
Acquire(c) ==
  /\ call[c].at = "slot" /\ free > 0
  /\ free' = free - 1
  /\ call' = [call EXCEPT ![c].at = "window"]
  /\ UNCHANGED <<pool, recent, calls, hist>>

\* It waits, with its slot, until the window has room.
Send(c) ==
  /\ call[c].at = "window" /\ recent < PerMinute
  /\ recent' = recent + 1
  /\ call' = [call EXCEPT ![c].at = "sent"]
  /\ tried' = [tried EXCEPT ![c] = @ \cup {call[c].ep}]
  /\ UNCHANGED <<pool, free, calls, steady>>

MinutePasses ==
  /\ recent > 0
  /\ recent' = recent - 1
  /\ UNCHANGED <<pool, free, call, calls, hist>>

Release == free' = free + 1
-----------------------------------------------------------------------------
(***************************************************************************)
(* execute                                                                 *)
(***************************************************************************)
\* The first endpoint of S, with its first model.
Ask(c, S) ==
  call' = [call EXCEPT ![c] = [at |-> "slot", ep |-> First(S), todo |-> S \ {First(S)},
                               model |-> 1, attempt |-> 0, size |-> Size]]

Execute(c) ==
  /\ call[c].at = "idle" /\ calls < MaxCalls
  /\ calls' = calls + 1
  /\ Ask(c, Candidates)
  /\ steady' = [steady EXCEPT ![c] = {e \in Endpoint : ~cooling[e]}]
  /\ tried' = [tried EXCEPT ![c] = {}]
  /\ UNCHANGED <<pool, free, recent>>

Answered(c) ==
  /\ call[c].at = "sent"
  /\ MarkSuccess(call[c].ep)
  /\ Release
  /\ call' = [call EXCEPT ![c] = Idle]
  /\ UNCHANGED <<recent, calls, hist>>

\* The endpoint's next model, with the messages as they were, or none.
NextModel(c) ==
  call' = [call EXCEPT ![c] = IF call[c].model < Models
                              THEN [@ EXCEPT !.at = "slot", !.model = call[c].model + 1, !.attempt = 0, !.size = Size]
                              ELSE [@ EXCEPT !.at = "failed"]]

\* Another attempt, or the next model.
Again(c, at, size) ==
  IF call[c].attempt + 1 < MaxRetries
    THEN call' = [call EXCEPT ![c] = [@ EXCEPT !.at = at, !.attempt = call[c].attempt + 1, !.size = size]]
    ELSE NextModel(c)

\* Context overflow: the messages are compacted, if they can be.
Overflow(c) ==
  /\ call[c].at = "sent" /\ call[c].size > 0
  /\ Again(c, "slot", call[c].size - 1)
  /\ Release
  /\ UNCHANGED <<pool, recent, calls, hist>>

\* Mutant of RetryLater: the attempt is not counted.
RetryForever(c) ==
  /\ call[c].at = "sent"
  /\ call' = [call EXCEPT ![c].at = "asleep"]
  /\ UNCHANGED <<pool, free, recent, calls, hist>>

\* Rate limit, server error, timeout, or an overflow nothing can be done
\* about.  The backoff is slept with the slot.
RetryLater(c) ==
  /\ call[c].at = "sent"
  /\ Again(c, "asleep", call[c].size)
  /\ IF call'[c].at = "asleep" THEN UNCHANGED free ELSE Release
  /\ UNCHANGED <<pool, recent, calls, hist>>

\* Mutant of Wake: the slot is not given back before it is asked for again.
WakeHolding(c) ==
  /\ call[c].at = "asleep"
  /\ call' = [call EXCEPT ![c].at = "slot"]
  /\ UNCHANGED <<pool, free, recent, calls, hist>>

Wake(c) ==
  /\ call[c].at = "asleep"
  /\ call' = [call EXCEPT ![c].at = "slot"]
  /\ Release
  /\ UNCHANGED <<pool, recent, calls, hist>>

\* NON_RETRYABLE
ClientError(c) ==
  /\ call[c].at = "sent"
  /\ NextModel(c)
  /\ Release
  /\ UNCHANGED <<pool, recent, calls, hist>>

\* A network or authentication error: the endpoint is marked here, and again below.
Unreachable(c) ==
  /\ call[c].at = "sent"
  /\ MarkFailure(call[c].ep)
  /\ Release
  /\ call' = [call EXCEPT ![c].at = "failed"]
  /\ UNCHANGED <<recent, calls, tried>>

\* Mutant of EndpointFailed: the last error is raised at once.
RaiseAtOnce(c) ==
  /\ call[c].at = "failed"
  /\ MarkFailure(call[c].ep)
  /\ call' = [call EXCEPT ![c] = Idle]
  /\ UNCHANGED <<free, recent, calls, tried>>

\* Every model has failed on the endpoint: the next one, or the last error is raised.
EndpointFailed(c) ==
  /\ call[c].at = "failed"
  /\ MarkFailure(call[c].ep)
  /\ IF call[c].todo = {} THEN call' = [call EXCEPT ![c] = Idle] ELSE Ask(c, call[c].todo)
  /\ UNCHANGED <<free, recent, calls, tried>>

Proceed(c) ==
  \/ Acquire(c) \/ Send(c) \/ Answered(c) \/ Overflow(c) \/ RetryLater(c) \/ Wake(c)
  \/ ClientError(c) \/ Unreachable(c) \/ EndpointFailed(c)

Next ==
  \/ \E c \in Caller : Execute(c) \/ Proceed(c)
  \/ (\E e \in Endpoint : CooldownEnds(e)) \/ MinutePasses

\* Requests time out, sleeping threads wake up, and minutes pass.
Fairness == (\A c \in Caller : WF_vars(Proceed(c))) /\ WF_vars(MinutePasses)

Spec == Init /\ [][Next]_vars /\ Fairness
-----------------------------------------------------------------------------
\* The state has its shape: the slots that are not free are those of the
\* callers that wait for the window, for an answer or for their backoff.
TypeOK ==
  /\ fails \in [Endpoint -> 0..Threshold] /\ cooling \in [Endpoint -> BOOLEAN]
  /\ call \in [Caller -> [at : Phase, ep : Endpoint, todo : SUBSET Endpoint, model : 1..Models,
                          attempt : 0..MaxRetries - 1, size : 0..Size]]
  /\ free \in 0..Slots /\ free + Cardinality({c \in Caller : call[c].at \in Holding}) = Slots
  /\ recent \in 0..PerMinute /\ calls \in 0..MaxCalls
  /\ steady \in [Caller -> SUBSET Endpoint] /\ tried \in [Caller -> SUBSET Endpoint]

\* An endpoint that has answered is not cooling down for what failed before,
\* whatever the calls of other threads to it report in between.
CoolsAfterFailures == \A e \in Endpoint : cooling[e] => fails[e] = Threshold

\* A call fails only after it has asked every endpoint that was available all
\* the time, whichever of its models, retries and cooldowns others use up.
FailsLast ==
  [][\A c \in Caller : call[c].at = "failed" /\ call'[c].at = "idle" => steady[c] \subseteq tried[c]]_vars

\* Every call returns: it runs out of attempts, models and endpoints, and its
\* waiting for a slot ends although others sleep with theirs.
CallsReturn == \A c \in Caller : call[c].at # "idle" ~> call[c].at = "idle"
=============================================================================

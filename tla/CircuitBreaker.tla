--------------------------- MODULE CircuitBreaker ---------------------------
(***************************************************************************)
(* MCPCircuitBreaker of agent_orchestrator/mcp/circuit_breaker.py: one per *)
(* MCP server, shared by everyone who calls it.  Every method holds its    *)
(* lock, so each is an operator from breaker to breaker.  _successful_     *)
(* trials is never counted up and left out.  The failure count is only     *)
(* ever compared with the threshold, at which it saturates here.  The      *)
(* clock is what remains of it: expired says that recovery_timeout has     *)
(* passed since the breaker opened.                                        *)
(***************************************************************************)
EXTENDS Naturals

CONSTANTS Threshold,  \* failure_threshold
          MaxTrials   \* half_open_max_trials

ASSUME BreakerAssumption == Threshold \in Nat \ {0} /\ MaxTrials \in Nat \ {0}

Breaker == [state: {"CLOSED", "OPEN", "HALF_OPEN"}, failures: 0..Threshold,
            trials: 0..MaxTrials, expired: BOOLEAN]

Closed == [state |-> "CLOSED", failures |-> 0, trials |-> 0, expired |-> FALSE]

Count(b) == IF b.failures < Threshold THEN b.failures + 1 ELSE Threshold

Trip(b) == [state |-> "OPEN", failures |-> Count(b), trials |-> 0, expired |-> FALSE]

\* The property state: after the recovery timeout an OPEN breaker is HALF_OPEN.
Refresh(b) ==
  IF b.state = "OPEN" /\ b.expired
    THEN [state |-> "HALF_OPEN", failures |-> b.failures, trials |-> 0, expired |-> FALSE]
    ELSE b

\* Mutant of Allows: a half-open breaker does not count the trials it has let through.
AllowsAny(b) == Refresh(b).state # "OPEN"

\* can_attempt: the answer, and what it leaves behind.
Allows(b) == \/ Refresh(b).state = "CLOSED"
             \/ Refresh(b).state = "HALF_OPEN" /\ Refresh(b).trials < MaxTrials

IsTrial(b) == Allows(b) /\ Refresh(b).state = "HALF_OPEN"

Attempt(b) == IF IsTrial(b) THEN [Refresh(b) EXCEPT !.trials = @ + 1] ELSE Refresh(b)

\* Mutant of Success: the count is kept.
SuccessKeepsCount(b) == [Closed EXCEPT !.failures = b.failures]

\* record_success.  Outside HALF_OPEN there is no trial to give back.
Success(b) == Closed

\* record_failure.
Failure(b) ==
  CASE b.state = "HALF_OPEN" -> Trip(b)
    [] b.state = "CLOSED" /\ Count(b) >= Threshold -> Trip(b)
    [] OTHER -> [b EXCEPT !.failures = Count(b)]

\* reset.
Reset(b) == Closed
=============================================================================

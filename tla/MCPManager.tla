----------------------------- MODULE MCPManager -----------------------------
(***************************************************************************)
(* Calls of the tools of one MCP server, from threads that share its       *)
(* circuit breaker and its session: MCPServerManager.call_tool,            *)
(* handle_tool_error, reconnect and health_check (mcp/manager.py) over     *)
(* MCPClientSession (mcp/client.py), and UnifiedToolDispatcher.call_tool   *)
(* (tools/unified_dispatcher.py) in front of it.                           *)
(*                                                                         *)
(* A call through the dispatcher is looked at there first, and the         *)
(* dispatcher asks the breaker itself; a call through MCPClient            *)
(* (tools/mcp_client.py) goes straight to the manager.  Tools are called by*)
(* their full name, server__tool, which is resolved also while the index   *)
(* of tools is purged to be filled anew.                                   *)
(***************************************************************************)
EXTENDS CircuitBreaker, FiniteSets

CONSTANTS Dispatched, Direct,  \* threads, by the way they call
          Checker,             \* threads that run health_check
          MaxRetries           \* of the reconnect in handle_tool_error

Caller == Dispatched \cup Direct
Thread == Caller \cup Checker

ASSUME ThreadAssumption ==
  /\ IsFiniteSet(Thread) /\ MaxRetries \in Nat \ {0}
  /\ Caller \cap Checker = {} /\ Dispatched \cap Direct = {}

VARIABLES breaker,
          server,   \* up: it answers; poor: it may also fail or be late; dead: it does not
          session,  \* whether the session on record is_connected
          indexed,  \* whether the name of the tool is a key of _tool_cache
          pc,       \* what each thread does
          holds,    \* the session it works on: current, other (replaced, but open), closed, none
          left,     \* reconnection attempts it has left
          probes,   \* history: threads holding a trial of this HALF_OPEN period
          dropped   \* history: trials of this period that nobody will report

vars == <<breaker, server, session, indexed, pc, holds, left, probes, dropped>>

Reporting == {"ready", "start", "connect", "index", "sent", "ping"}
Phase == Reporting \cup {"idle", "claim", "fallback", "call", "name", "stop", "restarted"}

Init ==
  /\ breaker = Closed
  /\ server \in {"up", "poor", "dead"}
  /\ session \in BOOLEAN /\ (session => server # "dead")
  /\ indexed \in BOOLEAN
  /\ pc = [c \in Thread |-> "idle"]
  /\ holds = [c \in Thread |-> "none"]
  /\ left = [c \in Thread |-> 0]
  /\ probes = {} /\ dropped = 0

Goto(c, l) == pc' = [pc EXCEPT ![c] = l]

\* The breaker becomes b.  Where its period ends nobody holds a trial of it.
Becomes(b) ==
  /\ breaker' = b
  /\ IF b.state = "HALF_OPEN" /\ breaker.state = "HALF_OPEN"
       THEN UNCHANGED <<probes, dropped>>
       ELSE probes' = {} /\ dropped' = 0

\* can_attempt says yes to c.  A trial c has already is reported only once.
Admitted(c) ==
  /\ Allows(breaker) /\ breaker' = Attempt(breaker)
  /\ LET same == breaker.state = "HALF_OPEN"
     IN IF IsTrial(breaker)
          THEN /\ probes' = (IF same THEN probes ELSE {}) \cup {c}
               /\ dropped' = (IF same THEN dropped ELSE 0) + (IF same /\ c \in probes THEN 1 ELSE 0)
          ELSE UNCHANGED <<probes, dropped>>

\* c goes its way without reporting.
Drops(c) ==
  IF c \in probes THEN probes' = probes \ {c} /\ dropped' = dropped + 1
                  ELSE UNCHANGED <<probes, dropped>>

\* can_attempt says no: a trial the dispatcher claimed for c is lost.
Refused(c) ==
  /\ ~Allows(breaker) /\ breaker' = Refresh(breaker)
  /\ IF pc[c] = "call" THEN Drops(c) ELSE UNCHANGED <<probes, dropped>>
-----------------------------------------------------------------------------
(***************************************************************************)
(* UnifiedToolDispatcher.call_tool                                         *)
(***************************************************************************)
\* get_server_health_status: a registered server is UNHEALTHY when the breaker is OPEN.
Look(c) ==
  /\ c \in Dispatched /\ pc[c] = "idle"
  /\ Becomes(Refresh(breaker))
  /\ Goto(c, IF breaker'.state = "OPEN" THEN "fallback" ELSE "claim")
  /\ UNCHANGED <<server, session, indexed, holds, left>>

\* The dispatcher asks can_attempt itself.
Precheck(c) ==
  /\ pc[c] = "claim"
  /\ \/ Admitted(c) /\ Goto(c, "call")
     \/ Refused(c) /\ Goto(c, "fallback")
  /\ UNCHANGED <<server, session, indexed, holds, left>>

\* _handle_unhealthy_mcp_fallback: a tool without a native equivalent is called all the same.
Fallback(c) ==
  /\ pc[c] = "fallback"
  /\ \E l \in {"idle", "call"} : Goto(c, l)
  /\ UNCHANGED <<breaker, server, session, indexed, holds, left, probes, dropped>>
-----------------------------------------------------------------------------
(***************************************************************************)
(* MCPServerManager.call_tool                                              *)
(***************************************************************************)
Call(c) ==
  /\ pc[c] = IF c \in Direct THEN "idle" ELSE "call"
  /\ \/ Admitted(c) /\ Goto(c, "ready")
     \/ Refused(c) /\ Goto(c, "idle")
  /\ UNCHANGED <<server, session, indexed, holds, left>>

Send(c) ==
  /\ pc[c] = "ready"
  /\ IF session THEN Goto(c, "index") /\ holds' = [holds EXCEPT ![c] = "current"]
                ELSE Goto(c, "start") /\ UNCHANGED holds
  /\ UNCHANGED <<breaker, server, session, indexed, left, probes, dropped>>

Done(c) == Goto(c, "idle") /\ holds' = [holds EXCEPT ![c] = "none"]

\* Is the name in _tool_cache?
Index(c) ==
  /\ pc[c] = "index" /\ Goto(c, IF indexed THEN "name" ELSE "sent")
  /\ UNCHANGED <<breaker, server, session, indexed, holds, left, probes, dropped>>

\* The entry is read.  If the index has been purged meanwhile, a KeyError leaves
\* call_tool and nothing is reported.
Name(c) ==
  /\ pc[c] = "name"
  /\ IF indexed THEN Goto(c, "sent") /\ UNCHANGED <<holds, probes, dropped>>
                ELSE Done(c) /\ Drops(c)
  /\ UNCHANGED <<breaker, server, session, indexed, left>>

\* c goes on with a session: to the call it started it for, or with its reconnection.
Proceed(c) == Goto(c, IF left[c] = 0 THEN "index" ELSE "restarted")

\* ensure_server_running returns a session that has become connected; start_server,
\* called by it or by the reconnection, resets the breaker of one, or starts another.
Start(c) ==
  /\ pc[c] = "start"
  /\ IF session
       THEN /\ \/ Becomes(Reset(breaker))
               \/ left[c] = 0 /\ UNCHANGED <<breaker, probes, dropped>>
            /\ Proceed(c) /\ holds' = [holds EXCEPT ![c] = "current"]
       ELSE Goto(c, "connect") /\ UNCHANGED <<breaker, holds, probes, dropped>>
  /\ UNCHANGED <<server, session, indexed, left>>

\* register_...: the new session replaces one that another thread has put on record meanwhile.
Connect(c) ==
  /\ pc[c] = "connect" /\ server # "dead"
  /\ session' = TRUE /\ indexed' \in BOOLEAN
  /\ holds' = [u \in Thread |-> IF u = c THEN "current"
                                ELSE IF holds[u] = "current" THEN "other" ELSE holds[u]]
  /\ Becomes(Reset(breaker)) /\ Proceed(c)
  /\ UNCHANGED <<server, left>>

\* Mutant of StartFails: a server that cannot be started is not reported to the breaker.
StartFailsSilently(c) ==
  /\ Goto(c, IF left[c] > 1 THEN "stop" ELSE "idle")
  /\ left' = [left EXCEPT ![c] = IF @ = 0 THEN 0 ELSE @ - 1]
  /\ UNCHANGED <<breaker, probes, dropped>>

\* A failed start is reported at once by call_tool, by reconnect after its last attempt.
StartFails(c) ==
  /\ IF left[c] > 1
       THEN Goto(c, "stop") /\ UNCHANGED <<breaker, probes, dropped>>
       ELSE Goto(c, "idle") /\ Becomes(Failure(breaker))
  /\ left' = [left EXCEPT ![c] = IF @ = 0 THEN 0 ELSE @ - 1]

ConnectFails(c) ==
  /\ pc[c] = "connect" /\ server # "up" /\ StartFails(c)
  /\ UNCHANGED <<server, session, indexed, holds>>

Open(c) == holds[c] \in {"current", "other"}

\* Mutant of Answer: an error that speaks of a connection is not reported.
AnswerUnreported(c) ==
  /\ pc[c] = "sent" /\ Open(c) /\ server # "dead"
  /\ \/ Becomes(Success(breaker))
     \/ server = "poor" /\ UNCHANGED <<breaker, probes, dropped>>
  /\ Done(c)
  /\ UNCHANGED <<server, session, indexed, left>>

\* A result, or an error that speaks of a connection or a timeout.
Answer(c) ==
  /\ pc[c] = "sent" /\ Open(c) /\ server # "dead"
  /\ \/ Becomes(Success(breaker))
     \/ server = "poor" /\ Becomes(Failure(breaker))
  /\ Done(c)
  /\ UNCHANGED <<server, session, indexed, left>>

\* session.call_tool raises: no answer in time, or the session is closed.
\* handle_tool_error reconnects if the error is an MCPConnectionError or the
\* session on record is not connected.
CallRaises(c) ==
  /\ pc[c] = "sent" /\ (Open(c) => server # "up")
  /\ Becomes(Failure(breaker))
  /\ \/ session /\ Done(c) /\ UNCHANGED left
     \/ /\ Goto(c, "stop") /\ holds' = [holds EXCEPT ![c] = "none"]
        /\ left' = [left EXCEPT ![c] = MaxRetries]
  /\ UNCHANGED <<server, session, indexed>>

Closes == holds' = [u \in Thread |-> IF holds[u] = "current" THEN "closed" ELSE holds[u]]

\* stop_server closes the session on record, whoever works on it, and purges the
\* index, where it raises if another thread changes the index meanwhile.
Stop(c) ==
  /\ pc[c] = "stop" /\ session' = FALSE /\ Closes
  /\ \/ Goto(c, "start") /\ indexed' = FALSE /\ UNCHANGED <<breaker, left, probes, dropped>>
     \/ StartFails(c) /\ UNCHANGED indexed
  /\ UNCHANGED server

\* restart_server resets the breaker once more, and reconnect records a success
\* if the session is connected still.
Restarted(c) ==
  /\ pc[c] = "restarted" /\ Open(c)
  /\ Becomes(Success(Reset(breaker))) /\ Done(c)
  /\ left' = [left EXCEPT ![c] = 0]
  /\ UNCHANGED <<server, session, indexed>>

RestartLost(c) ==
  /\ pc[c] = "restarted" /\ ~Open(c)
  /\ Becomes(IF left[c] > 1 THEN Reset(breaker) ELSE Failure(Reset(breaker)))
  /\ Goto(c, IF left[c] > 1 THEN "stop" ELSE "idle")
  /\ left' = [left EXCEPT ![c] = @ - 1] /\ holds' = [holds EXCEPT ![c] = "none"]
  /\ UNCHANGED <<server, session, indexed>>
-----------------------------------------------------------------------------
(***************************************************************************)
(* health_check, of which ping (client.py) never raises                    *)
(***************************************************************************)
Check(c) ==
  /\ c \in Checker /\ pc[c] = "idle"
  /\ \/ session /\ Admitted(c) /\ Goto(c, "ping")
     \/ ~session /\ Becomes(Refresh(breaker)) /\ UNCHANGED pc
     \/ session /\ Refused(c) /\ UNCHANGED pc
  /\ UNCHANGED <<server, session, indexed, holds, left>>

Ping(c) ==
  /\ pc[c] = "ping" /\ Becomes(Success(breaker)) /\ Goto(c, "idle")
  /\ UNCHANGED <<server, session, indexed, holds, left>>
-----------------------------------------------------------------------------
\* The server process dies, or turns worse or better.
Crash ==
  /\ server' = "dead" /\ session' = FALSE /\ Closes
  /\ UNCHANGED <<breaker, indexed, pc, left, probes, dropped>>

Weather ==
  /\ server' \in {"up", "poor", "dead"} \ {server}
  /\ UNCHANGED <<breaker, session, indexed, pc, holds, left, probes, dropped>>

\* _refresh_tools_for_server purges the index and fills it again, after a start of
\* the server and when it notifies of a change in its tools.
Reindex ==
  /\ session /\ indexed' = ~indexed
  /\ UNCHANGED <<breaker, server, session, pc, holds, left, probes, dropped>>

Expire ==
  /\ breaker.state = "OPEN" /\ ~breaker.expired
  /\ breaker' = [breaker EXCEPT !.expired = TRUE]
  /\ UNCHANGED <<server, session, indexed, pc, holds, left, probes, dropped>>

Step(c) ==
  \/ Look(c) \/ Precheck(c) \/ Fallback(c) \/ Call(c) \/ Send(c) \/ Start(c) \/ Connect(c)
  \/ ConnectFails(c) \/ Index(c) \/ Name(c) \/ Answer(c) \/ CallRaises(c) \/ Stop(c)
  \/ Restarted(c) \/ RestartLost(c) \/ Check(c) \/ Ping(c)

Next == Crash \/ Weather \/ Reindex \/ Expire \/ \E c \in Thread : Step(c)

\* Timeouts end every wait, and there is always something left to call.
Fairness == WF_vars(Expire) /\ \A c \in Thread : WF_vars(Step(c))

Spec == Init /\ [][Next]_vars /\ Fairness
-----------------------------------------------------------------------------
TypeOK ==
  /\ breaker \in Breaker
  /\ server \in {"up", "poor", "dead"} /\ session \in BOOLEAN /\ indexed \in BOOLEAN
  /\ pc \in [Thread -> Phase]
  /\ holds \in [Thread -> {"none", "current", "other", "closed"}]
  /\ left \in [Thread -> 0..MaxRetries]
  /\ probes \subseteq Thread /\ dropped \in 0..MaxTrials

\* A closed breaker has room for a failure and a trial is only counted while
\* half open: a success, reset or trip always leaves a consistent breaker.
BreakerConsistent ==
  /\ breaker.state = "CLOSED" => breaker.failures < Threshold
  /\ breaker.state # "HALF_OPEN" => breaker.trials = 0
  /\ breaker.expired => breaker.state = "OPEN"

\* Every trial that is counted will be reported, or was dropped: by a call its
\* dispatcher had claimed it for, or whose tool was purged from the index while
\* it was looked up.  The half-open state leaks trials in no other way, however
\* calls, reconnections, health checks and late answers interleave.
TrialsAccounted ==
  /\ breaker.state = "HALF_OPEN" => breaker.trials = Cardinality(probes) + dropped
  /\ \A c \in probes : pc[c] \in Reporting \cup {"name"} \/ (c \in Dispatched /\ pc[c] = "call")

\* With a server that answers, the breaker closes again, for good or to be
\* tripped anew, unless a trial was dropped.
Recovers == <>[](server = "up") => []<>(breaker.state = "CLOSED" \/ dropped > 0)
=============================================================================

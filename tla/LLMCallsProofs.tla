--------------------------- MODULE LLMCallsProofs ---------------------------
(***************************************************************************)
(* Slots, cooldowns and the order of failover, for any number of callers,  *)
(* endpoints, models, retries and slots.                                   *)
(***************************************************************************)
EXTENDS LLMCalls, FiniteSetTheorems, WellFoundedInduction, TLAPS

Record == [at : Phase, ep : Endpoint, todo : SUBSET Endpoint, model : 1..Models,
           attempt : 0..MaxRetries - 1, size : 0..Size]

\* The types of TypeOK, and the count that relates the slots to the callers.
Types ==
  /\ fails \in [Endpoint -> 0..Threshold] /\ cooling \in [Endpoint -> BOOLEAN]
  /\ call \in [Caller -> Record]
  /\ recent \in 0..PerMinute /\ calls \in 0..MaxCalls
  /\ steady \in [Caller -> SUBSET Endpoint] /\ tried \in [Caller -> SUBSET Endpoint]

Holders == {c \in Caller : call[c].at \in Holding}

SlotInv == free \in Nat /\ free + Cardinality(Holders) = Slots

\* An endpoint that was available since the call began has been asked, is
\* asked now, or is one the call has still before it.
TriedInv ==
  \A c \in Caller :
    /\ call[c].at # "idle" => steady[c] \subseteq tried[c] \cup call[c].todo \cup {call[c].ep}
    /\ call[c].at \in {"sent", "failed"} => call[c].ep \in tried[c]

Inv == Types /\ SlotInv /\ CoolsAfterFailures /\ TriedInv
-----------------------------------------------------------------------------
Less == {p \in Nat \X Nat : p[1] < p[2]}

\* A set of endpoints has a first one.
LEMMA FirstIsIn == ASSUME NEW S \in SUBSET Endpoint, S # {} PROVE First(S) \in S
<1>1. IsWellFoundedOn(Less, Nat)
  BY NatLessThanWellFounded DEF OpToRel, Less
<1>2. S \subseteq Nat
  BY CallsAssumption DEF Endpoint
<1>3. PICK e \in S : \A y \in S : ~(<<y, e>> \in Less)
  BY <1>1, <1>2, WFMin
<1>4. ASSUME NEW d \in S PROVE e <= d
  <2>1. d \in Nat /\ e \in Nat /\ <<d, e>> \notin Less
    BY <1>2, <1>3
  <2>2. ~(d < e)
    BY <2>1 DEF Less
  <2> QED BY <2>1, <2>2
<1> QED BY <1>4 DEF First

\* The slots of the throttler, when one caller moves on to the record r.
LEMMA SlotsMove ==
  ASSUME Types, SlotInv, NEW c \in Caller, NEW r \in Record, call' = [call EXCEPT ![c] = r],
         \/ call[c].at \in Holding /\ r.at \in Holding /\ free' = free
         \/ call[c].at \in Holding /\ r.at \notin Holding /\ free' = free + 1
         \/ call[c].at \notin Holding /\ r.at \in Holding /\ free > 0 /\ free' = free - 1
         \/ call[c].at \notin Holding /\ r.at \notin Holding /\ free' = free
  PROVE  SlotInv'
<1>1. \A d \in Caller : call'[d] = IF d = c THEN r ELSE call[d]
  BY DEF Types
<1>2. IsFiniteSet(Holders) /\ Cardinality(Holders) \in Nat
  BY CallsAssumption, FS_Subset, FS_CardinalityType DEF Holders
<1>3. c \in Holders <=> call[c].at \in Holding
  BY DEF Holders
<1>4. Holders' = IF r.at \in Holding THEN Holders \cup {c} ELSE Holders \ {c}
  BY <1>1 DEF Holders
<1>5. Cardinality(Holders') = IF r.at \in Holding THEN (IF c \in Holders THEN Cardinality(Holders) ELSE Cardinality(Holders) + 1)
                              ELSE (IF c \in Holders THEN Cardinality(Holders) - 1 ELSE Cardinality(Holders))
  BY <1>2, <1>4, FS_AddElement, FS_RemoveElement
<1> QED BY <1>2, <1>3, <1>5 DEF SlotInv

\* One caller moves on to the record r, and its history goes with it.
LEMMA CallMoves ==
  ASSUME Types, TriedInv, NEW c \in Caller, NEW r \in Record, call' = [call EXCEPT ![c] = r],
         steady' \in [Caller -> SUBSET Endpoint], tried' \in [Caller -> SUBSET Endpoint],
         \A d \in Caller \ {c} : steady'[d] \subseteq steady[d] /\ tried'[d] = tried[d],
         r.at # "idle" => steady'[c] \subseteq tried'[c] \cup r.todo \cup {r.ep},
         r.at \in {"sent", "failed"} => r.ep \in tried'[c]
  PROVE  call' \in [Caller -> Record] /\ TriedInv'
<1>1. call' \in [Caller -> Record] /\ \A d \in Caller : call'[d] = IF d = c THEN r ELSE call[d]
  BY DEF Types
<1>2. ASSUME NEW d \in Caller
      PROVE  /\ call'[d].at # "idle" => steady'[d] \subseteq tried'[d] \cup call'[d].todo \cup {call'[d].ep}
             /\ call'[d].at \in {"sent", "failed"} => call'[d].ep \in tried'[d]
  <2>1. CASE d = c
    BY <2>1, <1>1
  <2>2. CASE d # c
    BY <2>2, <1>1 DEF TriedInv
  <2> QED BY <2>1, <2>2
<1> QED BY <1>1, <1>2 DEF TriedInv

\* mark_failure keeps what cooldowns mean, and takes endpoints from the steady ones only.
LEMMA FailureKeeps ==
  ASSUME Types, CoolsAfterFailures, NEW e \in Endpoint, MarkFailure(e)
  PROVE  /\ fails' \in [Endpoint -> 0..Threshold] /\ cooling' \in [Endpoint -> BOOLEAN]
         /\ steady' \in [Caller -> SUBSET Endpoint] /\ CoolsAfterFailures'
         /\ \A c \in Caller : steady'[c] \subseteq steady[c]
<1>1. fails' \in [Endpoint -> 0..Threshold]
      /\ \A d \in Endpoint : fails'[d] = IF d = e THEN (IF fails[e] < Threshold THEN fails[e] + 1 ELSE fails[e]) ELSE fails[d]
  BY DEF MarkFailure, Types, Threshold
<1>2. cooling' \in [Endpoint -> BOOLEAN]
  BY ZenonT(20) DEF MarkFailure, Types
<1>3. \A d \in Endpoint : cooling'[d] <=> cooling[d] \/ (d = e /\ fails'[e] = Threshold)
  BY ZenonT(20) DEF MarkFailure, Types
<1>4. CoolsAfterFailures'
  <2> SUFFICES ASSUME NEW d \in Endpoint, cooling'[d] PROVE fails'[d] = Threshold
    BY DEF CoolsAfterFailures
  <2>1. CASE cooling[d]
    BY <2>1, <1>1 DEF CoolsAfterFailures, Threshold
  <2>2. CASE ~cooling[d]
    BY <2>2, <1>3
  <2> QED BY <2>1, <2>2
<1>5. steady' \in [Caller -> SUBSET Endpoint] /\ \A c \in Caller : steady'[c] \subseteq steady[c]
  BY DEF MarkFailure, Types
<1> QED BY <1>1, <1>2, <1>4, <1>5

LEMMA SuccessKeeps ==
  ASSUME Types, CoolsAfterFailures, NEW e \in Endpoint, MarkSuccess(e)
  PROVE  fails' \in [Endpoint -> 0..Threshold] /\ cooling' \in [Endpoint -> BOOLEAN] /\ CoolsAfterFailures'
<1>1. fails' \in [Endpoint -> 0..Threshold] /\ cooling' \in [Endpoint -> BOOLEAN]
  BY DEF MarkSuccess, Types, Threshold
<1>2. \A d \in Endpoint : cooling'[d] => cooling[d] /\ fails'[d] = fails[d]
  BY DEF MarkSuccess, Types
<1> QED BY <1>1, <1>2 DEF CoolsAfterFailures

LEMMA PoolSame == ASSUME CoolsAfterFailures, UNCHANGED pool PROVE CoolsAfterFailures'
BY DEF CoolsAfterFailures, pool
-----------------------------------------------------------------------------
\* What an error leaves of the call: another attempt or model, or none.
LEMMA NextModelMoves ==
  ASSUME Types, NEW c \in Caller, call[c].at = "sent", NextModel(c)
  PROVE  \E r \in Record : /\ call' = [call EXCEPT ![c] = r] /\ r.at \in {"slot", "failed"}
                           /\ r.ep = call[c].ep /\ r.todo = call[c].todo
<1> DEFINE next == [call[c] EXCEPT !.at = "slot", !.model = call[c].model + 1, !.attempt = 0, !.size = Size]
           last == [call[c] EXCEPT !.at = "failed"]
<1>1. call[c] \in Record
  BY DEF Types
<1>2. CASE call[c].model < Models
  <2>1. call[c].model + 1 \in 1..Models /\ 0 \in 0..MaxRetries - 1 /\ Size \in 0..Size
    BY <1>1, <1>2, CallsAssumption DEF Record
  <2>2. next \in Record /\ next.at = "slot" /\ next.ep = call[c].ep /\ next.todo = call[c].todo
    BY <1>1, <2>1 DEF Record, Phase
  <2>3. call' = [call EXCEPT ![c] = next]
    BY <1>1, <1>2 DEF NextModel, Types
  <2> QED BY <2>2, <2>3
<1>3. CASE ~(call[c].model < Models)
  <2>1. last \in Record /\ last.at = "failed" /\ last.ep = call[c].ep /\ last.todo = call[c].todo
    BY <1>1 DEF Record, Phase
  <2>2. call' = [call EXCEPT ![c] = last]
    BY <1>3 DEF NextModel
  <2> QED BY <2>1, <2>2
<1> QED BY <1>2, <1>3

LEMMA AgainMoves ==
  ASSUME Types, NEW c \in Caller, call[c].at = "sent", NEW at \in {"slot", "asleep"}, NEW size \in 0..Size,
         Again(c, at, size)
  PROVE  \E r \in Record : /\ call' = [call EXCEPT ![c] = r] /\ r.at \in {at, "slot", "failed"}
                           /\ r.ep = call[c].ep /\ r.todo = call[c].todo
<1> DEFINE next == [call[c] EXCEPT !.at = at, !.attempt = call[c].attempt + 1, !.size = size]
<1>1. call[c] \in Record
  BY DEF Types
<1>2. CASE call[c].attempt + 1 < MaxRetries
  <2>1. call[c].attempt + 1 \in 0..MaxRetries - 1
    BY <1>1, <1>2, CallsAssumption DEF Record
  <2>2. next \in Record /\ next.at = at /\ next.ep = call[c].ep /\ next.todo = call[c].todo
    BY <1>1, <2>1 DEF Record, Phase
  <2>3. call' = [call EXCEPT ![c] = next]
    BY <1>1, <1>2 DEF Again, Types
  <2> QED BY <2>2, <2>3
<1>3. CASE ~(call[c].attempt + 1 < MaxRetries)
  BY <1>3, NextModelMoves DEF Again
<1> QED BY <1>2, <1>3

LEMMA AskMoves ==
  ASSUME NEW c \in Caller, NEW S \in SUBSET Endpoint, S # {}, Ask(c, S)
  PROVE  \E r \in Record : /\ call' = [call EXCEPT ![c] = r] /\ r.at = "slot"
                           /\ r.ep \in Endpoint /\ S \subseteq r.todo \cup {r.ep}
<1> DEFINE new == [at |-> "slot", ep |-> First(S), todo |-> S \ {First(S)},
                   model |-> 1, attempt |-> 0, size |-> Size]
<1>1. First(S) \in S
  BY FirstIsIn
<1>2. new \in Record
  BY <1>1, CallsAssumption DEF Record, Phase
<1>3. call' = [call EXCEPT ![c] = new]
  BY DEF Ask
<1> QED BY <1>1, <1>2, <1>3
-----------------------------------------------------------------------------
\* What a request is answered with: the call moves on to r, and its slot is given back or kept.
LEMMA StepOfCall ==
  ASSUME Inv, NEW c \in Caller, NEW r \in Record, call' = [call EXCEPT ![c] = r],
         fails' \in [Endpoint -> 0..Threshold], cooling' \in [Endpoint -> BOOLEAN], CoolsAfterFailures',
         recent' \in 0..PerMinute, calls' \in 0..MaxCalls,
         steady' \in [Caller -> SUBSET Endpoint], tried' \in [Caller -> SUBSET Endpoint],
         \A d \in Caller \ {c} : steady'[d] \subseteq steady[d] /\ tried'[d] = tried[d],
         r.at # "idle" => steady'[c] \subseteq tried'[c] \cup r.todo \cup {r.ep},
         r.at \in {"sent", "failed"} => r.ep \in tried'[c],
         \/ call[c].at \in Holding /\ r.at \in Holding /\ free' = free
         \/ call[c].at \in Holding /\ r.at \notin Holding /\ free' = free + 1
         \/ call[c].at \notin Holding /\ r.at \in Holding /\ free > 0 /\ free' = free - 1
         \/ call[c].at \notin Holding /\ r.at \notin Holding /\ free' = free
  PROVE  Inv'
<1>1. call' \in [Caller -> Record] /\ TriedInv'
  BY CallMoves DEF Inv
<1>2. SlotInv'
  BY SlotsMove DEF Inv
<1> QED BY <1>1, <1>2 DEF Inv, Types

\* The same where neither the pool nor the history changes.
LEMMA StepOfSent ==
  ASSUME Inv, NEW c \in Caller, call[c].at \in {"sent", "asleep"}, NEW r \in Record,
         call' = [call EXCEPT ![c] = r], r.ep = call[c].ep, r.todo = call[c].todo,
         r.at \in {"slot", "failed", "asleep"}, r.at = "failed" => call[c].at = "sent",
         free' = IF r.at = "asleep" THEN free ELSE free + 1,
         UNCHANGED <<pool, recent, calls, hist>>
  PROVE  Inv'
<1>1. UNCHANGED <<fails, cooling, recent, calls, steady, tried>>
  BY DEF pool, hist
<1>2. CoolsAfterFailures'
  BY PoolSame DEF Inv
<1>3. r.at # "idle" => steady'[c] \subseteq tried'[c] \cup r.todo \cup {r.ep}
  BY <1>1 DEF Inv, TriedInv
<1>4. r.at \in {"sent", "failed"} => r.ep \in tried'[c]
  BY <1>1 DEF Inv, TriedInv
<1> QED BY <1>1, <1>2, <1>3, <1>4, StepOfCall DEF Inv, Types, Holding

LEMMA InitInv == Init => Inv
<1> SUFFICES ASSUME Init PROVE Inv
  OBVIOUS
<1>1. Idle \in Record
  BY CallsAssumption DEF Idle, Record, Phase, Endpoint
<1>2. Types
  BY <1>1, CallsAssumption DEF Init, Types, Threshold
<1>3. Holders = {}
  BY DEF Init, Holders, Idle, Holding
<1>4. SlotInv
  BY <1>3, FS_EmptySet, CallsAssumption DEF Init, SlotInv
<1>5. CoolsAfterFailures /\ TriedInv
  BY DEF Init, CoolsAfterFailures, TriedInv, Idle
<1> QED BY <1>2, <1>4, <1>5 DEF Inv

LEMMA ExecuteStep == ASSUME Inv, NEW c \in Caller, Execute(c) PROVE Inv'
<1>1. Candidates \subseteq Endpoint /\ Candidates # {} /\ {e \in Endpoint : ~cooling[e]} \subseteq Candidates
  BY CallsAssumption DEF Candidates, Endpoint
<1>2. PICK r \in Record : /\ call' = [call EXCEPT ![c] = r] /\ r.at = "slot"
                          /\ Candidates \subseteq r.todo \cup {r.ep}
  BY <1>1, AskMoves DEF Execute
<1>3. /\ steady' \in [Caller -> SUBSET Endpoint] /\ steady'[c] = {e \in Endpoint : ~cooling[e]}
      /\ \A d \in Caller \ {c} : steady'[d] = steady[d]
  BY DEF Execute, Inv, Types
<1>4. /\ tried' \in [Caller -> SUBSET Endpoint] /\ \A d \in Caller \ {c} : tried'[d] = tried[d]
  BY DEF Execute, Inv, Types
<1>5. UNCHANGED <<fails, cooling, free, recent>> /\ calls' \in 0..MaxCalls /\ call[c].at \notin Holding
  BY CallsAssumption DEF Execute, Inv, Types, pool, Holding
<1>6. CoolsAfterFailures'
  BY PoolSame DEF Execute, Inv
<1> QED BY <1>1, <1>2, <1>3, <1>4, <1>5, <1>6, StepOfCall DEF Inv, Types, Holding

LEMMA AcquireStep == ASSUME Inv, NEW c \in Caller, Acquire(c) PROVE Inv'
<1> DEFINE r == [call[c] EXCEPT !.at = "window"]
<1>1. call[c] \in Record /\ call[c].at = "slot" /\ free > 0 /\ free' = free - 1
  BY DEF Inv, Types, Acquire
<1>2. r \in Record /\ r.at = "window" /\ r.ep = call[c].ep /\ r.todo = call[c].todo
  BY <1>1 DEF Record, Phase
<1>3. call' = [call EXCEPT ![c] = r]
  BY DEF Acquire
<1>4. UNCHANGED <<fails, cooling, recent, calls, steady, tried>>
  BY DEF Acquire, pool, hist
<1>5. CoolsAfterFailures'
  BY PoolSame DEF Inv, Acquire
<1>6. steady'[c] \subseteq tried'[c] \cup r.todo \cup {r.ep}
  BY <1>1, <1>2, <1>4 DEF Inv, TriedInv
<1> HIDE DEF r
<1> QED BY <1>1, <1>2, <1>3, <1>4, <1>5, <1>6, StepOfCall DEF Inv, Types, Holding

LEMMA SendStep == ASSUME Inv, NEW c \in Caller, Send(c) PROVE Inv'
<1> DEFINE r == [call[c] EXCEPT !.at = "sent"]
<1>1. call[c] \in Record /\ call[c].at = "window"
  BY DEF Inv, Types, Send
<1>2. r \in Record /\ r.at = "sent" /\ r.ep = call[c].ep /\ r.todo = call[c].todo
  BY <1>1 DEF Record, Phase
<1>3. call' = [call EXCEPT ![c] = r]
  BY DEF Send
<1>4. UNCHANGED <<fails, cooling, free, calls, steady>> /\ recent' \in 0..PerMinute
  BY CallsAssumption DEF Send, pool, Inv, Types
<1>5. CoolsAfterFailures'
  BY PoolSame DEF Inv, Send
<1>6. /\ tried' \in [Caller -> SUBSET Endpoint] /\ tried'[c] = tried[c] \cup {call[c].ep}
      /\ \A d \in Caller \ {c} : tried'[d] = tried[d]
  BY <1>1 DEF Send, Inv, Types, Record
<1>7. steady'[c] \subseteq tried'[c] \cup r.todo \cup {r.ep} /\ r.ep \in tried'[c]
  BY <1>1, <1>2, <1>4, <1>6 DEF Inv, TriedInv
<1> HIDE DEF r
<1> QED BY <1>1, <1>2, <1>3, <1>4, <1>5, <1>6, <1>7, StepOfCall DEF Inv, Types, Holding

LEMMA AnsweredStep == ASSUME Inv, NEW c \in Caller, Answered(c) PROVE Inv'
<1>1. call[c].ep \in Endpoint /\ call[c].at \in Holding
  BY DEF Inv, Types, Record, Answered, Holding
<1>2. fails' \in [Endpoint -> 0..Threshold] /\ cooling' \in [Endpoint -> BOOLEAN] /\ CoolsAfterFailures'
  BY <1>1, SuccessKeeps DEF Answered, Inv
<1>3. Idle \in Record /\ Idle.at = "idle"
  BY CallsAssumption DEF Idle, Record, Phase, Endpoint
<1>4. UNCHANGED <<recent, calls, steady, tried>> /\ free' = free + 1 /\ call' = [call EXCEPT ![c] = Idle]
  BY DEF Answered, hist, Release
<1> QED BY <1>1, <1>2, <1>3, <1>4, StepOfCall DEF Inv, Types, Holding

LEMMA ErrorStep == ASSUME Inv, NEW c \in Caller, Overflow(c) \/ RetryLater(c) \/ ClientError(c) PROVE Inv'
<1>1. CASE Overflow(c)
  <2>1. call[c].size - 1 \in 0..Size /\ call[c].at = "sent"
    BY <1>1, CallsAssumption DEF Overflow, Inv, Types, Record
  <2>2. PICK r \in Record : /\ call' = [call EXCEPT ![c] = r] /\ r.at \in {"slot", "failed"}
                            /\ r.ep = call[c].ep /\ r.todo = call[c].todo
    BY <1>1, <2>1, AgainMoves DEF Overflow, Inv
  <2> QED BY <1>1, <2>1, <2>2, StepOfSent DEF Overflow, Release
<1>2. CASE RetryLater(c)
  <2>1. call[c].size \in 0..Size /\ call[c].at = "sent"
    BY <1>2 DEF RetryLater, Inv, Types, Record
  <2>2. PICK r \in Record : /\ call' = [call EXCEPT ![c] = r] /\ r.at \in {"asleep", "slot", "failed"}
                            /\ r.ep = call[c].ep /\ r.todo = call[c].todo
    BY <1>2, <2>1, AgainMoves DEF RetryLater, Inv
  <2>3. call'[c] = r
    BY <2>2 DEF Inv, Types
  <2>4. free' = IF r.at = "asleep" THEN free ELSE free + 1
    BY <1>2, <2>3 DEF RetryLater, Release
  <2> QED BY <1>2, <2>1, <2>2, <2>4, StepOfSent DEF RetryLater
<1>3. CASE ClientError(c)
  <2>1. call[c].at = "sent"
    BY <1>3 DEF ClientError
  <2>2. PICK r \in Record : /\ call' = [call EXCEPT ![c] = r] /\ r.at \in {"slot", "failed"}
                            /\ r.ep = call[c].ep /\ r.todo = call[c].todo
    BY <1>3, <2>1, NextModelMoves DEF ClientError, Inv
  <2> QED BY <1>3, <2>1, <2>2, StepOfSent DEF ClientError, Release
<1> QED BY <1>1, <1>2, <1>3

LEMMA WakeStep == ASSUME Inv, NEW c \in Caller, Wake(c) PROVE Inv'
<1> DEFINE r == [call[c] EXCEPT !.at = "slot"]
<1>1. call[c] \in Record
  BY DEF Inv, Types
<1>2. r \in Record /\ r.at = "slot" /\ r.ep = call[c].ep /\ r.todo = call[c].todo
  BY <1>1 DEF Record, Phase
<1>3. call' = [call EXCEPT ![c] = r] /\ call[c].at = "asleep" /\ free' = free + 1
  BY DEF Wake, Release
<1>4. UNCHANGED <<pool, recent, calls, hist>>
  BY DEF Wake
<1> HIDE DEF r
<1> QED BY <1>2, <1>3, <1>4, StepOfSent

LEMMA UnreachableStep == ASSUME Inv, NEW c \in Caller, Unreachable(c) PROVE Inv'
<1> DEFINE r == [call[c] EXCEPT !.at = "failed"]
<1>1. call[c] \in Record /\ call[c].at = "sent" /\ call[c].ep \in Endpoint
  BY DEF Inv, Types, Record, Unreachable
<1>2. r \in Record /\ r.at = "failed" /\ r.ep = call[c].ep /\ r.todo = call[c].todo
  BY <1>1 DEF Record, Phase
<1>3. call' = [call EXCEPT ![c] = r] /\ free' = free + 1 /\ UNCHANGED <<recent, calls, tried>>
  BY DEF Unreachable, Release
<1>4. /\ fails' \in [Endpoint -> 0..Threshold] /\ cooling' \in [Endpoint -> BOOLEAN] /\ CoolsAfterFailures'
      /\ steady' \in [Caller -> SUBSET Endpoint] /\ \A d \in Caller : steady'[d] \subseteq steady[d]
  BY <1>1, FailureKeeps DEF Unreachable, Inv
<1>5. steady'[c] \subseteq tried'[c] \cup r.todo \cup {r.ep} /\ r.ep \in tried'[c]
  BY <1>1, <1>2, <1>3, <1>4 DEF Inv, TriedInv
<1> HIDE DEF r
<1> QED BY <1>1, <1>2, <1>3, <1>4, <1>5, StepOfCall DEF Inv, Types, Holding

LEMMA EndpointFailedStep == ASSUME Inv, NEW c \in Caller, EndpointFailed(c) PROVE Inv'
<1>1. call[c].at = "failed" /\ call[c].ep \in Endpoint /\ call[c].todo \subseteq Endpoint
  BY DEF Inv, Types, Record, EndpointFailed
<1>2. /\ fails' \in [Endpoint -> 0..Threshold] /\ cooling' \in [Endpoint -> BOOLEAN] /\ CoolsAfterFailures'
      /\ steady' \in [Caller -> SUBSET Endpoint] /\ \A d \in Caller : steady'[d] \subseteq steady[d]
  BY <1>1, FailureKeeps DEF EndpointFailed, Inv
<1>3. UNCHANGED <<free, recent, calls, tried>>
  BY DEF EndpointFailed
<1>4. steady[c] \subseteq tried[c] \cup call[c].todo
  BY <1>1 DEF Inv, TriedInv
<1>5. PICK r \in Record : /\ call' = [call EXCEPT ![c] = r] /\ r.at \in {"idle", "slot"}
                          /\ r.at # "idle" => call[c].todo \subseteq r.todo \cup {r.ep}
  <2>1. CASE call[c].todo = {}
    <3>1. Idle \in Record /\ Idle.at = "idle"
      BY CallsAssumption DEF Idle, Record, Phase, Endpoint
    <3> QED BY <2>1, <3>1 DEF EndpointFailed
  <2>2. CASE call[c].todo # {}
    BY <2>2, <1>1, AskMoves DEF EndpointFailed
  <2> QED BY <2>1, <2>2
<1>6. r.at # "idle" => steady'[c] \subseteq tried'[c] \cup r.todo \cup {r.ep}
  BY <1>2, <1>3, <1>4, <1>5
<1> QED BY <1>1, <1>2, <1>3, <1>5, <1>6, StepOfCall DEF Inv, Types, Holding

\* Where no call moves.
LEMMA OtherStep ==
  ASSUME Inv, \/ \E e \in Endpoint : CooldownEnds(e)
              \/ MinutePasses
              \/ UNCHANGED vars
  PROVE  Inv'
<1>1. UNCHANGED <<fails, free, call, calls, steady, tried>>
  BY DEF CooldownEnds, MinutePasses, vars, pool, hist
<1>2. recent' \in 0..PerMinute
  BY CallsAssumption DEF CooldownEnds, MinutePasses, vars, Inv, Types
<1>3. cooling' \in [Endpoint -> BOOLEAN] /\ \A e \in Endpoint : cooling'[e] => cooling[e]
  BY DEF CooldownEnds, MinutePasses, vars, pool, Inv, Types
<1>4. CoolsAfterFailures'
  BY <1>1, <1>3 DEF Inv, CoolsAfterFailures
<1>5. SlotInv' /\ TriedInv'
  BY <1>1 DEF Inv, SlotInv, TriedInv, Holders
<1> QED BY <1>1, <1>2, <1>3, <1>4, <1>5 DEF Inv, Types

\* Every step keeps the invariant.
LEMMA StepInv == Inv /\ [Next]_vars => Inv'
<1> SUFFICES ASSUME Inv, [Next]_vars PROVE Inv'
  OBVIOUS
<1>1. ASSUME NEW c \in Caller, Proceed(c) PROVE Inv'
  BY <1>1, AcquireStep, SendStep, AnsweredStep, ErrorStep, WakeStep, UnreachableStep, EndpointFailedStep DEF Proceed
<1> QED BY <1>1, ExecuteStep, OtherStep DEF Next

\* The types, what the slots count, and what each call has left to ask.
THEOREM Invariance == Spec => []Inv
BY InitInv, StepInv, PTL DEF Spec

\* The shape of the state: the slots that are not free are those of callers
\* that wait for the window, an answer or their backoff.
THEOREM TypeCorrect == Spec => []TypeOK
<1>1. ASSUME Inv PROVE TypeOK
  <2>1. Cardinality(Holders) \in Nat /\ free \in 0..Slots
    BY <1>1, CallsAssumption, FS_Subset, FS_CardinalityType DEF Holders, Inv, SlotInv
  <2> QED BY <1>1, <2>1 DEF Inv, Types, SlotInv, TypeOK, Record, Holders
<1> QED BY <1>1, Invariance, PTL

\* A cooldown always follows as many failures as the pool bears.
THEOREM CoolsHold == Spec => []CoolsAfterFailures
<1>1. Inv => CoolsAfterFailures
  BY DEF Inv
<1> QED BY <1>1, Invariance, PTL
-----------------------------------------------------------------------------
\* Only a call with no endpoint left returns from a failure.
LEMMA RaiseStep ==
  ASSUME Inv, [Next]_vars, NEW c \in Caller, call[c].at = "failed", call'[c].at = "idle"
  PROVE  call[c].todo = {}
<1>1. call[c] \in Record /\ call \in [Caller -> Record]
  BY DEF Inv, Types
<1>2. call'[c] # call[c]
  OBVIOUS
<1>3. ASSUME NEW d \in Caller, Proceed(d) \/ Execute(d) PROVE d = c
  <2>1. \/ \E x : call' = [call EXCEPT ![d] = x]
        \/ call' = [call EXCEPT ![d].at = "slot"]
    BY <1>3, Zenon DEF Proceed, Execute, Acquire, Send, Answered, Overflow, RetryLater, Wake, ClientError,
       Unreachable, EndpointFailed, NextModel, Again, Ask
  <2> QED BY <2>1, <1>1, <1>2
<1>4. ASSUME NEW d \in Caller, Proceed(d) PROVE EndpointFailed(c)
  BY <1>3, <1>4 DEF Proceed, Acquire, Send, Answered, Overflow, RetryLater, Wake, ClientError, Unreachable
<1>5. ~\E d \in Caller : Execute(d)
  BY <1>3 DEF Execute
<1>6. EndpointFailed(c)
  BY <1>2, <1>4, <1>5 DEF Next, CooldownEnds, MinutePasses, vars
<1>7. ASSUME call[c].todo # {} PROVE FALSE
  BY <1>1, <1>6, <1>7 DEF EndpointFailed, Ask
<1> QED BY <1>7

\* A call fails only after it has asked every endpoint that stayed available.
THEOREM FailsLastHolds == Spec => FailsLast
<1>1. ASSUME Inv, [Next]_vars, NEW c \in Caller, call[c].at = "failed", call'[c].at = "idle"
      PROVE  steady[c] \subseteq tried[c]
  BY <1>1, RaiseStep DEF Inv, TriedInv
<1>2. Inv /\ [Next]_vars =>
        [\A c \in Caller : call[c].at = "failed" /\ call'[c].at = "idle" => steady[c] \subseteq tried[c]]_vars
  BY <1>1
<1> QED BY <1>2, Invariance, PTL DEF Spec, FailsLast
=============================================================================

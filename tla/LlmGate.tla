------------------------------ MODULE LlmGate ------------------------------
(* A call of a language model: the daily limit, the circuit breaker and the  *)
(* two attempts of its caller (processing/llm_processor.py,                  *)
(* core/detection/llm_enhanced_base.py), the chain of providers it goes down *)
(* (utils/llm_helper.py), and the rate controller every provider call passes *)
(* (utils/llm_rate_controller.py), which a configuration change replaces     *)
(* while calls are under way.                                                *)
EXTENDS Naturals, Sequences, FiniteSets

CONSTANTS
    Processors,     \* coroutines in LLMMessageProcessor: limit, breaker, timeout
    Detectors,      \* coroutines in LLMEnhancedBase: limit of their own, no breaker, no timeout
    Chain,          \* the provider of each call: the primary one, twice if it has
                    \* both methods, then the fallback providers
    MaxConcurrent,  \* permits of a controller
    DailyLimit,     \* calls a day
    Threshold,      \* CIRCUIT_BREAKER_FAILURE_THRESHOLD
    MaxControllers, \* bound on rate controllers ever made
    MaxUsed         \* bound on counted calls and on counted failures

VARIABLES
    controller, \* the current instance, numbered
    permits,    \* its _semaphore
    holder,     \* who holds its _lock
    request,    \* what each caller is doing
    used,       \* calls counted today, by kind of caller
    breaker,    \* _cb_state
    failures    \* _cb_failure_count

vars == <<controller, permits, holder, request, used, breaker, failures>>
gate == <<controller, permits, holder>>
circuit == <<breaker, failures>>

LlmCallers == Processors \cup Detectors
Controllers == 1..MaxControllers
Nobody == "nobody"
Resting == [at |-> "idle", via |-> 1, left |-> Chain, attempt |-> 1]
Providers == {Chain[i] : i \in 1..Len(Chain)}

\* A limit of 0 is none, and a caller is not nobody.
ASSUME GateAssumption ==
    /\ IsFiniteSet(Processors) /\ IsFiniteSet(Detectors)
    /\ Nobody \notin LlmCallers
    /\ Chain \in Seq(Providers)
    /\ MaxConcurrent \in Nat /\ DailyLimit \in Nat \ {0} /\ Threshold \in Nat \ {0}
    /\ MaxControllers \in Nat \ {0} /\ MaxUsed \in Nat

TypeOK ==
    /\ controller \in Controllers
    /\ permits \in [Controllers -> Nat]
    /\ holder \in [Controllers -> LlmCallers \cup {Nobody}]
    /\ request \in [LlmCallers -> [at : {"idle", "backoff", "lock", "gap", "permit", "call"},
                                  via : Controllers, left : Seq(Providers), attempt : {1, 2}]]
    /\ used \in [{"processor", "detector"} -> Nat]
    /\ breaker \in {"closed", "half_open", "open"} /\ failures \in Nat

Kind(c) == IF c \in Processors THEN "processor" ELSE "detector"
At(c, p) == request[c].at = p
Via(c) == request[c].via

Init ==
    /\ controller = 1
    /\ permits = [g \in Controllers |-> MaxConcurrent]
    /\ holder = [g \in Controllers |-> Nobody]
    /\ request = [c \in LlmCallers |-> Resting]
    /\ used = [k \in {"processor", "detector"} |-> 0]
    /\ breaker = "closed" /\ failures = 0

-----------------------------------------------------------------------------
(* The checks before a call.                                                 *)

WithinLimit(c) == used[Kind(c)] < DailyLimit

\* _circuit_breaker_allow: an open breaker lets a call through once its timeout
\* is over (it may be, at any time), and a half-open one lets every call through.
Begin(c) ==
    /\ At(c, "idle") /\ WithinLimit(c) /\ used[Kind(c)] < MaxUsed
    /\ breaker' = IF c \in Processors /\ breaker = "open" THEN "half_open" ELSE breaker
    /\ request' = [request EXCEPT ![c] = [Resting EXCEPT !.at = "lock", !.via = controller]]
    /\ UNCHANGED <<gate, used, failures>>

-----------------------------------------------------------------------------
(* acquire: what is left of the provider's interval since its last release,  *)
(* which is nothing or something, is slept under the lock; then a permit.    *)
TakeLock(c) ==
    /\ At(c, "lock") /\ holder[Via(c)] = Nobody
    /\ \/ request' = [request EXCEPT ![c].at = "permit"] /\ UNCHANGED holder
       \/ /\ request' = [request EXCEPT ![c].at = "gap"]
          /\ holder' = [holder EXCEPT ![Via(c)] = c]
    /\ UNCHANGED <<controller, permits, used, circuit>>

\* The sleep computed then ends, whatever was released meanwhile.
GapOver(c) ==
    /\ At(c, "gap")
    /\ holder' = [holder EXCEPT ![Via(c)] = Nobody]
    /\ request' = [request EXCEPT ![c].at = "permit"]
    /\ UNCHANGED <<controller, permits, used, circuit>>

TakePermit(c) ==
    /\ At(c, "permit") /\ permits[Via(c)] > 0
    /\ permits' = [permits EXCEPT ![Via(c)] = @ - 1]
    /\ request' = [request EXCEPT ![c].at = "call"]
    /\ UNCHANGED <<controller, holder, used, circuit>>

\* release, by the controller the call was admitted by.
Release(c) == permits' = [permits EXCEPT ![Via(c)] = @ + 1]

\* Mutant: a call that is cut off gives nothing back.
LetGo_Nothing(c) == UNCHANGED <<permits, holder>>

\* What leaving acquire or the call by an exception gives back.
LetGo(c) ==
    /\ IF At(c, "call") THEN Release(c) ELSE UNCHANGED permits
    /\ holder' = IF At(c, "gap") THEN [holder EXCEPT ![Via(c)] = Nobody] ELSE holder

-----------------------------------------------------------------------------
(* The end of a provider call and of an attempt.                             *)

OnSuccess == breaker' = "closed" /\ failures' = 0

OnFailure ==
    /\ failures' = IF failures < MaxUsed THEN failures + 1 ELSE failures
    /\ breaker' = IF breaker = "half_open" \/ failures' >= Threshold THEN "open" ELSE breaker

Answers(c) ==
    /\ At(c, "call")
    /\ Release(c)
    /\ used' = [used EXCEPT ![Kind(c)] = @ + 1]
    /\ request' = [request EXCEPT ![c] = Resting]
    /\ IF c \in Processors THEN OnSuccess ELSE UNCHANGED circuit
    /\ UNCHANGED <<controller, holder>>

\* Another attempt, which looks the controller up anew, or the end of the call.
AttemptFails(c, next) ==
    IF request[c].attempt = 1
    THEN /\ request' = [request EXCEPT ![c] =
                            [Resting EXCEPT !.at = next, !.via = controller, !.attempt = 2]]
         /\ UNCHANGED circuit
    ELSE /\ request' = [request EXCEPT ![c] = Resting]
         /\ IF c \in Processors THEN OnFailure ELSE UNCHANGED circuit

\* The controller of the next call of the chain: a provider's second method goes
\* through the one its first went through.
NextVia(c) == IF request[c].left[2] = request[c].left[1] THEN Via(c) ELSE controller

\* The provider raises, which is caught: the next call of the chain, or the next
\* attempt at once.
ProviderFails(c) ==
    /\ At(c, "call")
    /\ LetGo(c)
    /\ IF Len(request[c].left) > 1
       THEN /\ request' = [request EXCEPT ![c].at = "lock", ![c].via = NextVia(c), ![c].left = Tail(@)]
            /\ UNCHANGED circuit
       ELSE AttemptFails(c, "lock")
    /\ UNCHANGED <<controller, used>>

\* asyncio.timeout around the whole chain, whatever it is waiting for; the caller
\* sleeps before its second attempt.
TimesOut(c) ==
    /\ c \in Processors /\ ~At(c, "idle") /\ ~At(c, "backoff")
    /\ LetGo(c)
    /\ AttemptFails(c, "backoff")
    /\ UNCHANGED <<controller, used>>

Retry(c) ==
    /\ At(c, "backoff")
    /\ request' = [request EXCEPT ![c].at = "lock", ![c].via = controller]
    /\ UNCHANGED <<gate, used, circuit>>

-----------------------------------------------------------------------------
(* configure: a new controller; calls under way keep the old one.            *)
Configure ==
    /\ controller < MaxControllers
    /\ controller' = controller + 1
    /\ UNCHANGED <<permits, holder, request, used, circuit>>

NewDay ==
    /\ \E k \in DOMAIN used : used[k] > 0
    /\ used' = [k \in DOMAIN used |-> 0]
    /\ UNCHANGED <<gate, request, circuit>>

Moves(c) == TakeLock(c) \/ GapOver(c) \/ TakePermit(c) \/ Retry(c)
Ends(c) == Answers(c) \/ ProviderFails(c)

Next ==
    \/ \E c \in LlmCallers : Begin(c) \/ Moves(c) \/ Ends(c) \/ TimesOut(c)
    \/ Configure \/ NewDay

Spec == Init /\ [][Next]_vars

-----------------------------------------------------------------------------
\* However calls time out, fail over and retry while the controller is replaced,
\* every controller has its permits back but for the calls it has admitted, so
\* no more than max_concurrent of them run through it at once.
PermitsConserved ==
    \A g \in Controllers :
        permits[g] + Cardinality({c \in LlmCallers : At(c, "call") /\ Via(c) = g}) = MaxConcurrent

\* The circuit is closed exactly while fewer failures than the threshold have
\* been counted since the last success, in whatever order overlapping calls end.
BreakerCountsFailures == (breaker = "closed") = (failures < Threshold)

\* Calls are checked against the daily limit before they start and counted when
\* they succeed: the limit is passed by no more than the calls under way at once.
DailyOvershootBounded ==
    /\ used["processor"] <= DailyLimit + Cardinality(Processors) - 1
    /\ used["detector"] <= DailyLimit + Cardinality(Detectors) - 1

\* The lock of a controller, once held, is held by a caller that sleeps.
LockHeldAsleep == \A g \in Controllers : holder[g] # Nobody => At(holder[g], "gap") /\ Via(holder[g]) = g

\* However calls overlap, fail, time out and retry while the controller is replaced:
\* permits come back where they were taken, locks are held by sleepers only, the
\* breaker counts the failures, and the daily limits hold but for calls under way.
GateSound == TypeOK /\ PermitsConserved /\ LockHeldAsleep /\ BreakerCountsFailures /\ DailyOvershootBounded
=============================================================================

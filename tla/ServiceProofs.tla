--------------------------- MODULE ServiceProofs ----------------------------
(* Proofs about the services and the way of a message: the components of     *)
(* MCServices, for any callers, messages, providers and limits. A step of a  *)
(* caller of LlmGate is first reduced to what it does to the caller's request *)
(* and to the permits, locks and counts (Turns).                             *)
EXTENDS MCServices, KnowledgeGraphProofs, WellFoundedInduction

Requests == [at : {"idle", "backoff", "lock", "gap", "permit", "call"},
             via : Controllers, left : Seq(Providers), attempt : {1, 2}]

\* What the caller c gives to, and takes from, the controller it goes through on
\* its way to x.
TurnsPermit(c, x) ==
    /\ x.at = "call" => ~At(c, "call") /\ x.via = Via(c) /\ permits[Via(c)] > 0
    /\ permits' = IF x.at = "call" THEN [permits EXCEPT ![Via(c)] = @ - 1]
                  ELSE IF At(c, "call") THEN [permits EXCEPT ![Via(c)] = @ + 1] ELSE permits

TurnsLock(c, x) ==
    /\ x.at = "gap" => ~At(c, "gap") /\ x.via = Via(c) /\ holder[Via(c)] = Nobody
    /\ holder' = IF x.at = "gap" THEN [holder EXCEPT ![Via(c)] = c]
                 ELSE IF At(c, "gap") THEN [holder EXCEPT ![Via(c)] = Nobody] ELSE holder

\* What is checked when it starts a call and counted when it ends one.
TurnsCount(c, x) ==
    /\ At(c, "idle") /\ x.at # "idle" => used[Kind(c)] < DailyLimit
    /\ \/ used' = used
       \/ ~At(c, "idle") /\ x.at = "idle" /\ used' = [used EXCEPT ![Kind(c)] = @ + 1]

Turns(c, x) ==
    /\ request' = [request EXCEPT ![c] = x]
    /\ controller' = controller
    /\ TurnsPermit(c, x) /\ TurnsLock(c, x) /\ TurnsCount(c, x)

-----------------------------------------------------------------------------
(* The steps of a caller                                                     *)

\* A caller that rests.
LEMMA RequestTypes == Resting \in Requests /\ Resting.at = "idle"
BY GateAssumption DEF Resting, Requests, Controllers

\* A request that is changed in its place, its controller or what is left of its
\* chain.
LEMMA RequestMoves ==
  ASSUME TypeOK, NEW c \in LlmCallers
  PROVE  /\ request[c] \in Requests
         /\ \A a \in {"backoff", "lock", "gap", "permit", "call"} :
              /\ [request[c] EXCEPT !.at = a] \in Requests
              /\ [request[c] EXCEPT !.at = a].at = a
              /\ [request[c] EXCEPT !.at = a].via = Via(c)
         /\ \A v \in Controllers : [request[c] EXCEPT !.at = "lock", !.via = v] \in Requests
BY DEF TypeOK, Requests, Via

\* Leaving the controller, for a place outside it.
LEMMA LeavingTurns ==
  ASSUME NEW c \in LlmCallers, LetGo(c), NEW x, x.at \notin {"call", "gap"}
  PROVE  TurnsPermit(c, x) /\ TurnsLock(c, x)
BY DEF LetGo, Release, TurnsPermit, TurnsLock

\* The end of an attempt: the caller starts another or rests.
LEMMA AttemptTurns ==
  ASSUME TypeOK, NEW c \in LlmCallers, ~At(c, "idle"), LetGo(c),
         NEW next \in {"lock", "backoff"}, AttemptFails(c, next),
         UNCHANGED <<controller, used>>
  PROVE  \E x \in Requests : Turns(c, x)
<1>1. CASE request[c].attempt = 1
  <2> DEFINE x == [Resting EXCEPT !.at = next, !.via = controller, !.attempt = 2]
  <2>1. request' = [request EXCEPT ![c] = x]
    BY <1>1 DEF AttemptFails
  <2>2. x \in Requests /\ x.at = next
    BY RequestTypes DEF TypeOK, Requests
  <2> HIDE DEF x
  <2>3. Turns(c, x)
    BY <2>1, <2>2, LeavingTurns DEF Turns, TurnsCount
  <2>4. QED
    BY <2>2, <2>3
<1>2. CASE request[c].attempt # 1
  <2>1. request' = [request EXCEPT ![c] = Resting]
    BY <1>2 DEF AttemptFails
  <2>2. Turns(c, Resting)
    BY <2>1, RequestTypes, LeavingTurns DEF Turns, TurnsCount
  <2>3. QED
    BY <2>2, RequestTypes
<1>3. QED
  BY <1>1, <1>2

\* Every step of a caller is such a turn.
LEMMA CallerTurns ==
  ASSUME TypeOK, NEW c \in LlmCallers, Begin(c) \/ Moves(c) \/ Ends(c) \/ TimesOut(c)
  PROVE  \E x \in Requests : Turns(c, x)
<1> USE GateAssumption
<1>1. CASE Begin(c)
  <2> DEFINE x == [Resting EXCEPT !.at = "lock", !.via = controller]
  <2>1. x \in Requests /\ x.at = "lock"
    BY RequestTypes DEF TypeOK, Requests
  <2>2. Turns(c, x)
    BY <1>1, <2>1 DEF Begin, At, WithinLimit, Turns, TurnsPermit, TurnsLock, TurnsCount, gate
  <2>3. QED
    BY <2>1, <2>2
<1>2. ASSUME NEW a \in {"gap", "permit", "call"},
             request' = [request EXCEPT ![c].at = a], ~At(c, "idle"),
             UNCHANGED <<controller, used>>,
             TurnsPermit(c, [request[c] EXCEPT !.at = a]),
             TurnsLock(c, [request[c] EXCEPT !.at = a])
      PROVE  \E x \in Requests : Turns(c, x)
  <2> DEFINE x == [request[c] EXCEPT !.at = a]
  <2>1. x \in Requests /\ x.at = a
    BY RequestMoves
  <2>2. request' = [request EXCEPT ![c] = x]
    BY <1>2
  <2>3. Turns(c, x)
    BY <1>2, <2>1, <2>2 DEF Turns, TurnsCount
  <2>4. QED
    BY <2>1, <2>3
<1>3. CASE TakeLock(c)
  <2>1. CASE request' = [request EXCEPT ![c].at = "permit"] /\ UNCHANGED holder
    BY <1>2, <1>3, <2>1, RequestMoves DEF TakeLock, At, TurnsPermit, TurnsLock
  <2>2. CASE /\ request' = [request EXCEPT ![c].at = "gap"]
             /\ holder' = [holder EXCEPT ![Via(c)] = c]
    BY <1>2, <1>3, <2>2, RequestMoves DEF TakeLock, At, TurnsPermit, TurnsLock
  <2>3. QED
    BY <1>3, <2>1, <2>2 DEF TakeLock
<1>4. CASE GapOver(c)
  BY <1>2, <1>4, RequestMoves DEF GapOver, At, TurnsPermit, TurnsLock
<1>5. CASE TakePermit(c)
  BY <1>2, <1>5, RequestMoves DEF TakePermit, At, TurnsPermit, TurnsLock
<1>6. CASE Retry(c)
  <2> DEFINE x == [request[c] EXCEPT !.at = "lock", !.via = controller]
  <2>1. x \in Requests /\ x.at = "lock"
    BY RequestMoves DEF TypeOK, Requests
  <2>2. request' = [request EXCEPT ![c] = x]
    BY <1>6 DEF Retry
  <2>3. Turns(c, x)
    BY <1>6, <2>1, <2>2 DEF Retry, At, Turns, TurnsPermit, TurnsLock, TurnsCount, gate
  <2>4. QED
    BY <2>1, <2>3
<1>7. CASE Answers(c)
  <2>1. Turns(c, Resting)
    BY <1>7, RequestTypes DEF Answers, At, Release, Turns, TurnsPermit, TurnsLock, TurnsCount
  <2>2. QED
    BY <2>1, RequestTypes
<1>8. CASE ProviderFails(c)
  <2>1. CASE Len(request[c].left) > 1
    <3> DEFINE x == [request[c] EXCEPT !.at = "lock", !.via = NextVia(c), !.left = Tail(@)]
    <3>1. NextVia(c) \in Controllers
      BY RequestMoves DEF NextVia, Via, TypeOK, Requests
    <3>2. request[c].left \in Seq(Providers) /\ request[c].left # <<>>
      <4>1. request[c].left \in Seq(Providers)
        BY RequestMoves DEF Requests
      <4>2. Len(<<>>) = 0
        BY EmptySeq
      <4>3. QED
        BY <2>1, <4>1, <4>2
    <3>3. Tail(request[c].left) \in Seq(Providers)
      BY <3>2, HeadTailProperties
    <3>4. x \in Requests /\ x.at = "lock"
      BY <3>1, <3>3, RequestMoves DEF Requests
    <3>5. request' = [request EXCEPT ![c] = x]
      BY <1>8, <2>1 DEF ProviderFails
    <3> HIDE DEF x
    <3>6. Turns(c, x)
      BY <1>8, <3>4, <3>5, LeavingTurns DEF ProviderFails, At, Turns, TurnsCount
    <3>7. QED
      BY <3>4, <3>6
  <2>2. CASE ~ (Len(request[c].left) > 1)
    BY <1>8, <2>2, AttemptTurns DEF ProviderFails, At
  <2>3. QED
    BY <2>1, <2>2
<1>9. CASE TimesOut(c)
  BY <1>9, AttemptTurns DEF TimesOut, At
<1>10. QED
  BY <1>1, <1>3, <1>4, <1>5, <1>6, <1>7, <1>8, <1>9 DEF Moves, Ends

\* The circuit breaker in a step of a caller, and in every other step.
LEMMA BreakerStep ==
  ASSUME TypeOK, BreakerCountsFailures, [Next]_vars
  PROVE  /\ breaker' \in {"closed", "half_open", "open"} /\ failures' \in Nat
         /\ BreakerCountsFailures'
<1> USE GateAssumption DEF TypeOK, BreakerCountsFailures
<1>1. CASE UNCHANGED circuit
  BY <1>1 DEF circuit
<1>2. CASE OnSuccess
  BY <1>2 DEF OnSuccess
<1>3. CASE OnFailure
  BY <1>3 DEF OnFailure
<1>4. ASSUME NEW c \in LlmCallers, Begin(c)
      PROVE  failures' = failures /\ breaker' \in {breaker, "half_open"}
             /\ (breaker' # breaker => breaker = "open")
  BY <1>4 DEF Begin
<1>5. ASSUME NEW c \in LlmCallers, Moves(c) \/ Ends(c) \/ TimesOut(c)
      PROVE  UNCHANGED circuit \/ OnSuccess \/ OnFailure
  BY <1>5 DEF Moves, TakeLock, GapOver, TakePermit, Retry, Ends, Answers,
     ProviderFails, TimesOut, AttemptFails
<1>6. CASE Configure \/ NewDay \/ UNCHANGED vars
  BY <1>1, <1>6 DEF Configure, NewDay, vars, circuit
<1>7. CASE \E c \in LlmCallers : Begin(c)
  BY <1>4, <1>7
<1>8. QED
  BY <1>1, <1>2, <1>3, <1>5, <1>6, <1>7 DEF Next

\* Every variable but the breaker's, in every step.
LEMMA TypeStep ==
  ASSUME TypeOK, BreakerCountsFailures, [Next]_vars
  PROVE  TypeOK'
<1>1. breaker' \in {"closed", "half_open", "open"} /\ failures' \in Nat
  BY BreakerStep
<1>2. ASSUME NEW c \in LlmCallers, Begin(c) \/ Moves(c) \/ Ends(c) \/ TimesOut(c)
      PROVE  TypeOK'
  <2>1. PICK x \in Requests : Turns(c, x)
    BY <1>2, CallerTurns
  <2>2. request' \in [LlmCallers -> Requests] /\ controller' \in Controllers
    BY <2>1 DEF Turns, TypeOK, Requests
  <2>3. Via(c) \in Controllers /\ Kind(c) \in {"processor", "detector"}
    BY DEF TypeOK, Via, Kind
  <2>4. permits' \in [Controllers -> Nat]
    <3>1. permits[Via(c)] \in Nat
      BY <2>3 DEF TypeOK
    <3>2. x.at = "call" => permits[Via(c)] - 1 \in Nat
      BY <2>1, <3>1 DEF Turns, TurnsPermit
    <3>3. permits[Via(c)] + 1 \in Nat
      BY <3>1
    <3>4. QED
      BY <2>1, <2>3, <3>2, <3>3 DEF Turns, TurnsPermit, TypeOK
  <2>5. holder' \in [Controllers -> LlmCallers \cup {Nobody}]
    BY <2>1, <2>3 DEF Turns, TurnsLock, TypeOK
  <2>6. used' \in [{"processor", "detector"} -> Nat]
    BY <2>1, <2>3 DEF Turns, TurnsCount, TypeOK
  <2>7. QED
    BY <1>1, <2>2, <2>4, <2>5, <2>6 DEF TypeOK, Requests
<1>3. CASE Configure
  BY <1>1, <1>3, GateAssumption DEF Configure, TypeOK, Controllers
<1>4. CASE NewDay
  BY <1>1, <1>4 DEF NewDay, TypeOK, gate
<1>5. CASE UNCHANGED vars
  BY <1>5 DEF vars, TypeOK
<1>6. QED
  BY <1>2, <1>3, <1>4, <1>5 DEF Next

-----------------------------------------------------------------------------
(* The permits                                                               *)

Admitted(g) == {c \in LlmCallers : At(c, "call") /\ Via(c) = g}

\* Callers are finitely many, and so are those a controller has admitted.
LEMMA Finite ==
  /\ IsFiniteSet(LlmCallers)
  /\ \A S \in SUBSET LlmCallers : IsFiniteSet(S) /\ Cardinality(S) \in Nat
BY GateAssumption, FS_Union, FS_Subset, FS_CardinalityType DEF LlmCallers

\* A turn takes a permit exactly when it admits its caller, and gives it back
\* when the caller leaves.
LEMMA PermitsTurn ==
  ASSUME TypeOK, PermitsConserved, NEW c \in LlmCallers, NEW x \in Requests, Turns(c, x)
  PROVE  PermitsConserved'
<1> USE GateAssumption
<1>1. /\ request' = [request EXCEPT ![c] = x] /\ request[c] \in Requests
      /\ Via(c) \in Controllers /\ TurnsPermit(c, x)
  BY DEF Turns, TypeOK, Requests, Via
<1>2. ASSUME NEW g \in Controllers
      PROVE  /\ Admitted(g) \in SUBSET LlmCallers
             /\ Admitted(g)' = (Admitted(g) \ {c})
                  \cup (IF x.at = "call" /\ x.via = g THEN {c} ELSE {})
             /\ c \in Admitted(g) <=> At(c, "call") /\ Via(c) = g
  BY <1>1 DEF Admitted, At, Via, TypeOK
<1>3. ASSUME NEW g \in Controllers
      PROVE  permits'[g] + Cardinality(Admitted(g)') = MaxConcurrent
  <2>1. /\ permits[g] + Cardinality(Admitted(g)) = MaxConcurrent
        /\ permits[g] \in Nat /\ Cardinality(Admitted(g)) \in Nat
        /\ IsFiniteSet(Admitted(g))
    BY <1>2, Finite DEF PermitsConserved, Admitted, TypeOK
  <2>2. CASE g # Via(c)
    <3>1. Admitted(g)' = Admitted(g)
      BY <1>1, <1>2, <2>2 DEF TurnsPermit
    <3>2. permits'[g] = permits[g]
      BY <1>1, <2>2 DEF TurnsPermit, TypeOK
    <3>3. QED
      BY <2>1, <3>1, <3>2
  <2>3. CASE g = Via(c) /\ x.at = "call"
    <3>1. c \notin Admitted(g) /\ Admitted(g)' = Admitted(g) \cup {c}
      BY <1>1, <1>2, <2>3 DEF TurnsPermit
    <3>2. Cardinality(Admitted(g)') = Cardinality(Admitted(g)) + 1
      BY <2>1, <3>1, FS_AddElement
    <3>3. permits'[g] = permits[g] - 1
      BY <1>1, <2>3 DEF TurnsPermit, TypeOK
    <3>4. QED
      BY <2>1, <3>2, <3>3
  <2>4. CASE g = Via(c) /\ x.at # "call" /\ At(c, "call")
    <3>1. c \in Admitted(g) /\ Admitted(g)' = Admitted(g) \ {c}
      BY <1>1, <1>2, <2>4
    <3>2. Cardinality(Admitted(g)') = Cardinality(Admitted(g)) - 1
      BY <2>1, <3>1, FS_RemoveElement
    <3>3. permits'[g] = permits[g] + 1
      BY <1>1, <2>4 DEF TurnsPermit, TypeOK
    <3>4. QED
      BY <2>1, <3>2, <3>3
  <2>5. CASE x.at # "call" /\ ~At(c, "call")
    <3>1. Admitted(g)' = Admitted(g) /\ permits' = permits
      BY <1>1, <1>2, <2>5 DEF TurnsPermit
    <3>2. QED
      BY <2>1, <3>1
  <2>6. QED
    BY <2>2, <2>3, <2>4, <2>5
<1>4. QED
  BY <1>3 DEF PermitsConserved, Admitted

-----------------------------------------------------------------------------
(* The locks                                                                 *)

\* The converse of LockHeldAsleep, which keeps a caller that leaves from freeing
\* the lock of another.
LockInv ==
    /\ LockHeldAsleep
    /\ \A c \in LlmCallers : At(c, "gap") => holder[Via(c)] = c

\* A turn takes the free lock of its own controller, or frees what it holds.
LEMMA LockTurn ==
  ASSUME TypeOK, LockInv, NEW c \in LlmCallers, NEW x \in Requests, Turns(c, x)
  PROVE  LockInv'
<1> USE GateAssumption
<1>1. /\ request' = [request EXCEPT ![c] = x] /\ request[c] \in Requests
      /\ Via(c) \in Controllers /\ TurnsLock(c, x)
  BY DEF Turns, TypeOK, Requests, Via
<1>2. /\ At(c, "gap")' <=> x.at = "gap"
      /\ Via(c)' = x.via
      /\ \A d \in LlmCallers \ {c} : (At(d, "gap")' <=> At(d, "gap")) /\ Via(d)' = Via(d)
      /\ \A d \in LlmCallers : Via(d) \in Controllers
  BY <1>1 DEF At, Via, TypeOK, Requests
<1>3. ASSUME NEW d \in LlmCallers, At(d, "gap")'
      PROVE  holder'[Via(d)'] = d
  <2>1. CASE d = c
    BY <1>1, <1>2, <1>3, <2>1 DEF TurnsLock, TypeOK
  <2>2. CASE d # c
    <3>1. At(d, "gap") /\ Via(d)' = Via(d) /\ holder[Via(d)] = d
      BY <1>2, <1>3, <2>2 DEF LockInv
    <3>2. Via(d) # Via(c) \/ holder' = holder
      BY <1>1, <2>2, <3>1 DEF TurnsLock, LockInv
    <3>3. QED
      BY <1>1, <1>2, <3>1, <3>2 DEF TurnsLock, TypeOK
  <2>3. QED
    BY <2>1, <2>2
<1>4. ASSUME NEW g \in Controllers, holder'[g] # Nobody
      PROVE  request'[holder'[g]].at = "gap" /\ request'[holder'[g]].via = g
  <2>1. CASE g = Via(c) /\ x.at = "gap"
    <3>1. holder'[g] = c
      BY <1>1, <2>1 DEF TurnsLock, TypeOK
    <3>2. QED
      BY <1>1, <2>1, <3>1 DEF TurnsLock, TypeOK
  <2>2. CASE ~ (g = Via(c) /\ x.at = "gap")
    <3>1. holder'[g] = holder[g]
      BY <1>1, <1>4, <2>2 DEF TurnsLock, TypeOK
    <3>2. holder[g] \in LlmCallers /\ At(holder[g], "gap") /\ Via(holder[g]) = g
      BY <1>4, <3>1 DEF LockInv, LockHeldAsleep, TypeOK
    <3>3. holder[g] # c
      BY <1>1, <1>4, <2>2, <3>1, <3>2 DEF TurnsLock, TypeOK
    <3>4. request'[holder[g]] = request[holder[g]]
      BY <1>1, <3>2, <3>3 DEF TypeOK
    <3>5. QED
      BY <3>1, <3>2, <3>4 DEF At, Via
  <2>3. QED
    BY <2>1, <2>2
<1>5. QED
  BY <1>3, <1>4 DEF LockInv, LockHeldAsleep, At, Via

-----------------------------------------------------------------------------
(* The daily limit                                                           *)

Members(k) == {c \in LlmCallers : Kind(c) = k}
Busy(k) == {c \in LlmCallers : Kind(c) = k /\ ~At(c, "idle")}

\* The calls counted and those under way: a call begins below the limit, and each
\* one under way is counted once or not at all.
CountInv ==
    \A k \in {"processor", "detector"} :
        used[k] + Cardinality(Busy(k)) <= DailyLimit + Cardinality(Members(k)) - 1

\* The callers under way are callers of their kind.
LEMMA BusyMembers ==
  \A k : /\ Busy(k) \in SUBSET Members(k)
         /\ Busy(k) \in SUBSET LlmCallers /\ Members(k) \in SUBSET LlmCallers
         /\ Cardinality(Busy(k)) \in Nat /\ Cardinality(Members(k)) \in Nat
         /\ Cardinality(Busy(k)) <= Cardinality(Members(k))
<1>1. \A k : /\ Busy(k) \in SUBSET Members(k)
             /\ Busy(k) \in SUBSET LlmCallers /\ Members(k) \in SUBSET LlmCallers
  BY DEF Busy, Members
<1>2. \A k : Cardinality(Busy(k)) <= Cardinality(Members(k))
  BY <1>1, Finite, FS_Subset
<1>3. QED
  BY <1>1, <1>2, Finite

\* A turn begins a call below the limit, or counts one that ends.
LEMMA CountTurn ==
  ASSUME TypeOK, CountInv, NEW c \in LlmCallers, NEW x \in Requests, Turns(c, x)
  PROVE  CountInv'
<1> USE GateAssumption
<1>1. /\ request' = [request EXCEPT ![c] = x] /\ TurnsCount(c, x)
      /\ Kind(c) \in {"processor", "detector"}
  BY DEF Turns, Kind
<1>2. ASSUME NEW k \in {"processor", "detector"}
      PROVE  used'[k] + Cardinality(Busy(k)') <= DailyLimit + Cardinality(Members(k)) - 1
  <2>1. /\ Busy(k)' \in SUBSET Members(k) /\ Busy(k) \in SUBSET Members(k)
        /\ Busy(k)' = (Busy(k) \ {c}) \cup (IF x.at # "idle" /\ Kind(c) = k THEN {c} ELSE {})
        /\ c \in Busy(k) <=> Kind(c) = k /\ ~At(c, "idle")
    BY <1>1 DEF Busy, Members, At, TypeOK
  <2>2. /\ used[k] + Cardinality(Busy(k)) <= DailyLimit + Cardinality(Members(k)) - 1
        /\ used[k] \in Nat /\ Cardinality(Busy(k)) \in Nat /\ IsFiniteSet(Busy(k))
        /\ Cardinality(Members(k)) \in Nat /\ IsFiniteSet(Members(k))
    BY BusyMembers, Finite DEF CountInv, TypeOK
  <2>3. /\ Cardinality(Busy(k)') \in Nat
        /\ Cardinality(Busy(k)') <= Cardinality(Members(k))
    BY <2>1, <2>2, FS_Subset, FS_CardinalityType
  <2>4. CASE Kind(c) = k /\ At(c, "idle") /\ x.at # "idle"
    <3>1. used'[k] = used[k] /\ used[k] < DailyLimit
      BY <1>1, <2>4 DEF TurnsCount
    <3>2. QED
      BY <2>2, <2>3, <3>1
  <2>5. CASE Kind(c) = k /\ ~At(c, "idle") /\ x.at = "idle"
    <3>1. c \in Busy(k) /\ Busy(k)' = Busy(k) \ {c}
      BY <2>1, <2>5
    <3>2. Cardinality(Busy(k)') = Cardinality(Busy(k)) - 1
      BY <2>2, <3>1, FS_RemoveElement
    <3>3. used'[k] = used[k] \/ used'[k] = used[k] + 1
      BY <1>1, <2>5 DEF TurnsCount, TypeOK
    <3>4. QED
      BY <2>2, <2>3, <3>2, <3>3
  <2>6. CASE Kind(c) # k \/ (At(c, "idle") <=> x.at = "idle")
    <3>1. Busy(k)' = Busy(k)
      BY <2>1, <2>6
    <3>2. used'[k] = used[k]
      BY <1>1, <2>6 DEF TurnsCount, TypeOK
    <3>3. QED
      BY <2>2, <3>1, <3>2
  <2>7. QED
    BY <2>4, <2>5, <2>6
<1>3. QED
  BY <1>2 DEF CountInv, Members, Kind

-----------------------------------------------------------------------------
(* The theorems                                                              *)

IInv == TypeOK /\ PermitsConserved /\ LockInv /\ BreakerCountsFailures /\ CountInv

\* At first nobody calls.
LEMMA GateStarts == Init => IInv
<1> SUFFICES ASSUME Init PROVE IInv
  OBVIOUS
<1> USE GateAssumption
<1>1. TypeOK
  BY RequestTypes DEF Init, TypeOK, Requests, Controllers
<1>2. \A c \in LlmCallers : At(c, "idle")
  BY DEF Init, Resting, At
<1>3. PermitsConserved
  <2>1. \A g \in Controllers : Admitted(g) = {}
    BY <1>2 DEF Admitted, At
  <2>2. \A g \in Controllers : Cardinality(Admitted(g)) = 0 /\ permits[g] = MaxConcurrent
    BY <2>1, FS_EmptySet DEF Init
  <2>3. QED
    BY <2>2 DEF PermitsConserved, Admitted
<1>4. LockInv
  BY <1>2 DEF Init, LockInv, LockHeldAsleep, At
<1>5. CountInv
  <2>1. \A k : Busy(k) = {}
    BY <1>2 DEF Busy
  <2>2. \A k : Cardinality(Busy(k)) = 0
    BY <2>1, FS_EmptySet
  <2>3. QED
    BY <2>2, BusyMembers DEF Init, CountInv
<1>6. QED
  BY <1>1, <1>3, <1>4, <1>5 DEF Init, IInv, BreakerCountsFailures

\* Every step keeps the invariant.
LEMMA GateSteps == IInv /\ [Next]_vars => IInv'
<1> SUFFICES ASSUME IInv, [Next]_vars PROVE IInv'
  OBVIOUS
<1>1. TypeOK' /\ BreakerCountsFailures'
  BY TypeStep, BreakerStep DEF IInv
<1>2. ASSUME NEW c \in LlmCallers, Begin(c) \/ Moves(c) \/ Ends(c) \/ TimesOut(c)
      PROVE  IInv'
  <2>1. PICK x \in Requests : Turns(c, x)
    BY <1>2, CallerTurns DEF IInv
  <2>2. QED
    BY <1>1, <2>1, PermitsTurn, LockTurn, CountTurn DEF IInv
<1>3. ASSUME UNCHANGED <<permits, holder, request>>
      PROVE  PermitsConserved' /\ LockInv'
  BY <1>3 DEF IInv, PermitsConserved, LockInv, LockHeldAsleep, At, Via
<1>4. CASE Configure \/ UNCHANGED vars
  <2>1. UNCHANGED <<permits, holder, request, used>>
    BY <1>4 DEF Configure, vars
  <2>2. CountInv'
    BY <2>1 DEF IInv, CountInv, Busy, Members, Kind, At
  <2>3. QED
    BY <1>1, <1>3, <2>1, <2>2 DEF IInv
<1>5. CASE NewDay
  <2>1. UNCHANGED <<permits, holder, request>>
        /\ \A k \in {"processor", "detector"} : used'[k] = 0
    BY <1>5 DEF NewDay, gate, IInv, TypeOK
  <2>2. \A k : Busy(k)' = Busy(k) /\ Members(k)' = Members(k)
    BY <2>1 DEF Busy, Members, Kind, At
  <2>3. CountInv'
    BY <2>1, <2>2, BusyMembers, GateAssumption DEF CountInv
  <2>4. QED
    BY <1>1, <1>3, <2>1, <2>3 DEF IInv
<1>6. QED
  BY <1>2, <1>4, <1>5 DEF Next

LEMMA Invariant == Spec => []IInv
BY GateStarts, GateSteps, PTL DEF Spec

\* Types: no semaphore is ever taken below zero.
THEOREM GateTypes == Spec => []TypeOK
BY Invariant, PTL DEF IInv

\* No time-out, failed provider, retry or new configuration loses a permit of a
\* controller or makes one up.
THEOREM Permits == Spec => []PermitsConserved
BY Invariant, PTL DEF IInv

\* A controller's lock is held by a caller that will free it.
THEOREM Locks == Spec => []LockHeldAsleep
<1>1. IInv => LockHeldAsleep
  BY DEF IInv, LockInv
<1>2. QED
  BY <1>1, Invariant, PTL

\* The breaker is open from the threshold on, and closed below it.
THEOREM Breaker == Spec => []BreakerCountsFailures
BY Invariant, PTL DEF IInv

\* The limit is passed by less than one call for each caller.
THEOREM Overshoot == Spec => []DailyOvershootBounded
<1>1. ASSUME IInv
      PROVE  DailyOvershootBounded
  <2>1. ASSUME NEW k \in {"processor", "detector"}
        PROVE  used[k] <= DailyLimit + Cardinality(Members(k)) - 1
    BY <1>1, BusyMembers, GateAssumption DEF IInv, CountInv, TypeOK
  <2>2. /\ Cardinality(Members("processor")) <= Cardinality(Processors)
        /\ Cardinality(Members("detector")) <= Cardinality(Detectors)
        /\ Cardinality(Processors) \in Nat /\ Cardinality(Detectors) \in Nat
    <3>1. Members("processor") \subseteq Processors /\ Members("detector") \subseteq Detectors
      BY DEF Members, Kind, LlmCallers
    <3>2. QED
      BY <3>1, GateAssumption, FS_Subset, FS_CardinalityType
  <2>3. /\ used["processor"] \in Nat /\ used["detector"] \in Nat
        /\ Cardinality(Members("processor")) \in Nat /\ Cardinality(Members("detector")) \in Nat
    BY <1>1, BusyMembers DEF IInv, TypeOK
  <2>4. QED
    BY <2>1, <2>2, <2>3, GateAssumption DEF DailyOvershootBounded
<1>2. QED
  BY <1>1, Invariant, PTL

\* Permits, locks, breaker and daily limits together, as the runs check them.
THEOREM Sound == Spec => []GateSound
BY GateTypes, Permits, Locks, Breaker, Overshoot, PTL DEF GateSound

-----------------------------------------------------------------------------
(* The cache of the embedding service (EmbeddingService).                    *)

EmbeddingNames == {"astrbot", "local", "fallback"}
Vectors == [text : Sentences, by : EmbeddingNames]
TextOf == [v \in Vectors |-> v.text]
EmbeddingCalls == [at : {"idle", "first", "again"}, text : Sentences \cup {""},
                   left : Seq(EmbeddingNames), got : EmbeddingNames \cup {"none"}]

EmbeddingTypes ==
    /\ providers \subseteq EmbeddingNames /\ current \in EmbeddingNames \cup {"none"}
    /\ cache \in Seq(Vectors) /\ Len(cache) <= CacheMax /\ Distinct(TextOf, cache)
    /\ call \in [EmbedCallers -> EmbeddingCalls]
    /\ \A c \in EmbedCallers : call[c].at # "idle" => call[c].text \in Sentences

\* All that is registered, that answered and that is still to answer is one provider.
Sole(p) ==
    /\ providers \subseteq {p} /\ current \in {p, "none"}
    /\ \A v \in Range(cache) : v.by = p
    /\ \A c \in EmbedCallers : call[c].got \in {p, "none"}

EmbeddingInv ==
    /\ EmbeddingTypes
    /\ source = "unset" => /\ providers = {} /\ current = "none" /\ cache = <<>>
                           /\ \A c \in EmbedCallers : call[c].got = "none"
    /\ \E p \in EmbeddingNames : Sole(p)

\* The places of a text in the cache.
LEMMA CachedPlaces ==
    ASSUME EmbeddingTypes, NEW x
    PROVE  /\ Emb!Cached(x) \subseteq 1 .. Len(cache)
           /\ \A i \in Emb!Cached(x) : cache[i].text = x /\ cache[i] \in Vectors /\ cache[i] \in Range(cache)
           /\ Emb!Cached(x) = {} => \A v \in Range(cache) : TextOf[v] # x
<1>1. DOMAIN cache = 1 .. Len(cache) /\ \A i \in 1 .. Len(cache) : cache[i] \in Vectors
  BY LenProperties, ElementOfSeq DEF EmbeddingTypes
<1>2. QED  BY <1>1 DEF Emb!Cached, Range, TextOf

\* Inserting replaces the entry of the same text or, in a full cache, the oldest one.
LEMMA Inserting ==
    ASSUME CacheMax \in Nat \ {0}, EmbeddingTypes, NEW e \in Vectors
    PROVE  /\ Emb!Insert(e) \in Seq(Vectors) /\ Len(Emb!Insert(e)) <= CacheMax
           /\ Distinct(TextOf, Emb!Insert(e))
           /\ Range(Emb!Insert(e)) \subseteq Range(cache) \cup {e}
<1>1. cache \in Seq(Vectors) /\ Len(cache) \in Nat /\ Len(cache) <= CacheMax /\ Distinct(TextOf, cache)
  BY LenProperties DEF EmbeddingTypes
<1>2. CASE Emb!Cached(e.text) # {}
  <2>1. PICK i \in 1 .. Len(cache) : cache[i].text = e.text /\ Emb!Insert(e) = Append(RemoveAt(cache, i), e)
                                     /\ cache[i] \in Vectors
    <3>1. (CHOOSE i \in Emb!Cached(e.text) : TRUE) \in Emb!Cached(e.text)
      BY <1>2
    <3>2. QED  BY <1>2, <3>1, CachedPlaces DEF Emb!Insert, Emb!Popped, RemoveAt
  <2>2. /\ RemoveAt(cache, i) \in Seq(Vectors) /\ Len(RemoveAt(cache, i)) = Len(cache) - 1
        /\ Distinct(TextOf, RemoveAt(cache, i))
        /\ \A v : v \in Range(RemoveAt(cache, i)) <=> v \in Range(cache) /\ TextOf[v] # TextOf[cache[i]]
    BY <1>1, RemovalDistinct
  <2>3. TextOf[cache[i]] = TextOf[e]
    BY <2>1 DEF TextOf
  <2>4. \A v \in Range(RemoveAt(cache, i)) : TextOf[v] # TextOf[e]
    BY <2>2, <2>3
  <2>5. /\ Append(RemoveAt(cache, i), e) \in Seq(Vectors)
        /\ Len(Append(RemoveAt(cache, i), e)) = Len(RemoveAt(cache, i)) + 1
        /\ Distinct(TextOf, Append(RemoveAt(cache, i), e))
        /\ Range(Append(RemoveAt(cache, i), e)) = Range(RemoveAt(cache, i)) \cup {e}
    BY <2>2, <2>4, AppendDistinct
  <2>6. QED  BY <1>1, <2>1, <2>2, <2>5
<1>3. CASE Emb!Cached(e.text) = {}
  <2>1. \A v \in Range(cache) : TextOf[v] # TextOf[e]
    BY <1>3, CachedPlaces DEF TextOf
  <2> DEFINE room == IF Len(cache) >= CacheMax THEN Tail(cache) ELSE cache
  <2>2. /\ room \in Seq(Vectors) /\ Len(room) <= CacheMax - 1 /\ Distinct(TextOf, room)
        /\ Range(room) \subseteq Range(cache) /\ Len(room) \in Nat
    <3>1. CASE Len(cache) >= CacheMax
      <4>1. cache # <<>>
        BY <3>1, EmptySeq
      <4>2. /\ Tail(cache) \in Seq(Vectors) /\ Len(Tail(cache)) = Len(cache) - 1
            /\ Distinct(TextOf, Tail(cache)) /\ Range(Tail(cache)) \subseteq Range(cache)
        BY <1>1, <4>1, TailDistinct
      <4>3. Len(Tail(cache)) \in Nat
        BY <4>2, LenProperties
      <4>4. QED  BY <1>1, <3>1, <4>2, <4>3
    <3>2. CASE ~(Len(cache) >= CacheMax)
      BY <1>1, <3>2
    <3>3. QED  BY <3>1, <3>2
  <2>3. \A v \in Range(room) : TextOf[v] # TextOf[e]
    BY <2>1, <2>2
  <2>4. Emb!Insert(e) = Append(room, e)
    BY <1>3 DEF Emb!Insert
  <2> HIDE DEF room
  <2>5. /\ Append(room, e) \in Seq(Vectors) /\ Len(Append(room, e)) = Len(room) + 1
        /\ Distinct(TextOf, Append(room, e)) /\ Range(Append(room, e)) = Range(room) \cup {e}
    BY <2>2, <2>3, AppendDistinct
  <2>6. QED  BY <2>2, <2>4, <2>5
<1>4. QED  BY <1>2, <1>3

\* A caller's call becomes x: one that rests, or one for a text and of the provider.
LEMMA CallChanges ==
    ASSUME EmbeddingTypes, NEW c \in EmbedCallers, NEW x \in EmbeddingCalls,
           x.at # "idle" => x.text \in Sentences, call' = [call EXCEPT ![c] = x]
    PROVE  /\ call' \in [EmbedCallers -> EmbeddingCalls]
           /\ \A d \in EmbedCallers : call'[d].at # "idle" => call'[d].text \in Sentences
           /\ \A d \in EmbedCallers : call'[d] = IF d = c THEN x ELSE call[d]
BY DEF EmbeddingTypes

\* The calls a step makes of a call, and what they keep of it.
LEMMA CallForms ==
    /\ Emb!NoCall \in EmbeddingCalls /\ Emb!NoCall.at = "idle" /\ Emb!NoCall.got = "none"
    /\ \A t \in Sentences, p \in EmbeddingNames \cup {"none"} :
         LET x == [Emb!NoCall EXCEPT !.at = "first", !.text = t, !.got = p] IN
         x \in EmbeddingCalls /\ x.text = t /\ x.got = p
<1>1. <<>> \in Seq(EmbeddingNames)
  BY EmptySeq
<1>2. QED  BY <1>1 DEF Emb!NoCall, EmbeddingCalls

LEMMA FailureForm ==
    ASSUME EmbeddingTypes, NEW c \in EmbedCallers,
           call[c].at = "first" \/ (call[c].at = "again" /\ call[c].left # <<>>)
    PROVE  LET x == Emb!AfterFailure(c) IN
           x \in EmbeddingCalls /\ x.text \in Sentences /\ x.got = call[c].got
<1>1. /\ call[c] \in EmbeddingCalls /\ call[c].text \in Sentences
      /\ call[c].left \in Seq(EmbeddingNames)
  BY DEF EmbeddingTypes, EmbeddingCalls
<1>2. Emb!Order \in Seq(EmbeddingNames)
  BY DEF Emb!Order, EmbeddingNames
<1>3. call[c].at # "first" => Tail(call[c].left) \in Seq(EmbeddingNames)
  BY <1>1, HeadTailProperties
<1>4. PICK l \in Seq(EmbeddingNames) : Emb!AfterFailure(c) = [call[c] EXCEPT !.at = "again", !.left = l]
  BY <1>2, <1>3 DEF Emb!AfterFailure
<1>5. QED  BY <1>1, <1>4 DEF EmbeddingCalls

-----------------------------------------------------------------------------
(* The steps.                                                                *)

LEMMA InitializeKeeps ==
    ASSUME EmbeddingInv, NEW s \in {"auto", "astrbot", "local"}, NEW p \in EmbeddingNames,
           Emb!Initialize(s, p)
    PROVE  EmbeddingInv'
<1>1. /\ source = "unset" /\ source' = s /\ providers' = {p} /\ current' = p
      /\ UNCHANGED <<cache, call>>
  BY DEF Emb!Initialize, Emb!Registered
<1>2. cache = <<>> /\ \A c \in EmbedCallers : call[c].got = "none"
  BY <1>1 DEF EmbeddingInv
<1>3. Range(cache) = {}
  BY <1>2 DEF Range
<1>4. Sole(p)'
  BY <1>1, <1>2, <1>3 DEF Sole
<1>5. EmbeddingTypes'
  BY <1>1 DEF EmbeddingInv, EmbeddingTypes
<1>6. source' # "unset"
  BY <1>1
<1>7. QED  BY <1>4, <1>5, <1>6 DEF EmbeddingInv

\* A call enters: with the current provider, or not at all when its text is cached.
LEMMA EnterKeeps ==
    ASSUME EmbeddingInv, NEW c \in EmbedCallers, NEW x \in Sentences,
           call' \in {call, [call EXCEPT ![c] = [Emb!NoCall EXCEPT !.at = "first", !.text = x, !.got = current]]},
           UNCHANGED <<source, providers, current, loading>>,
           cache' \in Seq(Vectors), Len(cache') <= CacheMax, Distinct(TextOf, cache'),
           Range(cache') \subseteq Range(cache), cache = <<>> => cache' = <<>>
    PROVE  EmbeddingInv'
<1>1. EmbeddingTypes /\ current \in EmbeddingNames \cup {"none"}
  BY DEF EmbeddingInv, EmbeddingTypes
<1> DEFINE y == [Emb!NoCall EXCEPT !.at = "first", !.text = x, !.got = current]
<1>2. y \in EmbeddingCalls /\ y.text = x /\ y.got = current
  BY <1>1, CallForms
<1>3. /\ call' \in [EmbedCallers -> EmbeddingCalls]
      /\ \A d \in EmbedCallers : call'[d].at # "idle" => call'[d].text \in Sentences
      /\ \A d \in EmbedCallers : call'[d] \in {call[d], y}
  <2>1. CASE call' = call
    BY <1>1, <2>1 DEF EmbeddingTypes
  <2>2. CASE call' = [call EXCEPT ![c] = y]
    <3> HIDE DEF y
    <3>1. QED  BY <1>1, <1>2, <2>2, CallChanges
  <2>3. QED  BY <2>1, <2>2
<1> HIDE DEF y
<1>4. EmbeddingTypes'
  BY <1>1, <1>3 DEF EmbeddingTypes
<1>5. \A d \in EmbedCallers : call'[d].got \in {call[d].got, current}
  BY <1>2, <1>3
<1>6. \A p : Sole(p) => Sole(p)'
  BY <1>5 DEF Sole
<1>7. source' = "unset" => /\ providers' = {} /\ current' = "none" /\ cache' = <<>>
                           /\ \A d \in EmbedCallers : call'[d].got = "none"
  BY <1>5 DEF EmbeddingInv
<1>8. QED  BY <1>4, <1>6, <1>7 DEF EmbeddingInv

LEMMA HitKeeps ==
    ASSUME CacheMax \in Nat \ {0}, EmbeddingInv, NEW c \in EmbedCallers, NEW x \in Sentences, Emb!Hit(c, x)
    PROVE  EmbeddingInv'
<1>1. cache \in Seq(Vectors) /\ Len(cache) \in Nat /\ Len(cache) <= CacheMax /\ Distinct(TextOf, cache)
  BY LenProperties DEF EmbeddingInv, EmbeddingTypes
<1>2. PICK i \in 1 .. Len(cache) : /\ cache' = Append(RemoveAt(cache, i), cache[i]) \/ cache' = RemoveAt(cache, i)
                                   /\ cache[i] \in Vectors /\ cache[i] \in Range(cache)
  BY CachedPlaces DEF Emb!Hit, Emb!Touch, Emb!Popped, RemoveAt, EmbeddingInv
<1>3. /\ RemoveAt(cache, i) \in Seq(Vectors) /\ Len(RemoveAt(cache, i)) = Len(cache) - 1
      /\ Distinct(TextOf, RemoveAt(cache, i))
      /\ \A v : v \in Range(RemoveAt(cache, i)) <=> v \in Range(cache) /\ TextOf[v] # TextOf[cache[i]]
  BY <1>1, RemovalDistinct
<1>4. /\ Append(RemoveAt(cache, i), cache[i]) \in Seq(Vectors)
      /\ Len(Append(RemoveAt(cache, i), cache[i])) = Len(RemoveAt(cache, i)) + 1
      /\ Distinct(TextOf, Append(RemoveAt(cache, i), cache[i]))
      /\ Range(Append(RemoveAt(cache, i), cache[i])) = Range(RemoveAt(cache, i)) \cup {cache[i]}
  BY <1>2, <1>3, AppendDistinct
<1>5. /\ cache' \in Seq(Vectors) /\ Len(cache') <= CacheMax /\ Distinct(TextOf, cache')
      /\ Range(cache') \subseteq Range(cache)
  <2>1. CASE cache' = RemoveAt(cache, i)
    <3>1. Len(cache) - 1 <= CacheMax /\ Range(RemoveAt(cache, i)) \subseteq Range(cache)
      BY <1>1, <1>3
    <3>2. QED  BY <1>3, <2>1, <3>1
  <2>2. CASE cache' = Append(RemoveAt(cache, i), cache[i])
    <3>1. (Len(cache) - 1) + 1 = Len(cache)
      BY <1>1
    <3>2. Range(RemoveAt(cache, i)) \cup {cache[i]} \subseteq Range(cache)
      BY <1>2, <1>3
    <3>3. QED  BY <1>1, <1>3, <1>4, <2>2, <3>1, <3>2
  <2>3. QED  BY <1>2, <2>1, <2>2
<1>7. cache # <<>>
  BY <1>1, EmptySeq
<1>8. /\ call' \in {call, [call EXCEPT ![c] = [Emb!NoCall EXCEPT !.at = "first", !.text = x, !.got = current]]}
      /\ UNCHANGED <<source, providers, current, loading>>
  BY DEF Emb!Hit
<1>9. QED  BY <1>5, <1>7, <1>8, EnterKeeps

LEMMA MissKeeps ==
    ASSUME EmbeddingInv, NEW c \in EmbedCallers, NEW x \in Sentences, Emb!Miss(c, x)
    PROVE  EmbeddingInv'
<1>1. /\ call' = [call EXCEPT ![c] = [Emb!NoCall EXCEPT !.at = "first", !.text = x, !.got = current]]
      /\ UNCHANGED <<source, providers, current, loading, cache>>
  BY DEF Emb!Miss
<1>2. cache' \in Seq(Vectors) /\ Len(cache') <= CacheMax /\ Distinct(TextOf, cache')
  BY <1>1 DEF EmbeddingInv, EmbeddingTypes
<1>3. QED  BY <1>1, <1>2, EnterKeeps

\* A provider p that is registered or was when the call came answers: no other can.
LEMMA ReturnKeeps ==
    ASSUME CacheMax \in Nat \ {0}, EmbeddingInv, NEW c \in EmbedCallers, NEW p \in EmbeddingNames,
           p \in providers \/ p = call[c].got, call[c].at # "idle", Emb!Return(c, p),
           current' \in {current, p}, UNCHANGED <<source, providers>>
    PROVE  EmbeddingInv'
<1> DEFINE e == [text |-> call[c].text, by |-> p]
<1>1. EmbeddingTypes /\ e \in Vectors /\ e.by = p
  BY DEF EmbeddingInv, EmbeddingTypes, Vectors
<1>2. /\ cache' \in Seq(Vectors) /\ Len(cache') <= CacheMax /\ Distinct(TextOf, cache')
      /\ Range(cache') \subseteq Range(cache) \cup {e}
  <2>1. cache' = Emb!Insert(e)
    BY DEF Emb!Return
  <2> HIDE DEF e
  <2>2. QED  BY <1>1, <2>1, Inserting
<1> HIDE DEF e
<1>3. /\ call' \in [EmbedCallers -> EmbeddingCalls]
      /\ \A d \in EmbedCallers : call'[d].at # "idle" => call'[d].text \in Sentences
      /\ \A d \in EmbedCallers : call'[d] = IF d = c THEN Emb!NoCall ELSE call[d]
  <2>1. call' = [call EXCEPT ![c] = Emb!NoCall]
    BY DEF Emb!Return
  <2>2. QED  BY <1>1, <2>1, CallForms, CallChanges
<1>4. EmbeddingTypes'
  BY <1>1, <1>2, <1>3 DEF EmbeddingTypes
<1>5. PICK q \in EmbeddingNames : Sole(q)
  BY DEF EmbeddingInv
<1>6. p = q
  BY <1>5 DEF Sole, EmbeddingNames
<1>7. Sole(q)'
  <2>1. \A v \in Range(cache') : v.by = q
    BY <1>1, <1>2, <1>5, <1>6 DEF Sole
  <2>2. \A d \in EmbedCallers : call'[d].got \in {q, "none"}
    BY <1>3, <1>5, CallForms DEF Sole
  <2>3. QED  BY <1>5, <1>6, <2>1, <2>2 DEF Sole
<1>8. source' # "unset"
  BY <1>6 DEF EmbeddingInv, EmbeddingNames
<1>9. QED  BY <1>4, <1>5, <1>7, <1>8 DEF EmbeddingInv

LEMMA AnsweredKeeps ==
    ASSUME CacheMax \in Nat \ {0}, EmbeddingInv, NEW c \in EmbedCallers,
           Emb!Answered(c) \/ Emb!AnsweredByFallback(c)
    PROVE  EmbeddingInv'
<1>1. CASE Emb!Answered(c)
  <2>1. call[c].got \in EmbeddingNames /\ call[c].at # "idle"
    BY <1>1 DEF Emb!Answered, Emb!CanAnswer, EmbeddingInv, EmbeddingTypes, EmbeddingCalls
  <2>2. QED  BY <1>1, <2>1, ReturnKeeps DEF Emb!Answered
<1>2. CASE Emb!AnsweredByFallback(c)
  <2>1. PICK p : p \in providers /\ Emb!Return(c, p) /\ current' = p
    BY <1>2 DEF Emb!AnsweredByFallback
  <2>2. p \in EmbeddingNames /\ call[c].at # "idle" /\ UNCHANGED <<source, providers>>
    BY <1>2, <2>1 DEF Emb!AnsweredByFallback, EmbeddingInv, EmbeddingTypes
  <2>3. QED  BY <2>1, <2>2, ReturnKeeps
<1>3. QED  BY <1>1, <1>2

\* A call fails over, or gives up: its provider stays the one it had, or is forgotten.
LEMMA FailsKeeps ==
    ASSUME EmbeddingInv, NEW c \in EmbedCallers, Emb!Fails(c) \/ Emb!Raises(c)
    PROVE  EmbeddingInv'
<1>1. EmbeddingTypes /\ UNCHANGED <<source, providers, current, cache>>
  BY DEF EmbeddingInv, Emb!Fails, Emb!Raises
<1>2. PICK x \in EmbeddingCalls : /\ call' = [call EXCEPT ![c] = x] /\ x.got \in {call[c].got, "none"}
                                  /\ x.at # "idle" => x.text \in Sentences
  <2>1. CASE Emb!Fails(c)
    BY <1>1, <2>1, FailureForm DEF Emb!Fails
  <2>2. CASE Emb!Raises(c)
    BY <2>2, CallForms DEF Emb!Raises
  <2>3. QED  BY <2>1, <2>2
<1>3. /\ call' \in [EmbedCallers -> EmbeddingCalls]
      /\ \A d \in EmbedCallers : call'[d].at # "idle" => call'[d].text \in Sentences
      /\ \A d \in EmbedCallers : call'[d] = IF d = c THEN x ELSE call[d]
  BY <1>1, <1>2, CallChanges
<1>4. EmbeddingTypes'
  BY <1>1, <1>3 DEF EmbeddingTypes
<1>5. \A d \in EmbedCallers : call'[d].got \in {call[d].got, "none"}
  BY <1>2, <1>3
<1>6. \A p : Sole(p) => Sole(p)'
  BY <1>1, <1>5 DEF Sole
<1>7. QED  BY <1>1, <1>4, <1>5, <1>6 DEF EmbeddingInv

\* Closing forgets the cache, and only while there is a provider.
LEMMA CloseKeeps ==
    ASSUME CacheMax \in Nat \ {0}, EmbeddingInv, Emb!Close
    PROVE  EmbeddingInv'
<1>1. providers' = {} /\ current' = "none" /\ cache' = <<>> /\ UNCHANGED <<source, call>>
  BY DEF Emb!Close
<1>2. /\ <<>> \in Seq(Vectors) /\ Len(<<>>) = 0 /\ Distinct(TextOf, <<>>) /\ Range(<<>>) = {}
  BY EmptySeq DEF Distinct, Range
<1>3. EmbeddingTypes'
  BY <1>1, <1>2 DEF EmbeddingInv, EmbeddingTypes
<1>4. \A p : Sole(p) => Sole(p)'
  BY <1>1, <1>2 DEF Sole
<1>5. QED  BY <1>1, <1>3, <1>4 DEF EmbeddingInv

LEMMA EmbeddingStep ==
    ASSUME CacheMax \in Nat \ {0}, EmbeddingInv, [Emb!Next]_(Emb!vars)
    PROVE  EmbeddingInv'
<1>1. CASE \E s \in {"auto", "astrbot", "local"}, p \in {"astrbot", "local", "fallback"} : Emb!Initialize(s, p)
  BY <1>1, InitializeKeeps DEF EmbeddingNames
<1>2. CASE Emb!LoadEnds \/ UNCHANGED Emb!vars
  <2>1. UNCHANGED <<source, providers, current, cache, call>>
    BY <1>2 DEF Emb!LoadEnds, Emb!vars
  <2>2. QED  BY <2>1 DEF EmbeddingInv, EmbeddingTypes, Sole
<1>3. ASSUME NEW c \in EmbedCallers,
             \/ \E x \in Sentences : Emb!Hit(c, x) \/ Emb!Miss(c, x)
             \/ Emb!Answered(c) \/ Emb!Fails(c) \/ Emb!AnsweredByFallback(c) \/ Emb!Raises(c)
      PROVE  EmbeddingInv'
  BY <1>3, HitKeeps, MissKeeps, AnsweredKeeps, FailsKeeps
<1>4. QED  BY <1>1, <1>2, <1>3, CloseKeeps DEF Emb!Next

\* However calls overlap, fail over and outlive the service, the cache stays bounded,
\* has one vector of a key, and all its vectors are of one model.
THEOREM EmbedsRight == ASSUME CacheMax \in Nat \ {0} PROVE Emb!Spec => []Emb!EmbeddingSound
<1>1. Emb!Init => EmbeddingInv
  <2> SUFFICES ASSUME Emb!Init PROVE EmbeddingInv
    OBVIOUS
  <2>1. /\ <<>> \in Seq(Vectors) /\ Len(<<>>) = 0 /\ Distinct(TextOf, <<>>) /\ Range(<<>>) = {}
    BY EmptySeq DEF Distinct, Range
  <2>2. EmbeddingTypes
    <3>1. Emb!NoCall \in EmbeddingCalls /\ Emb!NoCall.at = "idle"
      BY CallForms
    <3>2. /\ call \in [EmbedCallers -> EmbeddingCalls]
          /\ \A c \in EmbedCallers : call[c].at = "idle"
      BY <3>1 DEF Emb!Init
    <3>3. cache = <<>> /\ providers = {} /\ current = "none"
      BY DEF Emb!Init
    <3>4. QED  BY <2>1, <3>2, <3>3 DEF EmbeddingTypes
  <2>3. Sole("astrbot") /\ \A c \in EmbedCallers : call[c].got = "none"
    BY <2>1, CallForms DEF Emb!Init, Sole
  <2>4. QED  BY <2>2, <2>3 DEF Emb!Init, EmbeddingInv, EmbeddingNames
<1>2. EmbeddingInv /\ [Emb!Next]_(Emb!vars) => EmbeddingInv'
  BY EmbeddingStep
<1>3. EmbeddingInv => Emb!EmbeddingSound
  <2> SUFFICES ASSUME EmbeddingInv PROVE Emb!EmbeddingSound
    OBVIOUS
  <2>1. /\ DOMAIN cache = 1 .. Len(cache) /\ \A i \in 1 .. Len(cache) : cache[i] \in Vectors
    BY LenProperties, ElementOfSeq DEF EmbeddingInv, EmbeddingTypes
  <2>2. Emb!CacheBounded
    BY <2>1 DEF EmbeddingInv, EmbeddingTypes, Emb!CacheBounded, Distinct, TextOf
  <2>3. Emb!NoMixedVectors
    BY DEF EmbeddingInv, Sole, Emb!NoMixedVectors, Range
  <2>4. QED  BY <2>2, <2>3 DEF Emb!EmbeddingSound
<1>4. QED  BY <1>1, <1>2, <1>3, PTL DEF Emb!Spec

-----------------------------------------------------------------------------
(* Emotional states and personas (SharedState).                              *)

UserEntries == [user : Persons, ref : Nat]
UserOf == [e \in UserEntries |-> e.user]

\* A dictionary within its limit, each key once.
BoundedDict(d) == d \in Seq(UserEntries) /\ Len(d) <= MaxUsers /\ Distinct(UserOf, d)

\* What a persona is bound to is in the other dictionary, under the same user, until it
\* is forgotten there.
SharedInv ==
    /\ BoundedDict(emotions) /\ BoundedDict(personas) /\ made \in Nat
    /\ \A p \in Range(personas) : p \in Range(emotions) \/ p.ref \in evicted

\* A key is in a dictionary in one place, whose entry is the dictionary's for it.
LEMMA DictPlaces ==
    ASSUME NEW d \in Seq(UserEntries), Distinct(UserOf, d), NEW u
    PROVE  /\ DOMAIN d = 1 .. Len(d) /\ Len(d) \in Nat
           /\ \A e \in Range(d) : e \in UserEntries /\ UserOf[e] = e.user
           /\ \A e \in Range(d) : e.user = u => Sha!Has(d, u) /\ Sha!Entry(d, u) = e
           /\ ~Sha!Has(d, u) => \A e \in Range(d) : e.user # u
           /\ Sha!Has(d, u) => /\ Sha!Place(d, u) \in 1 .. Len(d)
                               /\ Sha!Entry(d, u) \in Range(d) /\ Sha!Entry(d, u).user = u
<1>1. /\ DOMAIN d = 1 .. Len(d) /\ Len(d) \in Nat
      /\ \A i \in 1 .. Len(d) : d[i] \in UserEntries
  BY LenProperties, ElementOfSeq
<1>2. \A e \in Range(d) : e \in UserEntries /\ UserOf[e] = e.user
  BY <1>1 DEF Range, UserOf
<1>3. \A i, j \in 1 .. Len(d) : d[i].user = d[j].user => i = j
  BY <1>1 DEF Distinct, UserOf
<1>4. Sha!Has(d, u) => Sha!Place(d, u) \in 1 .. Len(d) /\ d[Sha!Place(d, u)].user = u
  BY <1>1 DEF Sha!Has, Sha!Place
<1>5. ASSUME NEW e \in Range(d), e.user = u
      PROVE  Sha!Has(d, u) /\ Sha!Entry(d, u) = e
  <2>1. PICK i \in 1 .. Len(d) : d[i] = e
    BY <1>1 DEF Range
  <2>2. Sha!Has(d, u)
    BY <1>1, <1>5, <2>1 DEF Sha!Has
  <2>3. Sha!Place(d, u) = i
    BY <1>3, <1>4, <1>5, <2>1, <2>2
  <2>4. QED  BY <2>1, <2>2, <2>3 DEF Sha!Entry
<1>6. ~Sha!Has(d, u) => \A e \in Range(d) : e.user # u
  BY <1>5
<1>7. Sha!Has(d, u) => Sha!Entry(d, u) \in Range(d) /\ Sha!Entry(d, u).user = u
  BY <1>1, <1>4 DEF Sha!Entry, Range
<1>8. QED  BY <1>1, <1>2, <1>4, <1>5, <1>6, <1>7

\* Without a key a dictionary holds all other entries.
LEMMA DictOthers ==
    ASSUME MaxUsers \in Nat \ {0}, NEW d, BoundedDict(d), NEW u
    PROVE  /\ BoundedDict(Sha!Others(d, u))
           /\ Range(Sha!Others(d, u)) = {e \in Range(d) : e.user # u}
           /\ Sha!Has(d, u) => Len(Sha!Others(d, u)) = Len(d) - 1
<1>1. /\ d \in Seq(UserEntries) /\ Len(d) <= MaxUsers /\ Distinct(UserOf, d) /\ Len(d) \in Nat
      /\ \A e \in Range(d) : UserOf[e] = e.user
  BY DictPlaces DEF BoundedDict
<1>2. CASE Sha!Has(d, u)
  <2>1. PICK i \in 1 .. Len(d) : Sha!Place(d, u) = i /\ d[i].user = u /\ d[i] \in Range(d)
    BY <1>1, <1>2, DictPlaces DEF Sha!Entry
  <2>2. Sha!Others(d, u) = RemoveAt(d, i)
    BY <1>2, <2>1 DEF Sha!Others, Sha!Popped, RemoveAt
  <2>3. /\ RemoveAt(d, i) \in Seq(UserEntries) /\ Len(RemoveAt(d, i)) = Len(d) - 1
        /\ Distinct(UserOf, RemoveAt(d, i))
        /\ \A e : e \in Range(RemoveAt(d, i)) <=> e \in Range(d) /\ UserOf[e] # UserOf[d[i]]
    BY <1>1, RemovalDistinct
  <2>4. Range(RemoveAt(d, i)) = {e \in Range(d) : e.user # u}
    BY <1>1, <2>1, <2>3
  <2>5. Len(d) - 1 <= MaxUsers
    BY <1>1
  <2>6. BoundedDict(RemoveAt(d, i))
    BY <2>3, <2>5 DEF BoundedDict
  <2>7. QED  BY <2>2, <2>3, <2>4, <2>6
<1>3. CASE ~Sha!Has(d, u)
  <2>1. Sha!Others(d, u) = d
    BY <1>3 DEF Sha!Others
  <2>2. \A e \in Range(d) : e.user # u
    BY <1>1, <1>3, DictPlaces
  <2>3. QED  BY <1>3, <2>1, <2>2
<1>4. QED  BY <1>2, <1>3

\* An entry takes the place of its key, at the end.
LEMMA DictAppend ==
    ASSUME MaxUsers \in Nat \ {0}, NEW d, BoundedDict(d), NEW e \in UserEntries
    PROVE  LET s == Append(Sha!Others(d, e.user), e) IN
           /\ s \in Seq(UserEntries) /\ Distinct(UserOf, s)
           /\ Len(s) <= Len(d) + 1 /\ (Sha!Has(d, e.user) => Len(s) = Len(d))
           /\ Range(s) = {x \in Range(d) : x.user # e.user} \cup {e}
<1> DEFINE o == Sha!Others(d, e.user)
<1>1. /\ o \in Seq(UserEntries) /\ Distinct(UserOf, o) /\ Len(o) \in Nat /\ Len(d) \in Nat
      /\ Range(o) = {x \in Range(d) : x.user # e.user}
      /\ Sha!Has(d, e.user) => Len(o) = Len(d) - 1
      /\ ~Sha!Has(d, e.user) => o = d
  BY DictOthers, LenProperties DEF BoundedDict, Sha!Others
<1> HIDE DEF o
<1>2. \A x \in Range(o) : UserOf[x] # UserOf[e]
  BY <1>1, DictPlaces DEF UserOf
<1>3. /\ Append(o, e) \in Seq(UserEntries) /\ Len(Append(o, e)) = Len(o) + 1
      /\ Distinct(UserOf, Append(o, e)) /\ Range(Append(o, e)) = Range(o) \cup {e}
  BY <1>1, <1>2, AppendDistinct
<1>4. Len(Append(o, e)) <= Len(d) + 1 /\ (Sha!Has(d, e.user) => Len(Append(o, e)) = Len(d))
  BY <1>1, <1>3
<1>5. QED  BY <1>1, <1>3, <1>4 DEF o

\* Reading a key changes the order only.
LEMMA DictTouch ==
    ASSUME MaxUsers \in Nat \ {0}, NEW d, BoundedDict(d), NEW u, Sha!Has(d, u)
    PROVE  BoundedDict(Sha!Touch(d, u)) /\ Range(Sha!Touch(d, u)) = Range(d)
<1>1. PICK e \in UserEntries : Sha!Entry(d, u) = e /\ e.user = u /\ e \in Range(d)
  BY DictPlaces DEF BoundedDict
<1>2. Sha!Touch(d, u) = Append(Sha!Others(d, e.user), e)
  BY <1>1 DEF Sha!Touch
<1>3. \A x \in Range(d) : x.user = u => x = e
  BY <1>1, DictPlaces DEF BoundedDict
<1>4. {x \in Range(d) : x.user # u} \cup {e} = Range(d)
  BY <1>1, <1>3
<1>5. /\ Sha!Touch(d, u) \in Seq(UserEntries) /\ Distinct(UserOf, Sha!Touch(d, u))
      /\ Sha!Has(d, e.user) => Len(Sha!Touch(d, u)) = Len(d)
      /\ Range(Sha!Touch(d, u)) = {x \in Range(d) : x.user # u} \cup {e}
  BY <1>1, <1>2, DictAppend
<1>6. QED  BY <1>1, <1>4, <1>5 DEF BoundedDict

\* Putting an entry keeps the limit: it is there afterwards, and nothing else is new.
LEMMA DictPut ==
    ASSUME MaxUsers \in Nat \ {0}, NEW d, BoundedDict(d), NEW e \in UserEntries
    PROVE  /\ BoundedDict(Sha!Put(d, e)) /\ e \in Range(Sha!Put(d, e))
           /\ Range(Sha!Put(d, e)) \subseteq Range(d) \cup {e}
<1>0. PICK s : s = Append(Sha!Others(d, e.user), e)
  OBVIOUS
<1>1. /\ s \in Seq(UserEntries) /\ Distinct(UserOf, s) /\ Len(s) <= Len(d) + 1
      /\ Range(s) = {x \in Range(d) : x.user # e.user} \cup {e}
      /\ Len(s) \in Nat /\ Len(d) \in Nat /\ Len(d) <= MaxUsers
  BY <1>0, DictAppend, LenProperties DEF BoundedDict
<1>2. Sha!Put(d, e) = IF Len(s) > MaxUsers THEN Tail(s) ELSE s
  BY <1>0 DEF Sha!Put
<1>3. s[Len(s)] = e
  BY <1>0, DictOthers, AppendProperties DEF BoundedDict
<1>4. CASE Len(s) > MaxUsers
  <2>1. s # <<>> /\ Len(s) = MaxUsers + 1
    BY <1>1, <1>4, EmptySeq
  <2>2. /\ Tail(s) \in Seq(UserEntries) /\ Len(Tail(s)) = Len(s) - 1 /\ Distinct(UserOf, Tail(s))
        /\ \A x : x \in Range(Tail(s)) <=> x \in Range(s) /\ UserOf[x] # UserOf[s[1]]
    <3>1. s \in Seq(UserEntries) /\ Distinct(UserOf, s) /\ s # <<>>
      BY <1>1, <2>1
    <3>2. Tail(s) \in Seq(UserEntries) /\ Len(Tail(s)) = Len(s) - 1 /\ Distinct(UserOf, Tail(s))
      BY <3>1, TailDistinct
    <3>3. \A x : x \in Range(Tail(s)) <=> x \in Range(s) /\ UserOf[x] # UserOf[s[1]]
      BY <3>1, TailDistinct
    <3>4. QED  BY <3>2, <3>3
  <2>3. DOMAIN s = 1 .. Len(s) /\ 1 \in 1 .. Len(s) /\ Len(s) \in 1 .. Len(s) /\ Len(s) # 1
    BY <1>1, <2>1, LenProperties
  <2>4. UserOf[s[1]] # UserOf[e]
    BY <1>3, <2>3, <1>1 DEF Distinct
  <2>5. e \in Range(Tail(s)) /\ Range(Tail(s)) \subseteq Range(d) \cup {e}
    BY <1>1, <2>2, <2>3, <2>4
  <2>6. Len(Tail(s)) <= MaxUsers
    BY <2>1, <2>2, <1>1
  <2>7. QED  BY <1>2, <1>4, <2>2, <2>5, <2>6 DEF BoundedDict
<1>5. CASE ~(Len(s) > MaxUsers)
  BY <1>1, <1>2, <1>5 DEF BoundedDict
<1>6. QED  BY <1>4, <1>5

-----------------------------------------------------------------------------
(* The steps.                                                                *)

\* Reading or making the emotional state of a user: it is there afterwards, and what
\* had to go is known to be forgotten.
LEMMA EmotionKeeps ==
    ASSUME MaxUsers \in Nat \ {0}, SharedInv, NEW u \in Persons, Sha!Emotion(u)
    PROVE  /\ BoundedDict(emotions') /\ made' \in Nat /\ evicted \subseteq evicted'
           /\ \E e \in Range(emotions') : e.user = u
           /\ \A e \in Range(emotions) : e \in Range(emotions') \/ e.ref \in evicted'
<1>1. BoundedDict(emotions) /\ made \in Nat
  BY DEF SharedInv
<1>2. CASE Sha!Has(emotions, u)
  <2>1. emotions' = Sha!Touch(emotions, u) /\ UNCHANGED <<made, evicted>>
    BY <1>2 DEF Sha!Emotion
  <2>2. BoundedDict(Sha!Touch(emotions, u)) /\ Range(Sha!Touch(emotions, u)) = Range(emotions)
    BY <1>1, <1>2, DictTouch
  <2>3. BoundedDict(emotions') /\ Range(emotions') = Range(emotions)
    BY <2>1, <2>2
  <2>4. \E e \in Range(emotions) : e.user = u
    BY <1>1, <1>2, DictPlaces DEF BoundedDict
  <2>5. QED  BY <1>1, <2>1, <2>3, <2>4
<1>3. CASE ~Sha!Has(emotions, u)
  <2>1. PICK e \in UserEntries : e.user = u /\ emotions' = Sha!Put(emotions, e)
    BY <1>1, <1>3 DEF Sha!Emotion, UserEntries
  <2>2. /\ BoundedDict(Sha!Put(emotions, e)) /\ e \in Range(Sha!Put(emotions, e))
    BY <1>1, DictPut
  <2>3. BoundedDict(emotions') /\ e \in Range(emotions')
    BY <2>1, <2>2
  <2>4. /\ made' \in Nat
        /\ evicted' = evicted \cup {x.ref : x \in Range(emotions) \ Range(emotions')}
    BY <1>1, <1>3 DEF Sha!Emotion, Sha!Range, Range
  <2>5. QED  BY <2>1, <2>3, <2>4
<1>4. QED  BY <1>2, <1>3

\* A persona of the user is bound to the emotional state the user has then.
LEMMA BindKeeps ==
    ASSUME MaxUsers \in Nat \ {0}, SharedInv, NEW u \in Persons, Sha!Emotion(u), NEW d,
           d = personas', NEW p, p = [user |-> u, ref |-> Sha!BoundTo(u)],
           p \in UserEntries => BoundedDict(d) /\ Range(d) \subseteq Range(personas) \cup {p}
    PROVE  SharedInv'
<1>1. /\ BoundedDict(emotions') /\ made' \in Nat /\ evicted \subseteq evicted'
      /\ \E e \in Range(emotions') : e.user = u
      /\ \A e \in Range(emotions) : e \in Range(emotions') \/ e.ref \in evicted'
  BY EmotionKeeps
<1>2. PICK e \in Range(emotions') : e.user = u
  BY <1>1
<1>3. e \in UserEntries /\ Sha!Entry(emotions', u) = e
  BY <1>1, <1>2, DictPlaces DEF BoundedDict
<1>4. p = e
  BY <1>2, <1>3 DEF Sha!BoundTo, UserEntries
<1>5. BoundedDict(d) /\ Range(d) \subseteq Range(personas) \cup {p}
  BY <1>3, <1>4
<1>6. \A x \in Range(d) : x \in Range(emotions') \/ x.ref \in evicted'
  BY <1>1, <1>2, <1>4, <1>5 DEF SharedInv
<1>7. QED  BY <1>1, <1>5, <1>6 DEF SharedInv

\* The personas change only in their order, or lose some.
LEMMA PersonasKeep ==
    ASSUME SharedInv, UNCHANGED <<emotions, made, evicted>>, NEW d, d = personas',
           BoundedDict(d), Range(d) \subseteq Range(personas)
    PROVE  SharedInv'
BY DEF SharedInv

LEMMA GetEmotionKeeps ==
    ASSUME MaxUsers \in Nat \ {0}, SharedInv, NEW u \in Persons, Sha!GetEmotion(u)
    PROVE  SharedInv'
<1>1. personas' = personas /\ Sha!Emotion(u)
  BY DEF Sha!GetEmotion
<1>2. QED  BY <1>1, EmotionKeeps DEF SharedInv

LEMMA GetPersonaKeeps ==
    ASSUME MaxUsers \in Nat \ {0}, SharedInv, NEW u \in Persons, Sha!GetPersona(u)
    PROVE  SharedInv'
<1>1. BoundedDict(personas)
  BY DEF SharedInv
<1>2. CASE Sha!Has(personas, u)
  <2>1. personas' = Sha!Touch(personas, u) /\ UNCHANGED <<emotions, made, evicted>>
    BY <1>2 DEF Sha!GetPersona
  <2>2. BoundedDict(Sha!Touch(personas, u)) /\ Range(Sha!Touch(personas, u)) = Range(personas)
    BY <1>1, <1>2, DictTouch
  <2>3. QED  BY <2>1, <2>2, PersonasKeep
<1>3. CASE ~Sha!Has(personas, u)
  <2>1. PICK p : p = [user |-> u, ref |-> Sha!BoundTo(u)]
    OBVIOUS
  <2>2. Sha!Emotion(u) /\ personas' = Sha!Put(personas, p)
    BY <1>3, <2>1 DEF Sha!GetPersona
  <2>3. p \in UserEntries => /\ BoundedDict(Sha!Put(personas, p))
                             /\ Range(Sha!Put(personas, p)) \subseteq Range(personas) \cup {p}
    BY <1>1, DictPut
  <2>4. QED  BY <2>1, <2>2, <2>3, BindKeeps
<1>4. QED  BY <1>2, <1>3

LEMMA BindPersonaKeeps ==
    ASSUME MaxUsers \in Nat \ {0}, SharedInv, NEW u \in Persons, Sha!Bind(u)
    PROVE  SharedInv'
<1>1. BoundedDict(personas) /\ Sha!Has(personas, u)
  BY DEF SharedInv, Sha!Bind
<1>2. PICK p : p = [user |-> u, ref |-> Sha!BoundTo(u)]
  OBVIOUS
<1>3. p.user = u /\ Sha!Emotion(u) /\ personas' = Append(Sha!Others(personas, p.user), p)
  BY <1>2 DEF Sha!Bind
<1>4. p \in UserEntries =>
        LET d == Append(Sha!Others(personas, p.user), p) IN
        BoundedDict(d) /\ Range(d) \subseteq Range(personas) \cup {p}
  BY <1>1, <1>3, DictAppend DEF BoundedDict
<1>5. QED  BY <1>2, <1>3, <1>4, BindKeeps

LEMMA DeletePersonaKeeps ==
    ASSUME MaxUsers \in Nat \ {0}, SharedInv, NEW u \in Persons, Sha!DeletePersona(u)
    PROVE  SharedInv'
<1>1. personas' = Sha!Others(personas, u) /\ UNCHANGED <<emotions, made, evicted>>
  BY DEF Sha!DeletePersona
<1>2. BoundedDict(Sha!Others(personas, u)) /\ Range(Sha!Others(personas, u)) \subseteq Range(personas)
  BY DictOthers DEF SharedInv
<1>3. QED  BY <1>1, <1>2, PersonasKeep

\* The dictionaries keep their limit, and a persona is bound to the state its user has,
\* unless the dictionary of states forgot the one it was bound to.
THEOREM SharesRight == ASSUME MaxUsers \in Nat \ {0} PROVE Sha!Spec => []Sha!SharedStateSound
<1>1. Sha!Init => SharedInv
  <2>1. /\ <<>> \in Seq(UserEntries) /\ Len(<<>>) = 0 /\ Distinct(UserOf, <<>>) /\ Range(<<>>) = {}
    BY EmptySeq DEF Distinct, Range
  <2>2. QED  BY <2>1 DEF Sha!Init, SharedInv, BoundedDict
<1>2. SharedInv /\ [Sha!Next]_(Sha!vars) => SharedInv'
  <2>1. SharedInv /\ UNCHANGED Sha!vars => SharedInv'
    BY DEF SharedInv, Sha!vars
  <2>2. QED
    BY <2>1, GetEmotionKeeps, GetPersonaKeeps, BindPersonaKeeps, DeletePersonaKeeps DEF Sha!Next
<1>3. SharedInv => Sha!SharedStateSound
  <2> SUFFICES ASSUME SharedInv PROVE Sha!SharedStateSound
    OBVIOUS
  <2>1. ASSUME NEW d, BoundedDict(d)
        PROVE  Len(d) <= MaxUsers /\ Sha!IsInjective([i \in DOMAIN d |-> d[i].user])
    <3>1. /\ DOMAIN d = 1 .. Len(d) /\ \A i \in 1 .. Len(d) : d[i] \in UserEntries
      BY <2>1, LenProperties, ElementOfSeq DEF BoundedDict
    <3>2. QED  BY <2>1, <3>1 DEF BoundedDict, Distinct, UserOf, Sha!IsInjective
  <2>2. Sha!SharedStateBounded
    BY <2>1 DEF SharedInv, Sha!SharedStateBounded
  <2>3. Sha!BindingLostByEviction
    <3> SUFFICES ASSUME NEW p \in Range(personas), Sha!Has(emotions, p.user),
                        Sha!Entry(emotions, p.user).ref # p.ref
                 PROVE  p.ref \in evicted
      BY DEF Sha!BindingLostByEviction, Range
    <3>1. p \in Range(emotions) => Sha!Entry(emotions, p.user) = p
      BY DictPlaces DEF SharedInv, BoundedDict
    <3>2. QED  BY <3>1 DEF SharedInv
  <2>4. QED  BY <2>2, <2>3 DEF Sha!SharedStateSound
<1>4. QED  BY <1>1, <1>2, <1>3, PTL DEF Sha!Spec

-----------------------------------------------------------------------------
(* Where a message goes (MessageClassifier).                                 *)

Words == {WordsOf[r] : r \in Inquiries}
Verdicts == [text : Words, layer : {"immediate", "batch", "discard"}]
WordsIn == [a \in Verdicts |-> a.text]

\* The rules find a text worth capturing at once.
Urgent(w) == Cla!Local(Findings[w]).layer = "immediate"

\* A call is counted in the cooldown it began; an answer in the cache was given once;
\* and in the hybrid mode only urgent texts are asked about and answered.
ClassInv ==
    /\ answers \in Seq(Verdicts) /\ Len(answers) <= AnswersMax /\ Distinct(WordsIn, answers)
    /\ layersKnown \in [Words -> SUBSET {"immediate", "batch", "discard"}]
    /\ DOMAIN placed = Inquiries /\ DOMAIN decidedBy = Inquiries
    /\ windowCalls \in [Cla!Users -> {0, 1}]
    /\ \A u \in Cla!Users : u \notin coolingUsers => windowCalls[u] = 0
    /\ \A a \in Range(answers) : a.layer \in layersKnown[a.text]
    /\ processing = "hybrid" =>
         /\ \A a \in Range(answers) : Urgent(a.text)
         /\ \A r \in Inquiries : placed[r] = "asking" \/ decidedBy[r] = "model" => Urgent(WordsOf[r])
    /\ Cla!DropsExplained

\* What the rules are unsure of they find urgent.
LEMMA UnsureIsUrgent == \A w : Cla!Unsure(Findings[w]) => Urgent(w)
<1> SUFFICES ASSUME NEW w, Cla!Unsure(Findings[w]) PROVE Urgent(w)
  OBVIOUS
<1>1. PICK t : t = Findings[w]
  OBVIOUS
<1>2. Cla!Local(t).confidence \in 61..79
  BY <1>1 DEF Cla!Unsure
<1>3. ~t.negative
  BY <1>2 DEF Cla!Local
<1>4. t.trigger >= 80 \/ t.intensity >= 70
  BY <1>2, <1>3 DEF Cla!Local
<1>5. Cla!Local(t).layer = "immediate"
  BY <1>3, <1>4 DEF Cla!Local
<1>6. QED  BY <1>1, <1>5 DEF Urgent

\* The places of a text among the answers.
LEMMA AnsweredPlaces ==
    ASSUME ClassInv, NEW w
    PROVE  /\ Cla!CachedAt(w) \subseteq 1 .. Len(answers)
           /\ \A i \in Cla!CachedAt(w) : answers[i].text = w /\ answers[i] \in Verdicts /\ answers[i] \in Range(answers)
           /\ Cla!CachedAt(w) = {} => \A a \in Range(answers) : WordsIn[a] # w
<1>1. DOMAIN answers = 1 .. Len(answers) /\ \A i \in 1 .. Len(answers) : answers[i] \in Verdicts
  BY LenProperties, ElementOfSeq DEF ClassInv
<1>2. QED  BY <1>1 DEF Cla!CachedAt, Range, WordsIn

\* An answer that is recorded is the text's only one, and no other comes with it.
LEMMA Recording ==
    ASSUME AnswersMax \in Nat, ClassInv, NEW w \in Words, NEW l \in {"immediate", "batch", "discard"},
           Cla!CacheResult(w, l)
    PROVE  /\ answers' \in Seq(Verdicts) /\ Len(answers') <= AnswersMax /\ Distinct(WordsIn, answers')
           /\ Range(answers') \subseteq Range(answers) \cup {[text |-> w, layer |-> l]}
<1>1. answers \in Seq(Verdicts) /\ Len(answers) \in Nat /\ Len(answers) <= AnswersMax /\ Distinct(WordsIn, answers)
  BY LenProperties DEF ClassInv
<1>2. PICK e \in Verdicts : e = [text |-> w, layer |-> l] /\ WordsIn[e] = w
  <2>1. PICK e : e = [text |-> w, layer |-> l]
    OBVIOUS
  <2>2. e \in Verdicts /\ e.text = w
    BY <2>1 DEF Verdicts
  <2>3. WordsIn[e] = w
    BY <2>2 DEF WordsIn
  <2>4. QED  BY <2>1, <2>2, <2>3
<1>3. \E others \in Seq(Verdicts) :
         /\ others = IF Cla!CachedAt(w) = {} THEN answers
                     ELSE RemoveAt(answers, CHOOSE i \in Cla!CachedAt(w) : TRUE)
         /\ Len(others) <= AnswersMax /\ Distinct(WordsIn, others)
         /\ Range(others) \subseteq Range(answers)
         /\ \A a \in Range(others) : WordsIn[a] # w
  <2>1. CASE Cla!CachedAt(w) = {}
    BY <1>1, <2>1, AnsweredPlaces
  <2>2. CASE Cla!CachedAt(w) # {}
    <3>1. PICK i : i = CHOOSE j \in Cla!CachedAt(w) : TRUE
      OBVIOUS
    <3>2. i \in 1 .. Len(answers) /\ answers[i] \in Verdicts /\ answers[i].text = w
      BY <2>2, <3>1, AnsweredPlaces
    <3>3. /\ RemoveAt(answers, i) \in Seq(Verdicts) /\ Len(RemoveAt(answers, i)) = Len(answers) - 1
          /\ Distinct(WordsIn, RemoveAt(answers, i))
          /\ \A a : a \in Range(RemoveAt(answers, i)) <=> a \in Range(answers) /\ WordsIn[a] # WordsIn[answers[i]]
      BY <1>1, <3>2, RemovalDistinct
    <3>4. WordsIn[answers[i]] = w /\ Len(answers) - 1 <= AnswersMax
      BY <1>1, <3>2 DEF WordsIn
    <3>5. QED  BY <2>2, <3>1, <3>3, <3>4
  <2>3. QED  BY <2>1, <2>2
<1>4. PICK others \in Seq(Verdicts) :
         /\ others = IF Cla!CachedAt(w) = {} THEN answers
                     ELSE RemoveAt(answers, CHOOSE i \in Cla!CachedAt(w) : TRUE)
         /\ Len(others) <= AnswersMax /\ Distinct(WordsIn, others)
         /\ Range(others) \subseteq Range(answers)
         /\ \A a \in Range(others) : WordsIn[a] # w
  BY <1>3
<1>5. PICK new : new = Append(others, e)
  OBVIOUS
<1>6. /\ new \in Seq(Verdicts) /\ Len(new) = Len(others) + 1 /\ Distinct(WordsIn, new)
      /\ Range(new) = Range(others) \cup {e}
  <2>1. \A a \in Range(others) : WordsIn[a] # WordsIn[e]
    BY <1>2, <1>4
  <2>2. /\ Append(others, e) \in Seq(Verdicts) /\ Len(Append(others, e)) = Len(others) + 1
        /\ Distinct(WordsIn, Append(others, e)) /\ Range(Append(others, e)) = Range(others) \cup {e}
    <3>1. others \in Seq(Verdicts) /\ Distinct(WordsIn, others)
      BY <1>4
    <3>2. QED  BY <2>1, <3>1, AppendDistinct
  <2>3. QED  BY <1>5, <2>2
<1>7. answers' = IF Len(new) > AnswersMax THEN Tail(new) ELSE new
  BY <1>2, <1>4, <1>5 DEF Cla!CacheResult, Cla!Popped, RemoveAt
<1>8. Range(new) \subseteq Range(answers) \cup {e} /\ Len(others) \in Nat
  BY <1>4, <1>6, LenProperties
<1>9. CASE Len(new) > AnswersMax
  <2>1. new # <<>>
    BY <1>6, <1>8, EmptySeq
  <2>2. /\ Tail(new) \in Seq(Verdicts) /\ Len(Tail(new)) = Len(new) - 1
        /\ Distinct(WordsIn, Tail(new)) /\ Range(Tail(new)) \subseteq Range(new)
    BY <1>6, <2>1, TailDistinct
  <2>3. Len(Tail(new)) <= AnswersMax
    BY <1>4, <1>6, <1>8, <2>2
  <2>4. QED  BY <1>2, <1>7, <1>8, <1>9, <2>2, <2>3
<1>10. CASE ~(Len(new) > AnswersMax)
  <2>1. Len(new) <= AnswersMax
    BY <1>6, <1>8, <1>10
  <2>2. QED  BY <1>2, <1>6, <1>7, <1>8, <1>10, <2>1
<1>11. QED  BY <1>9, <1>10

\* A message goes where the rules have it, which drops only what they find no memory.
LEMMA RulesKeep ==
    ASSUME ClassInv, NEW r \in Inquiries, Cla!Goes(r, Cla!LocalOf(r).layer, "rules"),
           UNCHANGED <<processing, answers, coolingUsers, windowCalls, layersKnown>>
    PROVE  ClassInv'
<1>1. PICK l : l = Cla!LocalOf(r).layer /\ l # "asking"
  BY DEF Cla!LocalOf, Cla!Local
<1>2. /\ placed' = [placed EXCEPT ![r] = l] /\ decidedBy' = [decidedBy EXCEPT ![r] = "rules"]
  BY <1>1 DEF Cla!Goes
<1>3. /\ DOMAIN placed' = Inquiries /\ DOMAIN decidedBy' = Inquiries
      /\ \A q \in Inquiries : placed'[q] = IF q = r THEN l ELSE placed[q]
      /\ \A q \in Inquiries : decidedBy'[q] = IF q = r THEN "rules" ELSE decidedBy[q]
  BY <1>2 DEF ClassInv
<1>4. \A q \in Inquiries : placed'[q] = "asking" \/ decidedBy'[q] = "model" =>
                           placed[q] = "asking" \/ decidedBy[q] = "model"
  BY <1>1, <1>3
<1>5. Cla!DropsExplained'
  <2>1. ASSUME NEW q \in Inquiries, placed'[q] = "discard"
        PROVE  Cla!LocalOf(q).layer = "discard" \/ "discard" \in layersKnown[WordsOf[q]]
    BY <1>1, <1>3, <2>1 DEF ClassInv, Cla!DropsExplained
  <2>2. QED  BY <2>1 DEF Cla!DropsExplained
<1>6. QED  BY <1>3, <1>4, <1>5 DEF ClassInv

LEMMA CacheKeepsClass ==
    ASSUME ClassInv, NEW r \in Inquiries, Cla!ByCache(r)
    PROVE  ClassInv'
<1>1. PICK i \in Cla!CachedAt(WordsOf[r]) : Cla!Goes(r, answers[i].layer, "model")
  BY DEF Cla!ByCache
<1>2. PICK a \in Range(answers) : a = answers[i] /\ a.text = WordsOf[r] /\ a \in Verdicts
  BY <1>1, AnsweredPlaces
<1>3. a.layer \in {"immediate", "batch", "discard"} /\ a.layer \in layersKnown[WordsOf[r]]
  BY <1>2 DEF ClassInv, Verdicts
<1>4. placed' = [placed EXCEPT ![r] = a.layer] /\ decidedBy' = [decidedBy EXCEPT ![r] = "model"]
  BY <1>1, <1>2 DEF Cla!Goes
<1>5. /\ DOMAIN placed' = Inquiries /\ DOMAIN decidedBy' = Inquiries
      /\ \A q \in Inquiries : placed'[q] = IF q = r THEN a.layer ELSE placed[q]
      /\ \A q \in Inquiries : decidedBy'[q] = IF q = r THEN "model" ELSE decidedBy[q]
  BY <1>4 DEF ClassInv
<1>6. UNCHANGED <<processing, answers, coolingUsers, windowCalls, layersKnown>>
  BY DEF Cla!ByCache
<1>7. processing = "hybrid" => Urgent(WordsOf[r])
  BY <1>2 DEF ClassInv
<1>8. processing = "hybrid" =>
        \A q \in Inquiries : placed'[q] = "asking" \/ decidedBy'[q] = "model" => Urgent(WordsOf[q])
  BY <1>3, <1>5, <1>7 DEF ClassInv
<1>9. Cla!DropsExplained'
  <2>1. ASSUME NEW q \in Inquiries, placed'[q] = "discard"
        PROVE  Cla!LocalOf(q).layer = "discard" \/ "discard" \in layersKnown[WordsOf[q]]
    BY <1>3, <1>5, <2>1 DEF ClassInv, Cla!DropsExplained
  <2>2. QED  BY <1>6, <2>1 DEF Cla!DropsExplained, Cla!LocalOf
<1>10. QED  BY <1>5, <1>6, <1>8, <1>9 DEF ClassInv, Urgent

\* A call begins a cooldown, which no call ran in.
LEMMA AskKeeps ==
    ASSUME ClassInv, NEW r \in Inquiries, Cla!Ask(r)
    PROVE  ClassInv'
<1>1. PICK u \in Cla!Users : u = WriterOf[r]
  BY DEF Cla!Users
<1>2. /\ u \notin coolingUsers /\ coolingUsers' = coolingUsers \cup {u}
      /\ placed' = [placed EXCEPT ![r] = "asking"] /\ windowCalls' = [windowCalls EXCEPT ![u] = @ + 1]
      /\ UNCHANGED <<processing, answers, layersKnown, decidedBy>>
  BY <1>1 DEF Cla!Ask
<1>3. windowCalls[u] = 0
  BY <1>2 DEF ClassInv
<1>4. /\ windowCalls' \in [Cla!Users -> {0, 1}]
      /\ \A v \in Cla!Users : v \notin coolingUsers' => windowCalls'[v] = 0
  BY <1>2, <1>3 DEF ClassInv
<1>5. processing = "hybrid" => Urgent(WordsOf[r])
  BY UnsureIsUrgent DEF Cla!Ask, Cla!WantsModel
<1>6. DOMAIN placed' = Inquiries /\ \A q \in Inquiries : placed'[q] = IF q = r THEN "asking" ELSE placed[q]
  BY <1>2 DEF ClassInv
<1>7. processing = "hybrid" =>
        \A q \in Inquiries : placed'[q] = "asking" \/ decidedBy'[q] = "model" => Urgent(WordsOf[q])
  BY <1>2, <1>5, <1>6 DEF ClassInv
<1>8. Cla!DropsExplained'
  <2>1. ASSUME NEW q \in Inquiries, placed'[q] = "discard"
        PROVE  Cla!LocalOf(q).layer = "discard" \/ "discard" \in layersKnown[WordsOf[q]]
    BY <1>6, <2>1 DEF ClassInv, Cla!DropsExplained
  <2>2. QED  BY <1>2, <2>1 DEF Cla!DropsExplained, Cla!LocalOf
<1>9. QED  BY <1>2, <1>4, <1>6, <1>7, <1>8 DEF ClassInv, Urgent

\* An answer says where its text goes, and is known from then on.
LEMMA AnswerKeeps ==
    ASSUME AnswersMax \in Nat, ClassInv, NEW r \in Inquiries, NEW l \in {"immediate", "batch", "discard"},
           placed[r] = "asking", Cla!CacheResult(WordsOf[r], l),
           layersKnown' = [layersKnown EXCEPT ![WordsOf[r]] = @ \cup {l}],
           Cla!Goes(r, l, "model"), UNCHANGED <<processing, coolingUsers, windowCalls>>
    PROVE  ClassInv'
<1>1. PICK w \in Words : w = WordsOf[r]
  BY DEF Words
<1>2. /\ answers' \in Seq(Verdicts) /\ Len(answers') <= AnswersMax /\ Distinct(WordsIn, answers')
      /\ Range(answers') \subseteq Range(answers) \cup {[text |-> w, layer |-> l]}
  BY <1>1, Recording
<1>3. \A a \in Range(answers) : a.text \in Words
  <2>1. answers \in Seq(Verdicts)
    BY DEF ClassInv
  <2>2. \A a \in Range(answers) : a \in Verdicts
    BY <2>1, LenProperties, ElementOfSeq DEF Range
  <2>3. QED  BY <2>2 DEF Verdicts
<1>4. /\ layersKnown' \in [Words -> SUBSET {"immediate", "batch", "discard"}]
      /\ \A x \in Words : layersKnown[x] \subseteq layersKnown'[x]
      /\ l \in layersKnown'[w]
  BY <1>1 DEF ClassInv
<1>5. \A a \in Range(answers') : a.layer \in layersKnown'[a.text]
  BY <1>2, <1>3, <1>4 DEF ClassInv
<1>6. /\ DOMAIN placed' = Inquiries /\ DOMAIN decidedBy' = Inquiries
      /\ \A q \in Inquiries : placed'[q] = IF q = r THEN l ELSE placed[q]
      /\ \A q \in Inquiries : decidedBy'[q] = IF q = r THEN "model" ELSE decidedBy[q]
  BY DEF ClassInv, Cla!Goes
<1>7. processing = "hybrid" => Urgent(w)
  BY <1>1 DEF ClassInv
<1>8. processing' = "hybrid" =>
        /\ \A a \in Range(answers') : Urgent(a.text)
        /\ \A q \in Inquiries : placed'[q] = "asking" \/ decidedBy'[q] = "model" => Urgent(WordsOf[q])
  <2> SUFFICES ASSUME processing' = "hybrid"
               PROVE  /\ \A a \in Range(answers') : Urgent(a.text)
                      /\ \A q \in Inquiries : placed'[q] = "asking" \/ decidedBy'[q] = "model" => Urgent(WordsOf[q])
    OBVIOUS
  <2>1. processing = "hybrid"
    OBVIOUS
  <2>2. \A a \in Range(answers') : Urgent(a.text)
    BY <1>2, <1>7, <2>1 DEF ClassInv
  <2>3. \A q \in Inquiries : placed'[q] = "asking" \/ decidedBy'[q] = "model" => Urgent(WordsOf[q])
    BY <1>1, <1>6, <1>7, <2>1 DEF ClassInv
  <2>4. QED  BY <2>2, <2>3
<1>9. Cla!DropsExplained'
  <2>1. ASSUME NEW q \in Inquiries, placed'[q] = "discard"
        PROVE  Cla!LocalOf(q).layer = "discard" \/ "discard" \in layersKnown'[WordsOf[q]]
    <3>1. CASE q = r
      BY <1>1, <1>4, <1>6, <2>1, <3>1
    <3>2. CASE q # r
      <4>1. Cla!LocalOf(q).layer = "discard" \/ "discard" \in layersKnown[WordsOf[q]]
        BY <1>6, <2>1, <3>2 DEF ClassInv, Cla!DropsExplained
      <4>2. QED  BY <1>4, <4>1 DEF Words
    <3>3. QED  BY <3>1, <3>2
  <2>2. QED  BY <2>1 DEF Cla!DropsExplained, Cla!LocalOf
<1>10. QED  BY <1>2, <1>4, <1>5, <1>6, <1>8, <1>9 DEF ClassInv, Urgent

LEMMA ClassExpireKeeps ==
    ASSUME AnswersMax \in Nat, ClassInv, Cla!Expire
    PROVE  ClassInv'
<1>1. /\ answers # <<>> /\ answers' = Tail(answers) /\ Len(answers) \in Nat
      /\ UNCHANGED <<processing, coolingUsers, placed, windowCalls, layersKnown, decidedBy>>
  BY LenProperties DEF Cla!Expire, ClassInv
<1>2. /\ answers' \in Seq(Verdicts) /\ Len(answers') = Len(answers) - 1 /\ Distinct(WordsIn, answers')
      /\ Range(answers') \subseteq Range(answers)
  <2>1. answers \in Seq(Verdicts) /\ Distinct(WordsIn, answers) /\ answers # <<>>
    BY <1>1 DEF ClassInv
  <2>2. /\ Tail(answers) \in Seq(Verdicts) /\ Len(Tail(answers)) = Len(answers) - 1
        /\ Distinct(WordsIn, Tail(answers)) /\ Range(Tail(answers)) \subseteq Range(answers)
    BY <2>1, TailDistinct
  <2>3. QED  BY <1>1, <2>2
<1>3. QED  BY <1>1, <1>2 DEF ClassInv, Urgent, Cla!DropsExplained, Cla!LocalOf

LEMMA ClassKeeps == AnswersMax \in Nat /\ ClassInv /\ [Cla!Next]_(Cla!vars) => ClassInv'
<1> SUFFICES ASSUME AnswersMax \in Nat, ClassInv, [Cla!Next]_(Cla!vars) PROVE ClassInv'
  OBVIOUS
<1>1. ASSUME NEW r \in Inquiries, Cla!ByRules(r) \/ Cla!Skips(r) PROVE ClassInv'
  BY <1>1, RulesKeep DEF Cla!ByRules, Cla!Skips
<1>2. ASSUME NEW r \in Inquiries, Cla!ByCache(r) PROVE ClassInv'
  BY <1>2, CacheKeepsClass
<1>3. ASSUME NEW r \in Inquiries, Cla!Ask(r) PROVE ClassInv'
  BY <1>3, AskKeeps
<1>4. ASSUME NEW r \in Inquiries, Cla!Answer(r) PROVE ClassInv'
  <2>1. placed[r] = "asking" /\ UNCHANGED <<processing, coolingUsers, windowCalls>>
    BY <1>4 DEF Cla!Answer
  <2>2. CASE Cla!Goes(r, Cla!LocalOf(r).layer, "rules") /\ UNCHANGED <<answers, layersKnown>>
    BY <2>1, <2>2, RulesKeep
  <2>3. ASSUME NEW l \in {"immediate", "batch", "discard"}, Cla!CacheResult(WordsOf[r], l),
               layersKnown' = [layersKnown EXCEPT ![WordsOf[r]] = @ \cup {l}], Cla!Goes(r, l, "model")
        PROVE  ClassInv'
    BY <2>1, <2>3, AnswerKeeps
  <2>4. QED  BY <1>4, <2>2, <2>3 DEF Cla!Answer, Cla!Layers
<1>5. ASSUME NEW u \in Cla!Users, Cla!CooldownEnds(u) PROVE ClassInv'
  <2>1. /\ coolingUsers' = coolingUsers \ {u} /\ windowCalls' = [windowCalls EXCEPT ![u] = 0]
        /\ UNCHANGED <<processing, answers, placed, layersKnown, decidedBy>>
    BY <1>5 DEF Cla!CooldownEnds
  <2>2. /\ windowCalls' \in [Cla!Users -> {0, 1}]
        /\ \A v \in Cla!Users : v \notin coolingUsers' => windowCalls'[v] = 0
    BY <2>1 DEF ClassInv
  <2>3. QED  BY <2>1, <2>2 DEF ClassInv, Urgent, Cla!DropsExplained, Cla!LocalOf
<1>6. CASE Cla!Expire
  BY <1>6, ClassExpireKeeps
<1>7. CASE UNCHANGED Cla!vars
  BY <1>7 DEF Cla!vars, ClassInv, Urgent, Cla!DropsExplained, Cla!LocalOf
<1>8. QED  BY <1>1, <1>2, <1>3, <1>4, <1>5, <1>6, <1>7 DEF Cla!Next

LEMMA ClassInvSound == ClassInv => Cla!ClassifierSound
<1> SUFFICES ASSUME ClassInv PROVE Cla!ClassifierSound
  OBVIOUS
<1>1. Cla!OneCallPerCooldown
  BY DEF ClassInv, Cla!OneCallPerCooldown
<1>2. Cla!CacheKept
  <2>1. answers \in Seq(Verdicts) /\ DOMAIN answers = 1 .. Len(answers)
    BY LenProperties DEF ClassInv
  <2>2. \A i \in DOMAIN answers : WordsIn[answers[i]] = answers[i].text
    BY <2>1, ElementOfSeq DEF WordsIn
  <2>3. QED  BY <2>2 DEF ClassInv, Distinct, Cla!CacheKept
<1>3. Cla!ModelOnlyLowers
  BY DEF ClassInv, Cla!ModelOnlyLowers, Cla!LocalOf, Urgent
<1>4. QED  BY <1>1, <1>2, <1>3 DEF Cla!ClassifierSound, ClassInv

\* A user costs one call per cooldown, the cache keeps one answer per text, in the hybrid
\* mode only what the rules find urgent is asked about, and what is dropped was found no
\* memory, however the answers come.
THEOREM ClassifiesRight == ASSUME AnswersMax \in Nat PROVE Cla!Spec => []Cla!ClassifierSound
<1>1. Cla!Init => ClassInv
  <2> SUFFICES ASSUME Cla!Init PROVE ClassInv
    OBVIOUS
  <2>1. answers \in Seq(Verdicts) /\ Len(answers) = 0 /\ Range(answers) = {} /\ Distinct(WordsIn, answers)
    BY EmptySeq DEF Cla!Init, Range, Distinct
  <2>2. \A r \in Inquiries : placed[r] = "new" /\ decidedBy[r] = "none"
    BY DEF Cla!Init
  <2>3. Cla!DropsExplained
    BY <2>2 DEF Cla!DropsExplained
  <2>4. layersKnown \in [Words -> SUBSET {"immediate", "batch", "discard"}]
    BY DEF Cla!Init, Words
  <2>5. /\ windowCalls \in [Cla!Users -> {0, 1}] /\ \A u \in Cla!Users : windowCalls[u] = 0
        /\ DOMAIN placed = Inquiries /\ DOMAIN decidedBy = Inquiries
    BY DEF Cla!Init
  <2>6. QED  BY <2>1, <2>2, <2>3, <2>4, <2>5 DEF ClassInv
<1>2. QED  BY <1>1, ClassInvSound, ClassKeeps, PTL DEF Cla!Spec

-----------------------------------------------------------------------------
(* The descriptions of images (ImageAnalysis).                               *)

DescribedRoom == IF MaxDescribed > 2 THEN MaxDescribed ELSE 2

\* The analyses of an image and of a session that run.
OfImage(i) == {d \in DOMAIN analysis : analysis[d].image = i}
OfSession(s) == {d \in DOMAIN analysis : analysis[d].session = s}

ImageTypes ==
    /\ described \in Seq(Img!Images) /\ Once(described) /\ Len(described) <= DescribedRoom
    /\ DOMAIN analysis \subseteq Analyses /\ \A c \in DOMAIN analysis : analysis[c] \in Pictured
    /\ daily \in Nat /\ session \in [Img!Sessions -> Nat]
    /\ paid \in [Img!Images -> Nat] /\ excuses \in [Img!Images -> Nat]

\* An image that may be described again has an excuse left over.
Excused(i) ==
    /\ paid[i] + Cardinality(OfImage(i)) <= 1 + excuses[i]
    /\ i \notin Range(described) /\ OfImage(i) = {} => paid[i] <= excuses[i]

\* The analyses that count and those that will stay below the budget and the overlap.
DailySpent ==
    /\ DOMAIN analysis # {} => DailyBudget > 0
    /\ daily + Cardinality(DOMAIN analysis) < DailyBudget + Cardinality(Analyses)
SessionSpent(s) ==
    SessionBudget > 0 => session[s] + Cardinality(OfSession(s)) < SessionBudget + Cardinality(Analyses)

ImagesInv ==
    /\ ImageTypes
    /\ \A i \in Img!Images : Excused(i)
    /\ DailySpent
    /\ \A s \in Img!Sessions : SessionSpent(s)

\* What runs is finite, and no more than may overlap.
LEMMA RunsAreFinite ==
    ASSUME Imageable, ImageTypes
    PROVE  /\ IsFiniteSet(DOMAIN analysis) /\ Cardinality(DOMAIN analysis) \in Nat
           /\ Cardinality(Analyses) \in Nat \ {0} /\ Cardinality(DOMAIN analysis) <= Cardinality(Analyses)
           /\ \A c \in Analyses \ DOMAIN analysis : Cardinality(DOMAIN analysis) < Cardinality(Analyses)
           /\ \A i : /\ IsFiniteSet(OfImage(i)) /\ Cardinality(OfImage(i)) \in Nat
                     /\ Cardinality(OfImage(i)) = 0 <=> OfImage(i) = {}
           /\ \A s : /\ IsFiniteSet(OfSession(s)) /\ Cardinality(OfSession(s)) \in Nat
                     /\ Cardinality(OfSession(s)) <= Cardinality(DOMAIN analysis)
<1>1. IsFiniteSet(Analyses) /\ Analyses # {} /\ DOMAIN analysis \in SUBSET Analyses
  BY DEF Imageable, ImageTypes
<1>2. /\ IsFiniteSet(DOMAIN analysis) /\ Cardinality(DOMAIN analysis) <= Cardinality(Analyses)
      /\ Cardinality(Analyses) = Cardinality(DOMAIN analysis) => Analyses = DOMAIN analysis
  BY <1>1, FS_Subset
<1>3. Cardinality(DOMAIN analysis) \in Nat /\ Cardinality(Analyses) \in Nat /\ Cardinality(Analyses) # 0
  BY <1>1, <1>2, FS_CardinalityType, FS_EmptySet
<1>4. \A c \in Analyses \ DOMAIN analysis : Cardinality(DOMAIN analysis) < Cardinality(Analyses)
  BY <1>2, <1>3
<1>5. ASSUME NEW i
      PROVE  /\ IsFiniteSet(OfImage(i)) /\ Cardinality(OfImage(i)) \in Nat
             /\ Cardinality(OfImage(i)) = 0 <=> OfImage(i) = {}
  <2>1. OfImage(i) \in SUBSET DOMAIN analysis
    BY DEF OfImage
  <2>2. IsFiniteSet(OfImage(i))
    BY <1>2, <2>1, FS_Subset
  <2>3. QED  BY <2>2, FS_CardinalityType, FS_EmptySet
<1>6. ASSUME NEW s
      PROVE  /\ IsFiniteSet(OfSession(s)) /\ Cardinality(OfSession(s)) \in Nat
             /\ Cardinality(OfSession(s)) <= Cardinality(DOMAIN analysis)
  <2>1. OfSession(s) \in SUBSET DOMAIN analysis
    BY DEF OfSession
  <2>2. IsFiniteSet(OfSession(s)) /\ Cardinality(OfSession(s)) <= Cardinality(DOMAIN analysis)
    BY <1>2, <2>1, FS_Subset
  <2>3. QED  BY <2>2, FS_CardinalityType
<1>7. QED  BY <1>2, <1>3, <1>4, <1>5, <1>6

\* The image and the session of a message.
LEMMA PicturedIn == \A m \in Pictured : m.image \in Img!Images /\ m.session \in Img!Sessions
  BY DEF Img!Images, Img!Sessions

\* The cache as long as it may be.
LEMMA RoomIs ==
    ASSUME Imageable
    PROVE  Img!Max({MaxDescribed, 2}) = DescribedRoom /\ DescribedRoom \in Nat /\ DescribedRoom >= 2
           /\ DescribedRoom >= MaxDescribed
<1>1. MaxDescribed \in Nat
  BY DEF Imageable
<1>2. \A x \in {MaxDescribed, 2} : (\A y \in {MaxDescribed, 2} : x >= y) <=> x = DescribedRoom
  BY <1>1 DEF DescribedRoom
<1>3. DescribedRoom \in {MaxDescribed, 2}
  BY DEF DescribedRoom
<1>4. Img!Max({MaxDescribed, 2}) = CHOOSE x \in {MaxDescribed, 2} : \A y \in {MaxDescribed, 2} : x >= y
  BY DEF Img!Max
<1>5. Img!Max({MaxDescribed, 2}) = DescribedRoom
  BY <1>2, <1>3, <1>4
<1>6. QED  BY <1>1, <1>5 DEF DescribedRoom

-----------------------------------------------------------------------------
(* The cache.                                                                *)

\* A list of distinct members without one of its places.
LEMMA RemovalOnce ==
    ASSUME NEW S, NEW s \in Seq(S), Once(s), NEW i \in 1 .. Len(s)
    PROVE  /\ RemoveAt(s, i) \in Seq(S) /\ Len(RemoveAt(s, i)) = Len(s) - 1 /\ Once(RemoveAt(s, i))
           /\ Range(RemoveAt(s, i)) = Range(s) \ {s[i]}
<1>1. PICK k : k = [x \in S |-> x]
  OBVIOUS
<1>2. /\ DOMAIN s = 1 .. Len(s) /\ \A j \in 1 .. Len(s) : s[j] \in S /\ k[s[j]] = s[j]
      /\ \A e \in Range(s) : k[e] = e
  BY <1>1, LenProperties, ElementOfSeq DEF Range
<1>3. Distinct(k, s)
  BY <1>2 DEF Distinct, Once
<1>4. /\ RemoveAt(s, i) \in Seq(S) /\ Len(RemoveAt(s, i)) = Len(s) - 1 /\ Distinct(k, RemoveAt(s, i))
      /\ \A e : e \in Range(RemoveAt(s, i)) <=> e \in Range(s) /\ k[e] # k[s[i]]
  BY <1>3, RemovalDistinct
<1>5. Once(RemoveAt(s, i))
  BY <1>4 DEF Distinct, Once
<1>6. \A e : e \in Range(RemoveAt(s, i)) <=> e \in Range(s) \ {s[i]}
  BY <1>2, <1>4
<1>7. QED  BY <1>4, <1>5, <1>6

\* The end of a list of distinct members, from the place a on.
LEMMA EndOnce ==
    ASSUME NEW S, NEW s \in Seq(S), Once(s), NEW a \in 1 .. (Len(s) + 1)
    PROVE  LET r == SubSeq(s, a, Len(s)) IN
           r \in Seq(S) /\ Len(r) = Len(s) - a + 1 /\ Once(r) /\ Range(r) \subseteq Range(s)
<1>1. Len(s) \in Nat /\ DOMAIN s = 1 .. Len(s) /\ a \in Nat /\ 1 <= a /\ a <= Len(s) + 1
  BY LenProperties
<1>2. PICK r : r = SubSeq(s, a, Len(s))
  OBVIOUS
<1>3. \A i \in a .. Len(s) : s[i] \in S
  BY <1>1, ElementOfSeq
<1>4. /\ r \in Seq(S) /\ Len(r) = IF a <= Len(s) THEN Len(s) - a + 1 ELSE 0
      /\ \A i \in 1 .. Len(s) - a + 1 : r[i] = s[a + i - 1]
  BY <1>1, <1>2, <1>3, SubSeqProperties
<1>5. Len(r) = Len(s) - a + 1
  BY <1>1, <1>4
<1>6. DOMAIN r = 1 .. (Len(s) - a + 1)
  BY <1>4, <1>5, LenProperties
<1>7. \A i \in 1 .. (Len(s) - a + 1) : a + i - 1 \in 1 .. Len(s) /\ r[i] = s[a + i - 1]
  BY <1>1, <1>4
<1>8. Once(r)
  <2> SUFFICES ASSUME NEW i \in 1 .. (Len(s) - a + 1), NEW j \in 1 .. (Len(s) - a + 1), r[i] = r[j]
               PROVE  i = j
    BY <1>6 DEF Once
  <2>1. s[a + i - 1] = s[a + j - 1] /\ a + i - 1 \in 1 .. Len(s) /\ a + j - 1 \in 1 .. Len(s)
    BY <1>7
  <2>2. a + i - 1 = a + j - 1
    BY <1>1, <2>1 DEF Once
  <2>3. QED  BY <1>1, <2>2
<1>9. Range(r) \subseteq Range(s)
  BY <1>1, <1>6, <1>7 DEF Range
<1>10. QED  BY <1>2, <1>4, <1>5, <1>8, <1>9

\* In a full cache the older half gives way, which leaves room for one.
LEMMA KeptIs ==
    ASSUME Imageable, ImageTypes
    PROVE  /\ Img!Kept(described) \in Seq(Img!Images) /\ Once(Img!Kept(described))
           /\ Len(Img!Kept(described)) < DescribedRoom /\ Range(Img!Kept(described)) \subseteq Range(described)
<1>1. /\ described \in Seq(Img!Images) /\ Once(described) /\ Len(described) <= DescribedRoom
      /\ Len(described) \in Nat
  BY LenProperties DEF ImageTypes
<1>2. DescribedRoom \in Nat /\ DescribedRoom >= 2 /\ DescribedRoom >= MaxDescribed /\ MaxDescribed \in Nat
  BY RoomIs DEF Imageable
<1>3. CASE Len(described) >= MaxDescribed
  <2>1. PICK a \in 1 .. (Len(described) + 1) :
             a = (Len(described) \div 2) + 1 /\ Len(described) - a + 1 < DescribedRoom
    BY <1>1, <1>2
  <2>2. PICK r : r = SubSeq(described, a, Len(described))
    OBVIOUS
  <2>3. r \in Seq(Img!Images) /\ Len(r) = Len(described) - a + 1 /\ Once(r) /\ Range(r) \subseteq Range(described)
    BY <1>1, <2>2, EndOnce
  <2>4. Img!Kept(described) = r
    BY <1>3, <2>1, <2>2 DEF Img!Kept
  <2>5. QED  BY <2>1, <2>3, <2>4
<1>4. CASE ~(Len(described) >= MaxDescribed)
  <2>1. Img!Kept(described) = described /\ Len(described) < DescribedRoom
    BY <1>1, <1>2, <1>4 DEF Img!Kept
  <2>2. QED  BY <1>1, <2>1
<1>5. QED  BY <1>3, <1>4

\* A description that is cached is there once and within the room.
LEMMA CachedIs ==
    ASSUME Imageable, ImageTypes, NEW i \in Img!Images
    PROVE  /\ Img!Cached(i) \in Seq(Img!Images) /\ Once(Img!Cached(i)) /\ Len(Img!Cached(i)) <= DescribedRoom
           /\ i \in Range(Img!Cached(i))
<1>1. PICK q : q = Img!Kept(described)
  OBVIOUS
<1>2. q \in Seq(Img!Images) /\ Once(q) /\ Len(q) < DescribedRoom /\ Len(q) \in Nat /\ DOMAIN q = 1 .. Len(q)
  BY <1>1, KeptIs, LenProperties
<1>3. PICK places : places = {n \in DOMAIN q : q[n] = i}
  OBVIOUS
<1>4. \E o \in Seq(Img!Images) :
         /\ o = IF places = {} THEN q ELSE RemoveAt(q, CHOOSE n \in places : TRUE)
         /\ Once(o) /\ Len(o) < DescribedRoom /\ i \notin Range(o)
  <2>1. CASE places = {}
    <3>1. i \notin Range(q)
      BY <1>3, <2>1 DEF Range
    <3>2. QED  BY <1>2, <2>1, <3>1
  <2>2. CASE places # {}
    <3>1. PICK n : n = CHOOSE p \in places : TRUE
      OBVIOUS
    <3>2. n \in 1 .. Len(q) /\ q[n] = i
      BY <1>2, <1>3, <2>2, <3>1
    <3>3. /\ RemoveAt(q, n) \in Seq(Img!Images) /\ Len(RemoveAt(q, n)) = Len(q) - 1 /\ Once(RemoveAt(q, n))
          /\ Range(RemoveAt(q, n)) = Range(q) \ {q[n]}
      BY <1>2, <3>2, RemovalOnce
    <3>4. Len(q) - 1 < DescribedRoom
      BY <1>2, RoomIs
    <3>5. QED  BY <2>2, <3>1, <3>2, <3>3, <3>4
  <2>3. QED  BY <2>1, <2>2
<1>5. PICK o \in Seq(Img!Images) :
         /\ o = IF places = {} THEN q ELSE RemoveAt(q, CHOOSE n \in places : TRUE)
         /\ Once(o) /\ Len(o) < DescribedRoom /\ i \notin Range(o)
  BY <1>4
<1>6. Img!Cached(i) = Append(o, i)
  BY <1>1, <1>3, <1>5 DEF Img!Cached, Img!Popped, RemoveAt
<1>7. Once(o) /\ i \notin Range(o)
  BY <1>5
<1>8. /\ Append(o, i) \in Seq(Img!Images) /\ Len(Append(o, i)) = Len(o) + 1 /\ Len(o) \in Nat
      /\ Range(Append(o, i)) = Range(o) \cup {i} /\ Once(Append(o, i))
  BY <1>7, Listing
<1>9. Len(o) + 1 <= DescribedRoom
  BY <1>5, <1>8, RoomIs
<1>10. QED  BY <1>6, <1>8, <1>9

-----------------------------------------------------------------------------
(* The steps.                                                                *)

\* An analysis begins: its image and its session have one more.
LEMMA AnalyseKeeps ==
    ASSUME Imageable, ImagesInv, NEW c \in Analyses, NEW m \in Pictured, Img!Analyse(c, m)
    PROVE  ImagesInv'
<1>1. /\ c \notin DOMAIN analysis /\ m.image \notin Range(described)
      /\ daily < DailyBudget /\ (SessionBudget > 0 => session[m.session] < SessionBudget)
      /\ analysis' = [d \in DOMAIN analysis \cup {c} |-> IF d = c THEN m ELSE analysis[d]]
      /\ excuses' = [excuses EXCEPT ![m.image] = @ + Cardinality(OfImage(m.image))]
      /\ UNCHANGED <<described, daily, session, paid>>
  <2>1. Img!Range(described) = Range(described)
    BY DEF Img!Range, Range
  <2>2. Img!Cardinality(OfImage(m.image)) = Cardinality(OfImage(m.image))
    BY DEF Img!Cardinality, Cardinality
  <2>3. {d \in Img!Running : analysis[d].image = m.image} = OfImage(m.image)
    BY DEF Img!Running, OfImage
  <2>4. c \notin DOMAIN analysis /\ m.image \notin Range(described)
    BY <2>1 DEF Img!Analyse, Img!Running
  <2>5. daily < DailyBudget /\ (SessionBudget > 0 => session[m.session] < SessionBudget)
    BY DEF Img!Analyse, Img!WithinBudget
  <2>6. analysis' = [d \in DOMAIN analysis \cup {c} |-> IF d = c THEN m ELSE analysis[d]]
    BY DEF Img!Analyse, Img!Running
  <2>7. excuses' = [excuses EXCEPT ![m.image] = @ + Cardinality(OfImage(m.image))]
    BY <2>2, <2>3 DEF Img!Analyse
  <2>8. UNCHANGED <<described, daily, session, paid>>
    BY DEF Img!Analyse
  <2>9. QED  BY <2>4, <2>5, <2>6, <2>7, <2>8
<1>2. ImageTypes /\ m.image \in Img!Images /\ m.session \in Img!Sessions
  BY PicturedIn DEF ImagesInv
<1>3. /\ DOMAIN analysis' = DOMAIN analysis \cup {c}
      /\ \A i : OfImage(i)' = IF i = m.image THEN OfImage(i) \cup {c} ELSE OfImage(i)
      /\ \A s : OfSession(s)' = IF s = m.session THEN OfSession(s) \cup {c} ELSE OfSession(s)
      /\ \A i : c \notin OfImage(i)
      /\ \A s : c \notin OfSession(s)
  BY <1>1 DEF OfImage, OfSession
<1>4. PICK n \in Nat : n = Cardinality(OfImage(m.image))
  BY <1>2, RunsAreFinite
<1>5. /\ excuses' \in [Img!Images -> Nat] /\ excuses'[m.image] = excuses[m.image] + n
      /\ \A i \in Img!Images : i # m.image => excuses'[i] = excuses[i]
  BY <1>1, <1>2, <1>4 DEF ImageTypes
<1>6. ImageTypes'
  <2>1. DOMAIN analysis' \subseteq Analyses /\ \A d \in DOMAIN analysis' : analysis'[d] \in Pictured
    BY <1>1, <1>2, <1>3 DEF ImageTypes
  <2>2. QED  BY <1>1, <1>2, <1>5, <2>1 DEF ImageTypes
<1>7. \A i \in Img!Images : Excused(i)'
  <2> SUFFICES ASSUME NEW i \in Img!Images PROVE Excused(i)'
    OBVIOUS
  <2>1. Excused(i)
    BY DEF ImagesInv
  <2>2. CASE i # m.image
    <3>1. OfImage(i)' = OfImage(i) /\ excuses'[i] = excuses[i] /\ UNCHANGED <<described, paid>>
      BY <1>1, <1>3, <1>5, <2>2
    <3>2. QED  BY <2>1, <3>1 DEF Excused
  <2>3. CASE i = m.image
    <3>1. Cardinality(OfImage(i)') = n + 1 /\ OfImage(i)' # {}
      BY <1>2, <1>3, <1>4, <2>3, RunsAreFinite, FS_AddElement
    <3>2. paid[i] \in Nat /\ excuses[i] \in Nat
      BY <1>2 DEF ImageTypes
    <3>3. paid[i] + n <= 1 + excuses[i] /\ (n = 0 => paid[i] <= excuses[i])
      BY <1>1, <1>2, <1>4, <2>1, <2>3, RunsAreFinite DEF Excused
    <3>4. paid[i] + (n + 1) <= 1 + (excuses[i] + n)
      BY <3>2, <3>3
    <3>5. paid'[i] = paid[i] /\ excuses'[i] = excuses[i] + n
      BY <1>1, <1>5, <2>3
    <3>6. QED  BY <3>1, <3>4, <3>5 DEF Excused
  <2>4. QED  BY <2>2, <2>3
<1>8. PICK k \in Nat, a \in Nat : k = Cardinality(DOMAIN analysis) /\ a = Cardinality(Analyses) /\ k < a
  BY <1>1, <1>2, RunsAreFinite
<1>9. Cardinality(DOMAIN analysis') = k + 1
  BY <1>1, <1>2, <1>3, <1>8, RunsAreFinite, FS_AddElement
<1>10. DailySpent'
  <2>1. daily \in Nat /\ DailyBudget \in Nat
    BY <1>2 DEF ImageTypes, Imageable
  <2>2. DailyBudget > 0 /\ daily + (k + 1) < DailyBudget + a
    BY <1>1, <1>8, <2>1
  <2>3. QED  BY <1>1, <1>8, <1>9, <2>2 DEF DailySpent
<1>11. \A s \in Img!Sessions : SessionSpent(s)'
  <2> SUFFICES ASSUME NEW s \in Img!Sessions, SessionBudget > 0
               PROVE  session'[s] + Cardinality(OfSession(s)') < SessionBudget + Cardinality(Analyses)
    BY DEF SessionSpent
  <2>1. session[s] + Cardinality(OfSession(s)) < SessionBudget + Cardinality(Analyses)
    BY DEF ImagesInv, SessionSpent
  <2>2. CASE s # m.session
    BY <1>1, <1>3, <2>1, <2>2
  <2>3. CASE s = m.session
    <3>1. PICK j \in Nat : j = Cardinality(OfSession(s)) /\ j <= k
      BY <1>2, <1>8, RunsAreFinite
    <3>2. Cardinality(OfSession(s)') = j + 1
      BY <1>2, <1>3, <2>3, <3>1, RunsAreFinite, FS_AddElement
    <3>3. session[s] \in Nat /\ session[s] < SessionBudget /\ SessionBudget \in Nat
      BY <1>1, <1>2, <2>3 DEF ImageTypes, Imageable
    <3>4. session[s] + (j + 1) < SessionBudget + a
      BY <1>8, <3>1, <3>3
    <3>5. QED  BY <1>1, <1>8, <3>2, <3>4
  <2>4. QED  BY <2>2, <2>3
<1>12. QED  BY <1>6, <1>7, <1>10, <1>11 DEF ImagesInv

\* An analysis ends and counts: the budgets have one more and the runs one fewer.
LEMMA CountKeeps ==
    ASSUME Imageable, ImagesInv, NEW c \in DOMAIN analysis, Img!Count(c)
    PROVE  /\ DOMAIN analysis' \subseteq Analyses /\ \A d \in DOMAIN analysis' : analysis'[d] \in Pictured
           /\ daily' \in Nat /\ session' \in [Img!Sessions -> Nat]
           /\ analysis[c].image \in Img!Images
           /\ \A i : OfImage(i)' = IF i = analysis[c].image THEN OfImage(i) \ {c} ELSE OfImage(i)
           /\ c \in OfImage(analysis[c].image)
           /\ DailySpent' /\ \A s \in Img!Sessions : SessionSpent(s)'
<1>1. PICK m \in Pictured : m = analysis[c]
  BY DEF ImagesInv, ImageTypes
<1>2. /\ daily' = daily + 1 /\ session' = [session EXCEPT ![m.session] = @ + 1]
      /\ analysis' = [d \in DOMAIN analysis \ {c} |-> analysis[d]]
  BY <1>1 DEF Img!Count, Img!Running
<1>3. ImageTypes /\ m.image \in Img!Images /\ m.session \in Img!Sessions
  BY PicturedIn DEF ImagesInv
<1>4. /\ DOMAIN analysis' = DOMAIN analysis \ {c}
      /\ \A i : OfImage(i)' = IF i = m.image THEN OfImage(i) \ {c} ELSE OfImage(i)
      /\ \A s : OfSession(s)' = IF s = m.session THEN OfSession(s) \ {c} ELSE OfSession(s)
      /\ c \in OfImage(m.image) /\ c \in OfSession(m.session)
  BY <1>1, <1>2 DEF OfImage, OfSession
<1>5. DOMAIN analysis' \subseteq Analyses /\ \A d \in DOMAIN analysis' : analysis'[d] \in Pictured
  BY <1>2, <1>3 DEF ImageTypes
<1>6. daily' \in Nat /\ session' \in [Img!Sessions -> Nat]
  BY <1>2, <1>3 DEF ImageTypes
<1>7. PICK k \in Nat, a \in Nat : k = Cardinality(DOMAIN analysis) /\ a = Cardinality(Analyses)
  BY <1>3, RunsAreFinite
<1>8. DailySpent'
  <2>1. Cardinality(DOMAIN analysis') = k - 1
    BY <1>3, <1>4, <1>7, RunsAreFinite, FS_RemoveElement
  <2>2. DailyBudget > 0 /\ daily + k < DailyBudget + a
    BY <1>7 DEF ImagesInv, DailySpent
  <2>3. (daily + 1) + (k - 1) < DailyBudget + a
    BY <1>3, <1>7, <2>2 DEF ImageTypes, Imageable
  <2>4. QED  BY <1>2, <1>7, <2>1, <2>2, <2>3 DEF DailySpent
<1>9. \A s \in Img!Sessions : SessionSpent(s)'
  <2> SUFFICES ASSUME NEW s \in Img!Sessions, SessionBudget > 0
               PROVE  session'[s] + Cardinality(OfSession(s)') < SessionBudget + Cardinality(Analyses)
    BY DEF SessionSpent
  <2>1. session[s] + Cardinality(OfSession(s)) < SessionBudget + Cardinality(Analyses)
    BY DEF ImagesInv, SessionSpent
  <2>2. CASE s # m.session
    <3>1. session'[s] = session[s] /\ OfSession(s)' = OfSession(s)
      BY <1>2, <1>3, <1>4, <2>2 DEF ImageTypes
    <3>2. QED  BY <2>1, <3>1
  <2>3. CASE s = m.session
    <3>1. PICK j \in Nat : j = Cardinality(OfSession(s))
      BY <1>3, RunsAreFinite
    <3>2. Cardinality(OfSession(s)') = j - 1
      BY <1>3, <1>4, <2>3, <3>1, RunsAreFinite, FS_RemoveElement
    <3>3. session'[s] = session[s] + 1 /\ session[s] \in Nat
      BY <1>2, <1>3, <2>3 DEF ImageTypes
    <3>4. (session[s] + 1) + (j - 1) = session[s] + j
      BY <3>1, <3>3
    <3>5. QED  BY <2>1, <3>1, <3>2, <3>3, <3>4
  <2>4. QED  BY <2>2, <2>3
<1>10. QED  BY <1>1, <1>3, <1>4, <1>5, <1>6, <1>8, <1>9

\* A description is paid for, and cached; what it drives out has an excuse.
LEMMA DescribeKeeps ==
    ASSUME Imageable, ImagesInv, NEW c \in Analyses, Img!Describe(c)
    PROVE  ImagesInv'
<1>1. c \in DOMAIN analysis /\ Img!Count(c)
  BY DEF Img!Describe, Img!Running
<1>2. PICK i \in Img!Images : i = analysis[c].image
  BY <1>1, CountKeeps
<1>3. /\ described' = Img!Cached(i) /\ paid' = [paid EXCEPT ![i] = @ + 1]
      /\ excuses' = [j \in Img!Images |-> excuses[j] + IF j \in Range(described) \ Range(Img!Cached(i)) THEN 1 ELSE 0]
  BY <1>2 DEF Img!Describe, Img!Range, Range
<1>4. ImageTypes
  BY DEF ImagesInv
<1>5. /\ described' \in Seq(Img!Images) /\ Once(described') /\ Len(described') <= DescribedRoom
      /\ i \in Range(described')
  BY <1>3, <1>4, CachedIs
<1>6. /\ paid' \in [Img!Images -> Nat] /\ excuses' \in [Img!Images -> Nat]
      /\ \A j \in Img!Images : /\ paid'[j] = IF j = i THEN paid[j] + 1 ELSE paid[j]
                               /\ excuses'[j] = excuses[j] + IF j \in Range(described) \ Range(described') THEN 1 ELSE 0
  BY <1>3, <1>4 DEF ImageTypes
<1>7. ImageTypes'
  BY <1>1, <1>5, <1>6, CountKeeps DEF ImageTypes
<1>8. \A j \in Img!Images : Excused(j)'
  <2> SUFFICES ASSUME NEW j \in Img!Images PROVE Excused(j)'
    OBVIOUS
  <2>1. PICK n \in Nat : n = Cardinality(OfImage(j)) /\ (n = 0 <=> OfImage(j) = {})
    BY <1>4, RunsAreFinite
  <2>2. PICK p \in Nat, e \in Nat : p = paid[j] /\ e = excuses[j]
    BY <1>4 DEF ImageTypes
  <2>3. p + n <= 1 + e /\ (j \notin Range(described) /\ n = 0 => p <= e)
    BY <2>1, <2>2 DEF ImagesInv, Excused
  <2>4. PICK x \in {0, 1} : x = IF j \in Range(described) \ Range(described') THEN 1 ELSE 0
    OBVIOUS
  <2>5. excuses'[j] = e + x
    BY <1>6, <2>2, <2>4
  <2>6. CASE j = i
    <3>1. OfImage(j)' = OfImage(j) \ {c} /\ c \in OfImage(j)
      BY <1>1, <1>2, <2>6, CountKeeps
    <3>2. Cardinality(OfImage(j)') = n - 1
      BY <1>4, <2>1, <3>1, RunsAreFinite, FS_RemoveElement
    <3>3. paid'[j] = p + 1
      BY <1>6, <2>2, <2>6
    <3>4. (p + 1) + (n - 1) <= 1 + (e + x)
      BY <2>3, <2>4
    <3>5. j \in Range(described')
      BY <1>5, <2>6
    <3>6. QED  BY <2>5, <3>2, <3>3, <3>4, <3>5 DEF Excused
  <2>7. CASE j # i
    <3>1. OfImage(j)' = OfImage(j) /\ paid'[j] = p
      BY <1>1, <1>2, <1>6, <2>2, <2>7, CountKeeps
    <3>2. p + n <= 1 + (e + x)
      BY <2>3, <2>4
    <3>3. j \notin Range(described') /\ n = 0 => p <= e + x
      BY <2>3, <2>4
    <3>4. QED  BY <2>1, <2>5, <3>1, <3>2, <3>3 DEF Excused
  <2>8. QED  BY <2>6, <2>7
<1>9. QED  BY <1>1, <1>7, <1>8, CountKeeps DEF ImagesInv

LEMMA FailKeepsImages ==
    ASSUME Imageable, ImagesInv, NEW c \in Analyses, Img!Fail(c)
    PROVE  ImagesInv'
<1>1. c \in DOMAIN analysis /\ Img!Count(c) /\ UNCHANGED <<described, paid, excuses>>
  BY DEF Img!Fail, Img!Running
<1>2. ImageTypes
  BY DEF ImagesInv
<1>3. ImageTypes'
  BY <1>1, <1>2, CountKeeps DEF ImageTypes
<1>4. \A j \in Img!Images : Excused(j)'
  <2> SUFFICES ASSUME NEW j \in Img!Images PROVE Excused(j)'
    OBVIOUS
  <2>1. Excused(j)
    BY DEF ImagesInv
  <2>2. CASE j = analysis[c].image
    <3>1. OfImage(j)' = OfImage(j) \ {c} /\ c \in OfImage(j)
      BY <1>1, <2>2, CountKeeps
    <3>2. PICK n \in Nat : n = Cardinality(OfImage(j)) /\ (n = 0 <=> OfImage(j) = {})
      BY <1>2, RunsAreFinite
    <3>3. Cardinality(OfImage(j)') = n - 1 /\ n > 0
      <4>1. IsFiniteSet(OfImage(j))
        BY <1>2, RunsAreFinite
      <4>2. Cardinality(OfImage(j) \ {c}) = n - 1
        BY <3>1, <3>2, <4>1, FS_RemoveElement
      <4>3. n # 0
        BY <3>1, <3>2
      <4>4. QED  BY <3>1, <3>2, <4>2, <4>3
    <3>4. PICK p \in Nat, e \in Nat : p = paid[j] /\ e = excuses[j]
      BY <1>2 DEF ImageTypes
    <3>5. p + (n - 1) <= 1 + e /\ p <= e
      BY <2>1, <3>2, <3>3, <3>4 DEF Excused
    <3>6. QED  BY <1>1, <3>3, <3>4, <3>5 DEF Excused
  <2>3. CASE j # analysis[c].image
    <3>1. OfImage(j)' = OfImage(j)
      BY <1>1, <2>3, CountKeeps
    <3>2. QED  BY <1>1, <2>1, <3>1 DEF Excused
  <2>4. QED  BY <2>2, <2>3
<1>5. QED  BY <1>1, <1>3, <1>4, CountKeeps DEF ImagesInv

\* A description whose time is over is an excuse for another.
LEMMA ExpireKeepsImages ==
    ASSUME Imageable, ImagesInv, Img!Expire
    PROVE  ImagesInv'
<1>1. /\ described # <<>> /\ described' = Tail(described)
      /\ excuses' = [excuses EXCEPT ![Head(described)] = @ + 1]
      /\ UNCHANGED <<daily, session, analysis, paid>>
  BY DEF Img!Expire
<1>2. ImageTypes /\ described \in Seq(Img!Images) /\ Once(described) /\ Len(described) \in Nat \ {0}
      /\ Head(described) = described[1] /\ DOMAIN described = 1 .. Len(described)
      /\ Tail(described) = SubSeq(described, 2, Len(described))
  BY <1>1, LenProperties, EmptySeq DEF ImagesInv, ImageTypes
<1>3. PICK h \in Img!Images : h = described[1]
  BY <1>2, ElementOfSeq
<1>4. /\ described' \in Seq(Img!Images) /\ Len(described') <= DescribedRoom /\ Once(described')
      /\ \A j : j \in Range(described) => j \in Range(described') \cup {h}
  <2>1. 2 \in 1 .. (Len(described) + 1)
    BY <1>2
  <2>2. /\ described' \in Seq(Img!Images) /\ Len(described') = Len(described) - 2 + 1 /\ Once(described')
    BY <1>1, <1>2, <2>1, EndOnce
  <2>3. Len(described') <= DescribedRoom
    BY <1>2, <2>2, RoomIs DEF ImageTypes
  <2>4. ASSUME NEW n \in 1 .. Len(described) PROVE described[n] \in Range(described') \cup {h}
    <3>1. CASE n = 1
      BY <1>3, <3>1
    <3>2. CASE n # 1
      <4>1. n - 1 \in 1 .. Len(Tail(described)) /\ Tail(described)[n - 1] = described[(n - 1) + 1]
            /\ DOMAIN Tail(described) = 1 .. Len(Tail(described))
        <5>1. /\ Len(Tail(described)) = Len(described) - 1 /\ Tail(described) \in Seq(Img!Images)
              /\ \A p \in 1 .. Len(Tail(described)) : Tail(described)[p] = described[p + 1]
          BY <1>1, <1>2, HeadTailProperties
        <5>2. n - 1 \in 1 .. (Len(described) - 1)
          BY <1>2, <3>2
        <5>3. QED  BY <5>1, <5>2, LenProperties
      <4>2. (n - 1) + 1 = n
        OBVIOUS
      <4>3. described[n] \in Range(described')
        BY <1>1, <4>1, <4>2 DEF Range
      <4>4. QED  BY <4>3
    <3>3. QED  BY <3>1, <3>2
  <2>5. QED  BY <1>2, <2>2, <2>3, <2>4 DEF Range
<1>5. /\ excuses' \in [Img!Images -> Nat]
      /\ \A j \in Img!Images : excuses'[j] = IF j = h THEN excuses[j] + 1 ELSE excuses[j]
  BY <1>1, <1>2, <1>3 DEF ImageTypes
<1>6. ImageTypes'
  BY <1>1, <1>2, <1>4, <1>5 DEF ImageTypes
<1>7. \A j \in Img!Images : Excused(j)'
  <2> SUFFICES ASSUME NEW j \in Img!Images PROVE Excused(j)'
    OBVIOUS
  <2>1. PICK n \in Nat : n = Cardinality(OfImage(j)) /\ (n = 0 <=> OfImage(j) = {})
    BY <1>2, RunsAreFinite
  <2>2. PICK p \in Nat, e \in Nat : p = paid[j] /\ e = excuses[j]
    BY <1>2 DEF ImageTypes
  <2>3. p + n <= 1 + e /\ (j \notin Range(described) /\ n = 0 => p <= e)
    BY <2>1, <2>2 DEF ImagesInv, Excused
  <2>4. OfImage(j)' = OfImage(j) /\ paid'[j] = p
    BY <1>1, <2>2 DEF OfImage
  <2>5. CASE j = h
    <3>1. excuses'[j] = e + 1 /\ p + n <= 1 + (e + 1) /\ p <= e + 1
      BY <1>5, <2>2, <2>3, <2>5
    <3>2. QED  BY <2>1, <2>4, <3>1 DEF Excused
  <2>6. CASE j # h
    <3>1. excuses'[j] = e /\ (j \notin Range(described') => j \notin Range(described))
      BY <1>4, <1>5, <2>2, <2>6
    <3>2. QED  BY <2>1, <2>3, <2>4, <3>1 DEF Excused
  <2>7. QED  BY <2>5, <2>6
<1>8. QED  BY <1>1, <1>6, <1>7 DEF ImagesInv, DailySpent, SessionSpent, OfSession

LEMMA NextDayKeeps ==
    ASSUME Imageable, ImagesInv, Img!NextDay
    PROVE  ImagesInv'
<1>1. daily' = 0 /\ UNCHANGED <<described, session, analysis, paid, excuses>>
  BY DEF Img!NextDay
<1>2. ImageTypes
  BY DEF ImagesInv
<1>3. PICK k \in Nat, a \in Nat : k = Cardinality(DOMAIN analysis) /\ a = Cardinality(Analyses)
                                  /\ k <= a /\ a > 0 /\ (k = 0 <=> DOMAIN analysis = {})
  BY <1>2, RunsAreFinite, FS_EmptySet
<1>4. DailyBudget \in Nat /\ (k > 0 => DailyBudget > 0)
  <2>1. DailyBudget \in Nat
    BY DEF Imageable
  <2>2. DOMAIN analysis # {} => DailyBudget > 0
    BY DEF ImagesInv, DailySpent
  <2>3. k > 0 => DOMAIN analysis # {}
    <3>1. k = 0 <=> DOMAIN analysis = {}
      BY <1>3, Zenon
    <3>2. k > 0 => k # 0
      OBVIOUS
    <3>3. QED  BY <3>1, <3>2, Zenon
  <2>4. QED  BY <2>1, <2>2, <2>3
<1>5. 0 + k < DailyBudget + a
  BY <1>3, <1>4
<1>6. DailySpent'
  BY <1>1, <1>3, <1>5 DEF ImagesInv, DailySpent
<1>7. ImageTypes'
  BY <1>1, <1>2 DEF ImageTypes
<1>8. QED  BY <1>1, <1>6, <1>7 DEF ImagesInv, Excused, SessionSpent, OfImage, OfSession

LEMMA ImagesKeep == Imageable /\ ImagesInv /\ [Img!Next]_(Img!vars) => ImagesInv'
<1> SUFFICES ASSUME Imageable, ImagesInv, [Img!Next]_(Img!vars) PROVE ImagesInv'
  OBVIOUS
<1>1. ASSUME NEW c \in Analyses, NEW m \in Pictured, Img!Analyse(c, m) PROVE ImagesInv'
  BY <1>1, AnalyseKeeps
<1>2. ASSUME NEW c \in Analyses, Img!Describe(c) \/ Img!Fail(c) PROVE ImagesInv'
  BY <1>2, DescribeKeeps, FailKeepsImages
<1>3. CASE Img!Expire
  BY <1>3, ExpireKeepsImages
<1>4. CASE Img!NextDay
  BY <1>4, NextDayKeeps
<1>5. CASE Img!Forget \/ (\E u \in {m.user : m \in Pictured} : Img!CoolDown(u)) \/ UNCHANGED Img!vars
  <2>1. UNCHANGED <<described, daily, session, analysis, paid, excuses>>
    BY <1>5 DEF Img!Forget, Img!CoolDown, Img!vars
  <2>2. QED  BY <2>1 DEF ImagesInv, ImageTypes, Excused, DailySpent, SessionSpent, OfImage, OfSession
<1>6. QED  BY <1>1, <1>2, <1>3, <1>4, <1>5 DEF Img!Next

LEMMA ImagesHold == Imageable /\ ImagesInv => Img!ImagesSound
<1> SUFFICES ASSUME Imageable, ImagesInv PROVE Img!ImagesSound
  OBVIOUS
<1>1. ImageTypes
  BY DEF ImagesInv
<1>2. Img!DescribedForAReason
  <2> SUFFICES ASSUME NEW i \in Img!Images PROVE paid[i] <= 1 + excuses[i]
    BY DEF Img!DescribedForAReason
  <2>1. PICK n \in Nat : n = Cardinality(OfImage(i))
    BY <1>1, RunsAreFinite
  <2>2. paid[i] \in Nat /\ excuses[i] \in Nat /\ paid[i] + n <= 1 + excuses[i]
    BY <1>1, <2>1 DEF ImagesInv, ImageTypes, Excused
  <2>3. QED  BY <2>2
<1>3. Img!BudgetsOvershoot
  <2>1. PICK k \in Nat, a \in Nat : k = Cardinality(DOMAIN analysis) /\ a = Cardinality(Analyses)
    BY <1>1, RunsAreFinite
  <2>2. daily \in Nat /\ DailyBudget \in Nat /\ daily + k < DailyBudget + a
    BY <1>1, <2>1 DEF ImagesInv, ImageTypes, DailySpent, Imageable
  <2>3. daily < DailyBudget + a
    BY <2>1, <2>2
  <2>4. ASSUME SessionBudget > 0, NEW s \in Img!Sessions PROVE session[s] < SessionBudget + a
    <3>1. PICK j \in Nat : j = Cardinality(OfSession(s))
      BY <1>1, RunsAreFinite
    <3>2. session[s] \in Nat /\ SessionBudget \in Nat /\ session[s] + j < SessionBudget + a
      BY <1>1, <2>1, <2>4, <3>1 DEF ImagesInv, ImageTypes, SessionSpent, Imageable
    <3>3. QED  BY <2>1, <3>1, <3>2
  <2>5. Img!Cardinality(Analyses) = a
    BY <2>1 DEF Img!Cardinality, Cardinality
  <2>6. QED  BY <2>3, <2>4, <2>5 DEF Img!BudgetsOvershoot
<1>4. Img!CacheFits
  <2>1. Cardinality(Range(described)) = Len(described) /\ Len(described) <= DescribedRoom
    BY <1>1, CountedOnce DEF ImageTypes
  <2>2. Img!Range(described) = Range(described) /\ Img!Cardinality(Range(described)) = Cardinality(Range(described))
    BY DEF Img!Range, Range, Img!Cardinality, Cardinality
  <2>3. QED  BY <2>1, <2>2, RoomIs DEF Img!CacheFits
<1>5. QED  BY <1>2, <1>3, <1>4 DEF Img!ImagesSound

\* However the analyses overlap: an image is described again only for a reason, a budget is
\* passed by no more than overlap, and the cache keeps within its room.
THEOREM DescribesRight == ASSUME Imageable PROVE Img!Spec => []Img!ImagesSound
<1>1. Imageable /\ Img!Init => ImagesInv
  <2> SUFFICES ASSUME Imageable, Img!Init PROVE ImagesInv
    OBVIOUS
  <2>1. described = <<>> /\ daily = 0 /\ DOMAIN analysis = {} /\ excuses = paid
        /\ session = [s \in Img!Sessions |-> 0] /\ paid = [i \in Img!Images |-> 0]
    BY DEF Img!Init
  <2>2. described \in Seq(Img!Images) /\ Len(described) = 0 /\ DOMAIN described = {}
    BY <2>1, EmptySeq
  <2>3. ImageTypes
    BY <2>1, <2>2, RoomIs DEF ImageTypes, Once
  <2>4. /\ \A i : OfImage(i) = {}
        /\ \A s : OfSession(s) = {}
    BY <2>1 DEF OfImage, OfSession
  <2>5. Cardinality({}) = 0
    BY FS_EmptySet
  <2>6. PICK a \in Nat : a = Cardinality(Analyses) /\ a > 0
    BY <2>3, RunsAreFinite
  <2>7. DailySpent
    BY <2>1, <2>5, <2>6 DEF DailySpent, Imageable
  <2>8. \A s \in Img!Sessions : SessionSpent(s)
    <3> SUFFICES ASSUME NEW s \in Img!Sessions, SessionBudget > 0
                 PROVE  session[s] + Cardinality(OfSession(s)) < SessionBudget + Cardinality(Analyses)
      BY DEF SessionSpent
    <3>1. session[s] = 0 /\ Cardinality(OfSession(s)) = 0
      BY <2>1, <2>4, <2>5
    <3>2. 0 + 0 < SessionBudget + a
      BY <2>6 DEF Imageable
    <3>3. QED  BY <2>6, <3>1, <3>2
  <2>9. \A i \in Img!Images : Excused(i)
    <3> SUFFICES ASSUME NEW i \in Img!Images PROVE Excused(i)
      OBVIOUS
    <3>1. paid[i] = 0 /\ excuses[i] = 0 /\ Cardinality(OfImage(i)) = 0
      BY <2>1, <2>4, <2>5
    <3>2. QED  BY <3>1 DEF Excused
  <2>10. QED  BY <2>3, <2>7, <2>8, <2>9 DEF ImagesInv
<1>2. QED  BY <1>1, ImagesHold, ImagesKeep, PTL DEF Img!Spec

-----------------------------------------------------------------------------
(* A message through the hooks (MessageFlow).                                *)

Entries == [event : Events, by : {"user", "bot"}]

FlowTypes ==
    /\ at \in [Events -> {"new", "hearing", "heard", "asked", "capturing", "over"}]
    /\ task \in [Events -> {"none", "begun", "immediate", "queued", "over"}]
    /\ captures \in [Events -> Nat] /\ history \in Seq(Entries)

\* What is recorded is an ordinary message the first hook has heard, and only such a one
\* has a background task; the last hook captures what is not recorded.
Heard ==
    \A e \in Events :
        /\ e \in recorded => Flow!Ordinary(e) /\ at[e] # "new"
        /\ at[e] = "hearing" => e \in recorded
        /\ task[e] # "none" => e \in recorded /\ at[e] # "hearing"
        /\ at[e] = "capturing" => e \notin recorded /\ ~kind[e].proactive /\ kind[e].text # "command"

\* What was captured was captured by what has come to its end.
Captured ==
    \A e \in Events :
        /\ captures[e] <= 1
        /\ captures[e] # 0 => /\ task[e] = "over" \/ (e \notin recorded /\ at[e] = "over")
                              /\ ~kind[e].proactive /\ kind[e].text # "command"

\* A message is noted once, a group's by the first hook and a private one by the
\* second, and its answer once, after it, by the third.
Noted ==
    \A e \in Events :
        /\ \A by \in {"user", "bot"} : \A i, j \in Flow!Places(e, by) : i = j
        /\ \A i \in Flow!Places(e, "user"), j \in Flow!Places(e, "bot") : i < j
        /\ Flow!Places(e, "user") # {} =>
             /\ ~kind[e].proactive /\ kind[e].text # "command" /\ at[e] # "new"
             /\ kind[e].group \/ at[e] \notin {"hearing", "heard"}
        /\ Flow!Places(e, "bot") # {} => at[e] \in {"capturing", "over"}

FlowInv == FlowTypes /\ Heard /\ Captured /\ Noted

\* Where the entries of a message and its answer are after another was noted.
LEMMA Noting ==
    ASSUME FlowTypes, NEW e \in Events, NEW by \in {"user", "bot"},
           history' = Append(history, Flow!Entry(e, by))
    PROVE  /\ history' \in Seq(Entries)
           /\ \A f \in Events, b \in {"user", "bot"} :
                /\ Flow!Places(f, b) \subseteq 1 .. Len(history)
                /\ Flow!Places(f, b)' = IF f = e /\ b = by THEN Flow!Places(f, b) \cup {Len(history) + 1}
                                        ELSE Flow!Places(f, b)
<1>1. Flow!Entry(e, by) \in Entries
  BY DEF Flow!Entry, Entries
<1>2. /\ history' \in Seq(Entries) /\ Len(history') = Len(history) + 1
      /\ history'[Len(history) + 1] = Flow!Entry(e, by)
      /\ \A i \in 1 .. Len(history) : history'[i] = history[i]
  BY <1>1, AppendProperties DEF FlowTypes
<1>3. Len(history) \in Nat /\ DOMAIN history = 1 .. Len(history) /\ DOMAIN history' = 1 .. (Len(history) + 1)
  BY <1>2, LenProperties DEF FlowTypes
<1>4. \A i : i \in 1 .. (Len(history) + 1) <=> i \in 1 .. Len(history) \/ i = Len(history) + 1
  BY <1>3
<1>5. ASSUME NEW f \in Events, NEW b \in {"user", "bot"}
      PROVE  /\ Flow!Places(f, b) \subseteq 1 .. Len(history)
             /\ Flow!Places(f, b)' = IF f = e /\ b = by THEN Flow!Places(f, b) \cup {Len(history) + 1}
                                     ELSE Flow!Places(f, b)
  <2>1. Flow!Entry(f, b) = Flow!Entry(e, by) <=> f = e /\ b = by
    BY DEF Flow!Entry
  <2>2. Flow!Places(f, b) = {i \in 1 .. Len(history) : history[i] = Flow!Entry(f, b)}
    BY <1>3 DEF Flow!Places
  <2>3. Flow!Places(f, b)' = {i \in 1 .. (Len(history) + 1) : history'[i] = Flow!Entry(f, b)}
    BY <1>3 DEF Flow!Places, Flow!Entry
  <2>4. QED  BY <1>2, <1>4, <2>1, <2>2, <2>3
<1>6. QED  BY <1>2, <1>5

\* An event goes on, and nothing is noted.
LEMMA GoesUnnoted ==
    ASSUME FlowInv, kind' = kind, history' = history, NEW e \in Events, NEW p, p # "new",
           at[e] \in {"new", "hearing", "heard"} \/ p \in {"capturing", "over"},
           at' = [at EXCEPT ![e] = p]
    PROVE  Noted'
<1>1. \A f \in Events, b \in {"user", "bot"} : Flow!Places(f, b)' = Flow!Places(f, b)
  BY DEF Flow!Places
<1>2. \A f \in Events : at'[f] = IF f = e THEN p ELSE at[f]
  BY DEF FlowInv, FlowTypes
<1>3. ASSUME NEW f \in Events
      PROVE  /\ at[f] # "new" => at'[f] # "new"
             /\ at[f] \notin {"new", "hearing", "heard"} => at'[f] \notin {"new", "hearing", "heard"}
             /\ at[f] \in {"capturing", "over"} => at'[f] \in {"capturing", "over"}
  BY <1>2
<1>4. QED  BY <1>1, <1>3 DEF FlowInv, Noted

\* A message is noted for its user, by the first hook or by the second.
LEMMA UserNoted ==
    ASSUME FlowInv, UNCHANGED kind, NEW e \in Events, NEW p, at' = [at EXCEPT ![e] = p],
           history' = Append(history, Flow!Entry(e, "user")),
           ~kind[e].proactive, kind[e].text # "command",
           \/ at[e] = "new" /\ kind[e].group /\ p \in {"hearing", "heard"}
           \/ at[e] = "heard" /\ ~kind[e].group /\ p = "asked"
    PROVE  Noted'
<1>1. Flow!Places(e, "user") = {} /\ Flow!Places(e, "bot") = {}
  BY DEF FlowInv, Noted
<1>2. PICK n : n = Len(history) + 1
  OBVIOUS
<1>3. /\ \A f \in Events : Flow!Places(f, "bot")' = Flow!Places(f, "bot")
      /\ \A f \in Events : Flow!Places(f, "user")' = IF f = e THEN Flow!Places(f, "user") \cup {n} ELSE Flow!Places(f, "user")
  BY <1>2, Noting DEF FlowInv
<1>4. \A f \in Events : at'[f] = IF f = e THEN p ELSE at[f]
  BY DEF FlowInv, FlowTypes
<1>5. ASSUME NEW f \in Events, f # e
      PROVE  /\ Flow!Places(f, "user")' = Flow!Places(f, "user") /\ Flow!Places(f, "bot")' = Flow!Places(f, "bot")
             /\ at'[f] = at[f]
  BY <1>3, <1>4, <1>5
<1>6. Flow!Places(e, "user")' = {n} /\ Flow!Places(e, "bot")' = {} /\ at'[e] = p
  BY <1>1, <1>3, <1>4
<1>7. QED  BY <1>5, <1>6 DEF FlowInv, Noted

\* An answer is noted, after whatever was noted before.
LEMMA AnswerNoted ==
    ASSUME FlowInv, UNCHANGED kind, NEW e \in Events, NEW p \in {"capturing", "over"},
           at' = [at EXCEPT ![e] = p], at[e] = "asked", history' = Append(history, Flow!Entry(e, "bot"))
    PROVE  Noted'
<1>1. Flow!Places(e, "bot") = {}
  BY DEF FlowInv, Noted
<1>2. PICK n : n = Len(history) + 1
  OBVIOUS
<1>3. /\ \A f \in Events : Flow!Places(f, "user")' = Flow!Places(f, "user")
      /\ \A f \in Events : Flow!Places(f, "bot")' = IF f = e THEN Flow!Places(f, "bot") \cup {n} ELSE Flow!Places(f, "bot")
  BY <1>2, Noting DEF FlowInv
<1>4. \A f \in Events : at'[f] = IF f = e THEN p ELSE at[f]
  BY DEF FlowInv, FlowTypes
<1>5. ASSUME NEW f \in Events, f # e
      PROVE  /\ Flow!Places(f, "user")' = Flow!Places(f, "user") /\ Flow!Places(f, "bot")' = Flow!Places(f, "bot")
             /\ at'[f] = at[f]
  BY <1>3, <1>4, <1>5
<1>6. Flow!Places(e, "bot")' = {n} /\ Flow!Places(e, "user")' = Flow!Places(e, "user") /\ at'[e] = p
  BY <1>1, <1>3, <1>4
<1>7. \A i \in Flow!Places(e, "user") : i < n
  <2>1. Flow!Places(e, "user") \subseteq 1 .. Len(history) /\ Len(history) \in Nat
    BY Noting, LenProperties DEF FlowInv, FlowTypes
  <2>2. QED  BY <1>2, <2>1
<1>8. at[e] = "asked" /\ (at'[e] = "capturing" \/ at'[e] = "over")
  BY <1>6
<1>9. ASSUME NEW f \in Events
      PROVE  /\ \A by \in {"user", "bot"} : \A i, j \in Flow!Places(f, by)' : i = j
             /\ \A i \in Flow!Places(f, "user")', j \in Flow!Places(f, "bot")' : i < j
             /\ Flow!Places(f, "user")' # {} =>
                  /\ ~kind[f].proactive /\ kind[f].text # "command" /\ at'[f] # "new"
                  /\ kind[f].group \/ at'[f] \notin {"hearing", "heard"}
             /\ Flow!Places(f, "bot")' # {} => at'[f] \in {"capturing", "over"}
  <2>1. CASE f = e
    BY <1>6, <1>7, <1>8, <2>1 DEF FlowInv, Noted
  <2>2. CASE f # e
    BY <1>5, <2>2 DEF FlowInv, Noted
  <2>3. QED  BY <2>1, <2>2
<1>10. QED  BY <1>9 DEF Noted

\* A capture counts once more, or finds nothing.
LEMMA Capturing ==
    ASSUME FlowTypes, NEW e \in Events, Flow!Captures(e), captures[e] = 0
    PROVE  /\ captures' \in [Events -> Nat]
           /\ \A f \in Events : captures'[f] = captures[f] \/ (f = e /\ captures'[f] = 1)
BY DEF FlowTypes, Flow!Captures

-----------------------------------------------------------------------------
(* The steps.                                                                *)

LEMMA HearingKeeps ==
    ASSUME FlowInv, NEW e \in Events, Flow!Ignore(e) \/ Flow!Hear(e) \/ Flow!Spawn(e)
    PROVE  FlowInv'
<1> USE DEF FlowInv
<1>1. CASE Flow!Ignore(e)
  <2>1. /\ at[e] = "new" /\ at' = [at EXCEPT ![e] = "heard"]
        /\ UNCHANGED <<kind, recorded, task, history, captures>>
    BY <1>1 DEF Flow!Ignore, Flow!Goes
  <2>2. Noted'
    BY <2>1, GoesUnnoted
  <2>3. FlowTypes' /\ Heard' /\ Captured'
    BY <2>1 DEF FlowTypes, Heard, Captured, Flow!Ordinary
  <2>4. QED  BY <2>2, <2>3
<1>2. CASE Flow!Hear(e)
  <2>1. PICK p \in {"hearing", "heard"} :
          /\ at[e] = "new" /\ at' = [at EXCEPT ![e] = p] /\ recorded' = recorded \cup {e}
          /\ Flow!Ordinary(e) /\ UNCHANGED <<kind, task, captures>>
          /\ history' = Append(history, Flow!Entry(e, "user"))
    BY <1>2 DEF Flow!Hear, Flow!Goes, Flow!Notes, Flow!Entry
  <2>2. kind[e].group /\ ~kind[e].proactive /\ kind[e].text # "command"
    BY <2>1 DEF Flow!Ordinary
  <2>3. Noted'
    BY <2>1, <2>2, UserNoted
  <2>4. FlowTypes'
    BY <2>1, Noting DEF FlowTypes
  <2>5. e \notin recorded /\ task[e] = "none"
    BY <2>1 DEF Heard
  <2>6. captures[e] = 0
    BY <2>1, <2>5 DEF Captured, FlowTypes
  <2>7. \A f \in Events : at'[f] = IF f = e THEN p ELSE at[f]
    BY <2>1 DEF FlowTypes
  <2>8. Heard'
    BY <2>1, <2>5, <2>7 DEF Heard, Flow!Ordinary
  <2>9. Captured'
    BY <2>1, <2>6, <2>7 DEF Captured
  <2>10. QED  BY <2>3, <2>4, <2>8, <2>9
<1>3. CASE Flow!Spawn(e)
  <2>1. /\ at[e] = "hearing" /\ at' = [at EXCEPT ![e] = "heard"] /\ task' = [task EXCEPT ![e] = "begun"]
        /\ UNCHANGED <<kind, recorded, history, captures>>
    BY <1>3 DEF Flow!Spawn, Flow!Goes, Flow!Does
  <2>2. Noted'
    BY <2>1, GoesUnnoted
  <2>3. FlowTypes'
    BY <2>1 DEF FlowTypes
  <2>4. task[e] = "none"
    BY <2>1 DEF Heard
  <2>5. \A f \in Events : /\ at'[f] = IF f = e THEN "heard" ELSE at[f]
                          /\ task'[f] = IF f = e THEN "begun" ELSE task[f]
    BY <2>1 DEF FlowTypes
  <2>6. captures[e] = 0
    BY <2>1, <2>4 DEF Captured, FlowTypes
  <2>7. Captured'
    BY <2>1, <2>5, <2>6 DEF Captured
  <2>8. e \in recorded
    BY <2>1, <1>3 DEF Heard
  <2>9. Heard'
    BY <2>1, <2>5, <2>8 DEF Heard, Flow!Ordinary
  <2>10. QED  BY <2>2, <2>3, <2>7, <2>9
<1>4. QED  BY <1>1, <1>2, <1>3

\* The background task decides, and captures what is recorded: the last hook does not.
LEMMA TaskKeeps ==
    ASSUME FlowInv, NEW e \in Events, Flow!Classify(e) \/ Flow!Remember(e)
    PROVE  FlowInv'
<1> USE DEF FlowInv
<1>1. PICK what \in {"over", "immediate", "queued"} :
        /\ task' = [task EXCEPT ![e] = what] /\ task[e] \in {"begun", "immediate", "queued"}
        /\ UNCHANGED <<kind, at, recorded, history>>
        /\ captures' = captures \/ (what = "over" /\ Flow!Captures(e))
  BY DEF Flow!Classify, Flow!Remember, Flow!Does
<1>2. \A f \in Events : task'[f] = IF f = e THEN what ELSE task[f]
  BY <1>1 DEF FlowTypes
<1>3. e \in recorded /\ Flow!Ordinary(e) /\ captures[e] = 0
  BY <1>1 DEF Heard, Captured, FlowTypes
<1>4. /\ captures' \in [Events -> Nat]
      /\ \A f \in Events : captures'[f] = captures[f] \/ (f = e /\ captures'[f] = 1 /\ what = "over")
  BY <1>1, <1>3, Capturing DEF FlowTypes
<1>5. FlowTypes'
  BY <1>1, <1>4 DEF FlowTypes
<1>6. Heard'
  BY <1>1, <1>2, <1>3 DEF Heard, Flow!Ordinary
<1>7. Captured'
  BY <1>1, <1>2, <1>3, <1>4 DEF Captured, Flow!Ordinary
<1>8. Noted'
  BY <1>1 DEF Noted, Flow!Places
<1>9. QED  BY <1>5, <1>6, <1>7, <1>8

\* An event goes on and neither captures nor is captured.
LEMMA GoesUncaptured ==
    ASSUME FlowInv, kind' = kind, recorded' = recorded, task' = task, captures' = captures,
           NEW e \in Events, NEW p \in {"asked", "capturing", "over"}, at' = [at EXCEPT ![e] = p],
           at[e] \in {"heard", "asked", "capturing"},
           p = "capturing" => e \notin recorded /\ ~kind[e].proactive /\ kind[e].text # "command"
    PROVE  Heard' /\ Captured' /\ at' \in [Events -> {"new", "hearing", "heard", "asked", "capturing", "over"}]
<1>1. \A f \in Events : at'[f] = IF f = e THEN p ELSE at[f]
  BY DEF FlowInv, FlowTypes
<1>2. Heard'
  BY <1>1 DEF FlowInv, Heard, Flow!Ordinary
<1>3. Captured'
  BY <1>1 DEF FlowInv, Captured
<1>4. QED  BY <1>2, <1>3 DEF FlowInv, FlowTypes

LEMMA AskingKeeps ==
    ASSUME FlowInv, NEW e \in Events,
           Flow!Unprepared(e) \/ Flow!Prepare(e) \/ Flow!NoAnswer(e) \/ Flow!Unheeded(e)
    PROVE  FlowInv'
<1> USE DEF FlowInv
<1>1. PICK p \in {"asked", "over"} :
        /\ at' = [at EXCEPT ![e] = p] /\ (at[e] = "heard" \/ (at[e] = "asked" /\ p = "over"))
        /\ kind' = kind /\ recorded' = recorded /\ task' = task /\ captures' = captures
        /\ \/ history' = history
           \/ /\ at[e] = "heard" /\ p = "asked" /\ ~kind[e].group
              /\ ~kind[e].proactive /\ kind[e].text # "command"
              /\ history' = Append(history, Flow!Entry(e, "user"))
  BY DEF Flow!Unprepared, Flow!Prepare, Flow!NoAnswer, Flow!Unheeded, Flow!Asks, Flow!Prepares,
         Flow!Goes, Flow!Notes, Flow!Entry
<1>2. Heard' /\ Captured' /\ at' \in [Events -> {"new", "hearing", "heard", "asked", "capturing", "over"}]
  <2>1. at[e] \in {"heard", "asked", "capturing"} /\ p # "capturing" /\ p \in {"asked", "capturing", "over"}
    BY <1>1
  <2>2. QED  BY <1>1, <2>1, GoesUncaptured
<1>3. CASE history' = history
  <2>1. p # "new" /\ (at[e] \in {"new", "hearing", "heard"} \/ p \in {"capturing", "over"})
    BY <1>1
  <2>2. Noted'
    BY <1>1, <1>3, <2>1, GoesUnnoted
  <2>3. QED  BY <1>1, <1>2, <1>3, <2>2 DEF FlowTypes
<1>4. CASE history' # history
  <2>1. Noted'
    BY <1>1, <1>4, UserNoted
  <2>2. history' \in Seq(Entries)
    BY <1>1, <1>4, Noting DEF FlowTypes
  <2>3. QED  BY <1>1, <1>2, <2>1, <2>2 DEF FlowTypes
<1>5. QED  BY <1>3, <1>4

\* The last hook leaves what is recorded to the background task.
LEMMA AnsweringKeeps ==
    ASSUME FlowInv, NEW e \in Events, NEW reply \in {"empty", "plain", "rich"}, Flow!Answer(e, reply)
    PROVE  FlowInv'
<1> USE DEF FlowInv
<1>1. PICK p \in {"capturing", "over"} :
        /\ at' = [at EXCEPT ![e] = p] /\ at[e] = "asked"
        /\ kind' = kind /\ recorded' = recorded /\ task' = task /\ captures' = captures
        /\ p = "capturing" => e \notin recorded /\ ~kind[e].proactive /\ kind[e].text # "command"
        /\ history' = history \/ history' = Append(history, Flow!Entry(e, "bot"))
  BY DEF Flow!Answer, Flow!Goes, Flow!Notes, Flow!Entry
<1>2. Heard' /\ Captured' /\ at' \in [Events -> {"new", "hearing", "heard", "asked", "capturing", "over"}]
  BY <1>1, GoesUncaptured
<1>3. CASE history' = history
  <2>1. Noted'
    BY <1>1, <1>3, GoesUnnoted
  <2>2. QED  BY <1>1, <1>2, <1>3, <2>1 DEF FlowTypes
<1>4. CASE history' # history
  <2>1. Noted'
    BY <1>1, <1>4, AnswerNoted
  <2>2. history' \in Seq(Entries)
    BY <1>1, <1>4, Noting DEF FlowTypes
  <2>3. QED  BY <1>1, <1>2, <2>1, <2>2 DEF FlowTypes
<1>5. QED  BY <1>3, <1>4

LEMMA CaptureKeeps ==
    ASSUME FlowInv, NEW e \in Events, Flow!Capture(e)
    PROVE  FlowInv'
<1> USE DEF FlowInv
<1>1. /\ at' = [at EXCEPT ![e] = "over"] /\ at[e] = "capturing"
      /\ kind' = kind /\ recorded' = recorded /\ task' = task /\ history' = history
      /\ captures' = captures \/ Flow!Captures(e)
  BY DEF Flow!Capture, Flow!Goes
<1>2. e \notin recorded /\ ~kind[e].proactive /\ kind[e].text # "command"
  BY <1>1 DEF Heard
<1>3. task[e] = "none"
  BY <1>2 DEF Heard
<1>4. captures[e] = 0
  BY <1>1, <1>3 DEF Captured, FlowTypes
<1>5. \A f \in Events : at'[f] = IF f = e THEN "over" ELSE at[f]
  BY <1>1 DEF FlowTypes
<1>6. /\ captures' \in [Events -> Nat]
      /\ \A f \in Events : captures'[f] = captures[f] \/ (f = e /\ captures'[f] = 1)
  BY <1>1, <1>4, Capturing DEF FlowTypes
<1>7. Noted'
  BY <1>1, GoesUnnoted
<1>8. Heard'
  BY <1>1, <1>5 DEF Heard, Flow!Ordinary
<1>9. Captured'
  BY <1>1, <1>2, <1>5, <1>6 DEF Captured
<1>10. FlowTypes'
  BY <1>1, <1>6 DEF FlowTypes
<1>11. QED  BY <1>7, <1>8, <1>9, <1>10

-----------------------------------------------------------------------------
LEMMA FlowStarts == Flow!Init => FlowInv
<1> SUFFICES ASSUME Flow!Init PROVE FlowInv
  OBVIOUS
<1>1. FlowTypes
  BY DEF Flow!Init, FlowTypes
<1>2. Heard /\ Captured
  BY DEF Flow!Init, Heard, Captured
<1>3. \A e \in Events, by \in {"user", "bot"} : Flow!Places(e, by) = {}
  BY DEF Flow!Init, Flow!Places
<1>4. Noted
  BY <1>3 DEF Noted
<1>5. QED  BY <1>1, <1>2, <1>4 DEF FlowInv

LEMMA FlowKeeps == FlowInv /\ [Flow!Next]_(Flow!vars) => FlowInv'
<1> SUFFICES ASSUME FlowInv, [Flow!Next]_(Flow!vars) PROVE FlowInv'
  OBVIOUS
<1>1. CASE Flow!Started \/ Flow!Stop \/ Flow!Embeds \/ UNCHANGED Flow!vars
  <2>1. UNCHANGED <<kind, at, recorded, task, history, captures>>
    BY <1>1 DEF Flow!Started, Flow!Stop, Flow!Embeds, Flow!vars
  <2>2. QED  BY <2>1 DEF FlowInv, FlowTypes, Heard, Captured, Noted, Flow!Places, Flow!Ordinary
<1>2. ASSUME NEW e \in Events,
             \/ Flow!Ignore(e) \/ Flow!Hear(e) \/ Flow!Spawn(e) \/ Flow!Classify(e) \/ Flow!Remember(e)
             \/ Flow!Unprepared(e) \/ Flow!Prepare(e) \/ Flow!NoAnswer(e) \/ Flow!Unheeded(e) \/ Flow!Capture(e)
             \/ \E reply \in {"empty", "plain", "rich"} : Flow!Answer(e, reply)
      PROVE  FlowInv'
  BY <1>2, HearingKeeps, TaskKeeps, AskingKeeps, AnsweringKeeps, CaptureKeeps
<1>3. QED  BY <1>1, <1>2 DEF Flow!Next

LEMMA FlowInvSound == FlowInv => Flow!FlowSound
BY DEF FlowInv, FlowTypes, Captured, Noted, Flow!FlowSound, Flow!CapturedOnce, Flow!HistoryTrue

\* The background task of the first hook and the last hook never both capture a
\* message, and the history has a message and its answer once and in this order,
\* however the hooks of any events, the tasks, the start and the stop interleave
\* (MessageFlow's FlowSound).
THEOREM FlowsRight == Flow!Spec => []Flow!FlowSound
<1>1. Flow!Spec => []FlowInv
  BY FlowStarts, FlowKeeps, PTL DEF Flow!Spec
<1>2. QED  BY <1>1, FlowInvSound, PTL

\* After the stop nothing is noted or counted, whatever hook was under way
\* (MessageFlow's StopSeals).
THEOREM FlowStops == Flow!Spec => Flow!StopSeals
<1>1. ASSUME [Flow!Next]_(Flow!vars), service = "stopped" PROVE history' = history /\ counted' = counted
  BY <1>1 DEF Flow!Next, Flow!vars, Flow!Ignore, Flow!Hear, Flow!Spawn, Flow!Classify, Flow!Remember,
     Flow!Unprepared, Flow!Prepare, Flow!NoAnswer, Flow!Unheeded, Flow!Answer, Flow!Capture, Flow!Started,
     Flow!Stop, Flow!Embeds, Flow!Up, Flow!Prepares, Flow!Notes
<1>2. QED  BY <1>1, PTL DEF Flow!Spec, Flow!StopSeals

-----------------------------------------------------------------------------
(* What a message is found to be (Detection).                                *)

Triggers == [types : SUBSET TriggerTypes, number : Nat, confidence : 0..1000]

\* Triggers have types, matches and a confidence, or none of them.
Triggered(t) ==
    /\ t \in Triggers
    /\ t = Detect!NoTriggers \/ (t.types # {} /\ t.number > 0 /\ t.confidence >= 500)

Felt == Detect!Feelings \cup {Detect!Doubted(w) : w \in Detect!Feelings}

DetTypes ==
    /\ asking \in DetectorModes /\ Triggered(triggers) /\ feeling \in Felt
    /\ ruled \in 0..4 /\ level \in 0..4 /\ model \in [level : 0..4, sure : BOOLEAN]

\* The level that counts is the rules', unless a model that was sure was believed.
Believed ==
    stage \in {"emotion", "build", "built"} =>
        /\ asking = "hybrid" /\ ~model.sure /\ ruled >= 2 => level = ruled
        /\ ruled = 4 => model.sure \/ asking = "llm"

\* A memory is as it was made until the next message.
Made == Detect!DetectionSound /\ (stage = "built" => detected.confidence >= 3000)

DetInv == DetTypes /\ Believed /\ Made

-----------------------------------------------------------------------------
LEMMA Strengths ==
    ASSUME NEW T \in SUBSET TriggerTypes, T # {}
    PROVE  Detect!Strongest(T) \in {700, 800, 900, 950}
<1>0. PICK S : S = {Detect!Weight(t) : t \in T}
  OBVIOUS
<1>1. S \subseteq {700, 800, 900, 950} /\ S # {}
  BY <1>0 DEF Detect!Weight, TriggerTypes
<1>2. Detect!Strongest(T) = CHOOSE x \in S : \A y \in S : x >= y
  BY <1>0 DEF Detect!Strongest, Detect!Max
<1>3. \E x \in S : \A y \in S : x >= y
  <2>1. PICK x \in {700, 800, 900, 950} :
          x \in S /\ (950 \in S => x = 950) /\ (x < 900 => 900 \notin S) /\ (x < 800 => 800 \notin S)
    <3>1. 950 \in S \/ 900 \in S \/ 800 \in S \/ 700 \in S
      <4>1. PICK z \in S : z = z
        <5>1. S # {}
          BY <1>1
        <5>2. QED  BY <5>1, Zenon
      <4>2. z = 950 \/ z = 900 \/ z = 800 \/ z = 700
        BY <1>1
      <4>3. QED  BY <4>1, <4>2
    <3>2. CASE 950 \in S
      BY <3>2
    <3>3. CASE 950 \notin S /\ 900 \in S
      BY <3>3
    <3>4. CASE 950 \notin S /\ 900 \notin S /\ 800 \in S
      BY <3>4
    <3>5. CASE 950 \notin S /\ 900 \notin S /\ 800 \notin S /\ 700 \in S
      BY <3>5
    <3>6. QED  BY <3>1, <3>2, <3>3, <3>4, <3>5
  <2>2. \A y \in S : x >= y
    BY <1>1, <2>1
  <2>3. QED  BY <2>1, <2>2
<1>4. PICK x \in S : x = CHOOSE z \in S : \A y \in S : z >= y
  BY <1>3
<1>5. QED  BY <1>1, <1>2, <1>4

\* Whatever the detectors answer are triggers.
LEMMA Answered ==
    ASSUME Detectable, NEW f \in RuleFindings, NEW query \in BOOLEAN
    PROVE  /\ Triggered(Detect!NoTriggers) /\ Triggered(Detect!ByRules(f))
           /\ \A t \in Detect!Ruled(f, query) : Triggered(t)
           /\ \A least \in Int : \A t \in Detect!OfModel(f, least) : Triggered(t)
<1>1. f.types \in SUBSET TriggerTypes /\ f.number \in Nat /\ (f.types # {} => f.number > 0)
  BY DEF Detectable
<1>2. Triggered(Detect!NoTriggers)
  BY DEF Triggered, Triggers, Detect!NoTriggers
<1>3. Triggered(Detect!ByRules(f))
  <2>1. CASE f.types = {}
    BY <1>2, <2>1 DEF Detect!ByRules
  <2>2. CASE f.types # {}
    <3>1. PICK c \in {700, 800, 900, 950} : c = Detect!Strongest(f.types)
      BY <1>1, <2>2, Strengths
    <3>2. Detect!ByRules(f) = [types |-> f.types, number |-> f.number, confidence |-> c]
      BY <2>2, <3>1 DEF Detect!ByRules
    <3>3. QED  BY <1>1, <2>2, <3>2 DEF Triggered, Triggers
  <2>3. QED  BY <2>1, <2>2
<1>4. ASSUME NEW t \in TriggerTypes, NEW c \in 500..1000 PROVE Triggered(Detect!One(t, c))
  BY DEF Detect!One, Triggered, Triggers
<1>5. \A t \in TriggerTypes : Detect!Weight(t) \in 500..1000
  BY DEF Detect!Weight, TriggerTypes
<1>6. ASSUME NEW t \in Detect!Ruled(f, query) PROVE Triggered(t)
  <2>1. t = Detect!NoTriggers \/ \E u \in f.types : t = Detect!One(u, Detect!Weight(u))
    BY <1>6 DEF Detect!Ruled
  <2>2. QED  BY <1>1, <1>2, <1>4, <1>5, <2>1
<1>7. ASSUME NEW least \in Int, NEW t \in Detect!OfModel(f, least) PROVE Triggered(t)
  <2>1. \/ t = Detect!NoTriggers \/ t = Detect!ByRules(f)
        \/ \E u \in Namings \ {"none"}, c \in {500, 900} : t = Detect!One(u, c)
    BY <1>7 DEF Detect!OfModel
  <2>2. QED  BY <1>2, <1>3, <1>4, <2>1 DEF Detectable
<1>8. QED  BY <1>2, <1>3, <1>6, <1>7

\* What the dictionary and a rule make of the words.
LEMMA EmotionsRead ==
    ASSUME Detectable, NEW v \in Detect!ByWords
    PROVE  /\ v.intensity \in Nat /\ v.confidence \in 210..560 /\ (v.intensity >= 400 => v.confidence >= 420)
           /\ v = [intensity |-> v.intensity, confidence |-> v.confidence]
<1>1. CASE v \in {Detect!Calm, Detect!Off}
  BY <1>1 DEF Detect!Calm, Detect!Off
<1>2. ASSUME NEW w \in EmotionWords, v = Detect!Read(w)
      PROVE  /\ v.intensity \in Nat /\ v.confidence \in 210..560 /\ (v.intensity >= 400 => v.confidence >= 420)
             /\ v = [intensity |-> v.intensity, confidence |-> v.confidence]
  <2>1. PICK m \in Nat, a \in Nat : m = w.main /\ a = w.all /\ m <= a
    BY DEF Detectable
  <2>2. PICK k \in 0..6 : k = Detect!Least(6, m) /\ k <= m
    BY <2>1 DEF Detect!Least
  <2>3. PICK h \in Nat : h = (105 * a) \div 2 /\ (a >= 4 => h >= 210)
    BY <2>1
  <2>4. PICK c \in 210..560 : c = Detect!Least(560, 210 + h) /\ (a >= 4 => c >= 420)
    BY <2>3 DEF Detect!Least
  <2>5. PICK i \in Nat : i = (350 * k) \div 3 /\ (i >= 400 => k >= 4)
    BY <2>2
  <2>6. v = [intensity |-> i, confidence |-> c]
    BY <1>2, <2>1, <2>2, <2>3, <2>4, <2>5 DEF Detect!Read
  <2>7. k >= 4 => a >= 4
    BY <2>1, <2>2
  <2>8. v.intensity = i /\ v.confidence = c
    BY <2>6
  <2>9. QED  BY <2>4, <2>5, <2>6, <2>7, <2>8
<1>3. QED  BY <1>1, <1>2 DEF Detect!ByWords

\* How sure and how strong an emotion may be.
LEMMA Emotions ==
    ASSUME Detectable, NEW w \in Felt
    PROVE  /\ w.intensity \in Nat /\ w.confidence \in 126..770
           /\ w \in Detect!Feelings => w.confidence >= 210 /\ (w.intensity >= 400 => w.confidence >= 420)
<1>1. ASSUME NEW v \in Detect!Feelings
      PROVE  /\ v.intensity \in Nat /\ v.confidence \in 210..770 /\ (v.intensity >= 400 => v.confidence >= 420)
             /\ v = [intensity |-> v.intensity, confidence |-> v.confidence]
  <2>1. CASE v \in Detect!ByWords
    BY <2>1, EmotionsRead
  <2>2. ASSUME NEW u \in Detect!ByWords, NEW weight \in Detect!RuleWeights, NEW of \in {"main", "second", "other"},
               v = Detect!WithRule(u, weight, of)
        PROVE  /\ v.intensity \in Nat /\ v.confidence \in 420..770
               /\ v = [intensity |-> v.intensity, confidence |-> v.confidence]
    <3>1. PICK i \in Nat, c \in 210..560 : i = u.intensity /\ c = u.confidence
      BY EmotionsRead
    <3>2. PICK own \in Nat : own = (3 * weight) \div 10 + (IF of = "second" THEN (3 * u.intensity) \div 70 ELSE 0)
      BY <3>1 DEF Detect!RuleWeights
    <3>3. PICK j \in Nat : j = IF of = "main" THEN i + own ELSE IF i < own THEN own ELSE i
      BY <3>1, <3>2
    <3>4. v = [intensity |-> j, confidence |-> c + 210]
      BY <2>2, <3>1, <3>2, <3>3 DEF Detect!WithRule
    <3>5. QED  BY <3>1, <3>4
  <2>3. QED  BY <2>1, <2>2 DEF Detect!Feelings
<1>2. CASE w \in Detect!Feelings
  BY <1>1, <1>2
<1>3. ASSUME NEW v \in Detect!Feelings, w = Detect!Doubted(v), w \notin Detect!Feelings
      PROVE  w.intensity \in Nat /\ w.confidence \in 126..770
  <2>1. v = [intensity |-> v.intensity, confidence |-> v.confidence] /\ v.intensity \in Nat /\ v.confidence \in 210..770
    BY <1>1
  <2>2. w.intensity = v.intensity /\ w.confidence = (6 * v.confidence) \div 10
    BY <1>3, <2>1 DEF Detect!Doubted
  <2>3. QED  BY <2>1, <2>2
<1>4. QED  BY <1>2, <1>3 DEF Felt

-----------------------------------------------------------------------------
(* What the memory is worth.                                                 *)

LEMMA Leasts ==
    ASSUME NEW a \in Nat, NEW b \in Nat
    PROVE  /\ Detect!Least(a, b) \in Nat /\ Detect!Least(a, b) <= a /\ Detect!Least(a, b) <= b
           /\ Detect!Least(a, b) = a \/ Detect!Least(a, b) = b
BY DEF Detect!Least

\* A trigger says at least half of what may be said, and its absence less.
LEMMA TriggersCount ==
    ASSUME DetTypes
    PROVE  /\ Detect!TriggerConfidence \in 300..1000
           /\ triggers = Detect!NoTriggers => Detect!TriggerConfidence = 300
           /\ "explicit" \in triggers.types /\ triggers.confidence = 950 => Detect!TriggerConfidence = 1000
<1>1. Triggered(triggers)
  BY DEF DetTypes
<1>2. CASE triggers = Detect!NoTriggers
  BY <1>2 DEF Detect!TriggerConfidence, Detect!NoTriggers
<1>3. CASE triggers # Detect!NoTriggers
  <2>1. triggers.number \in Nat /\ triggers.number >= 1 /\ triggers.confidence \in 500..1000
    BY <1>1, <1>3 DEF Triggered, Triggers
  <2>2. PICK n \in Nat, c \in 500..1000 : n = triggers.number /\ c = triggers.confidence /\ n >= 1
    BY <2>1
  <2>3. PICK bonus : bonus = Detect!Least(150, 50 * n)
    OBVIOUS
  <2>4. bonus \in 50..150
    BY <2>2, <2>3 DEF Detect!Least
  <2>5. Detect!TriggerConfidence = Detect!Least(1000, c + bonus)
    BY <1>3, <2>2, <2>3 DEF Detect!TriggerConfidence
  <2>6. Detect!Least(1000, c + bonus) \in 500..1000 /\ (c = 950 => Detect!Least(1000, c + bonus) = 1000)
    <3>1. c + bonus \in 550..1150 /\ (c = 950 => c + bonus >= 1000)
      BY <2>4
    <3>2. PICK sum : sum = c + bonus
      OBVIOUS
    <3>3. Detect!Least(1000, sum) = IF 1000 < sum THEN 1000 ELSE sum
      BY DEF Detect!Least
    <3>4. QED  BY <3>1, <3>2, <3>3
  <2>7. QED  BY <1>3, <2>2, <2>5, <2>6
<1>4. QED  BY <1>2, <1>3

\* How many types there are.
LEMMA TypesCounted ==
    ASSUME NEW T \in SUBSET TriggerTypes
    PROVE  /\ Detect!Cardinality(T) \in Nat
           /\ T = {} => Detect!Cardinality(T) = 0
           /\ "explicit" \in T => Detect!Cardinality(T) >= 1
           /\ "explicit" \in T /\ T # {"explicit"} => Detect!Cardinality(T) >= 2
<1>1. Detect!Cardinality(T) = Cardinality(T)
  BY DEF Detect!Cardinality, Cardinality
<1>2. IsFiniteSet(T)
  <2>1. IsFiniteSet(TriggerTypes)
    <3>1. IsFiniteSet({"explicit"})
      BY FS_Singleton
    <3>2. IsFiniteSet({"explicit"} \cup {"boundary"})
      BY <3>1, FS_AddElement
    <3>3. IsFiniteSet({"explicit", "boundary"})
      <4>1. {"explicit", "boundary"} = {"explicit"} \cup {"boundary"}
        OBVIOUS
      <4>2. QED  BY <3>2, <4>1
    <3>4. IsFiniteSet({"explicit", "boundary"} \cup {"fact"})
      BY <3>3, FS_AddElement
    <3>5. IsFiniteSet({"explicit", "boundary", "fact"})
      <4>1. {"explicit", "boundary", "fact"} = {"explicit", "boundary"} \cup {"fact"}
        OBVIOUS
      <4>2. QED  BY <3>4, <4>1
    <3>6. IsFiniteSet({"explicit", "boundary", "fact"} \cup {"preference"})
      BY <3>5, FS_AddElement
    <3>7. IsFiniteSet({"explicit", "boundary", "fact", "preference"})
      <4>1. {"explicit", "boundary", "fact", "preference"} = {"explicit", "boundary", "fact"} \cup {"preference"}
        OBVIOUS
      <4>2. QED  BY <3>6, <4>1
    <3>8. IsFiniteSet({"explicit", "boundary", "fact", "preference"} \cup {"emotion"})
      BY <3>7, FS_AddElement
    <3>9. IsFiniteSet({"explicit", "boundary", "fact", "preference", "emotion"})
      <4>1. {"explicit", "boundary", "fact", "preference", "emotion"} = {"explicit", "boundary", "fact", "preference"} \cup {"emotion"}
        OBVIOUS
      <4>2. QED  BY <3>8, <4>1
    <3>10. IsFiniteSet({"explicit", "boundary", "fact", "preference", "emotion"} \cup {"relationship"})
      BY <3>9, FS_AddElement
    <3>11. IsFiniteSet({"explicit", "boundary", "fact", "preference", "emotion", "relationship"})
      <4>1. {"explicit", "boundary", "fact", "preference", "emotion", "relationship"} = {"explicit", "boundary", "fact", "preference", "emotion"} \cup {"relationship"}
        OBVIOUS
      <4>2. QED  BY <3>10, <4>1
    <3>12. QED  BY <3>11 DEF TriggerTypes
  <2>2. QED  BY <2>1, FS_Subset
<1>3. Cardinality(T) \in Nat /\ (T = {} => Cardinality(T) = 0)
  BY <1>2, FS_CardinalityType, FS_EmptySet
<1>4. ASSUME "explicit" \in T PROVE Cardinality(T) >= 1
  <2>1. {"explicit"} \subseteq T /\ Cardinality({"explicit"}) = 1
    BY <1>4, FS_Singleton
  <2>2. QED  BY <1>2, <2>1, FS_Subset
<1>5. ASSUME "explicit" \in T, NEW t \in T, t # "explicit" PROVE Cardinality(T) >= 2
  <2>1. IsFiniteSet({"explicit"}) /\ Cardinality({"explicit"}) = 1
    BY FS_Singleton
  <2>2. IsFiniteSet({"explicit", t}) /\ Cardinality({"explicit", t}) = 2
    <3>1. {"explicit", t} = {"explicit"} \cup {t} /\ t \notin {"explicit"}
      BY <1>5
    <3>2. QED  BY <2>1, <3>1, FS_AddElement
  <2>3. {"explicit", t} \subseteq T
    BY <1>5
  <2>4. QED  BY <1>2, <2>2, <2>3, FS_Subset
<1>6. QED  BY <1>1, <1>3, <1>4, <1>5

LEMMA Consistent ==
    ASSUME Detectable, DetTypes, NEW names \in Nat
    PROVE  /\ Detect!Consistency(names) \in 500..1000
           /\ triggers = Detect!NoTriggers /\ feeling.intensity <= 600 => Detect!Consistency(names) <= 670
           /\ "explicit" \in triggers.types =>
                \/ Detect!Consistency(names) >= 810
                \/ Detect!Consistency(names) >= 730 /\ feeling.intensity >= 400
<1>1. PICK T \in SUBSET TriggerTypes : T = triggers.types
  BY DEF DetTypes, Triggered, Triggers
<1>2. feeling.intensity \in Nat /\ level \in 0..4
  BY Emotions DEF DetTypes
<1>3. PICK kinds : kinds = Detect!Least(200, 80 * Detect!Cardinality(T))
  OBVIOUS
<1>4. /\ kinds \in 0..200 /\ (T = {} => kinds = 0) /\ ("explicit" \in T => kinds >= 80)
      /\ "explicit" \in T /\ T # {"explicit"} => kinds >= 160
  <2>1. PICK n \in Nat : n = Detect!Cardinality(T)
    BY TypesCounted
  <2>2. kinds = Detect!Least(200, 80 * n)
    BY <1>3, <2>1
  <2>3. (T = {} => n = 0) /\ ("explicit" \in T => n >= 1) /\ ("explicit" \in T /\ T # {"explicit"} => n >= 2)
    BY <2>1, TypesCounted
  <2>4. kinds \in 0..200 /\ (n = 0 => kinds = 0) /\ (n >= 1 => kinds >= 80) /\ (n >= 2 => kinds >= 160)
    BY <2>2 DEF Detect!Least
  <2>5. QED  BY <2>3, <2>4
<1>5. PICK entities \in 0..120 : entities = Detect!Least(120, 40 * names)
  BY DEF Detect!Least
<1>6. PICK match \in 0..100 :
        /\ match = IF Detect!Type = "emotion" /\ feeling.intensity > 600 THEN 100
                   ELSE IF Detect!Type = "fact" /\ feeling.intensity < 400 THEN 80 ELSE 0
  OBVIOUS
<1>7. PICK sure \in {0, 150}, private \in {0, 50} :
        /\ sure = (IF "explicit" \in T THEN 150 ELSE 0) /\ private = (IF level >= Detect!Private THEN 50 ELSE 0)
  OBVIOUS
<1>8. Detect!Consistency(names) = Detect!Least(1000, 500 + kinds + entities + match + sure + private)
  BY <1>1, <1>3, <1>5, <1>6, <1>7 DEF Detect!Consistency
<1>9. ASSUME triggers = Detect!NoTriggers, feeling.intensity <= 600 PROVE T = {} /\ match = 0 /\ sure = 0
  <2>1. T = {}
    BY <1>1, <1>9 DEF Detect!NoTriggers
  <2>2. Detect!Type = "interaction"
    BY <1>1, <1>2, <1>9, <2>1 DEF Detect!Type
  <2>3. QED  BY <1>6, <1>7, <2>1, <2>2
<1>10. ASSUME T = {"explicit"} PROVE match >= 80 \/ feeling.intensity >= 400
  <2>1. Detect!Type = IF feeling.intensity > 600 THEN "emotion" ELSE "fact"
    BY <1>1, <1>10 DEF Detect!Type
  <2>2. QED  BY <1>2, <1>6, <2>1
<1>11. PICK sum \in Nat : sum = 500 + kinds + entities + match + sure + private
  BY <1>4, <1>5, <1>6, <1>7
<1>12. Detect!Consistency(names) = IF 1000 < sum THEN 1000 ELSE sum
  BY <1>8, <1>11 DEF Detect!Least
<1>13. sum >= 500
  BY <1>4, <1>5, <1>6, <1>7, <1>11
<1>14. triggers = Detect!NoTriggers /\ feeling.intensity <= 600 => sum <= 670
  BY <1>4, <1>5, <1>7, <1>9, <1>11
<1>15. "explicit" \in T => sum >= 730 /\ (sum >= 810 \/ feeling.intensity >= 400)
  BY <1>4, <1>5, <1>6, <1>7, <1>10, <1>11
<1>16. QED  BY <1>1, <1>12, <1>13, <1>14, <1>15

\* A confidence is never below three tenths; chat without a strong emotion has less than
\* seven tenths, and what says "remember" has more unless its emotion is strong or in doubt.
LEMMA Confidences ==
    ASSUME Detectable, DetTypes, NEW names \in Nat
    PROVE  /\ Detect!Confidence(names) \in 3000..10000
           /\ triggers = Detect!NoTriggers /\ feeling.intensity <= 600 => Detect!Confidence(names) < 7000
           /\ "explicit" \in triggers.types /\ triggers.confidence = 950 /\ feeling \in Detect!Feelings =>
                Detect!Confidence(names) >= 7000
<1>1. PICK t \in 300..1000 : t = Detect!TriggerConfidence
  BY TriggersCount
<1>2. PICK k \in 500..1000 : k = Detect!Consistency(names)
  BY Consistent
<1>3. PICK f \in 126..770, i \in Nat : f = feeling.confidence /\ i = feeling.intensity
  BY Emotions DEF DetTypes
<1>4. feeling \in Detect!Feelings => f >= 210 /\ (i >= 400 => f >= 420)
  BY <1>3, Emotions DEF DetTypes
<1>5. Detect!Confidence(names) = 4 * t + 3 * f + 3 * k
  BY <1>1, <1>2, <1>3 DEF Detect!Confidence
<1>6. triggers = Detect!NoTriggers /\ i <= 600 => t = 300 /\ k <= 670
  BY <1>1, <1>2, <1>3, TriggersCount, Consistent
<1>7. "explicit" \in triggers.types /\ triggers.confidence = 950 => t = 1000 /\ (k >= 810 \/ (k >= 730 /\ i >= 400))
  BY <1>1, <1>2, <1>3, TriggersCount, Consistent
<1>8. 4 * t + 3 * f + 3 * k \in 3000..10000
  OBVIOUS
<1>9. ASSUME "explicit" \in triggers.types, triggers.confidence = 950, feeling \in Detect!Feelings
      PROVE  4 * t + 3 * f + 3 * k >= 7000
  BY <1>4, <1>7, <1>9
<1>10. ASSUME triggers = Detect!NoTriggers, i <= 600 PROVE 4 * t + 3 * f + 3 * k < 7000
  BY <1>6, <1>10
<1>11. Detect!Confidence(names) \in 3000..10000
  BY <1>5, <1>8
<1>12. triggers = Detect!NoTriggers /\ feeling.intensity <= 600 => Detect!Confidence(names) < 7000
  <2>1. ASSUME triggers = Detect!NoTriggers, feeling.intensity <= 600 PROVE Detect!Confidence(names) < 7000
    <3>1. i <= 600
      BY <1>3, <2>1
    <3>2. 4 * t + 3 * f + 3 * k < 7000
      BY <1>10, <2>1, <3>1
    <3>3. QED  BY <1>5, <3>2
  <2>2. QED  BY <2>1
<1>13. "explicit" \in triggers.types /\ triggers.confidence = 950 /\ feeling \in Detect!Feelings => Detect!Confidence(names) >= 7000
  BY <1>5, <1>9
<1>14. QED  BY <1>11, <1>12, <1>13

-----------------------------------------------------------------------------
(* The steps.                                                                *)

\* Before a memory is made there is nothing to say of it.
LEMMA NotMade ==
    ASSUME DetTypes', Believed', stage' # "built"
    PROVE  DetInv'
<1>1. stage' = "emotion" /\ ruled' = 4 => model'.sure \/ asking' = "llm"
  BY DEF Believed
<1>2. Detect!PrivateStaysPrivate'
  BY <1>1 DEF Detect!PrivateStaysPrivate, Detect!Built, Detect!Critical
<1>3. /\ Detect!ConfidenceBounded' /\ Detect!ChatPasses' /\ Detect!RememberKept'
      /\ Detect!SemanticForAReason' /\ Detect!SecretsKept'
  BY DEF Detect!ConfidenceBounded, Detect!ChatPasses, Detect!RememberKept, Detect!SemanticForAReason,
         Detect!SecretsKept, Detect!Built
<1>4. QED  BY <1>2, <1>3 DEF DetInv, Made, Detect!DetectionSound

LEMMA TriggerKeeps ==
    ASSUME Detectable, DetInv, NEW f \in RuleFindings, NEW query \in BOOLEAN, NEW hints \in BOOLEAN,
           Detect!Trigger(f, query, hints)
    PROVE  DetInv'
<1>1. /\ stage' = "level" /\ UNCHANGED <<asking, ruled, model, level, feeling>>
      /\ triggers' \in CASE asking = "rule"   -> {Detect!ByRules(f)}
                         [] asking = "llm"    -> Detect!Ruled(f, query) \cup Detect!OfModel(f, 0)
                         [] asking = "hybrid" -> Detect!Hybrid(f, query, hints)
  BY DEF Detect!Trigger
<1>2. asking \in {"rule", "llm", "hybrid"}
  BY DEF DetInv, DetTypes, Detectable
<1>3. \A t \in Detect!Hybrid(f, query, hints) : Triggered(t)
  BY Answered DEF Detect!Hybrid
<1>4. Triggered(triggers')
  BY <1>1, <1>2, <1>3, Answered
<1>5. DetTypes'
  BY <1>1, <1>4 DEF DetInv, DetTypes, Triggered
<1>6. QED  BY <1>1, <1>5, NotMade DEF Believed

LEMMA SenseKeeps ==
    ASSUME Detectable, DetInv, NEW r \in Detect!Levels, NEW m \in Detect!Answers,
           Detect!Sense(r, m)
    PROVE  DetInv'
<1>1. /\ r \in 0..4 /\ m \in [level : 0..4, sure : BOOLEAN]
      /\ ruled' = r /\ UNCHANGED <<asking, triggers, feeling>>
      /\ stage' = IF level' = 4 THEN "dropped" ELSE "emotion"
  BY DEF Detect!Sense, Detect!Answers, Detect!Levels, Detect!Public, Detect!Critical
<1>2. \/ level' = r /\ model' = model
      \/ asking = "llm" /\ level' = 0 /\ model' = m
      \/ /\ asking = "hybrid" /\ level' = (IF r >= 2 /\ m.sure THEN 0 ELSE r)
         /\ model' = (IF r >= 2 THEN m ELSE Detect!Unasked)
  BY DEF Detect!Sense, Detect!Parsed, Detect!Judged, Detect!Private, Detect!Public
<1>3. Detect!Unasked \in [level : 0..4, sure : BOOLEAN]
  BY DEF Detect!Unasked, Detect!Public
<1>4. DetTypes'
  <2>1. model' \in [level : 0..4, sure : BOOLEAN] /\ level' \in 0..4
    BY <1>1, <1>2, <1>3 DEF DetInv, DetTypes
  <2>2. QED  BY <1>1, <2>1 DEF DetInv, DetTypes, Triggered
<1>5. Believed'
  <2>1. ASSUME stage' = "emotion", asking' = "hybrid", ~model'.sure, ruled' >= 2 PROVE level' = ruled'
    BY <1>1, <1>2, <2>1
  <2>2. ASSUME stage' = "emotion", ruled' = 4 PROVE model'.sure \/ asking' = "llm"
    BY <1>1, <1>2, <2>2
  <2>3. QED  BY <1>1, <2>1, <2>2 DEF Believed
<1>6. QED  BY <1>1, <1>4, <1>5, NotMade

LEMMA FeelKeeps ==
    ASSUME Detectable, DetInv, NEW w \in Detect!Feelings, NEW doubt \in BOOLEAN, Detect!Feel(w, doubt)
    PROVE  DetInv'
<1>1. /\ stage = "emotion" /\ stage' = "build" /\ UNCHANGED <<asking, triggers, ruled, model, level>>
      /\ feeling' \in Felt
  BY DEF Detect!Feel, Felt
<1>2. DetTypes' /\ Believed'
  BY <1>1 DEF DetInv, DetTypes, Believed, Triggered
<1>3. QED  BY <1>1, <1>2, NotMade

\* _determine_storage_layer stores in the working memory what nothing lifts from it.
LEMMA Layers ==
    ASSUME NEW c, NEW asked, NEW said, ~Detect!FastTrack(c, asked, said),
           ~(asked \/ Detect!Quality(c) = 4 \/ feeling.intensity > 600 \/ c >= 7000)
    PROVE  Detect!Layer(c, asked, said) = "working"
  BY DEF Detect!Layer

LEMMA BuildKeeps ==
    ASSUME Detectable, DetInv, NEW names \in EntityCounts, NEW asked \in BOOLEAN,
           NEW said \in {"nothing", "name", "bond", "day"}, NEW place \in {"direct", "secret", "personal", "shared"},
           Detect!Build(names, asked, said, place)
    PROVE  DetInv'
<1>1. PICK c : c = Detect!Confidence(names)
  OBVIOUS
<1>2. /\ stage = "build" /\ stage' = "built" /\ UNCHANGED <<asking, triggers, ruled, model, level, feeling>>
      /\ detected'.layer = Detect!Layer(c, asked, said) /\ detected'.confidence = c /\ detected'.quality = Detect!Quality(c)
      /\ detected'.protected = (Detect!Protection(c, asked, said) # {}) /\ detected'.scope = Detect!Scope(place)
      /\ detected'.encrypted = (level >= Detect!Private) /\ detected'.asked = asked /\ detected'.place = place
  BY <1>1 DEF Detect!Build
<1>3. DetTypes /\ names \in Nat /\ level \in 0..4 /\ feeling.intensity \in Nat
  BY Emotions DEF DetInv, DetTypes, Detectable
<1>4. /\ c \in 3000..10000
      /\ triggers = Detect!NoTriggers /\ feeling.intensity <= 600 => c < 7000
      /\ "explicit" \in triggers.types /\ triggers.confidence = 950 /\ feeling \in Detect!Feelings => c >= 7000
  <2>1. /\ Detect!Confidence(names) \in 3000..10000
        /\ triggers = Detect!NoTriggers /\ feeling.intensity <= 600 => Detect!Confidence(names) < 7000
        /\ "explicit" \in triggers.types /\ triggers.confidence = 950 /\ feeling \in Detect!Feelings =>
             Detect!Confidence(names) >= 7000
    BY <1>3, Confidences
  <2>2. QED  BY <1>1, <2>1
<1>5. DetTypes' /\ Believed'
  BY <1>2 DEF DetInv, DetTypes, Believed, Triggered
<1>6. (Detect!Quality(c) = 5 <=> c >= 9000) /\ (Detect!Quality(c) = 4 => c >= 7500)
  BY <1>4 DEF Detect!Quality
<1>7. Detect!ConfidenceBounded'
  BY <1>2, <1>4 DEF Detect!ConfidenceBounded
<1>8. Detect!ChatPasses'
  <2>1. SUFFICES ASSUME ~asked, triggers = Detect!NoTriggers, feeling.intensity <= 600
                 PROVE  Detect!Layer(c, asked, said) = "working"
    BY <1>2 DEF Detect!ChatPasses
  <2>2. c < 7000 /\ Detect!Quality(c) # 5 /\ Detect!Quality(c) # 4
    <3>0. triggers = Detect!NoTriggers /\ feeling.intensity <= 600 => c < 7000
      BY <1>4
    <3>1. c < 7000 /\ c \in Int
      <4>1. c < 7000
        BY <2>1, <3>0
      <4>2. c \in Int
        BY <1>4
      <4>3. QED  BY <4>1, <4>2
    <3>2. ~(c >= 9000) /\ ~(c >= 7500)
      BY <3>1
    <3>3. QED  BY <1>6, <3>1, <3>2
  <2>3. Detect!Type = "interaction"
    BY <1>3, <2>1 DEF Detect!Type, Detect!NoTriggers
  <2>4. ~Detect!FastTrack(c, asked, said)
    BY <1>4, <2>1, <2>2, <2>3 DEF Detect!FastTrack, Detect!Protection
  <2>5. ~(feeling.intensity > 600) /\ ~(c >= 7000)
    <3>1. feeling.intensity \in Int /\ feeling.intensity <= 600
      BY <1>3, <2>1
    <3>2. c \in Int /\ c < 7000
      BY <1>4, <2>2
    <3>3. ~(feeling.intensity > 600)
      BY <3>1
    <3>4. ~(c >= 7000)
      BY <3>2
    <3>5. QED  BY <3>3, <3>4
  <2>6. ~(asked \/ Detect!Quality(c) = 4 \/ feeling.intensity > 600 \/ c >= 7000)
    BY <2>1, <2>2, <2>5
  <2>7. QED  BY <2>4, <2>6, Layers
<1>9. Detect!RememberKept'
  <2>1. SUFFICES ASSUME c >= 7000 PROVE Detect!Layer(c, asked, said) # "working"
    BY <1>2, <1>4 DEF Detect!RememberKept
  <2>2. QED  BY <2>1 DEF Detect!Layer
<1>10. Detect!SemanticForAReason'
  <2>1. SUFFICES ASSUME Detect!Layer(c, asked, said) = "semantic"
                 PROVE  Detect!Quality(c) = 5 \/ Detect!Protection(c, asked, said) # {}
    BY <1>2 DEF Detect!SemanticForAReason
  <2>2. Detect!FastTrack(c, asked, said)
    BY <2>1 DEF Detect!Layer
  <2>3. asked => "pinned" \in Detect!Protection(c, asked, said)
    BY DEF Detect!Protection
  <2>4. QED  BY <1>6, <2>2, <2>3 DEF Detect!FastTrack
<1>11. Detect!PrivateStaysPrivate'
  <2>1. SUFFICES ASSUME ruled >= 2, asking = "hybrid", ~model.sure
                 PROVE  Detect!Scope(place) = "user_private" /\ level >= Detect!Private
    BY <1>2 DEF Detect!PrivateStaysPrivate, Detect!Private
  <2>2. level >= Detect!Private
    BY <1>2, <2>1 DEF DetInv, Believed, Detect!Private
  <2>3. QED  BY <2>2 DEF Detect!Scope
<1>12. Detect!SecretsKept'
  BY <1>2 DEF Detect!SecretsKept, Detect!Scope
<1>13. Detect!DetectionSound'
  BY <1>7, <1>8, <1>9, <1>10, <1>11, <1>12 DEF Detect!DetectionSound
<1>14. detected'.confidence >= 3000
  <2>1. detected'.confidence = c
    BY <1>2
  <2>2. c \in Int /\ c >= 3000
    BY <1>4
  <2>3. QED  BY <2>1, <2>2
<1>15. QED  BY <1>5, <1>13, <1>14 DEF DetInv, Made

LEMMA DetStarts == Detectable /\ Detect!Init => DetInv
<1> SUFFICES ASSUME Detectable, Detect!Init PROVE DetInv
  OBVIOUS
<1>1. DetTypes
  BY DEF Detect!Init, DetTypes, Triggered, Triggers, Detect!NoTriggers, Felt, Detect!Feelings, Detect!ByWords, Detect!Unasked, Detect!Public
<1>2. stage = "triggers"
  BY DEF Detect!Init
<1>3. Detect!DetectionSound
  BY <1>2 DEF Detect!ConfidenceBounded, Detect!ChatPasses, Detect!RememberKept, Detect!SemanticForAReason,
         Detect!SecretsKept, Detect!PrivateStaysPrivate, Detect!Built, Detect!DetectionSound
<1>4. QED  BY <1>1, <1>2, <1>3 DEF DetInv, Believed, Made

LEMMA DetKeeps == Detectable /\ DetInv /\ [Detect!Next]_(Detect!vars) => DetInv'
<1> SUFFICES ASSUME Detectable, DetInv, [Detect!Next]_(Detect!vars) PROVE DetInv'
  OBVIOUS
<1>1. CASE Detect!Again
  <2>1. /\ stage' = "triggers" /\ asking' = asking /\ triggers' = Detect!NoTriggers /\ ruled' = 0
        /\ model' = Detect!Unasked /\ level' = 0 /\ feeling' = Detect!Calm
    BY <1>1 DEF Detect!Again, Detect!Public
  <2>2. Triggered(Detect!NoTriggers) /\ Detect!Calm \in Felt /\ Detect!Unasked \in [level : 0..4, sure : BOOLEAN]
    BY DEF Triggered, Triggers, Detect!NoTriggers, Felt, Detect!Feelings, Detect!ByWords, Detect!Unasked, Detect!Public
  <2>3. DetTypes' /\ Believed'
    BY <2>1, <2>2 DEF DetInv, DetTypes, Believed, Triggered
  <2>4. QED  BY <2>1, <2>3, NotMade
<1>2. CASE Detect!NegativeSample
  <2>1. stage' = "dropped" /\ UNCHANGED <<asking, triggers, ruled, model, level, feeling>>
    BY <1>2 DEF Detect!NegativeSample
  <2>2. DetTypes' /\ Believed'
    BY <2>1 DEF DetInv, DetTypes, Believed, Triggered
  <2>3. QED  BY <2>1, <2>2, NotMade
<1>3. CASE UNCHANGED Detect!vars
  <2>1. UNCHANGED <<asking, stage, triggers, ruled, model, level, feeling, detected>>
    BY <1>3 DEF Detect!vars
  <2>2. DetTypes' /\ Believed'
    BY <2>1 DEF DetInv, DetTypes, Believed, Triggered
  <2>3. /\ Detect!ConfidenceBounded' /\ Detect!ChatPasses' /\ Detect!RememberKept'
        /\ Detect!SemanticForAReason' /\ Detect!SecretsKept' /\ Detect!PrivateStaysPrivate'
    BY <2>1 DEF DetInv, Made, Detect!DetectionSound, Detect!ConfidenceBounded, Detect!ChatPasses, Detect!RememberKept,
       Detect!SemanticForAReason, Detect!SecretsKept, Detect!PrivateStaysPrivate, Detect!Built
  <2>4. QED  BY <2>1, <2>2, <2>3 DEF DetInv, Made, Detect!DetectionSound
<1>4. QED  BY <1>1, <1>2, <1>3, TriggerKeeps, SenseKeeps, FeelKeeps, BuildKeeps DEF Detect!Next

\* Whatever the patterns find, however often, and whatever the models answer or fail to:
\* a confidence is a part of one, chat passes into the working memory, what says
\* "remember" is stored, a semantic memory has a reason, and what is private or told in
\* confidence stays so (Detection's DetectionSound).
THEOREM DetectsRight == ASSUME Detectable PROVE Detect!Spec => []Detect!DetectionSound
<1>1. DetInv => Detect!DetectionSound
  BY DEF DetInv, Made
<1>2. Detect!Spec => []DetInv
  BY DetStarts, DetKeeps, PTL DEF Detect!Spec
<1>3. QED  BY <1>1, <1>2, PTL

\* No memory is less sure than three tenths, which the resolution of contradictions
\* relies on (Tellable).
THEOREM SureEnough == ASSUME Detectable PROVE Detect!Spec => [](stage = "built" => detected.confidence >= 3000)
<1>1. DetInv => (stage = "built" => detected.confidence >= 3000)
  BY DEF DetInv, Made
<1>2. Detect!Spec => []DetInv
  BY DetStarts, DetKeeps, PTL DEF Detect!Spec
<1>3. QED  BY <1>1, <1>2, PTL

-----------------------------------------------------------------------------
(* The batches of persona extraction (PersonaBatch).                         *)

QueueTypes ==
    /\ coming \subseteq [message : PersonaMessages, session : PersonaSessions]
    /\ lined \in [PersonaSessions -> Seq(PersonaMessages)] /\ taken \in [PersonaSessions -> Seq(PersonaMessages)]
    /\ batch = Batches!Nothing \/ batch \in [session : PersonaSessions, messages : Seq(PersonaMessages)]
    /\ unflushed \subseteq PersonaSessions

\* Only who holds the lock has a batch in hand, and only a flush has sessions to come.
Held == (guard = Batches!Nobody => batch = Batches!Nothing) /\ (guard # "flush" => unflushed = {})

\* A message that waits for the lock waits once, and has been added nowhere.
Waiting ==
    /\ \A c, d \in coming : c.message = d.message => c = d
    /\ \A c \in coming : c.message \notin lost
    /\ \A c \in coming, s \in PersonaSessions : \A i \in DOMAIN Batches!All(s) : Batches!All(s)[i] # c.message

Short == \A s \in PersonaSessions : Len(lined[s]) < PersonaThreshold

QueueInv == QueueTypes /\ Held /\ Waiting /\ Short /\ Batches!EachOnce

\* What the sessions were given is as it was.
AsGiven == lost' = lost /\ \A t \in PersonaSessions : Batches!All(t)' = Batches!All(t)

\* What a batch takes and what it leaves are the queue.
LEMMA BatchAndRest ==
    ASSUME NEW S, NEW q \in Seq(S), NEW n \in Nat
    PROVE  LET head == SubSeq(q, 1, IF Len(q) < n THEN Len(q) ELSE n)
               rest == SubSeq(q, n + 1, Len(q))
           IN /\ head \in Seq(S) /\ rest \in Seq(S) /\ head \o rest = q
              /\ Len(rest) = IF Len(q) < n THEN 0 ELSE Len(q) - n
<1>1. PICK k : k = (IF Len(q) < n THEN Len(q) ELSE n)
  OBVIOUS
<1>2. Len(q) \in Nat /\ k \in 0..Len(q) /\ \A i \in 1..Len(q) : q[i] \in S
  BY <1>1, ElementOfSeq
<1>3. PICK head : head = SubSeq(q, 1, k)
  OBVIOUS
<1>4. PICK rest : rest = SubSeq(q, n + 1, Len(q))
  OBVIOUS
<1>5. head \in Seq(S) /\ Len(head) = k /\ \A i \in 1..k : head[i] = q[i]
  BY <1>2, <1>3, SubSeqProperties
<1>6. /\ rest \in Seq(S) /\ Len(rest) = (IF Len(q) < n THEN 0 ELSE Len(q) - n)
      /\ \A i \in 1..(Len(q) - n) : rest[i] = q[n + i]
  <2>1. \A i \in (n + 1)..Len(q) : q[i] \in S
    BY <1>2
  <2>2. /\ rest \in Seq(S) /\ Len(rest) = (IF n + 1 <= Len(q) THEN Len(q) - (n + 1) + 1 ELSE 0)
        /\ \A i \in 1..(Len(q) - (n + 1) + 1) : rest[i] = q[n + 1 + i - 1]
    BY <1>2, <1>4, <2>1, SubSeqProperties
  <2>3. ASSUME NEW i \in 1..(Len(q) - n) PROVE rest[i] = q[n + i]
    <3>1. i \in 1..(Len(q) - (n + 1) + 1) /\ n + 1 + i - 1 = n + i
      BY <1>2
    <3>2. QED  BY <2>2, <3>1
  <2>4. Len(rest) = IF Len(q) < n THEN 0 ELSE Len(q) - n
    BY <1>2, <2>2
  <2>5. QED  BY <2>2, <2>3, <2>4
<1>7. head \o rest = q
  <2>1. /\ head \o rest \in Seq(S) /\ Len(head \o rest) = Len(head) + Len(rest)
        /\ \A i \in 1..(Len(head) + Len(rest)) :
             (head \o rest)[i] = IF i <= Len(head) THEN head[i] ELSE rest[i - Len(head)]
    BY <1>5, <1>6, ConcatProperties
  <2>2. Len(head \o rest) = Len(q)
    BY <1>1, <1>2, <1>5, <1>6, <2>1
  <2>3. ASSUME NEW i \in 1..Len(q) PROVE (head \o rest)[i] = q[i]
    <3>0. i <= k \/ i > k
      BY <1>2
    <3>1. CASE i <= k
      BY <1>2, <1>5, <1>6, <2>1, <2>2, <3>1
    <3>2. CASE i > k
      <4>1. PICK j \in 1..(Len(q) - n) : i = n + j /\ k = n
        <5>1. k = n /\ i - n \in 1..(Len(q) - n) /\ i = n + (i - n)
          BY <1>1, <1>2, <3>2
        <5>2. QED  BY <5>1, Zenon
      <4>2. (head \o rest)[i] = rest[j]
        BY <1>2, <1>5, <2>1, <2>2, <3>2, <4>1
      <4>3. rest[j] = q[n + j]
        BY <1>6
      <4>4. QED  BY <4>1, <4>2, <4>3
    <3>3. QED  BY <3>0, <3>1, <3>2, Zenon
  <2>4. QED  BY <2>1, <2>2, <2>3, SeqEqual
<1>8. QED  BY <1>1, <1>3, <1>4, <1>5, <1>6, <1>7

\* _process_queue takes a batch from a queue that holds q, and nothing is lost or moved.
LEMMA QueueProcessed ==
    ASSUME Batchable, QueueTypes, NEW s \in PersonaSessions, NEW q \in Seq(PersonaMessages),
           Len(q) <= PersonaThreshold, Batches!ProcessQueue(q, s)
    PROVE  /\ batch' \in [session : PersonaSessions, messages : Seq(PersonaMessages)] /\ batch'.session = s
           /\ lined' \in [PersonaSessions -> Seq(PersonaMessages)]
           /\ batch'.messages \o lined'[s] = q /\ Len(lined'[s]) < PersonaThreshold
           /\ \A t \in PersonaSessions \ {s} : lined'[t] = lined[t]
<1>1. PICK head : head = SubSeq(q, 1, IF Len(q) < PersonaBatchMax THEN Len(q) ELSE PersonaBatchMax)
  OBVIOUS
<1>2. PICK rest : rest = SubSeq(q, PersonaBatchMax + 1, Len(q))
  OBVIOUS
<1>3. /\ head \in Seq(PersonaMessages) /\ rest \in Seq(PersonaMessages) /\ head \o rest = q
      /\ Len(rest) = IF Len(q) < PersonaBatchMax THEN 0 ELSE Len(q) - PersonaBatchMax
  <2>1. PersonaBatchMax \in Nat
    BY DEF Batchable
  <2>2. QED  BY <1>1, <1>2, <2>1, BatchAndRest
<1>4. batch' = [session |-> s, messages |-> head] /\ lined' = [lined EXCEPT ![s] = rest]
  BY <1>1, <1>2 DEF Batches!ProcessQueue
<1>5. lined \in [PersonaSessions -> Seq(PersonaMessages)]
  BY DEF QueueTypes
<1>6. Len(rest) < PersonaThreshold
  <2>1. Len(q) \in Nat /\ PersonaThreshold \in Nat /\ PersonaThreshold > 0 /\ PersonaBatchMax \in Nat \ {0}
    BY DEF Batchable
  <2>2. QED  BY <1>3, <2>1
<1>7. /\ lined' \in [PersonaSessions -> Seq(PersonaMessages)] /\ lined'[s] = rest
      /\ \A t \in PersonaSessions \ {s} : lined'[t] = lined[t]
  BY <1>3, <1>4, <1>5
<1>8. QED  BY <1>3, <1>4, <1>6, <1>7

\* Reading a sequence of three parts the other way.
LEMMA ThreeParts ==
    ASSUME NEW S, NEW a \in Seq(S), NEW b \in Seq(S), NEW c \in Seq(S)
    PROVE  (a \o b) \o c = a \o (b \o c) /\ a \o b \in Seq(S) /\ (a \o b) \o c \in Seq(S)
<1>1. (a \o b) \o c = a \o (b \o c)
  BY ConcatAssociative
<1>2. a \o b \in Seq(S)
  BY ConcatProperties
<1>3. (a \o b) \o c \in Seq(S)
  BY <1>2, ConcatProperties
<1>4. QED  BY <1>1, <1>2, <1>3

LEMMA AllIs ==
    ASSUME QueueTypes, NEW s \in PersonaSessions
    PROVE  /\ Batches!InHand(s) \in Seq(PersonaMessages) /\ Batches!All(s) \in Seq(PersonaMessages)
           /\ Batches!All(s) = taken[s] \o (Batches!InHand(s) \o lined[s])
           /\ batch = Batches!Nothing => Batches!All(s) = taken[s] \o lined[s]
<1>1. PICK a \in Seq(PersonaMessages), c \in Seq(PersonaMessages) : a = taken[s] /\ c = lined[s]
  <2>1. taken[s] \in Seq(PersonaMessages) /\ lined[s] \in Seq(PersonaMessages)
    BY DEF QueueTypes
  <2>2. QED  BY <2>1
<1>2. <<>> \in Seq(PersonaMessages)
  BY EmptySeq
<1>3. PICK hand \in Seq(PersonaMessages) : hand = Batches!InHand(s)
  <2>1. CASE batch = Batches!Nothing
    BY <1>2, <2>1 DEF Batches!InHand, Batches!Nothing
  <2>2. CASE batch \in [session : PersonaSessions, messages : Seq(PersonaMessages)]
    BY <1>2, <2>2 DEF Batches!InHand
  <2>3. QED  BY <2>1, <2>2 DEF QueueTypes
<1>4. (a \o hand) \o c = a \o (hand \o c) /\ (a \o hand) \o c \in Seq(PersonaMessages)
  BY ThreeParts
<1>5. batch = Batches!Nothing => hand = <<>>
  BY <1>3 DEF Batches!InHand, Batches!Nothing
<1>6. a \o <<>> = a
  BY ConcatEmptySeq
<1>7. Batches!All(s) = (a \o hand) \o c
  BY <1>1, <1>3 DEF Batches!All
<1>8. QED  BY <1>1, <1>3, <1>4, <1>5, <1>6, <1>7

\* What is in no part of a sequence is not in it.
LEMMA NotInParts ==
    ASSUME NEW S, NEW a \in Seq(S), NEW b \in Seq(S), NEW c \in Seq(S), NEW x,
           \A i \in DOMAIN a : a[i] # x, \A i \in DOMAIN b : b[i] # x, \A i \in DOMAIN c : c[i] # x
    PROVE  \A i \in DOMAIN ((a \o b) \o c) : ((a \o b) \o c)[i] # x
<1>1. PICK d \in Seq(S) : d = a \o b
  BY ConcatProperties
<1>2. \A i \in DOMAIN d : d[i] # x
  BY <1>1, ConcatProperties
<1>3. \A i \in DOMAIN (d \o c) : (d \o c)[i] # x
  BY <1>2, ConcatProperties
<1>4. QED  BY <1>1, <1>3

\* The same of the state after a step.
LEMMA AllBecomes ==
    ASSUME QueueTypes', NEW s \in PersonaSessions
    PROVE  /\ Batches!All(s)' \in Seq(PersonaMessages)
           /\ Batches!All(s)' = taken'[s] \o (Batches!InHand(s)' \o lined'[s])
           /\ Batches!InHand(s)' = IF batch'.session = s THEN batch'.messages ELSE <<>>
           /\ batch' = Batches!Nothing => Batches!All(s)' = taken'[s] \o lined'[s]
<1>1. PICK a \in Seq(PersonaMessages), c \in Seq(PersonaMessages) : a = taken'[s] /\ c = lined'[s]
  <2>1. taken'[s] \in Seq(PersonaMessages) /\ lined'[s] \in Seq(PersonaMessages)
    BY DEF QueueTypes
  <2>2. QED  BY <2>1
<1>2. <<>> \in Seq(PersonaMessages)
  BY EmptySeq
<1>3. PICK hand \in Seq(PersonaMessages) : hand = Batches!InHand(s)'
  <2>1. CASE batch' = Batches!Nothing
    BY <1>2, <2>1 DEF Batches!InHand, Batches!Nothing
  <2>2. CASE batch' \in [session : PersonaSessions, messages : Seq(PersonaMessages)]
    BY <1>2, <2>2 DEF Batches!InHand
  <2>3. QED  BY <2>1, <2>2 DEF QueueTypes, Batches!Nothing
<1>4. (a \o hand) \o c = a \o (hand \o c) /\ (a \o hand) \o c \in Seq(PersonaMessages)
  BY ThreeParts
<1>5. batch' = Batches!Nothing => hand = <<>>
  BY <1>3 DEF Batches!InHand, Batches!Nothing
<1>6. a \o <<>> = a
  BY ConcatEmptySeq
<1>7. Batches!All(s)' = (a \o hand) \o c
  BY <1>1, <1>3 DEF Batches!All
<1>8. Batches!InHand(s)' = IF batch'.session = s THEN batch'.messages ELSE <<>>
  BY DEF Batches!InHand
<1>9. QED  BY <1>1, <1>3, <1>4, <1>5, <1>6, <1>7, <1>8

\* What a batch was taken from is still what the session was given.
LEMMA ProcessedGrows ==
    ASSUME Batchable, QueueTypes, QueueTypes', NEW s \in PersonaSessions, NEW q \in Seq(PersonaMessages),
           Len(q) <= PersonaThreshold, batch = Batches!Nothing, Batches!ProcessQueue(q, s), taken' = taken
    PROVE  /\ Batches!All(s)' = taken[s] \o q
           /\ \A t \in PersonaSessions \ {s} : Batches!All(t)' = Batches!All(t)
<1>1. /\ batch'.session = s /\ batch'.messages \o lined'[s] = q
      /\ \A t \in PersonaSessions \ {s} : lined'[t] = lined[t]
  BY QueueProcessed
<1>2. Batches!All(s)' = taken[s] \o q
  <2>1. Batches!InHand(s)' = batch'.messages
    BY <1>1, AllBecomes
  <2>2. Batches!All(s)' = taken'[s] \o (Batches!InHand(s)' \o lined'[s])
    BY AllBecomes
  <2>3. QED  BY <1>1, <2>1, <2>2
<1>3. ASSUME NEW t \in PersonaSessions \ {s} PROVE Batches!All(t)' = Batches!All(t)
  <2>1. Batches!InHand(t)' = <<>>
    BY <1>1, AllBecomes
  <2>2. Batches!InHand(t) = <<>>
    BY DEF Batches!InHand, Batches!Nothing
  <2>3. Batches!All(t)' = taken'[t] \o (Batches!InHand(t)' \o lined'[t])
    BY AllBecomes
  <2>4. Batches!All(t) = taken[t] \o (Batches!InHand(t) \o lined[t])
    BY AllIs
  <2>5. QED  BY <1>1, <2>1, <2>2, <2>3, <2>4
<1>4. QED  BY <1>2, <1>3

-----------------------------------------------------------------------------
(* What the operations do to what the sessions were given.                   *)

LEMMA ArriveGrows ==
    ASSUME Batchable, QueueInv, NEW m \in PersonaMessages, NEW s \in PersonaSessions, Batches!Arrive(m, s)
    PROVE  QueueTypes' /\ Held' /\ Short' /\ Waiting' /\ AsGiven
<1>1. /\ coming' = coming \cup {[message |-> m, session |-> s]}
      /\ UNCHANGED <<lined, guard, batch, unflushed, running, taken, lost>>
      /\ m \notin Batches!Known
  BY DEF Batches!Arrive
<1>2. QueueTypes' /\ Held' /\ Short'
  BY <1>1 DEF QueueInv, QueueTypes, Held, Short
<1>3. \A t \in PersonaSessions : Batches!All(t)' = Batches!All(t)
  BY <1>1 DEF Batches!All, Batches!InHand
<1>4. \A c \in coming : c.message # m
  BY <1>1 DEF Batches!Known
<1>5. ASSUME NEW t \in PersonaSessions, NEW i \in DOMAIN Batches!All(t) PROVE Batches!All(t)[i] # m
  <2>1. PICK a \in Seq(PersonaMessages), h \in Seq(PersonaMessages), b \in Seq(PersonaMessages) :
          a = taken[t] /\ h = Batches!InHand(t) /\ b = lined[t]
    <3>1. taken[t] \in Seq(PersonaMessages) /\ lined[t] \in Seq(PersonaMessages)
      BY DEF QueueInv, QueueTypes
    <3>2. Batches!InHand(t) \in Seq(PersonaMessages)
      BY AllIs DEF QueueInv
    <3>3. QED  BY <3>1, <3>2
  <2>2. /\ \A j \in DOMAIN a : a[j] # m
        /\ \A j \in DOMAIN b : b[j] # m
    BY <1>1, <2>1 DEF Batches!Known, Batches!Range
  <2>3. \A j \in DOMAIN h : h[j] # m
    <3>1. CASE batch.session = t
      BY <1>1, <2>1, <3>1 DEF Batches!Known, Batches!Range, Batches!InHand
    <3>2. CASE batch.session # t
      BY <2>1, <3>2 DEF Batches!InHand
    <3>3. QED  BY <3>1, <3>2
  <2>4. Batches!All(t) = (a \o h) \o b
    BY <2>1 DEF Batches!All
  <2>5. QED  BY <2>2, <2>3, <2>4, NotInParts
<1>6. Waiting'
  <2>1. \A c \in coming' : c \in coming \/ (c.message = m /\ c = [message |-> m, session |-> s])
    BY <1>1
  <2>2. /\ \A c, d \in coming' : c.message = d.message => c = d
        /\ \A c \in coming' : c.message \notin lost
    BY <1>1, <1>4, <2>1 DEF QueueInv, Waiting, Batches!Known
  <2>3. \A c \in coming', t \in PersonaSessions : \A i \in DOMAIN Batches!All(t) : Batches!All(t)[i] # c.message
    BY <1>5, <2>1 DEF QueueInv, Waiting
  <2>4. QED  BY <1>1, <1>3, <2>2, <2>3 DEF Waiting
<1>7. QED  BY <1>1, <1>2, <1>3, <1>6 DEF AsGiven

LEMMA AddGrows ==
    ASSUME Batchable, QueueInv, NEW c \in coming, Batches!AddMessage(c)
    PROVE  /\ QueueTypes' /\ Held' /\ Short' /\ coming' = coming \ {c} /\ lost' = lost
           /\ \A t \in PersonaSessions :
                Batches!All(t)' = IF t = c.session THEN Append(Batches!All(t), c.message) ELSE Batches!All(t)
<1>1. PICK m \in PersonaMessages, s \in PersonaSessions : c.message = m /\ c.session = s
  BY DEF QueueInv, QueueTypes
<1>2. guard = Batches!Nobody /\ batch = Batches!Nothing /\ unflushed = {}
  BY DEF Batches!AddMessage, QueueInv, Held, Batches!Nobody
<1>3. PICK q : q = Append(lined[s], m)
  OBVIOUS
<1>4. /\ coming' = coming \ {c} /\ UNCHANGED <<unflushed, running, taken, lost>>
      /\ \/ Batches!ProcessQueue(q, s) /\ guard' = m
         \/ ~(Len(q) >= PersonaThreshold) /\ lined' = [lined EXCEPT ![s] = q] /\ UNCHANGED <<guard, batch>>
  BY <1>1, <1>3 DEF Batches!AddMessage
<1>5. /\ lined[s] \in Seq(PersonaMessages) /\ q \in Seq(PersonaMessages) /\ Len(q) = Len(lined[s]) + 1
      /\ Len(q) <= PersonaThreshold
  BY <1>3 DEF QueueInv, QueueTypes, Short, Batchable
<1>6. lined \in [PersonaSessions -> Seq(PersonaMessages)] /\ taken \in [PersonaSessions -> Seq(PersonaMessages)]
  BY DEF QueueInv, QueueTypes
<1>7. Append(Batches!All(s), m) = taken[s] \o q
  <2>1. PICK a \in Seq(PersonaMessages), b \in Seq(PersonaMessages) : a = taken[s] /\ b = lined[s]
    <3>1. taken[s] \in Seq(PersonaMessages) /\ lined[s] \in Seq(PersonaMessages)
      BY <1>6
    <3>2. QED  BY <3>1
  <2>2. Batches!All(s) = a \o b
    BY <1>2, <2>1, AllIs DEF QueueInv
  <2>3. Append(a \o b, m) = a \o Append(b, m)
    <3>1. PICK d \in Seq(PersonaMessages) : d = a \o b
      BY ConcatProperties
    <3>2. PICK e : e = <<m>>
      OBVIOUS
    <3>3. e \in Seq(PersonaMessages)
      BY <3>2
    <3>4. Append(d, m) = d \o e
      BY <3>2, AppendIsConcat
    <3>5. Append(b, m) = b \o e
      BY <3>2, AppendIsConcat
    <3>6. (a \o b) \o e = a \o (b \o e)
      BY <3>3, ConcatAssociative
    <3>7. QED  BY <3>1, <3>4, <3>5, <3>6
  <2>4. QED  BY <1>3, <2>1, <2>2, <2>3
<1>8. CASE Batches!ProcessQueue(q, s) /\ guard' = m
  <2>1. /\ batch' \in [session : PersonaSessions, messages : Seq(PersonaMessages)]
        /\ lined' \in [PersonaSessions -> Seq(PersonaMessages)] /\ Len(lined'[s]) < PersonaThreshold
        /\ \A t \in PersonaSessions \ {s} : lined'[t] = lined[t]
    BY <1>5, <1>8, QueueProcessed DEF QueueInv
  <2>2. QueueTypes'
    BY <1>4, <2>1 DEF QueueInv, QueueTypes
  <2>3. m # Batches!Nobody /\ m # "flush"
    BY DEF Batchable
  <2>4. Held'
    BY <1>2, <1>4, <1>8, <2>3 DEF Held
  <2>5. Short'
    BY <2>1 DEF QueueInv, Short
  <2>6. /\ Batches!All(s)' = taken[s] \o q
        /\ \A t \in PersonaSessions \ {s} : Batches!All(t)' = Batches!All(t)
    BY <1>2, <1>4, <1>5, <1>8, <2>2, ProcessedGrows DEF QueueInv
  <2>7. QED  BY <1>1, <1>4, <1>7, <2>2, <2>4, <2>5, <2>6
<1>9. CASE ~(Len(q) >= PersonaThreshold) /\ lined' = [lined EXCEPT ![s] = q] /\ UNCHANGED <<guard, batch>>
  <2>1. /\ lined' \in [PersonaSessions -> Seq(PersonaMessages)] /\ lined'[s] = q
        /\ \A t \in PersonaSessions \ {s} : lined'[t] = lined[t]
    BY <1>5, <1>6, <1>9
  <2>2. QueueTypes' /\ Held'
    BY <1>4, <1>9, <2>1 DEF QueueInv, QueueTypes, Held
  <2>3. Len(q) < PersonaThreshold
    BY <1>5, <1>9 DEF Batchable
  <2>4. Short'
    BY <2>1, <2>3 DEF QueueInv, Short
  <2>5. ASSUME NEW t \in PersonaSessions PROVE Batches!All(t)' = taken[t] \o lined'[t]
    BY <1>2, <1>4, <1>9, <2>2, AllBecomes
  <2>6. ASSUME NEW t \in PersonaSessions PROVE Batches!All(t) = taken[t] \o lined[t]
    BY <1>2, AllIs DEF QueueInv
  <2>7. Batches!All(s)' = Append(Batches!All(s), m)
    BY <1>7, <2>1, <2>5
  <2>8. ASSUME NEW t \in PersonaSessions, t # s PROVE Batches!All(t)' = Batches!All(t)
    BY <2>1, <2>5, <2>6, <2>8
  <2>9. QED  BY <1>1, <1>4, <2>2, <2>4, <2>7, <2>8
<1>10. QED  BY <1>4, <1>8, <1>9

LEMMA ExtractGrows ==
    ASSUME Batchable, QueueInv, Batches!ExtractEnds
    PROVE  QueueTypes' /\ Held' /\ Short' /\ coming' = coming /\ AsGiven
<1>1. /\ batch # Batches!Nothing /\ batch' = Batches!Nothing
      /\ taken' = [taken EXCEPT ![batch.session] = @ \o batch.messages]
      /\ guard' = (IF unflushed = {} THEN Batches!Nobody ELSE guard)
      /\ UNCHANGED <<coming, lined, unflushed, running, lost>>
  BY DEF Batches!ExtractEnds
<1>2. PICK s \in PersonaSessions, h \in Seq(PersonaMessages) : batch.session = s /\ batch.messages = h
  BY <1>1 DEF QueueInv, QueueTypes
<1>3. PICK a \in Seq(PersonaMessages) : a = taken[s]
  BY DEF QueueInv, QueueTypes
<1>4. a \o h \in Seq(PersonaMessages)
  BY ConcatProperties
<1>5. /\ taken' \in [PersonaSessions -> Seq(PersonaMessages)] /\ taken'[s] = a \o h
      /\ \A t \in PersonaSessions \ {s} : taken'[t] = taken[t]
  BY <1>1, <1>2, <1>3, <1>4 DEF QueueInv, QueueTypes
<1>6. QueueTypes' /\ Short'
  BY <1>1, <1>5 DEF QueueInv, QueueTypes, Short
<1>7. Held'
  BY <1>1 DEF QueueInv, Held
<1>8. ASSUME NEW t \in PersonaSessions PROVE Batches!All(t)' = Batches!All(t)
  <2>1. Batches!All(t)' = taken'[t] \o lined[t]
    BY <1>1, <1>6, AllBecomes
  <2>2. CASE t = s
    <3>1. Batches!InHand(s) = h
      BY <1>2 DEF Batches!InHand
    <3>2. Batches!All(s) = (a \o h) \o lined[s]
      BY <1>3, <3>1 DEF Batches!All
    <3>3. QED  BY <1>5, <2>1, <2>2, <3>2
  <2>3. CASE t # s
    <3>1. Batches!InHand(t) = <<>>
      BY <1>2, <2>3 DEF Batches!InHand
    <3>2. taken[t] \in Seq(PersonaMessages)
      BY DEF QueueInv, QueueTypes
    <3>3. taken[t] \o <<>> = taken[t]
      BY <3>2, ConcatEmptySeq
    <3>4. Batches!All(t) = taken[t] \o lined[t]
      BY <3>1, <3>3 DEF Batches!All
    <3>5. QED  BY <1>5, <2>1, <2>3, <3>4
  <2>4. QED  BY <2>2, <2>3
<1>9. QED  BY <1>1, <1>6, <1>7, <1>8 DEF AsGiven

LEMMA FlushGrows ==
    ASSUME Batchable, QueueInv, NEW stops \in BOOLEAN, Batches!FlushBegins(stops)
    PROVE  QueueTypes' /\ Held' /\ Short' /\ coming' = coming /\ AsGiven
<1>1. /\ unflushed' = Batches!NonEmpty /\ UNCHANGED <<coming, lined, batch, taken, lost>>
      /\ guard = Batches!Nobody /\ guard' = (IF unflushed' = {} THEN Batches!Nobody ELSE "flush")
  BY DEF Batches!FlushBegins
<1>2. unflushed' \subseteq PersonaSessions
  BY <1>1 DEF Batches!NonEmpty
<1>3. QueueTypes' /\ Short'
  BY <1>1, <1>2 DEF QueueInv, QueueTypes, Short
<1>4. Held'
  BY <1>1 DEF QueueInv, Held
<1>5. \A t \in PersonaSessions : Batches!All(t)' = Batches!All(t)
  BY <1>1 DEF Batches!All, Batches!InHand
<1>6. QED  BY <1>1, <1>3, <1>4, <1>5 DEF AsGiven

LEMMA FlushNextGrows ==
    ASSUME Batchable, QueueInv, NEW s \in PersonaSessions, Batches!FlushNext(s)
    PROVE  QueueTypes' /\ Held' /\ Short' /\ coming' = coming /\ AsGiven
<1>1. PICK q : q = lined[s]
  OBVIOUS
<1>2. /\ guard = "flush" /\ batch = Batches!Nothing /\ unflushed' = unflushed \ {s}
      /\ Batches!ProcessQueue(q, s) /\ UNCHANGED <<coming, guard, running, taken, lost>>
  BY <1>1 DEF Batches!FlushNext
<1>3. q \in Seq(PersonaMessages) /\ Len(q) <= PersonaThreshold
  BY <1>1 DEF QueueInv, QueueTypes, Short, Batchable
<1>4. /\ batch' \in [session : PersonaSessions, messages : Seq(PersonaMessages)]
      /\ lined' \in [PersonaSessions -> Seq(PersonaMessages)] /\ Len(lined'[s]) < PersonaThreshold
      /\ \A t \in PersonaSessions \ {s} : lined'[t] = lined[t]
  BY <1>2, <1>3, QueueProcessed DEF QueueInv
<1>5. QueueTypes' /\ Short'
  BY <1>2, <1>4 DEF QueueInv, QueueTypes, Short
<1>6. Held'
  BY <1>2 DEF Held, Batches!Nobody
<1>7. /\ Batches!All(s)' = taken[s] \o q
      /\ \A t \in PersonaSessions \ {s} : Batches!All(t)' = Batches!All(t)
  BY <1>2, <1>3, <1>5, ProcessedGrows DEF QueueInv
<1>8. Batches!All(s) = taken[s] \o q
  BY <1>1, <1>2, AllIs DEF QueueInv
<1>9. QED  BY <1>2, <1>5, <1>6, <1>7, <1>8 DEF AsGiven

\* What the parts of a sequence hold, the whole does.
LEMMA PartsOf ==
    ASSUME NEW S, NEW a \in Seq(S), NEW b \in Seq(S)
    PROVE  /\ \A i \in DOMAIN a : i \in DOMAIN (a \o b) /\ (a \o b)[i] = a[i]
           /\ \A j \in DOMAIN b : Len(a) + j \in DOMAIN (a \o b) /\ (a \o b)[Len(a) + j] = b[j] /\ Len(a) + j \notin DOMAIN a
<1>1. PICK w \in Seq(S) : w = a \o b
  BY ConcatProperties
<1>2. Len(w) = Len(a) + Len(b) /\ \A i \in 1..(Len(a) + Len(b)) : w[i] = IF i <= Len(a) THEN a[i] ELSE b[i - Len(a)]
  BY <1>1, ConcatProperties
<1>3. PICK m \in Nat, n \in Nat : m = Len(a) /\ n = Len(b) /\ DOMAIN a = 1..m /\ DOMAIN b = 1..n
  BY LenProperties
<1>4. DOMAIN w = 1..(m + n) /\ \A i \in 1..(m + n) : w[i] = IF i <= m THEN a[i] ELSE b[i - m]
  BY <1>1, <1>2, <1>3, LenProperties
<1>5. \A i \in DOMAIN a : i \in DOMAIN w /\ w[i] = a[i]
  BY <1>3, <1>4
<1>6. ASSUME NEW j \in DOMAIN b PROVE Len(a) + j \in DOMAIN w /\ w[Len(a) + j] = b[j] /\ Len(a) + j \notin DOMAIN a
  <2>1. j \in 1..n /\ m + j \in 1..(m + n) /\ ~(m + j <= m) /\ (m + j) - m = j
    BY <1>3
  <2>2. w[m + j] = b[j]
    BY <1>4, <2>1
  <2>3. QED  BY <1>3, <1>4, <2>1, <2>2
<1>7. QED  BY <1>1, <1>5, <1>6

\* After a restart a session is left what was extracted, and the rest is lost.
LEMMA RestartShrinks ==
    ASSUME Batchable, QueueInv, Batches!Restart
    PROVE  QueueInv' /\ \A s \in PersonaSessions : Batches!Discarded(s)
<1>1. /\ guard = Batches!Nobody /\ coming' = {} /\ UNCHANGED <<guard, batch, unflushed, taken>>
      /\ lined' = [s \in PersonaSessions |-> <<>>]
      /\ lost' = lost \cup {c.message : c \in coming} \cup UNION {Batches!Range(lined[s]) : s \in PersonaSessions}
  BY DEF Batches!Restart
<1>2. batch = Batches!Nothing
  BY <1>1 DEF QueueInv, Held
<1>3. <<>> \in Seq(PersonaMessages) /\ Len(<<>>) = 0
  BY EmptySeq
<1>4. QueueTypes' /\ Held' /\ Short' /\ Waiting'
  BY <1>1, <1>3 DEF QueueInv, QueueTypes, Held, Short, Waiting, Batchable
<1>5. ASSUME NEW s \in PersonaSessions PROVE Batches!All(s)' = taken[s]
  <2>1. Batches!All(s)' = taken'[s] \o lined'[s]
    BY <1>1, <1>2, <1>4, AllBecomes
  <2>2. PICK b \in Seq(PersonaMessages) : b = taken[s]
    BY DEF QueueInv, QueueTypes
  <2>3. b \o <<>> = b
    BY ConcatEmptySeq
  <2>4. QED  BY <1>1, <2>1, <2>2, <2>3
<1>6. ASSUME NEW s \in PersonaSessions
      PROVE  /\ \A i \in DOMAIN taken[s] : i \in DOMAIN Batches!All(s) /\ Batches!All(s)[i] = taken[s][i]
             /\ \A x \in Batches!Range(lined[s]) :
                  \E k \in DOMAIN Batches!All(s) : Batches!All(s)[k] = x /\ k \notin DOMAIN taken[s]
  <2>1. PICK a \in Seq(PersonaMessages), b \in Seq(PersonaMessages) : a = taken[s] /\ b = lined[s]
    <3>1. taken[s] \in Seq(PersonaMessages) /\ lined[s] \in Seq(PersonaMessages)
      BY DEF QueueInv, QueueTypes
    <3>2. QED  BY <3>1
  <2>2. Batches!All(s) = a \o b
    BY <1>2, <2>1, AllIs DEF QueueInv
  <2>3. /\ \A i \in DOMAIN a : i \in DOMAIN (a \o b) /\ (a \o b)[i] = a[i]
        /\ \A j \in DOMAIN b : Len(a) + j \in DOMAIN (a \o b) /\ (a \o b)[Len(a) + j] = b[j] /\ Len(a) + j \notin DOMAIN a
    BY PartsOf
  <2>4. ASSUME NEW x \in Batches!Range(lined[s]) PROVE \E k \in DOMAIN (a \o b) : (a \o b)[k] = x /\ k \notin DOMAIN a
    <3>1. PICK j \in DOMAIN b : b[j] = x
      BY <2>1 DEF Batches!Range
    <3>2. QED  BY <2>3, <3>1
  <2>5. QED  BY <2>1, <2>2, <2>3, <2>4
<1>7. ASSUME NEW s \in PersonaSessions, NEW i \in DOMAIN taken[s]
      PROVE  /\ taken[s][i] \notin lost'
             /\ \A j \in DOMAIN taken[s] : taken[s][j] = taken[s][i] => j = i
             /\ \A t \in PersonaSessions \ {s} : taken[s][i] \notin Batches!Range(taken[t])
  <2>1. PICK x : x = taken[s][i] /\ i \in DOMAIN Batches!All(s) /\ Batches!All(s)[i] = x
    BY <1>6
  <2>2. x \notin lost /\ x \in Batches!Range(Batches!All(s))
    BY <2>1 DEF QueueInv, Batches!EachOnce, Batches!Range
  <2>3. \A c \in coming : c.message # x
    BY <2>1 DEF QueueInv, Waiting
  <2>4. \A t \in PersonaSessions \ {s} : x \notin Batches!Range(Batches!All(t))
    BY <2>2 DEF QueueInv, Batches!EachOnce
  <2>5. ASSUME NEW t \in PersonaSessions, x \in Batches!Range(lined[t]) PROVE FALSE
    <3>1. PICK k \in DOMAIN Batches!All(t) : Batches!All(t)[k] = x /\ k \notin DOMAIN taken[t]
      BY <1>6, <2>5
    <3>2. t = s
      BY <2>4, <3>1 DEF Batches!Range
    <3>3. k = i
      BY <2>1, <3>1, <3>2 DEF QueueInv, Batches!EachOnce, Batches!IsInjective
    <3>4. QED  BY <3>1, <3>2, <3>3
  <2>6. x \notin lost'
    BY <1>1, <2>2, <2>3, <2>5
  <2>7. ASSUME NEW j \in DOMAIN taken[s], taken[s][j] = x PROVE j = i
    <3>1. j \in DOMAIN Batches!All(s) /\ Batches!All(s)[j] = x
      BY <1>6, <2>7
    <3>2. QED  BY <2>1, <3>1 DEF QueueInv, Batches!EachOnce, Batches!IsInjective
  <2>8. ASSUME NEW t \in PersonaSessions \ {s}, x \in Batches!Range(taken[t]) PROVE FALSE
    <3>1. PICK j \in DOMAIN taken[t] : taken[t][j] = x
      BY <2>8 DEF Batches!Range
    <3>2. x \in Batches!Range(Batches!All(t))
      BY <1>6, <3>1 DEF Batches!Range
    <3>3. QED  BY <2>4, <3>2
  <2>9. QED  BY <2>1, <2>6, <2>7, <2>8
<1>8. Batches!EachOnce'
  <2>1. ASSUME NEW s \in PersonaSessions
        PROVE  Batches!IsInjective(taken[s]) /\ Batches!Range(taken[s]) \cap lost' = {}
    BY <1>7 DEF Batches!IsInjective, Batches!Range
  <2>2. ASSUME NEW s \in PersonaSessions, NEW t \in PersonaSessions, s # t
        PROVE  Batches!Range(taken[s]) \cap Batches!Range(taken[t]) = {}
    BY <1>7, <2>2 DEF Batches!Range
  <2>3. QED  BY <1>5, <2>1, <2>2 DEF Batches!EachOnce, Batches!IsInjective, Batches!Range
<1>9. \A s \in PersonaSessions : Batches!Discarded(s)
  BY <1>1 DEF Batches!Discarded
<1>10. QED  BY <1>4, <1>8, <1>9 DEF QueueInv

-----------------------------------------------------------------------------
\* Every step but a restart leaves each session what it was given or adds to it one
\* message that waited.
LEMMA BatchGrows ==
    ASSUME Batchable, QueueInv, [Batches!Next]_(Batches!vars), ~Batches!Restart
    PROVE  /\ QueueTypes' /\ Held' /\ Short' /\ lost' = lost
           /\ \/ Waiting' /\ AsGiven
              \/ \E c \in coming :
                   /\ coming' = coming \ {c}
                   /\ \A t \in PersonaSessions :
                        Batches!All(t)' = IF t = c.session THEN Append(Batches!All(t), c.message) ELSE Batches!All(t)
<1>0. ASSUME coming' = coming, AsGiven PROVE Waiting' /\ lost' = lost
  BY <1>0 DEF QueueInv, Waiting, AsGiven
<1>1. CASE \E m \in PersonaMessages, s \in PersonaSessions : Batches!Arrive(m, s)
  BY <1>1, ArriveGrows DEF AsGiven
<1>2. CASE \E c \in coming : Batches!AddMessage(c)
  BY <1>2, AddGrows
<1>3. CASE Batches!ExtractEnds
  BY <1>0, <1>3, ExtractGrows
<1>4. CASE Batches!Stop \/ Batches!Flush
  BY <1>0, <1>4, FlushGrows DEF Batches!Stop, Batches!Flush
<1>6. CASE \E s \in PersonaSessions : Batches!FlushNext(s)
  BY <1>0, <1>6, FlushNextGrows
<1>7. CASE UNCHANGED Batches!vars
  <2>1. UNCHANGED <<coming, lined, guard, batch, unflushed, running, taken, lost>>
    BY <1>7 DEF Batches!vars
  <2>2. QueueTypes' /\ Held' /\ Short'
    BY <2>1 DEF QueueInv, QueueTypes, Held, Short
  <2>3. AsGiven
    BY <2>1 DEF Batches!All, Batches!InHand, AsGiven
  <2>4. QED  BY <1>0, <2>1, <2>2, <2>3
<1>8. QED  BY <1>1, <1>2, <1>3, <1>4, <1>6, <1>7 DEF Batches!Next

\* A sequence that is left or grows by one element has its former self as a prefix, and a
\* new element leaves it without repetition.
LEMMA PrefixKept ==
    ASSUME NEW S, NEW s \in Seq(S), NEW x \in S
    PROVE  Batches!IsPrefix(s, s) /\ Batches!IsPrefix(s, Append(s, x))
<1>1. PICK r \in Seq(S) : r = Append(s, x) /\ Len(r) = Len(s) + 1 /\ \A i \in 1..Len(s) : r[i] = s[i]
  <2>1. Append(s, x) \in Seq(S) /\ Len(Append(s, x)) = Len(s) + 1 /\ \A i \in 1..Len(s) : Append(s, x)[i] = s[i]
    BY AppendProperties
  <2>2. QED  BY <2>1, Zenon
<1>2. Len(s) \in Nat /\ \A i \in 1..Len(s) : s[i] \in S
  BY ElementOfSeq
<1>3. /\ SubSeq(s, 1, Len(s)) \in Seq(S) /\ Len(SubSeq(s, 1, Len(s))) = Len(s)
      /\ \A i \in 1..Len(s) : SubSeq(s, 1, Len(s))[i] = s[i]
  BY <1>2, SubSeqProperties
<1>4. /\ SubSeq(r, 1, Len(s)) \in Seq(S) /\ Len(SubSeq(r, 1, Len(s))) = Len(s)
      /\ \A i \in 1..Len(s) : SubSeq(r, 1, Len(s))[i] = r[i]
  BY <1>1, <1>2, SubSeqProperties
<1>5. SubSeq(s, 1, Len(s)) = SubSeq(r, 1, Len(s))
  BY <1>1, <1>3, <1>4, SeqEqual
<1>6. QED  BY <1>1, <1>2, <1>5 DEF Batches!IsPrefix

LEMMA InjectiveKept ==
    ASSUME NEW S, NEW s \in Seq(S), NEW x \in S, Batches!IsInjective(s), \A i \in DOMAIN s : s[i] # x
    PROVE  Batches!IsInjective(Append(s, x))
<1>1. PICK r \in Seq(S) : r = Append(s, x) /\ Len(r) = Len(s) + 1 /\ r[Len(s) + 1] = x /\ \A i \in 1..Len(s) : r[i] = s[i]
  <2>1. /\ Append(s, x) \in Seq(S) /\ Len(Append(s, x)) = Len(s) + 1 /\ Append(s, x)[Len(s) + 1] = x
        /\ \A i \in 1..Len(s) : Append(s, x)[i] = s[i]
    BY AppendProperties
  <2>2. QED  BY <2>1, Zenon
<1>2. Len(s) \in Nat /\ DOMAIN s = 1..Len(s) /\ DOMAIN r = 1..(Len(s) + 1)
  BY <1>1, LenProperties
<1>3. ASSUME NEW i \in DOMAIN r, NEW j \in DOMAIN r, r[i] = r[j] PROVE i = j
  <2>1. i \in DOMAIN s \/ i = Len(s) + 1
    BY <1>2
  <2>2. j \in DOMAIN s \/ j = Len(s) + 1
    BY <1>2
  <2>3. CASE i \in DOMAIN s /\ j \in DOMAIN s
    BY <1>1, <1>2, <1>3, <2>3 DEF Batches!IsInjective
  <2>4. CASE i \in DOMAIN s /\ j = Len(s) + 1
    BY <1>1, <1>2, <1>3, <2>4
  <2>5. CASE i = Len(s) + 1 /\ j \in DOMAIN s
    BY <1>1, <1>2, <1>3, <2>5
  <2>6. QED  BY <2>1, <2>2, <2>3, <2>4, <2>5
<1>4. QED  BY <1>1, <1>3 DEF Batches!IsInjective

LEMMA BatchKeeps ==
    ASSUME Batchable, QueueInv, [Batches!Next]_(Batches!vars)
    PROVE  /\ QueueInv' /\ (lost' # lost => Batches!Restart)
           /\ \A s \in PersonaSessions :
                Batches!IsPrefix(Batches!All(s), Batches!All(s)') \/ (Batches!Restart /\ Batches!Discarded(s))
<1>0. CASE Batches!Restart
  BY <1>0, RestartShrinks
<1> SUFFICES ASSUME ~Batches!Restart
             PROVE  /\ QueueInv' /\ lost' = lost
                    /\ \A s \in PersonaSessions : Batches!IsPrefix(Batches!All(s), Batches!All(s)')
  BY <1>0
<1>1. QueueTypes' /\ Held' /\ Short' /\ lost' = lost
  BY BatchGrows
<1>2. \A s \in PersonaSessions : Batches!All(s) \in Seq(PersonaMessages)
  BY AllIs DEF QueueInv
<1>3. CASE Waiting' /\ AsGiven
  <2>1. Batches!EachOnce'
    BY <1>3 DEF QueueInv, Batches!EachOnce, Batches!IsInjective, Batches!Range, AsGiven
  <2>2. ASSUME NEW s \in PersonaSessions PROVE Batches!IsPrefix(Batches!All(s), Batches!All(s)')
    <3>1. PICK q \in Seq(PersonaMessages) : q = Batches!All(s)
      BY <1>2
    <3>2. q = SubSeq(q, 1, Len(q)) /\ Len(q) \in Nat
      BY SubSeqFull
    <3>3. Batches!IsPrefix(q, q)
      BY <3>2 DEF Batches!IsPrefix
    <3>4. QED  BY <1>3, <3>1, <3>3 DEF AsGiven
  <2>3. QED  BY <1>1, <1>3, <2>1, <2>2 DEF QueueInv
<1>4. ASSUME NEW c \in coming, coming' = coming \ {c},
             \A t \in PersonaSessions :
               Batches!All(t)' = IF t = c.session THEN Append(Batches!All(t), c.message) ELSE Batches!All(t)
      PROVE  QueueInv' /\ \A s \in PersonaSessions : Batches!IsPrefix(Batches!All(s), Batches!All(s)')
  <2>1. PICK m \in PersonaMessages, s \in PersonaSessions : c.message = m /\ c.session = s
    BY DEF QueueInv, QueueTypes
  <2>2. PICK q \in Seq(PersonaMessages) : q = Batches!All(s)
    BY <1>2
  <2>3. \A i \in DOMAIN q : q[i] # m
    BY <2>1, <2>2 DEF QueueInv, Waiting
  <2>4. Batches!IsInjective(q)
    BY <2>2 DEF QueueInv, Batches!EachOnce
  <2>5. PICK r : r = Append(q, m)
    OBVIOUS
  <2>6. Batches!All(s)' = r /\ \A t \in PersonaSessions \ {s} : Batches!All(t)' = Batches!All(t)
    BY <1>4, <2>1, <2>2, <2>5
  <2>7. Batches!IsInjective(r)
    BY <2>3, <2>4, <2>5, InjectiveKept
  <2>9. \A i \in DOMAIN r : r[i] = m \/ \E j \in DOMAIN q : r[i] = q[j]
    <3>1. /\ r \in Seq(PersonaMessages) /\ Len(r) = Len(q) + 1 /\ r[Len(q) + 1] = m
          /\ \A i \in 1..Len(q) : r[i] = q[i]
      BY <2>5, AppendProperties
    <3>2. Len(q) \in Nat /\ DOMAIN q = 1..Len(q) /\ DOMAIN r = 1..(Len(q) + 1)
      BY <3>1, LenProperties
    <3>3. \A i \in DOMAIN r : i \in DOMAIN q \/ i = Len(q) + 1
      BY <3>2
    <3>4. QED  BY <3>1, <3>2, <3>3
  <2>8. Batches!EachOnce'
    <3>1. m \notin lost /\ \A t \in PersonaSessions : \A i \in DOMAIN Batches!All(t) : Batches!All(t)[i] # m
      BY <2>1 DEF QueueInv, Waiting
    <3>2. /\ Batches!Range(q) \cap lost = {}
          /\ \A t \in PersonaSessions \ {s} : Batches!Range(q) \cap Batches!Range(Batches!All(t)) = {}
      BY <2>2 DEF QueueInv, Batches!EachOnce
    <3>3. \A x \in Batches!Range(r) : x = m \/ x \in Batches!Range(q)
      BY <2>9 DEF Batches!Range
    <3>4. /\ Batches!Range(r) \cap lost = {}
          /\ \A t \in PersonaSessions \ {s} : Batches!Range(r) \cap Batches!Range(Batches!All(t)) = {}
      BY <3>1, <3>2, <3>3 DEF Batches!Range
    <3>5. /\ \A t \in PersonaSessions \ {s} :
               Batches!IsInjective(Batches!All(t)) /\ Batches!Range(Batches!All(t)) \cap lost = {}
          /\ \A t, u \in PersonaSessions \ {s} :
               t # u => Batches!Range(Batches!All(t)) \cap Batches!Range(Batches!All(u)) = {}
      BY DEF QueueInv, Batches!EachOnce
    <3>6. ASSUME NEW t \in PersonaSessions
          PROVE  Batches!IsInjective(Batches!All(t)') /\ Batches!Range(Batches!All(t)') \cap lost = {}
      <4>1. CASE t = s
        BY <2>6, <2>7, <3>4, <4>1
      <4>2. CASE t # s
        BY <2>6, <3>5, <4>2
      <4>3. QED  BY <4>1, <4>2
    <3>7. ASSUME NEW t \in PersonaSessions, NEW u \in PersonaSessions, t # u
          PROVE  Batches!Range(Batches!All(t)') \cap Batches!Range(Batches!All(u)') = {}
      <4>1. CASE t = s
        BY <2>6, <3>4, <3>7, <4>1
      <4>2. CASE u = s
        BY <2>6, <3>4, <3>7, <4>2
      <4>3. CASE t # s /\ u # s
        BY <2>6, <3>5, <3>7, <4>3
      <4>4. QED  BY <4>1, <4>2, <4>3
    <3>8. QED  BY <1>1, <3>6, <3>7 DEF Batches!EachOnce, Batches!IsInjective, Batches!Range
  <2>10. Waiting'
    <3>1. \A d \in coming' : d \in coming /\ d.message # m /\ d.message \notin lost'
      BY <1>1, <1>4, <2>1 DEF QueueInv, Waiting
    <3>2. \A d \in coming', t \in PersonaSessions : \A i \in DOMAIN Batches!All(t)' : Batches!All(t)'[i] # d.message
      <4> SUFFICES ASSUME NEW d \in coming', NEW t \in PersonaSessions, NEW i \in DOMAIN Batches!All(t)'
                   PROVE  Batches!All(t)'[i] # d.message
        OBVIOUS
      <4>1. CASE t = s
        BY <2>2, <2>6, <2>9, <3>1, <4>1 DEF QueueInv, Waiting
      <4>2. CASE t # s
        BY <2>6, <3>1, <4>2 DEF QueueInv, Waiting
      <4>3. QED  BY <4>1, <4>2
    <3>3. \A d, e \in coming' : d.message = e.message => d = e
      BY <3>1 DEF QueueInv, Waiting
    <3>4. QED  BY <3>1, <3>2, <3>3 DEF Waiting
  <2>11. QueueInv'
    BY <1>1, <2>8, <2>10 DEF QueueInv
  <2>12. ASSUME NEW t \in PersonaSessions PROVE Batches!IsPrefix(Batches!All(t), Batches!All(t)')
    <3>1. PICK p \in Seq(PersonaMessages) : p = Batches!All(t)
      BY <1>2
    <3>2. Batches!IsPrefix(p, p) /\ Batches!IsPrefix(p, Append(p, m))
      BY PrefixKept
    <3>3. CASE t = s
      BY <2>2, <2>5, <2>6, <3>1, <3>2, <3>3
    <3>4. CASE t # s
      BY <2>6, <3>1, <3>2, <3>4
    <3>5. QED  BY <3>3, <3>4
  <2>13. QED  BY <2>11, <2>12
<1>5. QED  BY <1>1, <1>3, <1>4, BatchGrows

LEMMA BatchStarts == Batchable /\ Batches!Init => QueueInv
<1> SUFFICES ASSUME Batchable, Batches!Init PROVE QueueInv
  OBVIOUS
<1>1. /\ coming = {} /\ lined = [s \in PersonaSessions |-> <<>>] /\ batch = Batches!Nothing /\ unflushed = {}
      /\ taken = [s \in PersonaSessions |-> <<>>] /\ lost = {}
  BY DEF Batches!Init
<1>2. <<>> \in Seq(PersonaMessages) /\ Len(<<>>) = 0
  BY EmptySeq
<1>3. QueueTypes /\ Held /\ Short
  BY <1>1, <1>2 DEF QueueTypes, Held, Short, Batchable
<1>4. ASSUME NEW s \in PersonaSessions
      PROVE  Batches!IsInjective(Batches!All(s)) /\ Batches!Range(Batches!All(s)) = {}
  <2>1. Batches!All(s) = taken[s] \o lined[s]
    BY <1>1, <1>3, AllIs
  <2>2. PICK e \in Seq(PersonaMessages) : e = <<>> /\ taken[s] = e /\ lined[s] = e /\ Len(e) = 0
    BY <1>1, <1>2
  <2>3. e \o e = e
    BY <2>2, ConcatEmptySeq
  <2>4. DOMAIN e = {}
    BY <2>2
  <2>5. QED  BY <2>1, <2>2, <2>3, <2>4 DEF Batches!IsInjective, Batches!Range
<1>5. Batches!EachOnce /\ Waiting
  BY <1>1, <1>4 DEF Batches!EachOnce, Waiting
<1>6. QED  BY <1>3, <1>5 DEF QueueInv

\* Whatever arrives, is added, flushed, stopped and started again, a message is in one
\* place once, what a restart discarded is not extracted, and no queue reaches its limit.
THEOREM BatchesRight ==
    ASSUME Batchable PROVE Batches!Spec => [](Batches!EachOnce /\ Batches!NeverOverflows)
<1>1. QueueInv => Batches!EachOnce /\ Batches!NeverOverflows
  <2>1. ASSUME QueueInv, NEW s \in PersonaSessions
        PROVE  Len(lined[s]) < PersonaMaxQueue /\ Len(lined[s]) < PersonaThreshold
    <3>1. Len(lined[s]) \in Nat /\ Len(lined[s]) < PersonaThreshold
      BY <2>1 DEF QueueInv, QueueTypes, Short
    <3>2. QED  BY <3>1 DEF Batchable
  <2>2. QED  BY <2>1 DEF QueueInv, Batches!NeverOverflows
<1>2. QueueInv /\ [Batches!Next]_(Batches!vars) => QueueInv'
  BY BatchKeeps
<1>3. Batches!Init => QueueInv
  BY BatchStarts
<1>4. QED  BY <1>1, <1>2, <1>3, PTL DEF Batches!Spec

\* Each session's messages leave its queue for an extraction in the order they were added,
\* but for those a restart discards, which are all that stop left, and then only.
THEOREM BatchesKeepOrder == ASSUME Batchable PROVE Batches!Spec => Batches!BatchesInOrder
<1>1. QueueInv /\ [Batches!Next]_(Batches!vars) =>
        /\ QueueInv' /\ (lost' # lost => ~running /\ running')
        /\ \A s \in PersonaSessions :
             Batches!IsPrefix(Batches!All(s), Batches!All(s)') \/ ((~running /\ running') /\ Batches!Discarded(s))
  <2>1. Batches!Restart => ~running /\ running'
    BY DEF Batches!Restart
  <2>2. QED  BY <2>1, BatchKeeps
<1>2. Batches!Init => QueueInv
  BY BatchStarts
<1>3. QED  BY <1>1, <1>2, PTL DEF Batches!Spec, Batches!BatchesInOrder

-----------------------------------------------------------------------------
(* What is learnt of a user (PersonaProfile).                                *)

Personas == [style : Profile!Said, goals : Seq(TraitWords), triggers : Seq(TraitWords),
             interest : Int, trust : Int, tone : Int]
LoggedFields == {"style", "goals", "triggers", "trust", "tone"}
LoggedValues == Profile!Said \cup Seq(TraitWords) \cup Int \cup {Shortened[w] : w \in TraitWords}
PersonaRecords == [field : LoggedFields, old : LoggedValues, new : LoggedValues]

\* What a field may be given.
Fits(f, v) ==
    \/ f = "style" /\ v \in Profile!Said
    \/ f \in {"goals", "triggers"} /\ v \in TraitWords
    \/ f \in {"trust", "tone"} /\ v \in Int

\* The log l explains the persona p, from the i-th record on.
Leads(p, l, i) ==
    LET later == {j \in DOMAIN l : j > i /\ l[j].field = l[i].field} IN
    /\ \A j \in later : (\A k \in later : j <= k) => l[j].old = l[i].new
    /\ later = {} => l[i].new = Profile!Shown(l[i].field, p[l[i].field])
Explains(p, l) == \A i \in DOMAIN l : l[i].field \in Profile!Logged => Leads(p, l, i)

PersonaRight(st) ==
    /\ st.profile \in Personas /\ st.log \in Seq(PersonaRecords)
    /\ Explains(st.profile, st.log)

\* A record that says what a field was and is.
LEMMA RecordAdded ==
    ASSUME NEW p \in Personas, NEW l \in Seq(PersonaRecords), Explains(p, l),
           NEW f \in LoggedFields, NEW q \in Personas, \A g \in LoggedFields : g # f => q[g] = p[g],
           NEW u \in LoggedValues, u = Profile!Shown(f, p[f]), NEW v \in LoggedValues, v = Profile!Shown(f, q[f]),
           NEW m, m = Append(l, [field |-> f, old |-> u, new |-> v])
    PROVE  m \in Seq(PersonaRecords) /\ Len(m) = Len(l) + 1 /\ Explains(q, m)
<1>1. PICK r : r = [field |-> f, old |-> u, new |-> v]
  OBVIOUS
<1>2. r \in PersonaRecords /\ r.field = f /\ r.old = u /\ r.new = v
  BY <1>1 DEF PersonaRecords
<1>3. PICK n \in Nat : n = Len(l) /\ DOMAIN l = 1 .. n
  BY LenProperties
<1>4. /\ m \in Seq(PersonaRecords) /\ Len(m) = n + 1 /\ m[n + 1] = r
      /\ \A i \in 1 .. n : m[i] = l[i]
  BY <1>1, <1>2, <1>3, AppendProperties
<1>5. DOMAIN m = 1 .. (n + 1)
  BY <1>4, LenProperties
<1>6. ASSUME NEW i \in 1 .. n PROVE l[i].field \in LoggedFields
  <2>1. l[i] \in PersonaRecords
    BY <1>3, ElementOfSeq
  <2>2. QED  BY <2>1 DEF PersonaRecords
<1>7. ASSUME NEW i \in 1 .. (n + 1), m[i].field \in Profile!Logged PROVE Leads(q, m, i)
  <2> DEFINE later == {j \in DOMAIN m : j > i /\ m[j].field = m[i].field}
  <2>1. CASE i = n + 1
    <3>1. later = {}
      BY <1>5, <2>1
    <3>2. m[i].new = Profile!Shown(m[i].field, q[m[i].field])
      BY <1>2, <1>4, <2>1
    <3>3. QED  BY <3>1, <3>2 DEF Leads
  <2>2. CASE i # n + 1 /\ l[i].field # f
    <3>1. i \in 1 .. n /\ m[i] = l[i] /\ l[i].field \in LoggedFields
      BY <1>4, <1>6, <2>2
    <3>2. \A j : j \in later <=> j \in DOMAIN l /\ j > i /\ l[j].field = l[i].field
      BY <1>2, <1>3, <1>4, <1>5, <2>2, <3>1
    <3>3. later = {j \in DOMAIN l : j > i /\ l[j].field = l[i].field}
      BY <3>2
    <3>4. Leads(p, l, i)
      BY <1>3, <1>7, <3>1 DEF Explains
    <3>5. \A j \in later : m[j] = l[j]
      BY <1>3, <1>4, <3>2
    <3>6. m[i].field = l[i].field /\ q[m[i].field] = p[l[i].field]
      BY <2>2, <3>1
    <3> HIDE DEF later
    <3>7. /\ \A j \in later : (\A k \in later : j <= k) => l[j].old = l[i].new
          /\ later = {} => l[i].new = Profile!Shown(l[i].field, p[l[i].field])
      BY <3>3, <3>4 DEF Leads
    <3>8. /\ \A j \in later : (\A k \in later : j <= k) => m[j].old = m[i].new
          /\ later = {} => m[i].new = Profile!Shown(m[i].field, q[m[i].field])
      BY <3>1, <3>5, <3>6, <3>7
    <3>9. QED  BY <3>8 DEF Leads, later
  <2>3. CASE i # n + 1 /\ l[i].field = f
    <3>1. i \in 1 .. n /\ m[i] = l[i]
      BY <1>4, <2>3
    <3> DEFINE before == {j \in DOMAIN l : j > i /\ l[j].field = l[i].field}
    <3>2. \A j : j \in later <=> j \in before \/ j = n + 1
      BY <1>2, <1>3, <1>4, <1>5, <2>3, <3>1
    <3>3. Leads(p, l, i)
      BY <1>3, <1>7, <3>1 DEF Explains
    <3>4. \A j \in before : j \in 1 .. n /\ m[j] = l[j]
      BY <1>3, <1>4
    <3>5. /\ \A j \in before : (\A k \in before : j <= k) => l[j].old = l[i].new
          /\ before = {} => l[i].new = u
      BY <2>3, <3>3 DEF Leads
    <3> HIDE DEF later, before
    <3>6. ASSUME NEW j \in later, \A k \in later : j <= k PROVE m[j].old = m[i].new
      <4>1. CASE before = {}
        BY <1>2, <1>4, <3>1, <3>2, <3>5, <3>6, <4>1
      <4>2. CASE before # {}
        <5>1. PICK k : k \in before
          BY <4>2
        <5>2. j <= k /\ k \in 1 .. n
          BY <3>2, <3>4, <3>6, <5>1
        <5>3. j # n + 1
          BY <1>3, <5>2
        <5>4. j \in before /\ \A h \in before : j <= h
          BY <3>2, <3>6, <5>3
        <5>5. QED  BY <3>1, <3>4, <3>5, <5>4
      <4>3. QED  BY <4>1, <4>2
    <3>7. later # {}
      BY <3>2
    <3>8. QED  BY <3>6, <3>7 DEF Leads, later
  <2>4. QED  BY <2>1, <2>2, <2>3
<1>8. QED  BY <1>3, <1>4, <1>5, <1>7 DEF Explains

\* The newest records of a log that explains a persona explain it.
LEMMA NewestExplain ==
    ASSUME NEW q, NEW m \in Seq(PersonaRecords), Explains(q, m), NEW a \in Nat
    PROVE  Profile!LastOf(m, a) \in Seq(PersonaRecords) /\ Explains(q, Profile!LastOf(m, a))
<1>1. PICK n \in Nat : n = Len(m) /\ DOMAIN m = 1 .. n
  BY LenProperties
<1>2. PICK d \in Nat : d = (IF 1 < n - a + 1 THEN n - a + 1 ELSE 1) - 1 /\ d <= n
  <2>1. CASE a < n
    <3>1. n - a \in Nat /\ n - a = (IF 1 < n - a + 1 THEN n - a + 1 ELSE 1) - 1 /\ n - a <= n
      BY <1>1, <2>1
    <3>2. QED  BY <3>1
  <2>2. CASE ~(a < n)
    <3>1. 0 = (IF 1 < n - a + 1 THEN n - a + 1 ELSE 1) - 1 /\ 0 <= n
      BY <1>1, <2>2
    <3>2. QED  BY <3>1
  <2>3. QED  BY <2>1, <2>2
<1>3. Profile!LastOf(m, a) = SubSeq(m, d + 1, n)
  BY <1>1, <1>2 DEF Profile!LastOf, Profile!Larger
<1>4. \A i \in (d + 1) .. n : m[i] \in PersonaRecords
  BY <1>1, <1>2, ElementOfSeq
<1>5. PICK l : l = SubSeq(m, d + 1, n)
  OBVIOUS
<1>6. l \in Seq(PersonaRecords) /\ Len(l) = n - d /\ \A i \in 1 .. (n - d) : l[i] = m[i + d]
  <2>1. PICK x \in Int, y \in Int : x = d + 1 /\ y = n
    OBVIOUS
  <2>2. /\ SubSeq(m, x, y) \in Seq(PersonaRecords)
        /\ Len(SubSeq(m, x, y)) = IF x <= y THEN y - x + 1 ELSE 0
        /\ \A i \in 1 .. (y - x + 1) : SubSeq(m, x, y)[i] = m[x + i - 1]
    BY <1>4, <2>1, SubSeqProperties
  <2>3. l = SubSeq(m, x, y)
    BY <1>5, <2>1
  <2>4. Len(l) = n - d
    BY <1>2, <2>1, <2>2, <2>3
  <2>5. ASSUME NEW i \in 1 .. (n - d) PROVE l[i] = m[i + d]
    <3>1. i \in 1 .. (y - x + 1) /\ x + i - 1 = i + d
      BY <1>2, <2>1
    <3>2. QED  BY <2>2, <2>3, <3>1
  <2>6. QED  BY <2>2, <2>3, <2>4, <2>5
<1>7. DOMAIN l = 1 .. (n - d)
  BY <1>6, LenProperties
<1>8. ASSUME NEW i \in 1 .. (n - d), l[i].field \in Profile!Logged PROVE Leads(q, l, i)
  <2>1. PICK x \in 1 .. n : x = i + d /\ m[x] = l[i]
    BY <1>2, <1>6
  <2>2. Leads(q, m, x)
    BY <1>1, <1>8, <2>1 DEF Explains
  <2> DEFINE later == {j \in DOMAIN l : j > i /\ l[j].field = l[i].field}
  <2> DEFINE before == {j \in DOMAIN m : j > x /\ m[j].field = m[x].field}
  <2>3. /\ \A j \in before : (\A k \in before : j <= k) => m[j].old = m[x].new
        /\ before = {} => m[x].new = Profile!Shown(m[x].field, q[m[x].field])
    BY <2>2 DEF Leads
  <2>4. ASSUME NEW j \in later PROVE j + d \in before /\ m[j + d] = l[j] /\ j \in Nat
    <3>1. j \in 1 .. (n - d) /\ j > i /\ l[j].field = l[i].field
      BY <1>7
    <3>2. m[j + d] = l[j]
      BY <1>6, <3>1
    <3>5. x = i + d /\ i \in Nat /\ d \in Nat /\ d <= n
      BY <1>2, <2>1
    <3>3. j + d \in 1 .. n /\ j + d > x
      BY <1>1, <3>1, <3>5
    <3>4. QED  BY <1>1, <2>1, <3>1, <3>2, <3>3
  <2>5. ASSUME NEW j \in before PROVE j - d \in later /\ j \in Nat
    <3>5. j \in 1 .. n /\ j > x
      BY <1>1
    <3>6. x = i + d /\ i \in Nat /\ i >= 1 /\ d \in Nat /\ n \in Nat
      BY <1>1, <1>2, <2>1
    <3>1. j - d \in 1 .. (n - d) /\ (j - d) + d = j
      BY <3>5, <3>6
    <3>2. l[j - d] = m[j]
      BY <1>6, <3>1
    <3>3. j - d > i
      BY <1>1, <1>2, <2>1
    <3>4. QED  BY <1>7, <2>1, <3>1, <3>2, <3>3, <3>5
  <2> HIDE DEF later, before
  <2>6. ASSUME NEW j \in later, \A k \in later : j <= k PROVE l[j].old = l[i].new
    <3>1. ASSUME NEW k \in before PROVE j + d <= k
      <4>1. j <= k - d /\ k \in Nat /\ j \in Nat
        BY <2>4, <2>5, <2>6
      <4>2. QED  BY <4>1
    <3>2. m[j + d].old = m[x].new
      BY <2>3, <2>4, <3>1
    <3>3. QED  BY <2>1, <2>4, <3>2
  <2>7. later = {} => l[i].new = Profile!Shown(l[i].field, q[l[i].field])
    BY <2>1, <2>3, <2>5
  <2>8. QED  BY <2>6, <2>7 DEF Leads, later
<1>9. QED  BY <1>3, <1>5, <1>6, <1>7, <1>8 DEF Explains

\* What the log shows of a list and of a word.
LEMMA ListShown ==
    ASSUME MaxShown \in Nat, NEW f \in Profile!Lists, NEW a \in Seq(TraitWords)
    PROVE  Profile!Shown(f, a) \in Seq(TraitWords)
<1>1. PICK n \in Nat : n = (IF Len(a) < MaxShown THEN Len(a) ELSE MaxShown) /\ n <= Len(a)
  OBVIOUS
<1>2. Len(a) \in Nat /\ \A i \in 1 .. Len(a) : a[i] \in TraitWords
  BY ElementOfSeq
<1>3. \A i \in 1 .. n : a[i] \in TraitWords
  BY <1>1, <1>2
<1>4. SubSeq(a, 1, n) \in Seq(TraitWords)
  BY <1>3, SubSeqProperties
<1>5. QED  BY <1>1, <1>4 DEF Profile!Shown

LEMMA WordShown ==
    ASSUME NEW w \in Profile!Said
    PROVE  Profile!Shown("style", w) \in LoggedValues
<1>1. "style" \notin Profile!Lists
  BY DEF Profile!Lists
<1>2. CASE w = Profile!NoWord
  <2>1. Profile!Shown("style", w) = w
    BY <1>1, <1>2 DEF Profile!Shown
  <2>2. QED  BY <2>1, Zenon DEF LoggedValues
<1>3. CASE w # Profile!NoWord
  <2>1. w \in TraitWords
    BY <1>3 DEF Profile!Said
  <2>2. Profile!Shown("style", w) = Shortened[w]
    BY <1>1, <1>3 DEF Profile!Shown
  <2>3. QED  BY <2>1, <2>2, Zenon DEF LoggedValues
<1>4. QED  BY <1>2, <1>3

\* An edit leaves a persona its log explains.
LEMMA ChangeKeeps ==
    ASSUME MaxLog \in Nat, MaxShown \in Nat, NEW st, PersonaRight(st), NEW f \in LoggedFields, NEW v, Fits(f, v)
    PROVE  PersonaRight(Profile!ApplyChange(st, f, v))
<1>1. PICK new : new = IF f \notin Profile!Lists THEN v
                       ELSE IF v \in Profile!Range(st.profile[f]) THEN st.profile[f] ELSE Append(st.profile[f], v)
  OBVIOUS
<1>2. CASE new = st.profile[f]
  <2>1. Profile!ApplyChange(st, f, v) = st
    BY <1>1, <1>2 DEF Profile!ApplyChange
  <2>2. QED  BY <2>1
<1>3. CASE new # st.profile[f]
  <2>1. PICK p : p = st.profile
    OBVIOUS
  <2>2. p \in Personas /\ st.log \in Seq(PersonaRecords) /\ Explains(p, st.log)
    BY <2>1 DEF PersonaRight
  <2>3. PICK q : q = [p EXCEPT ![f] = new]
    OBVIOUS
  <2>11. PICK u, w : u = Profile!Shown(f, p[f]) /\ w = Profile!Shown(f, new)
    OBVIOUS
  <2>4. PICK m : m = Append(st.log, [field |-> f, old |-> u, new |-> w])
    OBVIOUS
  <2>5. Profile!ApplyChange(st, f, v) = [profile |-> q, log |-> Profile!LastOf(m, MaxLog)]
    BY <1>1, <1>3, <2>1, <2>3, <2>4, <2>11, Zenon DEF Profile!ApplyChange
  <2>6. q \in Personas /\ q[f] = new /\ u \in LoggedValues /\ w \in LoggedValues
    <3>1. CASE f \in Profile!Lists
      <4>1. PICK a \in Seq(TraitWords) : a = p[f]
        BY <2>2, <3>1 DEF Personas, Profile!Lists
      <4>2. v \in TraitWords
        BY <3>1 DEF Fits, Profile!Lists
      <4>3. PICK b \in Seq(TraitWords) : b = new
        <5>1. Append(a, v) \in Seq(TraitWords)
          BY <4>2, AppendProperties
        <5>2. new = a \/ new = Append(a, v)
          BY <1>1, <2>1, <3>1, <4>1
        <5>3. QED  BY <5>1, <5>2
      <4>4. q \in Personas /\ q[f] = new
        BY <2>2, <2>3, <3>1, <4>3 DEF Personas, Profile!Lists
      <4>5. Profile!Shown(f, a) \in Seq(TraitWords) /\ Profile!Shown(f, b) \in Seq(TraitWords)
        BY <3>1, ListShown
      <4>6. QED  BY <2>11, <4>1, <4>3, <4>4, <4>5, Zenon DEF LoggedValues
    <3>2. CASE f \notin Profile!Lists
      <4>1. new = v
        BY <1>1, <3>2
      <4>2. q \in Personas /\ q[f] = new
        BY <2>2, <2>3, <3>2, <4>1 DEF Personas, Profile!Lists, Fits
      <4>3. \/ f = "style" /\ v \in Profile!Said /\ p[f] \in Profile!Said
            \/ f # "style" /\ v \in Int /\ p[f] \in Int
        BY <2>2, <3>2 DEF Fits, Profile!Lists, Personas
      <4>4. CASE f = "style" /\ v \in Profile!Said /\ p[f] \in Profile!Said
        <5>1. Profile!Shown(f, v) \in LoggedValues /\ Profile!Shown(f, p[f]) \in LoggedValues
          BY <4>4, WordShown
        <5>2. QED  BY <2>11, <4>1, <4>2, <5>1
      <4>5. CASE f # "style" /\ v \in Int /\ p[f] \in Int
        <5>1. Profile!Shown(f, v) = v /\ Profile!Shown(f, p[f]) = p[f]
          BY <3>2, <4>5 DEF Profile!Shown
        <5>2. u \in Int /\ w \in Int
          BY <2>11, <4>1, <4>5, <5>1
        <5>3. QED  BY <4>2, <5>2, Zenon DEF LoggedValues
      <4>6. QED  BY <4>3, <4>4, <4>5
    <3>3. QED  BY <3>1, <3>2
  <2>7. \A g \in LoggedFields : g # f => q[g] = p[g]
    BY <2>2, <2>3 DEF LoggedFields, Personas
  <2>8. m \in Seq(PersonaRecords) /\ Explains(q, m)
    BY <2>2, <2>4, <2>6, <2>7, <2>11, RecordAdded
  <2>9. Profile!LastOf(m, MaxLog) \in Seq(PersonaRecords) /\ Explains(q, Profile!LastOf(m, MaxLog))
    BY <2>8, NewestExplain
  <2>10. QED  BY <2>5, <2>6, <2>9 DEF PersonaRight
<1>4. QED  BY <1>2, <1>3

\* So do the words and the steps of a memory, whatever is found.
LEMMA WordKeeps ==
    ASSUME MaxLog \in Nat, MaxShown \in Nat, NEW st, PersonaRight(st), NEW f \in {"style", "goals", "triggers"}, NEW w \in Profile!Said
    PROVE  PersonaRight(Profile!AddWord(st, f, w))
<1>1. CASE w = Profile!NoWord
  BY <1>1 DEF Profile!AddWord
<1>2. CASE w # Profile!NoWord
  <2>1. Fits(f, w) /\ f \in LoggedFields
    BY <1>2 DEF Fits, Profile!Said, LoggedFields
  <2>2. PersonaRight(Profile!ApplyChange(st, f, w))
    BY <2>1, ChangeKeeps
  <2>3. QED  BY <1>2, <2>2 DEF Profile!AddWord
<1>3. QED  BY <1>1, <1>2

LEMMA StepKeeps ==
    ASSUME MaxLog \in Nat, MaxShown \in Nat, Top \in Int, NEW st, PersonaRight(st), NEW f \in {"trust", "tone"}, NEW d \in Int
    PROVE  PersonaRight(Profile!AddStep(st, f, d))
<1>1. CASE d = 0
  BY <1>1 DEF Profile!AddStep
<1>2. CASE d # 0
  <2>1. st.profile[f] \in Int
    BY DEF PersonaRight, Personas
  <2>2. PICK x : x = Profile!Clamp(st.profile[f] + d)
    OBVIOUS
  <2>3. x \in Int
    BY <2>1, <2>2 DEF Profile!Clamp
  <2>4. Fits(f, x) /\ f \in LoggedFields
    BY <2>3 DEF Fits, LoggedFields
  <2>5. PersonaRight(Profile!ApplyChange(st, f, x))
    BY <2>4, ChangeKeeps
  <2>6. QED  BY <1>2, <2>2, <2>5 DEF Profile!AddStep
<1>3. QED  BY <1>1, <1>2

ProfileInv == PersonaRight(Profile!State)

\* The weight of an interest is not logged.
LEMMA BecomeKeeps ==
    ASSUME NEW st, PersonaRight(st), NEW x \in Int, Profile!Become(st, x)
    PROVE  ProfileInv'
<1>1. PICK p : p = st.profile
  OBVIOUS
<1>2. p \in Personas /\ st.log \in Seq(PersonaRecords) /\ Explains(p, st.log)
  BY <1>1 DEF PersonaRight
<1>3. PICK q : q = [p EXCEPT !.interest = x]
  OBVIOUS
<1>4. q \in Personas /\ \A g \in LoggedFields : q[g] = p[g]
  BY <1>2, <1>3 DEF Personas, LoggedFields
<1>5. Explains(q, st.log)
  <2>1. ASSUME NEW i \in DOMAIN st.log, st.log[i].field \in Profile!Logged PROVE Leads(q, st.log, i)
    <3>1. q[st.log[i].field] = p[st.log[i].field]
      BY <1>4, <2>1 DEF Profile!Logged, LoggedFields
    <3>2. Leads(p, st.log, i)
      BY <1>2, <2>1 DEF Explains
    <3>3. QED  BY <3>1, <3>2 DEF Leads
  <2>2. QED  BY <2>1 DEF Explains
<1>6. profile' = q /\ log' = st.log
  BY <1>1, <1>3 DEF Profile!Become
<1>7. QED  BY <1>2, <1>4, <1>5, <1>6 DEF ProfileInv, PersonaRight, Profile!State

\* What a memory tells, and what an extraction finds, is of the right kind.
LEMMA MemoryKeeps ==
    ASSUME MaxLog \in Nat, MaxShown \in Nat, Top \in Int, ProfileInv, Profile!UpdateFromMemory
    PROVE  ProfileInv'
<1>1. PICK w \in Profile!Said, a \in BOOLEAN, b \in BOOLEAN :
        Profile!UpdateFacts(w, a) \/ Profile!UpdateSocial(w, a) \/ Profile!UpdateInteraction(w, a, b)
  BY DEF Profile!UpdateFromMemory
<1>2. profile.interest \in Int /\ Profile!Clamp(profile.interest + 1) \in Int
  BY DEF ProfileInv, PersonaRight, Profile!State, Personas, Profile!Clamp
<1>3. (IF a THEN w ELSE Profile!NoWord) \in Profile!Said
  BY DEF Profile!Said
<1>4. CASE Profile!UpdateFacts(w, a)
  <2>1. PersonaRight(Profile!AddWord(Profile!State, "goals", IF a THEN w ELSE Profile!NoWord))
    BY <1>3, WordKeeps DEF ProfileInv
  <2>2. PersonaRight(Profile!AddWord(Profile!AddWord(Profile!State, "goals", IF a THEN w ELSE Profile!NoWord), "style", w))
    BY <2>1, WordKeeps
  <2>3. QED  BY <1>2, <1>4, <2>2, BecomeKeeps DEF Profile!UpdateFacts
<1>5. CASE Profile!UpdateSocial(w, a)
  <2>1. (IF a THEN 1 ELSE 0) \in Int
    OBVIOUS
  <2>2. PersonaRight(Profile!AddStep(Profile!State, "trust", IF a THEN 1 ELSE 0))
    BY <2>1, StepKeeps DEF ProfileInv
  <2>3. PersonaRight(Profile!AddWord(Profile!AddStep(Profile!State, "trust", IF a THEN 1 ELSE 0), "style", w))
    BY <2>2, WordKeeps
  <2>4. QED  BY <1>2, <1>5, <2>3, BecomeKeeps DEF Profile!UpdateSocial
<1>6. CASE Profile!UpdateInteraction(w, a, b)
  <2>1. Profile!Leaning(a, b) \in Int
    BY DEF Profile!Leaning
  <2>2. PersonaRight(Profile!AddWord(Profile!State, "style", w))
    BY WordKeeps DEF ProfileInv
  <2>3. PersonaRight(Profile!AddStep(Profile!AddWord(Profile!State, "style", w), "tone", Profile!Leaning(a, b)))
    BY <2>1, <2>2, StepKeeps
  <2>4. QED  BY <1>2, <1>6, <2>3, BecomeKeeps DEF Profile!UpdateInteraction
<1>7. QED  BY <1>1, <1>4, <1>5, <1>6

ExtractionResults == [style : Profile!Said, goal : Profile!Said, trigger : Profile!Said, interest : Int, trust : Int,
             tone : Int, sure : BOOLEAN]

LEMMA FindingsFit ==
    ASSUME Top \in Int, NEW x \in Profile!Extracted
    PROVE  x.result \in ExtractionResults
<1>1. PICK n \in ExtractionResults : n = Profile!Nought
  <2>1. Profile!Nought \in ExtractionResults
    BY DEF Profile!Nought, ExtractionResults, Profile!Said, Profile!NoWord
  <2>2. QED  BY <2>1
<1>9. PICK one \in Int : one = 1
  OBVIOUS
<1>10. PICK yes \in BOOLEAN : yes = TRUE
  OBVIOUS
<1>11. PICK top \in Int : top = Top
  OBVIOUS
<1>2. ASSUME NEW r \in Profile!RuleResults PROVE r \in ExtractionResults
  <2>2. ASSUME NEW w \in Profile!Said, NEW d \in Profile!Steps PROVE Profile!Habit(w, d) \in ExtractionResults
    <3>1. d \in Int
      BY DEF Profile!Steps
    <3>2. [n EXCEPT !.style = w, !.trigger = w, !.interest = one, !.tone = d, !.sure = yes] \in ExtractionResults
      BY <3>1 DEF ExtractionResults
    <3>3. QED  BY <1>1, <1>9, <1>10, <3>2, Zenon DEF Profile!Habit
  <2>3. ASSUME NEW w \in Profile!Said PROVE Profile!Goal(w) \in ExtractionResults
    <3>1. [n EXCEPT !.goal = w, !.trust = one, !.sure = yes] \in ExtractionResults
      BY DEF ExtractionResults
    <3>2. QED  BY <1>1, <1>9, <1>10, <3>1, Zenon DEF Profile!Goal
  <2>4. QED  BY <1>1, <2>2, <2>3 DEF Profile!RuleResults
<1>3. ASSUME NEW r \in Profile!LlmResults PROVE r \in ExtractionResults
  <2>2. ASSUME NEW w \in Profile!Said, NEW d \in {-1, 1} PROVE Profile!Answer(w, d) \in ExtractionResults
    <3>1. PICK t \in Int : t = Profile!Larger(0, d)
      BY DEF Profile!Larger
    <3>2. [n EXCEPT !.style = w, !.goal = w, !.interest = top, !.trust = t, !.tone = d, !.sure = yes]
            \in ExtractionResults
      <4>1. d \in Int
        OBVIOUS
      <4>2. QED  BY <4>1 DEF ExtractionResults
    <3>3. QED  BY <1>1, <1>10, <1>11, <3>1, <3>2, Zenon DEF Profile!Answer
  <2>3. QED  BY <1>1, <2>2 DEF Profile!LlmResults
<1>4. ASSUME NEW r \in ExtractionResults PROVE Profile!Gated(r) \in ExtractionResults
  <2>1. PICK g : g = Profile!Gated(r)
    OBVIOUS
  <2>2. PICK y \in Int, w \in Profile!Said, z \in Int :
          /\ y = (IF "interest" \in Gates THEN r.interest ELSE 0)
          /\ w = (IF "style" \in Gates THEN r.style ELSE Profile!NoWord)
          /\ z = (IF "preference" \in Gates THEN r.tone ELSE 0)
    BY DEF ExtractionResults, Profile!Said
  <2>3. g = [r EXCEPT !.interest = y, !.style = w, !.tone = z]
    BY <2>1, <2>2 DEF Profile!Gated, ExtractionResults
  <2>4. g \in ExtractionResults
    BY <2>2, <2>3 DEF ExtractionResults
  <2>5. QED  BY <2>1, <2>4
<1>5. ASSUME NEW r \in ExtractionResults, NEW l \in ExtractionResults PROVE Profile!Merge(r, l) \in ExtractionResults
  BY DEF ExtractionResults, Profile!Merge, Profile!FirstWord, Profile!FirstStep, Profile!Larger
<1>6. CASE \E r \in Profile!RuleResults, byRule \in BOOLEAN : x = [result |-> Profile!Gated(r), ruled |-> byRule]
  BY <1>2, <1>4, <1>6
<1>7. CASE \E r \in Profile!RuleResults, l \in Profile!LlmResults : x = [result |-> Profile!Gated(Profile!Merge(r, l)), ruled |-> FALSE]
  BY <1>2, <1>3, <1>4, <1>5, <1>7
<1>8. QED  BY <1>6, <1>7 DEF Profile!Extracted

LEMMA ExtractKeeps ==
    ASSUME MaxLog \in Nat, MaxShown \in Nat, Top \in Int, ProfileInv, Profile!Extract
    PROVE  ProfileInv'
<1>1. PICK x \in Profile!Extracted, fifth \in BOOLEAN : Profile!ApplyExtraction(x, fifth)
  BY DEF Profile!Extract
<1>2. PICK r : r = x.result
  OBVIOUS
<1>3. r \in ExtractionResults
  BY <1>2, FindingsFit
<1>4. PICK a : a = Profile!AddWord(Profile!State, "style", r.style)
  OBVIOUS
<1>5. PICK b : b = Profile!AddWord(a, "goals", r.goal)
  OBVIOUS
<1>6. PICK c : c = Profile!AddWord(b, "triggers", r.trigger)
  OBVIOUS
<1>7. PICK d : d = Profile!AddStep(c, "trust", r.trust)
  OBVIOUS
<1>8. PICK tone \in Int : tone = IF x.ruled \/ fifth THEN r.tone ELSE 0
  BY <1>3 DEF ExtractionResults
<1>9. PersonaRight(a)
  BY <1>3, <1>4, WordKeeps DEF ProfileInv, ExtractionResults
<1>10. PersonaRight(b)
  BY <1>3, <1>5, <1>9, WordKeeps DEF ExtractionResults
<1>11. PersonaRight(c)
  BY <1>3, <1>6, <1>10, WordKeeps DEF ExtractionResults
<1>12. PersonaRight(d)
  BY <1>3, <1>7, <1>11, StepKeeps DEF ExtractionResults
<1>13. PersonaRight(Profile!AddStep(d, "tone", tone))
  BY <1>12, StepKeeps
<1>14. PICK y \in Int : Profile!Become(Profile!AddStep(d, "tone", tone), y)
  <2>1. PICK y : y = IF x.ruled THEN Profile!Clamp(profile.interest + r.interest) ELSE Profile!Larger(profile.interest, r.interest)
    OBVIOUS
  <2>2. y \in Int
    BY <1>3, <2>1 DEF ProfileInv, PersonaRight, Profile!State, Personas, ExtractionResults, Profile!Clamp, Profile!Larger
  <2>3. Profile!Become(Profile!AddStep(d, "tone", tone), y)
    BY <1>1, <1>2, <1>4, <1>5, <1>6, <1>7, <1>8, <2>1, Zenon DEF Profile!ApplyExtraction
  <2>4. QED  BY <2>2, <2>3
<1>15. QED  BY <1>13, <1>14, BecomeKeeps

\* A start and a save keep the log, and of the fields all but the triggers.
LEMMA SyncKeeps ==
    ASSUME ProfileInv, profile' = Profile!Synced, log' = log
    PROVE  ProfileInv'
<1>1. profile \in Personas /\ log \in Seq(PersonaRecords) /\ Explains(profile, log)
  BY DEF ProfileInv, PersonaRight, Profile!State
<1>2. profile' \in Personas /\ \A g \in Profile!Logged : profile'[g] = profile[g]
  <2>1. PICK none \in Seq(TraitWords) : none = <<>>
    BY EmptySeq
  <2>2. profile' = profile \/ profile' = [profile EXCEPT !.triggers = none]
    BY <2>1, Zenon DEF Profile!Synced
  <2>3. QED  BY <1>1, <2>2 DEF Personas, Profile!Logged
<1>3. Explains(profile', log)
  <2>1. ASSUME NEW i \in DOMAIN log, log[i].field \in Profile!Logged PROVE Leads(profile', log, i)
    <3>1. Leads(profile, log, i)
      BY <1>1, <2>1 DEF Explains
    <3>2. QED  BY <1>2, <2>1, <3>1 DEF Leads
  <2>2. QED  BY <2>1 DEF Explains
<1>4. QED  BY <1>1, <1>2, <1>3 DEF ProfileInv, PersonaRight, Profile!State

\* The change log explains a persona, whatever is learnt, and across restarts and
\* trimming.
THEOREM LogsRight == ASSUME MaxLog \in Nat, MaxShown \in Nat, Top \in Int PROVE Profile!Spec => []Profile!LogExplains
<1>1. Profile!Init => ProfileInv
  <2>1. <<>> \in Seq(PersonaRecords) /\ DOMAIN <<>> = {}
    BY EmptySeq
  <2>2. Explains(profile, <<>>)
    BY <2>1 DEF Explains
  <2>3. QED
    BY <2>1, <2>2 DEF Profile!Init, ProfileInv, PersonaRight, Profile!State, Personas, Profile!Said
<1>2. ProfileInv /\ [Profile!Next]_(Profile!vars) => ProfileInv'
  <2>1. ProfileInv /\ UNCHANGED Profile!vars => ProfileInv'
    BY DEF ProfileInv, Profile!vars, Profile!State
  <2>2. QED
    BY <2>1, MemoryKeeps, ExtractKeeps, SyncKeeps DEF Profile!Next, Profile!Save, Profile!Restart
<1>3. ProfileInv => Profile!LogExplains
  BY DEF ProfileInv, PersonaRight, Profile!State, Explains, Leads, Profile!LogExplains, Profile!Explained
<1>4. QED  BY <1>1, <1>2, <1>3, PTL DEF Profile!Spec

-----------------------------------------------------------------------------
(* The emotions of a user (EmotionalState).                                  *)

\* f adds up the numbers of w.
AddsUp(f, w) ==
    /\ f \in [0 .. Len(w) -> Int] /\ f[0] = 0
    /\ \A k \in 1 .. Len(w) : f[k] = f[k - 1] + w[k]

\* What adds up a sequence but for its last number goes on to it.
LEMMA SumsGoOn ==
    ASSUME NEW w \in [Nat -> Int], NEW n \in Nat
    PROVE  \E f \in [0 .. n -> Int] : f[0] = 0 /\ \A k \in 1 .. n : f[k] = f[k - 1] + w[k]
<1> DEFINE Sums(f, m) == f \in [0 .. m -> Int] /\ f[0] = 0 /\ \A k \in 1 .. m : f[k] = f[k - 1] + w[k]
<1> DEFINE bad == {m \in Nat : ~\E f : Sums(f, m)}
<1>1. SUFFICES ASSUME bad # {} PROVE FALSE
  OBVIOUS
<1>2. PICK m \in bad : \A e \in bad : ~(<<e, m>> \in OpToRel(<, Nat))
  <2>1. bad \subseteq Nat
    OBVIOUS
  <2> HIDE DEF bad
  <2>2. QED  BY <1>1, <2>1, NatLessThanWellFounded, WFMin
<1>3. m \in Nat /\ ~\E f : Sums(f, m)
  OBVIOUS
<1>4. m # 0
  <2>1. PICK g : g = [i \in 0 .. 0 |-> 0]
    OBVIOUS
  <2>2. Sums(g, 0)
    BY <2>1
  <2> HIDE DEF Sums
  <2>3. QED  BY <1>3, <2>2
<1>5. m - 1 \in Nat /\ m - 1 \notin bad
  <2>1. m - 1 \in Nat /\ m - 1 < m
    BY <1>3, <1>4
  <2>2. <<m - 1, m>> \in OpToRel(<, Nat)
    BY <1>3, <2>1 DEF OpToRel
  <2> HIDE DEF bad
  <2>3. QED  BY <1>2, <2>1, <2>2
<1>6. PICK f : Sums(f, m - 1)
  BY <1>5
<1>7. PICK g : g = [i \in 0 .. m |-> IF i = m THEN f[m - 1] + w[m] ELSE f[i]]
  OBVIOUS
<1>8. Sums(g, m)
  <2>1. g \in [0 .. m -> Int] /\ g[0] = 0
    BY <1>3, <1>4, <1>6, <1>7
  <2>2. ASSUME NEW k \in 1 .. m PROVE g[k] = g[k - 1] + w[k]
    BY <1>3, <1>4, <1>6, <1>7
  <2>3. QED  BY <2>1, <2>2
<1> HIDE DEF Sums
<1>9. QED  BY <1>3, <1>8

\* The total of a sequence is where adding up ends.
LEMMA TotalIs ==
    ASSUME NEW w \in Seq(Int)
    PROVE  \E f : AddsUp(f, w) /\ Emotion!Total(w) = f[Len(w)]
<1>1. Len(w) \in Nat /\ DOMAIN w = 1 .. Len(w) /\ \A i \in 1 .. Len(w) : w[i] \in Int
  BY LenProperties, ElementOfSeq
<1>2. PICK v : v = [i \in Nat |-> IF i \in 1 .. Len(w) THEN w[i] ELSE 0]
  OBVIOUS
<1>3. v \in [Nat -> Int] /\ \A i \in 1 .. Len(w) : v[i] = w[i]
  BY <1>1, <1>2
<1>4. PICK g \in [0 .. Len(w) -> Int] : g[0] = 0 /\ \A k \in 1 .. Len(w) : g[k] = g[k - 1] + v[k]
  BY <1>1, <1>3, SumsGoOn
<1> DEFINE Summed(f) == f = [n \in 0 .. Len(w) |-> IF n = 0 THEN 0 ELSE f[n - 1] + w[n]]
<1>5. Summed(g)
  BY <1>1, <1>3, <1>4
<1>6. PICK f : f = CHOOSE h : Summed(h)
  OBVIOUS
<1>7. Summed(f)
  <2> HIDE DEF Summed
  <2>1. QED  BY <1>5, <1>6
<1>8. Emotion!Total(w) = f[Len(w)]
  BY <1>6 DEF Emotion!Total
<1>9. DOMAIN f = 0 .. Len(w) /\ f[0] = 0 /\ \A k \in 1 .. Len(w) : f[k] = f[k - 1] + w[k]
  <2>1. DOMAIN f = 0 .. Len(w)
    BY <1>7, Zenon
  <2>2. ASSUME NEW k \in 0 .. Len(w) PROVE f[k] = IF k = 0 THEN 0 ELSE f[k - 1] + w[k]
    BY <1>7
  <2>3. 0 \in 0 .. Len(w) /\ \A k \in 1 .. Len(w) : k \in 0 .. Len(w) /\ k # 0
    BY <1>1
  <2> HIDE DEF Summed
  <2>4. QED  BY <2>1, <2>2, <2>3
<1>10. \A k \in 0 .. Len(w) : f[k] = g[k]
  <2> DEFINE bad == {k \in 0 .. Len(w) : f[k] # g[k]}
  <2>1. SUFFICES ASSUME bad # {} PROVE FALSE
    OBVIOUS
  <2>2. PICK k \in bad : \A e \in bad : ~(<<e, k>> \in OpToRel(<, Nat))
    <3>1. bad \subseteq Nat
      BY <1>1
    <3> HIDE DEF bad
    <3>2. QED  BY <2>1, <3>1, NatLessThanWellFounded, WFMin
  <2>3. k # 0 /\ k - 1 \in 0 .. Len(w) /\ k \in 1 .. Len(w)
    BY <1>1, <1>4, <1>9
  <2>4. k - 1 \notin bad
    <3>1. <<k - 1, k>> \in OpToRel(<, Nat)
      BY <1>1, <2>3 DEF OpToRel
    <3> HIDE DEF bad
    <3>2. QED  BY <2>2, <3>1
  <2>5. f[k - 1] = g[k - 1]
    BY <2>3, <2>4
  <2>6. f[k] = g[k]
    BY <1>3, <1>4, <1>9, <2>3, <2>5
  <2>7. QED  BY <2>6
<1>11. f \in [0 .. Len(w) -> Int]
  BY <1>4, <1>7, <1>10
<1>12. QED  BY <1>8, <1>9, <1>11 DEF AddsUp

\* The squares of numbers up to sixty add up to no more than sixty times the numbers.
LEMMA SquaresBound ==
    ASSUME NEW w \in Seq(0 .. 60), NEW q \in Seq(Int), Len(q) = Len(w),
           \A i \in 1 .. Len(w) : q[i] = w[i] * w[i],
           NEW s, NEW t, AddsUp(s, w), AddsUp(t, q)
    PROVE  t[Len(w)] <= 60 * s[Len(w)]
<1>1. Len(w) \in Nat /\ \A i \in 1 .. Len(w) : w[i] \in 0 .. 60
  BY LenProperties, ElementOfSeq
<1>2. /\ \A k \in 0 .. Len(w) : s[k] \in Int /\ t[k] \in Int
      /\ s[0] = 0 /\ t[0] = 0
      /\ \A k \in 1 .. Len(w) : s[k] = s[k - 1] + w[k] /\ t[k] = t[k - 1] + w[k] * w[k]
  BY DEF AddsUp
<1> DEFINE bad == {k \in 0 .. Len(w) : ~(t[k] <= 60 * s[k])}
<1>3. SUFFICES ASSUME bad # {} PROVE FALSE
  BY <1>1
<1>4. PICK k \in bad : \A e \in bad : ~(<<e, k>> \in OpToRel(<, Nat))
  <2>1. bad \subseteq Nat
    BY <1>1
  <2> HIDE DEF bad
  <2>2. QED  BY <1>3, <2>1, NatLessThanWellFounded, WFMin
<1>5. k # 0 /\ k - 1 \in 0 .. Len(w) /\ k \in 1 .. Len(w)
  BY <1>1, <1>2
<1>6. k - 1 \notin bad
  <2>1. <<k - 1, k>> \in OpToRel(<, Nat)
    BY <1>1, <1>5 DEF OpToRel
  <2> HIDE DEF bad
  <2>2. QED  BY <1>4, <2>1
<1>7. t[k - 1] <= 60 * s[k - 1]
  BY <1>5, <1>6
<1>8. PICK x \in 0 .. 60 : x = w[k]
  BY <1>1, <1>5
<1>9. x * x <= 60 * x
  <2>1. ASSUME NEW y \in 0 .. 60 PROVE y * y <= 60 * y
    OBVIOUS
  <2>2. QED  BY <2>1
<1>10. t[k] <= 60 * s[k]
  <2>1. s[k] = s[k - 1] + x /\ t[k] = t[k - 1] + x * x
    BY <1>2, <1>5, <1>8
  <2>2. PICK y \in Int : y = x * x
    OBVIOUS
  <2>3. y <= 60 * x /\ t[k] = t[k - 1] + y
    BY <1>9, <2>1, <2>2
  <2>4. s[k - 1] \in Int /\ t[k - 1] \in Int
    BY <1>2, <1>5
  <2>5. QED  BY <1>7, <2>1, <2>3, <2>4
<1>11. QED  BY <1>10

\* The variance of numbers up to sixty is at most a quarter of sixty squared.
LEMMA NoneIsWild == ASSUME WindowSize \in Nat PROVE Emotion!NeverWild
<1> SUFFICES ASSUME NEW w \in [1 .. WindowSize -> {0, 12, 30, 48, 60}] PROVE ~Emotion!Wild(w)
  BY DEF Emotion!NeverWild
<1>1. w \in Seq({0, 12, 30, 48, 60}) /\ w \in Seq(Int) /\ w \in Seq(0 .. 60)
  OBVIOUS
<1>2. Len(w) \in Nat /\ DOMAIN w = 1 .. Len(w) /\ \A i \in 1 .. Len(w) : w[i] \in 0 .. 60
  BY <1>1, LenProperties, ElementOfSeq
<1>3. PICK q : q = [i \in 1 .. Len(w) |-> w[i] * w[i]]
  OBVIOUS
<1>4. q \in Seq(Int) /\ Len(q) = Len(w) /\ \A i \in 1 .. Len(w) : q[i] = w[i] * w[i]
  BY <1>2, <1>3
<1>5. PICK s : AddsUp(s, w) /\ Emotion!Total(w) = s[Len(w)]
  BY <1>1, TotalIs
<1>6. PICK t : AddsUp(t, q) /\ Emotion!Total(q) = t[Len(w)]
  BY <1>4, TotalIs
<1>7. t[Len(w)] <= 60 * s[Len(w)]
  BY <1>1, <1>4, <1>5, <1>6, SquaresBound
<1>8. PICK n \in Nat : n = Len(w)
  BY <1>2
<1>9. s[n] \in Int /\ t[n] \in Int
  BY <1>4, <1>5, <1>6, <1>8 DEF AddsUp
<1>10. PICK a \in Int : a = s[n]
  BY <1>9
<1>11. PICK b \in Int : b = t[n]
  BY <1>9
<1>12. 10 * (n * b - a * a) <= 6 * 3600 * n * n
  <2>1. b <= 60 * a
    BY <1>7, <1>8, <1>10, <1>11
  <2>2. n * b <= n * (60 * a)
    BY <2>1
  <2>3. 0 <= (a - 30 * n) * (a - 30 * n)
    BY SMT
  <2>4. (a - 30 * n) * (a - 30 * n) = a * a - n * (60 * a) + 900 * (n * n)
    BY SMT
  <2>5. PICK aa \in Int : aa = a * a
    OBVIOUS
  <2>6. PICK nn \in Nat : nn = n * n
    OBVIOUS
  <2>7. PICK na \in Int : na = n * (60 * a)
    OBVIOUS
  <2>8. PICK nb \in Int : nb = n * b
    OBVIOUS
  <2>9. 10 * (nb - aa) <= 21600 * nn
    BY <2>2, <2>3, <2>4, <2>5, <2>6, <2>7, <2>8
  <2>10. 6 * 3600 * n * n = 21600 * nn
    BY <2>6
  <2>11. QED  BY <2>5, <2>8, <2>9, <2>10
<1>13. Emotion!Wild(w) <=> 10 * (n * b - a * a) > 6 * 3600 * n * n
  BY <1>3, <1>5, <1>6, <1>8, <1>10, <1>11 DEF Emotion!Wild
<1>14. QED  BY <1>12, <1>13

\* A feeling, and what the history keeps of one.
Moods == Emotion!Felt \cup {Emotion!Calmly}
Kept == {e.primary : e \in Moods}

EmotionInv ==
    /\ felt \in Moods /\ moods \in Seq(Kept)
    /\ Emotion!SteadyIsStable

\* What is counted of a sequence is more if more is counted.
LEMMA CountsMore ==
    ASSUME NEW s, NEW n \in Nat, DOMAIN s = 1 .. n, NEW A, NEW B, A \subseteq B
    PROVE  /\ Emotion!Count(s, A) \in Nat /\ Emotion!Count(s, B) \in Nat
           /\ Emotion!Count(s, A) <= Emotion!Count(s, B)
<1>1. PICK a : a = {i \in DOMAIN s : s[i] \in A}
  OBVIOUS
<1>2. PICK b : b = {i \in DOMAIN s : s[i] \in B}
  OBVIOUS
<1>3. a \subseteq b /\ b \subseteq 1 .. n /\ IsFiniteSet(1 .. n)
  BY <1>1, <1>2, FS_Interval
<1>4. IsFiniteSet(b) /\ IsFiniteSet(a) /\ Cardinality(a) <= Cardinality(b)
  BY <1>3, FS_Subset
<1>5. Cardinality(a) \in Nat /\ Cardinality(b) \in Nat
  BY <1>4, FS_CardinalityType
<1>6. Emotion!Count(s, A) = Cardinality(a) /\ Emotion!Count(s, B) = Cardinality(b)
  BY <1>1, <1>2 DEF Emotion!Count, Emotion!Cardinality, Cardinality
<1>7. QED  BY <1>4, <1>5, <1>6

\* Of two windows that are alike the later counts no less, in joys as in sorrows.
LEMMA AlikeIsStable ==
    ASSUME WindowSize \in Nat, NEW h \in Seq(Kept), Len(h) = 2 * WindowSize,
           Emotion!Window(h) = Emotion!Before(h)
    PROVE  Emotion!TrendOf(h) = "stable"
<1>1. \A i \in Int : i \in 1 .. Len(h) => h[i] \in Kept
  BY ElementOfSeq
<1>2. PICK a \in Int, b \in Int : a = Len(h) - WindowSize + 1 /\ b = Len(h)
  BY LenProperties
<1>3. \A i \in a .. b : h[i] \in Kept
  BY <1>1, <1>2
<1>4. PICK w : w = SubSeq(h, a, b)
  OBVIOUS
<1>5. w \in Seq(Kept)
  BY <1>3, <1>4, SubSeqProperties
<1>6. PICK n \in Nat : DOMAIN w = 1 .. n
  BY <1>5, LenProperties
<1>7. Emotion!Window(h) = w /\ Emotion!Before(h) = w
  BY <1>2, <1>4 DEF Emotion!Window
<1>8. {"joy"} \subseteq {"joy", "calm"} /\ Emotion!NegativeCore \subseteq Emotion!NegativeAll
  BY DEF Emotion!NegativeCore, Emotion!NegativeAll
<1>9. PICK up \in Int : up = Emotion!Count(w, {"joy", "calm"}) - Emotion!Count(w, {"joy"}) /\ up >= 0
  BY <1>6, <1>8, CountsMore
<1>10. PICK down \in Int : down = Emotion!Count(w, Emotion!NegativeAll) - Emotion!Count(w, Emotion!NegativeCore) /\ down >= 0
  BY <1>6, <1>8, CountsMore
<1>11. Emotion!TrendOf(h) = Emotion!Towards(up, down)
  BY <1>7, <1>9, <1>10 DEF Emotion!TrendOf
<1>12. QED  BY <1>9, <1>10, <1>11 DEF Emotion!Towards

LEMMA MoodsKeep ==
    ASSUME WindowSize \in Nat, EmotionInv, NEW e \in Emotion!Felt, Emotion!Update(e)
    PROVE  EmotionInv'
<1>1. PICK h : h = Append(moods, felt.primary)
  OBVIOUS
<1>2. h \in Seq(Kept) /\ Len(h) = Len(moods) + 1 /\ Len(moods) \in Nat
  BY <1>1, AppendProperties, LenProperties DEF EmotionInv, Kept
<1>3. felt' \in Moods
  BY DEF Emotion!Update, Moods
<1>4. h # <<>>
  BY <1>2, EmptySeq
<1>5. moods' \in Seq(Kept) /\ Len(moods') \in Nat
  <2>1. moods' = IF Len(h) > 2 * WindowSize THEN Tail(h) ELSE h
    BY <1>1 DEF Emotion!Update
  <2>2. Tail(h) \in Seq(Kept)
    BY <1>2, <1>4, HeadTailProperties
  <2>3. moods' \in Seq(Kept)
    BY <1>2, <2>1, <2>2
  <2>4. QED  BY <2>3, LenProperties
<1>6. Emotion!SteadyIsStable'
  <2> SUFFICES ASSUME Len(moods') = 2 * WindowSize, Emotion!Window(moods') = Emotion!Before(moods')
               PROVE  trend' = "stable"
    BY DEF Emotion!SteadyIsStable
  <2>1. Emotion!Analyze(moods', e)
    BY DEF Emotion!Update
  <2>2. ~(Len(moods') < WindowSize) /\ Len(moods') >= 2 * WindowSize
    BY <1>5
  <2>3. trend' = Emotion!TrendOf(moods')
    BY <2>1, <2>2 DEF Emotion!Analyze
  <2>4. QED  BY <1>5, <2>3, AlikeIsStable
<1>7. QED  BY <1>3, <1>5, <1>6 DEF EmotionInv

\* The highest of the scores of some emotions, some of which are above the others.
LEMMA HighestIs ==
    ASSUME NEW score \in [Emotion!Emotions -> Nat]
    PROVE  /\ Emotion!Highest(score) \in Emotion!Emotions
           /\ \A e \in Emotion!Emotions : score[e] <= score[Emotion!Highest(score)]
<1> DEFINE O == Emotion!Order
<1>1. /\ DOMAIN O = 1 .. 6 /\ \A i \in 1 .. 6 : O[i] \in Emotion!Emotions
      /\ \A e \in Emotion!Emotions : \E i \in 1 .. 6 : O[i] = e
  BY DEF Emotion!Order, Emotion!Emotions
<1> HIDE DEF O
<1>2. PICK f : f = [i \in 1 .. 6 |-> score[O[i]]]
  OBVIOUS
<1>3. f \in [1 .. 6 -> Nat] /\ \A i \in 1 .. 6 : f[i] = score[O[i]]
  BY <1>1, <1>2
<1>4. \E i \in 1 .. 6 : (\A j \in 1 .. 6 : f[j] <= f[i]) /\ \A j \in 1 .. (i - 1) : f[j] < f[i]
  <2>1. \E i \in 1 .. 6 : \A j \in 1 .. 6 : f[j] <= f[i]
    BY <1>3
  <2>2. PICK i \in {k \in 1 .. 6 : \A j \in 1 .. 6 : f[j] <= f[k]} :
          \A e \in {k \in 1 .. 6 : \A j \in 1 .. 6 : f[j] <= f[k]} : ~(<<e, i>> \in OpToRel(<, Nat))
    <3> DEFINE best == {k \in 1 .. 6 : \A j \in 1 .. 6 : f[j] <= f[k]}
    <3>1. best \subseteq Nat /\ best # {}
      BY <2>1
    <3> HIDE DEF best
    <3>2. PICK i \in best : \A e \in best : ~(<<e, i>> \in OpToRel(<, Nat))
      BY <3>1, NatLessThanWellFounded, WFMin
    <3>3. QED  BY <3>2 DEF best
  <2>3. ASSUME NEW j \in 1 .. (i - 1) PROVE f[j] < f[i]
    <3>1. j \in 1 .. 6 /\ j \in Nat /\ j < i /\ f[j] <= f[i]
      OBVIOUS
    <3>2. ~(\A k \in 1 .. 6 : f[k] <= f[j])
      <4>1. <<j, i>> \in OpToRel(<, Nat)
        BY <3>1 DEF OpToRel
      <4>2. j \notin {k \in 1 .. 6 : \A l \in 1 .. 6 : f[l] <= f[k]}
        BY <2>2, <4>1
      <4>3. QED  BY <3>1, <4>2
    <3>3. QED  BY <1>3, <3>1, <3>2
  <2>4. QED  BY <2>2, <2>3
<1>5. \E i \in DOMAIN O : (\A j \in DOMAIN O : score[O[j]] <= score[O[i]]) /\ \A j \in 1 .. (i - 1) : score[O[j]] < score[O[i]]
  BY <1>1, <1>3, <1>4
<1>6. PICK i \in DOMAIN O : i = CHOOSE k \in DOMAIN O : (\A j \in DOMAIN O : score[O[j]] <= score[O[k]]) /\ \A j \in 1 .. (k - 1) : score[O[j]] < score[O[k]]
  BY <1>5
<1>7. \A j \in DOMAIN O : score[O[j]] <= score[O[i]]
  BY <1>5, <1>6
<1>8. Emotion!Highest(score) = O[i]
  BY <1>6 DEF Emotion!Highest, O
<1>9. QED  BY <1>1, <1>7, <1>8

\* A negated text of joys says something else, or nothing.
LEMMA NegationIsHeard == Emotion!NegationHeard
<1> SUFFICES ASSUME NEW t \in Emotion!Texts, t.negated, t.rule = Emotion!NoRule
             PROVE  Emotion!Analysis(t).primary \notin {"joy", "excitement"}
  BY DEF Emotion!NegationHeard
<1>1. PICK score : score = Emotion!Scores(t)
  OBVIOUS
<1>2. /\ score \in [Emotion!Emotions -> Nat]
      /\ score["joy"] = 0 /\ score["excitement"] = 0
  BY <1>1 DEF Emotion!Scores, Emotion!Emotions
<1>3. Emotion!ByDict(t).primary \notin {"joy", "excitement"}
  <2>1. CASE \A e \in Emotion!Emotions : score[e] = 0
    BY <1>1, <2>1 DEF Emotion!ByDict, Emotion!Neutral
  <2>2. CASE ~\A e \in Emotion!Emotions : score[e] = 0
    <3>1. PICK p : p = Emotion!Highest(score)
      OBVIOUS
    <3>2. p \in Emotion!Emotions /\ \A e \in Emotion!Emotions : score[e] <= score[p]
      BY <1>2, <3>1, HighestIs
    <3>3. p \notin {"joy", "excitement"}
      BY <1>2, <2>2, <3>2
    <3>4. Emotion!ByDict(t).primary = p
      BY <1>1, <2>2, <3>1 DEF Emotion!ByDict
    <3>5. QED  BY <3>3, <3>4
  <2>3. QED  BY <2>1, <2>2
<1>4. Emotion!Analysis(t).primary = Emotion!ByDict(t).primary
  BY DEF Emotion!Analysis, Emotion!Combined, Emotion!NoRule
<1>5. QED  BY <1>3, <1>4

\* A user's mood is judged as it is: alike windows are stable, a decline reaches the
\* prompt, a negated joy is none, and no intensities are wild.
THEOREM FeelsRight == ASSUME WindowSize \in Nat PROVE Emotion!Spec => []Emotion!EmotionSound
<1>1. Emotion!Init => EmotionInv
  <2>1. <<>> \in Seq(Kept)
    BY EmptySeq
  <2>2. QED  BY <2>1 DEF Emotion!Init, EmotionInv, Moods, Emotion!SteadyIsStable
<1>2. EmotionInv /\ [Emotion!Next]_(Emotion!vars) => EmotionInv'
  <2>1. EmotionInv /\ UNCHANGED Emotion!vars => EmotionInv'
    BY DEF EmotionInv, Emotion!vars, Emotion!SteadyIsStable
  <2>2. QED  BY <2>1, MoodsKeep DEF Emotion!Next, Emotion!Feel
<1>3. EmotionInv => Emotion!EmotionSound
  <2>1. Emotion!DeclineIsHeard
    BY DEF Emotion!DeclineIsHeard, Emotion!Hint, Emotion!Conflicts, Emotion!Coordinated, Emotion!UserHint, Emotion!HybridHint
  <2>2. QED  BY <2>1, NoneIsWild, NegationIsHeard DEF EmotionInv, Emotion!EmotionSound
<1>4. QED  BY <1>1, <1>2, <1>3, PTL DEF Emotion!Spec

-----------------------------------------------------------------------------
(* A retrieval among others (Retrieval). What each request found, read and   *)
(* writes, and what the writers of whole rows have read, is related to the   *)
(* counts that are kept.                                                     *)

\* What a request has of the memories: those it has found, those whose counts it
\* has read, those it will count or has counted, those it is writing.
FoundBy(r) == IF r.pc \in {"working", "sync"} THEN r.found ELSE {}
ReadBy(r) == IF r.pc = "working" THEN r.found ELSE {}
ClaimedBy(r) == IF r.pc = "working" THEN r.found ELSE IF r.pc = "sync" THEN r.result ELSE {}
WrittenBy(r) == IF r.pc = "sync" THEN DOMAIN r.write ELSE {}

\* A request as it is at each of its waits.
Asking(r) ==
    /\ r.pc = "working" => r.found \subseteq Retrievable /\ \A m \in r.found : r.read[m] \in Nat
    /\ r.pc = "sync" =>
         /\ Retr!IsInjective(r.list) /\ Len(r.list) <= 2 * TopK
         /\ r.found \subseteq Retrievable /\ r.result \subseteq r.found
         /\ DOMAIN r.write \subseteq r.result /\ \A m \in DOMAIN r.write : r.write[m] \in Nat
    /\ r.pc = "history" =>
         r \in [pc : {"history"}, kept : SUBSET Retrievable, since : SUBSET Retrievable, again : BOOLEAN]

RetrTypes ==
    /\ Retr!Stored \subseteq Retrievable /\ \A m \in Retr!Stored : store[m] \in Nat
    /\ working \in [1 .. 2 -> SUBSET Retrievable] /\ searcher \in 1 .. 2
    /\ injected \in Seq(Retrievable)
    /\ object \in [Retrievable -> Nat] /\ accessed \in [Retrievable -> Nat]
    /\ unused \subseteq Retrievable /\ exact \subseteq Retrievable
    /\ \A r \in snapshots : r.memory \in Retrievable /\ r.count \in Nat
    /\ DOMAIN req = Searches
    /\ \A i \in Searches : Asking(req[i])

\* A memory that is not captured is nowhere and was never accessed.
Fresh == \A m \in unused :
    /\ m \notin Retr!Stored /\ m \notin working[1] /\ m \notin working[2]
    /\ object[m] = 0 /\ accessed[m] = 0
    /\ \A i \in Searches : m \notin FoundBy(req[i])
    /\ \A r \in snapshots : r.memory # m

\* No count that is kept, was read or is being written is more than there were.
NoneMore ==
    /\ \A m \in Retrievable : object[m] <= accessed[m]
    /\ \A m \in Retr!Stored : store[m] <= accessed[m]
    /\ \A r \in snapshots : r.count <= accessed[r.memory]
    /\ \A i \in Searches :
         /\ \A m \in ReadBy(req[i]) : req[i].read[m] <= accessed[m]
         /\ \A m \in WrittenBy(req[i]) : req[i].write[m] <= accessed[m]

\* The counts of a memory nothing disturbed: one request at a time has it, and what
\* that request has read or writes is what there were, as is what is stored otherwise.
Undisturbed == \A m \in exact :
    /\ \A i, j \in Searches : m \in ClaimedBy(req[i]) /\ m \in ClaimedBy(req[j]) => i = j
    /\ m \notin Retr!Stored => object[m] = accessed[m]
    /\ \A i \in Searches :
         /\ m \in ReadBy(req[i]) => m \in Retr!Stored /\ req[i].read[m] = accessed[m]
         /\ m \in WrittenBy(req[i]) => m \in Retr!Stored /\ req[i].write[m] = accessed[m]
    /\ m \in Retr!Stored /\ (\A i \in Searches : m \notin WrittenBy(req[i])) => store[m] = accessed[m]

CountsInv == Fresh /\ NoneMore /\ Undisturbed

\* What a request keeps is new, was shown while it waits, or is shown for want of others.
KeptForAReason == \A i \in Searches :
    req[i].pc = "history" => req[i].again \/ req[i].kept \cap Retr!Range(injected) \subseteq req[i].since

RetrInv == RetrTypes /\ CountsInv /\ KeptForAReason

LEMMA FoundFirst ==
    ASSUME NEW r, Asking(r)
    PROVE  /\ ReadBy(r) \subseteq ClaimedBy(r) /\ WrittenBy(r) \subseteq ClaimedBy(r)
           /\ ClaimedBy(r) \subseteq FoundBy(r) /\ FoundBy(r) \subseteq Retrievable
BY DEF Asking, FoundBy, ReadBy, ClaimedBy, WrittenBy

\* A finite set as a sequence has each element once.
LEMMA Listed ==
    ASSUME NEW S, IsFiniteSet(S)
    PROVE  /\ Retr!SetToSeq(S) \in Seq(S) /\ Len(Retr!SetToSeq(S)) = Cardinality(S)
           /\ Retr!IsInjective(Retr!SetToSeq(S)) /\ Retr!Range(Retr!SetToSeq(S)) = S
           /\ Cardinality(S) \in Nat
<1>1. PICK n : n = Cardinality(S)
  OBVIOUS
<1>2. n \in Nat /\ ExistsBijection(1 .. n, S)
  BY <1>1, FS_CardinalityType
<1>3. PICK f \in Bijection(1 .. n, S) : TRUE
  BY <1>2 DEF ExistsBijection
<1>4. f \in [1 .. n -> S] /\ Retr!IsInjective(f)
  BY <1>3 DEF Bijection, Injection, IsInjective, Retr!IsInjective
<1>5. Retr!Cardinality(S) = n
  BY <1>1 DEF Retr!Cardinality, Cardinality
<1>6. Retr!SetToSeq(S) = CHOOSE g \in [1 .. n -> S] : Retr!IsInjective(g)
  BY <1>5 DEF Retr!SetToSeq
<1>7. PICK s : s = Retr!SetToSeq(S)
  OBVIOUS
<1>8. s \in [1 .. n -> S] /\ Retr!IsInjective(s)
  BY <1>4, <1>6, <1>7
<1>9. s \in Seq(S) /\ Len(s) = n
  BY <1>2, <1>8
<1>10. Retr!Range(s) = S
  <2>1. s \in Injection(1 .. n, S)
    BY <1>8 DEF Injection, IsInjective, Retr!IsInjective
  <2>2. Cardinality(1 .. n) = n
    BY <1>2, FS_Interval
  <2>3. s \in Surjection(1 .. n, S)
    BY <1>1, <2>1, <2>2, FS_Injection, Zenon
  <2>4. QED  BY <1>8, <2>3 DEF Surjection, Retr!Range, Range
<1>11. QED  BY <1>1, <1>2, <1>7, <1>8, <1>9, <1>10, Zenon

LEMMA LeastIs ==
    ASSUME NEW a \in Int, NEW b \in Int
    PROVE  /\ Retr!Min({a, b}) \in {a, b} /\ Retr!Min({a, b}) <= a /\ Retr!Min({a, b}) <= b
           /\ Retr!Max({a, b}) \in {a, b} /\ Retr!Max({a, b}) >= a /\ Retr!Max({a, b}) >= b
<1>1. \E x \in {a, b} : \A y \in {a, b} : x <= y
  OBVIOUS
<1>2. \E x \in {a, b} : \A y \in {a, b} : x >= y
  OBVIOUS
<1>3. PICK x : x = Retr!Min({a, b})
  OBVIOUS
<1>4. x \in {a, b} /\ \A y \in {a, b} : x <= y
  BY <1>1, <1>3 DEF Retr!Min
<1>5. PICK z : z = Retr!Max({a, b})
  OBVIOUS
<1>6. z \in {a, b} /\ \A y \in {a, b} : z >= y
  BY <1>2, <1>5 DEF Retr!Max
<1>7. QED  BY <1>3, <1>4, <1>5, <1>6

\* What is taken of a finite set, to a limit.
LEMMA TakenOf ==
    ASSUME NEW S, IsFiniteSet(S), NEW n \in Int, NEW T \in Retr!Take(S, n)
    PROVE  /\ T \subseteq S /\ IsFiniteSet(T) /\ Cardinality(T) \in Nat
           /\ Cardinality(T) <= n /\ Cardinality(T) <= Cardinality(S)
           /\ n >= 0 => Cardinality(T) \in Nat
<1>1. T \subseteq S /\ Retr!Cardinality(T) = Retr!Min({n, Retr!Cardinality(S)})
  BY DEF Retr!Take
<1>2. Cardinality(T) = Retr!Min({n, Cardinality(S)})
  BY <1>1 DEF Retr!Cardinality, Cardinality
<1>3. IsFiniteSet(T) /\ Cardinality(T) \in Nat /\ Cardinality(S) \in Nat
  BY <1>1, FS_Subset, FS_CardinalityType, Zenon
<1>4. QED  BY <1>1, <1>2, <1>3, LeastIs

\* The merged list has each memory once, and has room.
LEMMA MergedWell ==
    ASSUME NEW V, IsFiniteSet(V), Cardinality(V) <= 2 * TopK, NEW P, IsFiniteSet(P), TopK \in Nat,
           NEW s \in Retr!Merged(Retr!SetToSeq(V), P)
    PROVE  /\ Retr!IsInjective(s) /\ Len(s) <= 2 * TopK
           /\ Retr!Range(s) \subseteq V \cup P /\ V \subseteq Retr!Range(s)
<1>1. PICK w : w = Retr!SetToSeq(V)
  OBVIOUS
<1>2. w \in Seq(V) /\ Len(w) = Cardinality(V) /\ Retr!IsInjective(w) /\ Retr!Range(w) = V /\ Cardinality(V) \in Nat
  BY <1>1, Listed, Zenon
<1>3. PICK n \in Int : n = 2 * TopK - Cardinality(V)
  BY <1>2
<1>4. PICK T \in Retr!Take(P \ V, n) : s = w \o Retr!SetToSeq(T)
  <2>1. \E T \in Retr!Take(P \ Retr!Range(w), 2 * TopK - Len(w)) : s = w \o Retr!SetToSeq(T)
    BY <1>1 DEF Retr!Merged
  <2>2. 2 * TopK - Len(w) = n
    BY <1>2, <1>3
  <2>3. QED  BY <1>2, <2>1, <2>2, Zenon
<1>5. IsFiniteSet(P \ V)
  BY FS_Difference
<1>6. T \subseteq P \ V /\ IsFiniteSet(T) /\ Cardinality(T) \in Nat /\ Cardinality(T) <= n
  BY <1>4, <1>5, TakenOf, Zenon
<1>7. PICK t : t = Retr!SetToSeq(T)
  OBVIOUS
<1>8. t \in Seq(T) /\ Len(t) = Cardinality(T) /\ Retr!IsInjective(t) /\ Retr!Range(t) = T
  BY <1>6, <1>7, Listed, Zenon
<1>9. w \in Seq(V \cup P) /\ t \in Seq(V \cup P)
  BY <1>2, <1>6, <1>8, SeqMonotonic
<1>10. PICK a \in Nat, b \in Nat : a = Len(w) /\ b = Len(t)
  BY <1>9
<1>11. /\ s \in Seq(V \cup P) /\ Len(s) = a + b
       /\ \A k \in 1 .. a + b : s[k] = IF k <= a THEN w[k] ELSE t[k - a]
  BY <1>4, <1>7, <1>9, <1>10, ConcatProperties
<1>12. /\ w \in [1 .. a -> V] /\ t \in [1 .. b -> T] /\ DOMAIN s = 1 .. a + b
  BY <1>2, <1>8, <1>10, <1>11
<1>13. Retr!IsInjective(s)
  <2>1. SUFFICES ASSUME NEW k \in 1 .. a + b, NEW l \in 1 .. a + b, s[k] = s[l]
                 PROVE  k = l
    BY <1>12 DEF Retr!IsInjective
  <2>2. \A x, y \in 1 .. a : w[x] = w[y] => x = y
    BY <1>2, <1>12 DEF Retr!IsInjective
  <2>3. \A x, y \in 1 .. b : t[x] = t[y] => x = y
    BY <1>8, <1>12 DEF Retr!IsInjective
  <2>4. \A x \in 1 .. a, y \in 1 .. b : w[x] # t[y]
    BY <1>6, <1>12
  <2>5. CASE k <= a /\ l <= a
    BY <2>1, <2>2, <2>5, <1>11
  <2>6. CASE k <= a /\ ~(l <= a)
    BY <2>1, <2>4, <2>6, <1>11
  <2>7. CASE ~(k <= a) /\ l <= a
    BY <2>1, <2>4, <2>7, <1>11
  <2>8. CASE ~(k <= a) /\ ~(l <= a)
    <3>1. k - a \in 1 .. b /\ l - a \in 1 .. b /\ s[k] = t[k - a] /\ s[l] = t[l - a]
      BY <2>8, <1>11
    <3>2. k - a = l - a
      BY <2>1, <2>3, <3>1
    <3>3. QED  BY <3>2
  <2>9. QED  BY <2>5, <2>6, <2>7, <2>8
<1>14. Len(s) <= 2 * TopK
  BY <1>2, <1>3, <1>6, <1>8, <1>10, <1>11
<1>15. Retr!Range(s) \subseteq V \cup P
  BY <1>11, <1>12 DEF Retr!Range
<1>16. V \subseteq Retr!Range(s)
  <2>1. \A v \in V : \E k \in 1 .. a : w[k] = v
    BY <1>2, <1>12 DEF Retr!Range
  <2>2. \A k \in 1 .. a : k \in 1 .. a + b /\ s[k] = w[k]
    BY <1>11
  <2>3. QED  BY <2>1, <2>2, <1>12 DEF Retr!Range
<1>17. QED  BY <1>13, <1>14, <1>15, <1>16

\* The newest of a sequence are of it, and the last ones of it are among the newest.
LEMMA NewestOf ==
    ASSUME NEW D, NEW s \in Seq(D), NEW t \in Seq(D), NEW n \in Nat \ {0}
    PROVE  /\ Retr!Newest(s \o t, n) \in Seq(D)
           /\ Retr!Range(Retr!Newest(s \o t, n)) \subseteq Retr!Range(s) \cup Retr!Range(t)
           /\ Len(t) <= n => Retr!Range(t) \subseteq Retr!Range(Retr!Newest(s \o t, n))
<1>1. PICK a \in Nat, b \in Nat : a = Len(s) /\ b = Len(t)
  OBVIOUS
<1>2. PICK u : u = s \o t
  OBVIOUS
<1>3. /\ u \in Seq(D) /\ Len(u) = a + b
      /\ \A k \in 1 .. a + b : u[k] = IF k <= a THEN s[k] ELSE t[k - a]
  BY <1>1, <1>2, ConcatProperties
<1> PICK l \in Nat : l = Len(u) /\ l = a + b
  BY <1>3
<1>4. PICK f \in Int : f = Retr!Max({1, l - n + 1}) /\ f >= 1 /\ f >= l - n + 1 /\ f \in {1, l - n + 1}
  BY LeastIs, 1 \in Int, l - n + 1 \in Int, Zenon
<1>5. PICK v : v = Retr!Newest(u, n)
  OBVIOUS
<1>6. v = SubSeq(u, f, l)
  BY <1>4, <1>5, Zenon DEF Retr!Newest
<1>14. f >= 1 /\ f >= a + b - n + 1 /\ (f = 1 \/ f = a + b - n + 1)
  BY <1>4
<1>7. \A k \in f .. a + b : u[k] \in D
  BY <1>3, <1>14
<1>8. /\ v \in Seq(D) /\ Len(v) = IF f <= a + b THEN a + b - f + 1 ELSE 0
      /\ \A k \in 1 .. a + b - f + 1 : v[k] = u[f + k - 1]
  BY <1>6, <1>7, SubSeqProperties
<1> PICK c \in Nat : c = Len(v)
  BY <1>8, LenProperties, Zenon
<1>9. DOMAIN s = 1 .. a /\ DOMAIN t = 1 .. b /\ DOMAIN v = 1 .. c
  BY <1>1, <1>8
<1>10. Retr!Range(v) \subseteq Retr!Range(s) \cup Retr!Range(t)
  <2>1. SUFFICES ASSUME NEW k \in 1 .. c
                 PROVE  v[k] \in Retr!Range(s) \cup Retr!Range(t)
    BY <1>9 DEF Retr!Range
  <2>2. f + k - 1 \in 1 .. a + b /\ v[k] = u[f + k - 1]
    <3>1. c = IF f <= a + b THEN a + b - f + 1 ELSE 0
      BY <1>8, Zenon
    <3>2. f + k - 1 \in 1 .. a + b /\ k \in 1 .. a + b - f + 1
      BY <1>14, <3>1
    <3>3. QED  BY <3>2, <1>8, Zenon
  <2>3. f + k - 1 <= a => v[k] = s[f + k - 1] /\ f + k - 1 \in 1 .. a
    BY <2>2, <1>3
  <2>4. ~(f + k - 1 <= a) => v[k] = t[f + k - 1 - a] /\ f + k - 1 - a \in 1 .. b
    BY <2>2, <1>3
  <2>5. QED  BY <2>3, <2>4, <1>9 DEF Retr!Range
<1>11. ASSUME Len(t) <= n
       PROVE  Retr!Range(t) \subseteq Retr!Range(v)
  <2>1. SUFFICES ASSUME NEW k \in 1 .. b
                 PROVE  t[k] \in Retr!Range(v)
    BY <1>9 DEF Retr!Range
  <2>2. a + k >= f /\ a + k <= a + b
    BY <1>1, <1>14, <1>11
  <2>3. PICK p \in 1 .. c : f + p - 1 = a + k
    <3>1. a + k - f + 1 \in 1 .. c /\ f + (a + k - f + 1) - 1 = a + k
      BY <2>2, <1>14, <1>8
    <3>2. QED  BY <3>1
  <2>4. v[p] = u[a + k] /\ u[a + k] = t[k]
    BY <2>2, <2>3, <1>3, <1>8
  <2>5. QED  BY <2>4, <1>9 DEF Retr!Range
<1>12. QED  BY <1>2, <1>5, <1>8, <1>10, <1>11, Zenon

LEMMA BusyWith ==
    ASSUME NEW i \in Searches, NEW m
    PROVE  m \in Retr!Busy(i) <=> \E j \in Searches : j # i /\ m \in FoundBy(req[j])
BY DEF Retr!Busy, FoundBy

\* Counting the accesses of a result keeps the counts right, when what was read of
\* the memories that are not live is what it may be.
LEMMA AccessKeeps ==
    ASSUME RetrTypes, CountsInv, NEW i \in Searches, req[i].pc \in {"query", "working"},
           NEW s, Retr!IsInjective(s), Len(s) <= 2 * TopK, Retr!Range(s) \subseteq Retrievable,
           NEW live \in SUBSET working[1], NEW read,
           \A m \in Retr!Range(s) \ live :
             /\ m \notin unused /\ read[m] \in Nat /\ read[m] <= accessed[m]
             /\ m \in exact /\ m \notin Retr!Busy(i) => m \in Retr!Stored /\ read[m] = accessed[m],
           Retr!Access(i, s, live, read), UNCHANGED <<store, working, unused, snapshots>>
    PROVE  /\ CountsInv'
           /\ object' \in [Retrievable -> Nat] /\ accessed' \in [Retrievable -> Nat] /\ exact' \subseteq Retrievable
           /\ DOMAIN req' = Searches /\ \A j \in Searches : Asking(req'[j]) /\ (j = i => req'[j].pc # "history")
           /\ \A j \in Searches : j # i => req'[j] = req[j]
<1>1. PICK R \in Retr!Take(Retr!Range(s), TopK) :
        /\ accessed' = [m \in Retrievable |-> accessed[m] + (IF m \in R THEN 1 ELSE 0)]
        /\ exact' = exact \ (R \cap (Retr!Busy(i) \cup (live \cap Retr!Stored)))
        /\ object' = [m \in Retrievable |-> object[m] + (IF m \in R \cap live THEN 1 ELSE 0)]
        /\ req' = [req EXCEPT ![i] = [pc |-> "sync", inject |-> req[i].inject, list |-> s, found |-> Retr!Range(s), result |-> R,
                     write |-> [m \in R \ (live \ Retr!Stored) |-> IF m \in live THEN object'[m] ELSE read[m] + 1]]]
  BY DEF Retr!Access
<1>2. R \subseteq Retr!Range(s)
  BY DEF Retr!Take
<1>3. DOMAIN req = Searches /\ \A j \in Searches : Asking(req[j])
  BY DEF RetrTypes
<1>4. /\ DOMAIN req' = Searches /\ \A j \in Searches : j # i => req'[j] = req[j]
      /\ req'[i].pc = "sync" /\ req'[i].list = s /\ req'[i].found = Retr!Range(s) /\ req'[i].result = R
      /\ req'[i].write = [m \in R \ (live \ Retr!Stored) |-> IF m \in live THEN object'[m] ELSE read[m] + 1]
  BY <1>1, <1>3
<1>5. /\ object \in [Retrievable -> Nat] /\ accessed \in [Retrievable -> Nat] /\ exact \subseteq Retrievable
      /\ unused \subseteq Retrievable /\ Retr!Stored \subseteq Retrievable /\ working[1] \subseteq Retrievable
  BY DEF RetrTypes
<1>6. /\ object' \in [Retrievable -> Nat] /\ accessed' \in [Retrievable -> Nat] /\ exact' \subseteq Retrievable
      /\ \A m \in Retrievable : /\ accessed'[m] = IF m \in R THEN accessed[m] + 1 ELSE accessed[m]
                                /\ object'[m] = IF m \in R /\ m \in live THEN object[m] + 1 ELSE object[m]
  BY <1>1, <1>5
<1>7. Retr!Stored' = Retr!Stored
  BY DEF Retr!Stored
<1>8. /\ FoundBy(req'[i]) = Retr!Range(s) /\ ReadBy(req'[i]) = {} /\ ClaimedBy(req'[i]) = R
      /\ WrittenBy(req'[i]) = R \ (live \ Retr!Stored)
      /\ WrittenBy(req[i]) = {}
  BY <1>4 DEF FoundBy, ReadBy, ClaimedBy, WrittenBy
<1>9. \A m \in R \ (live \ Retr!Stored) :
        req'[i].write[m] = IF m \in live THEN object[m] + 1 ELSE read[m] + 1
  BY <1>2, <1>4, <1>6
<1>10. Asking(req'[i])
  <2>1. \A m \in R \ (live \ Retr!Stored) : req'[i].write[m] \in Nat
    BY <1>2, <1>5, <1>9
  <2>2. DOMAIN req'[i].write = R \ (live \ Retr!Stored)
    BY <1>4
  <2>3. QED  BY <2>1, <2>2, <1>2, <1>4 DEF Asking
<1>11. \A j \in Searches : /\ ReadBy(req[j]) \subseteq FoundBy(req[j]) /\ WrittenBy(req[j]) \subseteq FoundBy(req[j])
                           /\ ClaimedBy(req[j]) \subseteq FoundBy(req[j]) /\ FoundBy(req[j]) \subseteq Retrievable
  <2>1. TAKE j \in Searches
  <2>2. Asking(req[j])
    BY <1>3
  <2>3. QED  BY <2>2, FoundFirst
<1>12. \A m \in R : m \in exact' => \A j \in Searches : j # i => m \notin FoundBy(req[j])
  BY <1>1, BusyWith
<1>13. Fresh'
  <2>1. SUFFICES ASSUME NEW m \in unused
                 PROVE  /\ m \notin Retr!Stored /\ m \notin working[1] /\ m \notin working[2]
                        /\ object'[m] = 0 /\ accessed'[m] = 0
                        /\ \A j \in Searches : m \notin FoundBy(req'[j])
                        /\ \A r \in snapshots : r.memory # m
    BY <1>7 DEF Fresh
  <2>2. /\ m \notin Retr!Stored /\ m \notin working[1] /\ m \notin working[2]
        /\ object[m] = 0 /\ accessed[m] = 0 /\ \A j \in Searches : m \notin FoundBy(req[j])
        /\ \A r \in snapshots : r.memory # m
    BY DEF CountsInv, Fresh
  <2>3. m \notin Retr!Range(s)
    BY <2>2
  <2>4. \A j \in Searches : m \notin FoundBy(req'[j])
    BY <2>2, <2>3, <1>4, <1>8
  <2>5. object'[m] = 0 /\ accessed'[m] = 0
    BY <2>2, <2>3, <1>2, <1>5, <1>6
  <2>6. QED  BY <2>2, <2>4, <2>5
<1>14. NoneMore'
  <2>1. /\ \A m \in Retrievable : object[m] <= accessed[m]
        /\ \A m \in Retr!Stored : store[m] <= accessed[m] /\ store[m] \in Nat
        /\ \A j \in Searches : /\ \A m \in ReadBy(req[j]) : req[j].read[m] <= accessed[m]
                               /\ \A m \in WrittenBy(req[j]) : req[j].write[m] <= accessed[m]
    BY DEF CountsInv, NoneMore, RetrTypes
  <2>2. \A m \in Retrievable : object'[m] <= accessed'[m] /\ accessed[m] <= accessed'[m]
    <3>1. TAKE m \in Retrievable
    <3>2. object[m] \in Nat /\ accessed[m] \in Nat /\ object[m] <= accessed[m]
      BY <2>1, <1>5
    <3>3. QED  BY <3>2, <1>6
  <2>3. \A m \in Retr!Stored : store[m] <= accessed'[m]
    BY <2>1, <2>2, <1>5, <1>6
  <2>4. ASSUME NEW j \in Searches
        PROVE  /\ \A m \in ReadBy(req'[j]) : req'[j].read[m] <= accessed'[m]
               /\ \A m \in WrittenBy(req'[j]) : req'[j].write[m] <= accessed'[m]
    <3>1. CASE j = i
      BY <3>1, <2>1, <1>2, <1>5, <1>6, <1>8, <1>9
    <3>2. CASE j # i
      <4>1. /\ \A m \in ReadBy(req[j]) : req[j].read[m] \in Nat
            /\ \A m \in WrittenBy(req[j]) : req[j].write[m] \in Nat
        BY <1>3 DEF Asking, ReadBy, WrittenBy
      <4>2. ReadBy(req[j]) \subseteq Retrievable /\ WrittenBy(req[j]) \subseteq Retrievable
        BY <1>11
      <4>3. req'[j] = req[j] /\ \A m \in Retrievable : accessed[m] \in Nat /\ accessed'[m] \in Nat
        BY <3>2, <1>4, <1>5, <1>6
      <4>4. /\ \A m \in ReadBy(req[j]) : req[j].read[m] <= accessed[m]
            /\ \A m \in WrittenBy(req[j]) : req[j].write[m] <= accessed[m]
        BY <2>1
      <4>5. \A m \in Retrievable : accessed[m] <= accessed'[m]
        BY <2>2
      <4>6. QED  BY <4>1, <4>2, <4>3, <4>4, <4>5
    <3>3. QED  BY <3>1, <3>2
  <2>5. \A r \in snapshots : r.count <= accessed'[r.memory]
    <3>1. TAKE r \in snapshots
    <3>2. r.memory \in Retrievable /\ r.count \in Nat /\ r.count <= accessed[r.memory]
      BY DEF CountsInv, NoneMore, RetrTypes
    <3>3. accessed[r.memory] \in Nat /\ accessed'[r.memory] \in Nat
      BY <3>2, <1>5, <1>6
    <3>4. QED  BY <3>2, <3>3, <2>2
  <2>6. QED  BY <2>2, <2>3, <2>4, <2>5, <1>7 DEF NoneMore
<1>15. Undisturbed'
  <2>1. SUFFICES ASSUME NEW m \in exact'
                 PROVE  /\ \A h, j \in Searches : m \in ClaimedBy(req'[h]) /\ m \in ClaimedBy(req'[j]) => h = j
                        /\ m \notin Retr!Stored => object'[m] = accessed'[m]
                        /\ \A j \in Searches :
                             /\ m \in ReadBy(req'[j]) => m \in Retr!Stored /\ req'[j].read[m] = accessed'[m]
                             /\ m \in WrittenBy(req'[j]) => m \in Retr!Stored /\ req'[j].write[m] = accessed'[m]
                        /\ m \in Retr!Stored /\ (\A j \in Searches : m \notin WrittenBy(req'[j])) => store[m] = accessed'[m]
    BY <1>7 DEF Undisturbed
  <2>2. m \in exact /\ m \in Retrievable
    BY <1>1, <1>5
  <2>3. /\ \A h, j \in Searches : m \in ClaimedBy(req[h]) /\ m \in ClaimedBy(req[j]) => h = j
        /\ m \notin Retr!Stored => object[m] = accessed[m]
        /\ \A j \in Searches :
             /\ m \in ReadBy(req[j]) => m \in Retr!Stored /\ req[j].read[m] = accessed[m]
             /\ m \in WrittenBy(req[j]) => m \in Retr!Stored /\ req[j].write[m] = accessed[m]
        /\ m \in Retr!Stored /\ (\A j \in Searches : m \notin WrittenBy(req[j])) => store[m] = accessed[m]
    BY <2>2 DEF CountsInv, Undisturbed
  <2>4. CASE m \in R
    <3>1. \A j \in Searches : j # i => m \notin FoundBy(req[j])
      BY <2>4, <1>12
    <3>2. \A j \in Searches : j # i => m \notin ClaimedBy(req'[j]) /\ m \notin ReadBy(req'[j]) /\ m \notin WrittenBy(req'[j])
      BY <3>1, <1>4, <1>11
    <3>3. m \notin Retr!Busy(i)
      BY <3>1, BusyWith
    <3>4. ~(m \in live /\ m \in Retr!Stored)
      BY <2>4, <1>1
    <3>5. m \notin live => m \in Retr!Stored /\ read[m] = accessed[m]
      BY <2>2, <2>4, <3>3, <1>2
    <3>6. m \notin Retr!Stored => object'[m] = accessed'[m]
      BY <2>2, <2>3, <2>4, <3>5, <1>6
    <3>7. m \in WrittenBy(req'[i]) => m \in Retr!Stored /\ req'[i].write[m] = accessed'[m]
      BY <2>2, <2>4, <3>4, <3>5, <1>6, <1>8, <1>9
    <3>8. m \in Retr!Stored => m \in WrittenBy(req'[i])
      BY <2>4, <3>4, <1>8
    <3>9. QED  BY <3>2, <3>6, <3>7, <3>8, <1>8
  <2>5. CASE m \notin R
    <3>1. accessed'[m] = accessed[m] /\ object'[m] = object[m]
      BY <2>2, <2>5, <1>6
    <3>2. m \notin ClaimedBy(req'[i]) /\ m \notin ReadBy(req'[i]) /\ m \notin WrittenBy(req'[i]) /\ m \notin WrittenBy(req[i])
      BY <2>5, <1>8
    <3>3. QED  BY <2>3, <3>1, <3>2, <1>4
  <2>6. QED  BY <2>4, <2>5
<1>16. QED  BY <1>3, <1>4, <1>6, <1>10, <1>13, <1>14, <1>15 DEF CountsInv

\* A request that has nothing of the memories, before or after a step.
Quiet(r) == r.pc \notin {"working", "sync"}

\* A request that ends without writing, and others that only wait, keep the counts.
LEMMA EndKeeps ==
    ASSUME RetrTypes, CountsInv, NEW i \in Searches,
           \A j \in Searches : req'[j] = req[j] \/ (Quiet(req'[j]) /\ (j = i \/ Quiet(req[j]))),
           exact' \subseteq exact, exact' \cap WrittenBy(req[i]) = {},
           UNCHANGED <<store, working, object, unused, snapshots, accessed>>
    PROVE  CountsInv'
<1>1. \A j \in Searches :
        \/ /\ FoundBy(req'[j]) = FoundBy(req[j]) /\ ReadBy(req'[j]) = ReadBy(req[j]) /\ ClaimedBy(req'[j]) = ClaimedBy(req[j])
           /\ WrittenBy(req'[j]) = WrittenBy(req[j])
           /\ req'[j] = req[j] \/ (ReadBy(req'[j]) = {} /\ WrittenBy(req'[j]) = {})
        \/ /\ j = i /\ FoundBy(req'[j]) = {} /\ ReadBy(req'[j]) = {} /\ ClaimedBy(req'[j]) = {} /\ WrittenBy(req'[j]) = {}
  <2>1. TAKE j \in Searches
  <2>2. ASSUME NEW r, Quiet(r)
        PROVE  FoundBy(r) = {} /\ ReadBy(r) = {} /\ ClaimedBy(r) = {} /\ WrittenBy(r) = {}
    BY <2>2 DEF Quiet, FoundBy, ReadBy, ClaimedBy, WrittenBy
  <2>3. CASE req'[j] = req[j]
    BY <2>3 DEF FoundBy, ReadBy, ClaimedBy, WrittenBy
  <2>4. CASE Quiet(req'[j]) /\ (j = i \/ Quiet(req[j]))
    <3>1. FoundBy(req'[j]) = {} /\ ReadBy(req'[j]) = {} /\ ClaimedBy(req'[j]) = {} /\ WrittenBy(req'[j]) = {}
      BY <2>2, <2>4
    <3>2. CASE j = i
      BY <3>1, <3>2
    <3>3. CASE Quiet(req[j])
      <4>1. FoundBy(req[j]) = {} /\ ReadBy(req[j]) = {} /\ ClaimedBy(req[j]) = {} /\ WrittenBy(req[j]) = {}
        BY <2>2, <3>3
      <4>2. QED  BY <3>1, <4>1
    <3>4. QED  BY <2>4, <3>2, <3>3
  <2>5. QED  BY <2>3, <2>4
<1>2. Retr!Stored' = Retr!Stored
  BY DEF Retr!Stored
<1>3. Fresh'
  BY <1>1, <1>2 DEF CountsInv, Fresh
<1>4. NoneMore'
  BY <1>1, <1>2 DEF CountsInv, NoneMore
<1>5. Undisturbed'
  <2>1. SUFFICES ASSUME NEW m \in exact'
                 PROVE  /\ \A h, j \in Searches : m \in ClaimedBy(req'[h]) /\ m \in ClaimedBy(req'[j]) => h = j
                        /\ m \notin Retr!Stored => object[m] = accessed[m]
                        /\ \A j \in Searches :
                             /\ m \in ReadBy(req'[j]) => m \in Retr!Stored /\ req'[j].read[m] = accessed[m]
                             /\ m \in WrittenBy(req'[j]) => m \in Retr!Stored /\ req'[j].write[m] = accessed[m]
                        /\ m \in Retr!Stored /\ (\A j \in Searches : m \notin WrittenBy(req'[j])) => store[m] = accessed[m]
    BY <1>2 DEF Undisturbed
  <2>2. m \in exact /\ m \notin WrittenBy(req[i])
    OBVIOUS
  <2>3. QED  BY <2>2, <1>1 DEF CountsInv, Undisturbed
<1>6. QED  BY <1>3, <1>4, <1>5 DEF CountsInv

LEMMA RetrStarts == Retr!Init => RetrInv
<1> SUFFICES ASSUME Retr!Init
             PROVE  RetrInv
  OBVIOUS
<1>1. Retr!Stored = {} /\ DOMAIN req = Searches /\ \A i \in Searches : req[i].pc = "idle"
  BY DEF Retr!Init, Retr!Stored, Retr!Idle
<1>2. \A i \in Searches : FoundBy(req[i]) = {} /\ ReadBy(req[i]) = {} /\ ClaimedBy(req[i]) = {} /\ WrittenBy(req[i]) = {}
  BY <1>1 DEF FoundBy, ReadBy, ClaimedBy, WrittenBy
<1>3. /\ working = [n \in 1 .. 2 |-> {}] /\ searcher = 1 /\ injected = <<>> /\ unused = Retrievable /\ exact = Retrievable /\ snapshots = {}
      /\ object = [m \in Retrievable |-> 0] /\ accessed = [m \in Retrievable |-> 0]
  BY DEF Retr!Init
<1>4. RetrTypes
  <2>1. \A i \in Searches : Asking(req[i])
    BY <1>1 DEF Asking
  <2>2. injected \in Seq(Retrievable)
    BY <1>3
  <2>3. QED  BY <2>1, <2>2, <1>1, <1>3 DEF RetrTypes
<1>5. CountsInv
  BY <1>1, <1>2, <1>3 DEF CountsInv, Fresh, NoneMore, Undisturbed
<1>6. KeptForAReason
  BY <1>1 DEF KeptForAReason
<1>7. QED  BY <1>4, <1>5, <1>6 DEF RetrInv

\* A memory put in the collection.
LEMMA PutOne ==
    ASSUME NEW m, NEW c, Retr!Put(m, c)
    PROVE  /\ Retr!Stored' = Retr!Stored \cup {m}
           /\ \A k \in Retr!Stored' : store'[k] = IF k = m THEN c ELSE store[k]
BY DEF Retr!Put, Retr!Stored

LEMMA MemoriesMove ==
    ASSUME RetrInv, NEW m \in Retrievable, Retr!Capture(m) \/ Retr!ArchiveStores(m) \/ Retr!ArchiveClears(m)
    PROVE  RetrInv'
<1> USE DEF RetrInv
<1>1. UNCHANGED <<searcher, injected, req, object, snapshots, accessed, exact>>
  BY DEF Retr!Capture, Retr!ArchiveStores, Retr!ArchiveClears
<1>2. KeptForAReason'
  BY <1>1 DEF KeptForAReason
<1>3. /\ Retr!Stored \subseteq Retrievable /\ \A k \in Retr!Stored : store[k] \in Nat
      /\ working \in [1 .. 2 -> SUBSET Retrievable] /\ searcher \in 1 .. 2
      /\ object \in [Retrievable -> Nat] /\ accessed \in [Retrievable -> Nat] /\ unused \subseteq Retrievable
  BY DEF RetrTypes
<1>4. CASE Retr!Capture(m)
  <2>1. m \in unused /\ unused' = unused \ {m}
    BY <1>4 DEF Retr!Capture
  <2>2. m \notin Retr!Stored /\ object[m] = 0 /\ accessed[m] = 0 /\ \A i \in Searches : m \notin FoundBy(req[i])
    BY <2>1 DEF CountsInv, Fresh
  <2>3. CASE working' = [working EXCEPT ![searcher] = @ \cup {m}] /\ UNCHANGED store
    <3>1. Retr!Stored' = Retr!Stored
      BY <2>3 DEF Retr!Stored
    <3>2. /\ working' \in [1 .. 2 -> SUBSET Retrievable]
          /\ \A k \in unused' : k \in working'[1] => k \in working[1]
          /\ \A k \in unused' : k \in working'[2] => k \in working[2]
      BY <2>1, <2>3, <1>3
    <3>3. RetrTypes'
      BY <2>1, <2>3, <3>1, <3>2, <1>1 DEF RetrTypes
    <3>4. CountsInv'
      BY <2>1, <2>3, <3>1, <3>2, <1>1 DEF CountsInv, Fresh, NoneMore, Undisturbed
    <3>5. QED  BY <3>3, <3>4, <1>2
  <2>4. CASE Retr!Put(m, 0) /\ UNCHANGED working
    <3>1. /\ Retr!Stored' = Retr!Stored \cup {m}
          /\ \A k \in Retr!Stored' : store'[k] = IF k = m THEN 0 ELSE store[k]
      BY <2>4, PutOne
    <3>0. Retr!Stored' \subseteq Retrievable /\ \A k \in Retr!Stored' : store'[k] \in Nat
      BY <1>3, <3>1
    <3>2. RetrTypes'
      BY <2>1, <2>4, <3>0, <1>1, <1>3 DEF RetrTypes
    <3>3. Fresh'
      BY <2>1, <2>4, <3>1, <1>1 DEF CountsInv, Fresh
    <3>4. NoneMore'
      BY <2>2, <3>1, <1>1 DEF CountsInv, NoneMore
    <3>5. Undisturbed'
      BY <2>2, <3>1, <1>1 DEF CountsInv, Undisturbed
    <3>6. QED  BY <3>2, <3>3, <3>4, <3>5, <1>2 DEF CountsInv
  <2>5. QED  BY <2>3, <2>4, <1>4 DEF Retr!Capture
<1>5. CASE Retr!ArchiveStores(m)
  <2>1. m \in working[1] /\ m \notin Retr!Stored /\ Retr!Put(m, object[m]) /\ UNCHANGED <<working, unused>>
    BY <1>5 DEF Retr!ArchiveStores
  <2>2. /\ Retr!Stored' = Retr!Stored \cup {m}
        /\ \A k \in Retr!Stored' : store'[k] = IF k = m THEN object[m] ELSE store[k]
    BY <2>1, PutOne
  <2>3. RetrTypes'
    BY <2>1, <2>2, <1>1, <1>3 DEF RetrTypes
  <2>4. Fresh'
    BY <2>1, <2>2, <1>1 DEF CountsInv, Fresh
  <2>5. NoneMore'
    BY <2>1, <2>2, <1>1 DEF CountsInv, NoneMore
  <2>6. Undisturbed'
    BY <2>1, <2>2, <1>1 DEF CountsInv, Undisturbed
  <2>7. QED  BY <2>3, <2>4, <2>5, <2>6, <1>2 DEF CountsInv
<1>6. CASE Retr!ArchiveClears(m)
  <2>1. working' = [working EXCEPT ![1] = @ \ {m}] /\ UNCHANGED <<store, unused>>
    BY <1>6 DEF Retr!ArchiveClears
  <2>2. Retr!Stored' = Retr!Stored
    BY <2>1 DEF Retr!Stored
  <2>3. working' \in [1 .. 2 -> SUBSET Retrievable] /\ working'[1] \subseteq working[1] /\ working'[2] = working[2]
    BY <2>1, <1>3
  <2>4. RetrTypes'
    BY <2>1, <2>2, <2>3, <1>1 DEF RetrTypes
  <2>5. CountsInv'
    BY <2>1, <2>2, <2>3, <1>1 DEF CountsInv, Fresh, NoneMore, Undisturbed
  <2>6. QED  BY <2>4, <2>5, <1>2
<1>7. QED  BY <1>4, <1>5, <1>6

LEMMA DeleteAllKeeps == RetrInv /\ Retr!DeleteAll => RetrInv'
<1> SUFFICES ASSUME RetrInv, Retr!DeleteAll
             PROVE  RetrInv'
  OBVIOUS
<1> USE DEF RetrInv
<1>1. /\ store' = <<>> /\ searcher' = 2 /\ exact' = {} /\ working' = [working EXCEPT ![2] = {}]
      /\ UNCHANGED <<injected, req, object, unused, snapshots, accessed>>
  BY DEF Retr!DeleteAll
<1>2. Retr!Stored' = {}
  BY <1>1 DEF Retr!Stored
<1>3. working' \in [1 .. 2 -> SUBSET Retrievable] /\ working'[1] = working[1] /\ working'[2] = {}
  BY <1>1 DEF RetrTypes
<1>4. RetrTypes'
  BY <1>1, <1>2, <1>3 DEF RetrTypes
<1>5. CountsInv'
  BY <1>1, <1>2, <1>3 DEF CountsInv, Fresh, NoneMore, Undisturbed
<1>6. QED  BY <1>1, <1>4, <1>5 DEF KeptForAReason

\* Nobody else has a memory that nothing disturbs and that is found now.
LEMMA ReadsRight ==
    ASSUME RetrTypes, CountsInv, NEW i \in Searches, req[i].pc = "query", NEW m \in Retr!Stored
    PROVE  /\ m \notin unused /\ store[m] \in Nat /\ store[m] <= accessed[m]
           /\ m \in exact /\ m \notin Retr!Busy(i) => store[m] = accessed[m]
<1>1. \A j \in Searches : WrittenBy(req[j]) \subseteq FoundBy(req[j])
  BY FoundFirst DEF RetrTypes
<1>2. WrittenBy(req[i]) = {}
  BY DEF WrittenBy
<1>3. m \notin Retr!Busy(i) => \A j \in Searches : m \notin WrittenBy(req[j])
  BY <1>1, <1>2, BusyWith
<1>4. m \notin unused /\ store[m] \in Nat /\ store[m] <= accessed[m]
  BY DEF RetrTypes, CountsInv, Fresh, NoneMore
<1>5. QED  BY <1>3, <1>4 DEF CountsInv, Undisturbed

\* The nearest are of the collection, and not too many.
LEMMA NearestOf ==
    ASSUME RetrTypes, Searchable, NEW n \in Nat, NEW S \in Retr!Nearest(n)
    PROVE  S \subseteq Retr!Stored /\ IsFiniteSet(S) /\ Cardinality(S) \in Nat /\ Cardinality(S) <= n
<1>1. IsFiniteSet(Retr!Stored)
  BY FS_Subset DEF RetrTypes, Searchable
<1>2. CASE S = {}
  BY <1>2, FS_EmptySet
<1>3. CASE S \in Retr!Take(Retr!Stored, n)
  <2>1. n \in Int
    OBVIOUS
  <2>2. QED  BY <1>1, <1>3, <2>1, TakenOf, Zenon
<1>4. QED  BY <1>2, <1>3 DEF Retr!Nearest

\* The request of an access is the only one that changes, and it waits to write.
LEMMA AccessEnds ==
    ASSUME RetrInv, NEW i \in Searches,
           CountsInv', object' \in [Retrievable -> Nat], accessed' \in [Retrievable -> Nat], exact' \subseteq Retrievable,
           DOMAIN req' = Searches, \A j \in Searches : Asking(req'[j]),
           req'[i].pc # "history", \A j \in Searches : j # i => req'[j] = req[j],
           UNCHANGED <<store, working, searcher, injected, unused, snapshots, searched>>
    PROVE  RetrInv'
<1> USE DEF RetrInv
<1>1. RetrTypes'
  BY DEF RetrTypes, Retr!Stored
<1>2. KeptForAReason'
  BY DEF KeptForAReason
<1>3. QED  BY <1>1, <1>2

LEMMA QueryKeeps ==
    ASSUME RetrInv, Searchable, NEW i \in Searches, Retr!QueryReturns(i)
    PROVE  RetrInv'
<1>1. RetrTypes /\ CountsInv /\ req[i].pc = "query" /\ TopK \in Nat
  BY DEF RetrInv, Retr!QueryReturns, Searchable
<1>2. UNCHANGED <<store, working, searcher, injected, unused, snapshots, searched>>
  BY DEF Retr!QueryReturns
<1>3. ASSUME NEW n \in Nat, n <= 2 * TopK, NEW S \in Retr!Nearest(n), Retr!Access(i, Retr!SetToSeq(S), {}, Retr!Read(S))
      PROVE  RetrInv'
  <2>1. S \subseteq Retr!Stored /\ IsFiniteSet(S) /\ Cardinality(S) \in Nat /\ Cardinality(S) <= n
    BY <1>1, NearestOf
  <2>2. PICK s : s = Retr!SetToSeq(S)
    OBVIOUS
  <2>3. PICK c \in Nat : c = Cardinality(S)
    BY <2>1
  <2>4. Retr!IsInjective(s) /\ Retr!Range(s) = S /\ Len(s) = c
    BY <2>1, <2>2, <2>3, Listed, Zenon
  <2>5. Len(s) <= 2 * TopK
    BY <2>1, <2>3, <2>4, <1>1, <1>3
  <2>6. PICK read : read = Retr!Read(S)
    OBVIOUS
  <2>7. \A m \in S : read[m] = store[m]
    BY <2>6 DEF Retr!Read
  <2>8. S \subseteq Retrievable
    BY <2>1, <1>1 DEF RetrTypes
  <2>9. \A m \in S \ {} :
          /\ m \notin unused /\ read[m] \in Nat /\ read[m] <= accessed[m]
          /\ m \in exact /\ m \notin Retr!Busy(i) => m \in Retr!Stored /\ read[m] = accessed[m]
    BY <2>1, <2>7, <1>1, ReadsRight
  <2>10. Retr!Access(i, s, {}, read) /\ req[i].pc \in {"query", "working"} /\ {} \in SUBSET working[1]
    BY <2>2, <2>6, <1>1, <1>3
  <2>11. UNCHANGED <<store, working, unused, snapshots>>
    BY <1>2
  <2>12. /\ CountsInv'
         /\ object' \in [Retrievable -> Nat] /\ accessed' \in [Retrievable -> Nat] /\ exact' \subseteq Retrievable
         /\ DOMAIN req' = Searches /\ \A j \in Searches : Asking(req'[j]) /\ (j = i => req'[j].pc # "history")
         /\ \A j \in Searches : j # i => req'[j] = req[j]
    BY <2>4, <2>5, <2>8, <2>9, <2>10, <2>11, <1>1, AccessKeeps, Zenon
  <2>13. QED  BY <2>12, <1>2, AccessEnds
<1>4. CASE Retr!VectorOnly(i)
  <2>1. PICK S \in Retr!Nearest(TopK) : Retr!Access(i, Retr!SetToSeq(S), {}, Retr!Read(S))
    BY <1>4 DEF Retr!VectorOnly
  <2>2. TopK <= 2 * TopK
    BY <1>1
  <2>3. QED  BY <2>1, <2>2, <1>1, <1>3
<1>5. CASE Retr!TimeAware(i)
  <2>1. PICK n \in Nat : n = 2 * TopK
    BY <1>1
  <2>2. PICK S \in Retr!Nearest(n) : Retr!Access(i, Retr!SetToSeq(S), {}, Retr!Read(S))
    BY <2>1, <1>5 DEF Retr!TimeAware
  <2>3. n <= 2 * TopK
    BY <2>1
  <2>4. QED  BY <2>2, <2>3, <1>3
<1>6. CASE Retr!Hybrid(i)
  <2>1. PICK n \in Nat : n = 2 * TopK
    BY <1>1
  <2>2. PICK S \in Retr!Nearest(n) :
          /\ req' = [req EXCEPT ![i] = [pc |-> "working", inject |-> req[i].inject, found |-> S, read |-> Retr!Read(S)]]
          /\ exact' = exact \ (S \cap Retr!Busy(i))
          /\ UNCHANGED <<object, accessed>>
    BY <2>1, <1>6 DEF Retr!Hybrid
  <2>3. S \subseteq Retr!Stored /\ S \subseteq Retrievable
    BY <2>1, <1>1, NearestOf DEF RetrTypes
  <2>4. PICK read : read = Retr!Read(S)
    OBVIOUS
  <2>5. \A m \in S : read[m] = store[m]
    BY <2>4 DEF Retr!Read
  <2>6. \A m \in S :
          /\ m \notin unused /\ read[m] \in Nat /\ read[m] <= accessed[m]
          /\ m \in exact /\ m \notin Retr!Busy(i) => m \in Retr!Stored /\ read[m] = accessed[m]
    BY <2>3, <2>5, <1>1, ReadsRight
  <2>7. DOMAIN req = Searches /\ \A j \in Searches : Asking(req[j])
    BY <1>1 DEF RetrTypes
  <2>8. /\ DOMAIN req' = Searches /\ \A j \in Searches : j # i => req'[j] = req[j]
        /\ req'[i].pc = "working" /\ req'[i].found = S /\ req'[i].read = read
    BY <2>2, <2>4, <2>7
  <2>9. /\ FoundBy(req'[i]) = S /\ ReadBy(req'[i]) = S /\ ClaimedBy(req'[i]) = S /\ WrittenBy(req'[i]) = {}
        /\ WrittenBy(req[i]) = {}
    BY <2>8, <1>1 DEF FoundBy, ReadBy, ClaimedBy, WrittenBy
  <2>10. \A j \in Searches : Asking(req'[j])
    BY <2>3, <2>6, <2>7, <2>8 DEF Asking
  <2>11. Retr!Stored' = Retr!Stored
    BY <1>2 DEF Retr!Stored
  <2>12. Fresh'
    BY <2>2, <2>6, <2>8, <2>9, <2>11, <1>1, <1>2 DEF CountsInv, Fresh
  <2>13. NoneMore'
    BY <2>2, <2>6, <2>8, <2>9, <2>11, <1>1, <1>2 DEF CountsInv, NoneMore
  <2>14. Undisturbed'
    <3>1. \A m \in S : m \in exact' => \A j \in Searches : j # i => m \notin ClaimedBy(req[j])
      <4>1. \A j \in Searches : ClaimedBy(req[j]) \subseteq FoundBy(req[j])
        BY <2>7, FoundFirst
      <4>2. QED  BY <4>1, <2>2, BusyWith
    <3>2. \A m \in S : m \in exact' => m \in Retr!Stored /\ read[m] = accessed[m]
      BY <2>2, <2>6
    <3>3. exact' \subseteq exact
      BY <2>2
    <3>4. QED  BY <2>2, <2>8, <2>9, <2>11, <3>1, <3>2, <3>3, <1>1, <1>2 DEF CountsInv, Undisturbed
  <2>15. /\ object' \in [Retrievable -> Nat] /\ accessed' \in [Retrievable -> Nat] /\ exact' \subseteq Retrievable
    BY <2>2, <1>1 DEF RetrTypes
  <2>16. CountsInv' /\ req'[i].pc # "history"
    BY <2>8, <2>12, <2>13, <2>14 DEF CountsInv
  <2>17. QED  BY <2>8, <2>10, <2>15, <2>16, <1>2, AccessEnds
<1>7. QED  BY <1>4, <1>5, <1>6 DEF Retr!QueryReturns

LEMMA WorkingKeeps ==
    ASSUME RetrInv, Searchable, NEW i \in Searches, Retr!WorkingReturns(i)
    PROVE  RetrInv'
<1>1. RetrTypes /\ CountsInv /\ req[i].pc = "working" /\ TopK \in Nat \ {0} /\ MaxContext \in Nat /\ IsFiniteSet(Retrievable)
  BY DEF RetrInv, Retr!WorkingReturns, Searchable
<1>2. UNCHANGED <<store, working, searcher, injected, unused, snapshots, searched>>
  BY DEF Retr!WorkingReturns
<1>3. PICK W \in SUBSET working[1] : \E V \in Retr!Take(W, Retr!MaxWorking) :
        \E s \in Retr!Merged(Retr!SetToSeq(V), req[i].found) : Retr!Access(i, s, V, req[i].read)
  BY DEF Retr!WorkingReturns
<1>4. PICK V \in Retr!Take(W, Retr!MaxWorking) :
        \E s \in Retr!Merged(Retr!SetToSeq(V), req[i].found) : Retr!Access(i, s, V, req[i].read)
  BY <1>3
<1>5. PICK s \in Retr!Merged(Retr!SetToSeq(V), req[i].found) : Retr!Access(i, s, V, req[i].read)
  BY <1>4
<1>6. working[1] \subseteq Retrievable /\ W \subseteq Retrievable
  BY <1>1 DEF RetrTypes
<1>7. IsFiniteSet(W)
  BY <1>1, <1>6, FS_Subset
<1>8. PICK n \in Int : n = Retr!MaxWorking /\ n <= TopK + 1
  <2>1. PICK b \in Int : b = TopK + 1
    BY <1>1
  <2>2. MaxContext \in Int
    BY <1>1
  <2>3. Retr!Min({MaxContext, b}) \in Int /\ Retr!Min({MaxContext, b}) <= b
    BY <2>2, LeastIs
  <2>4. Retr!MaxWorking = Retr!Min({MaxContext, b})
    BY <2>1, Zenon DEF Retr!MaxWorking
  <2>5. QED  BY <2>1, <2>3, <2>4, Zenon
<1>9. V \subseteq W /\ IsFiniteSet(V) /\ Cardinality(V) \in Nat /\ Cardinality(V) <= n
  BY <1>4, <1>7, <1>8, TakenOf, Zenon
<1>10. PICK c \in Nat : c = Cardinality(V)
  BY <1>9
<1>11. Cardinality(V) <= 2 * TopK
  BY <1>1, <1>8, <1>9, <1>10
<1>12. /\ req[i].found \subseteq Retrievable /\ \A m \in req[i].found : req[i].read[m] \in Nat
       /\ FoundBy(req[i]) = req[i].found /\ ReadBy(req[i]) = req[i].found
  BY <1>1 DEF RetrTypes, Asking, FoundBy, ReadBy
<1>13. IsFiniteSet(req[i].found)
  BY <1>1, <1>12, FS_Subset
<1>14. /\ Retr!IsInjective(s) /\ Len(s) <= 2 * TopK
       /\ Retr!Range(s) \subseteq V \cup req[i].found
  BY <1>1, <1>5, <1>9, <1>11, <1>13, MergedWell
<1>15. Retr!Range(s) \subseteq Retrievable /\ V \in SUBSET working[1]
  BY <1>3, <1>6, <1>9, <1>12, <1>14
<1>16. \A m \in Retr!Range(s) \ V :
         /\ m \notin unused /\ req[i].read[m] \in Nat /\ req[i].read[m] <= accessed[m]
         /\ m \in exact /\ m \notin Retr!Busy(i) => m \in Retr!Stored /\ req[i].read[m] = accessed[m]
  <2>1. TAKE m \in Retr!Range(s) \ V
  <2>2. m \in FoundBy(req[i]) /\ m \in ReadBy(req[i]) /\ m \in req[i].found
    BY <1>12, <1>14
  <2>3. QED  BY <2>2, <1>1, <1>12 DEF CountsInv, Fresh, NoneMore, Undisturbed
<1>17. req[i].pc \in {"query", "working"} /\ UNCHANGED <<store, working, unused, snapshots>>
  BY <1>1, <1>2
<1>18. /\ CountsInv'
       /\ object' \in [Retrievable -> Nat] /\ accessed' \in [Retrievable -> Nat] /\ exact' \subseteq Retrievable
       /\ DOMAIN req' = Searches /\ \A j \in Searches : Asking(req'[j]) /\ (j = i => req'[j].pc # "history")
       /\ \A j \in Searches : j # i => req'[j] = req[j]
  <2>1. PICK read : read = req[i].read
    OBVIOUS
  <2>2. Retr!Access(i, s, V, read)
    BY <2>1, <1>5
  <2>3. \A m \in Retr!Range(s) \ V :
          /\ m \notin unused /\ read[m] \in Nat /\ read[m] <= accessed[m]
          /\ m \in exact /\ m \notin Retr!Busy(i) => m \in Retr!Stored /\ read[m] = accessed[m]
    BY <2>1, <1>16
  <2>4. QED  BY <2>2, <2>3, <1>1, <1>14, <1>15, <1>17, AccessKeeps, Zenon
<1>19. QED  BY <1>18, <1>2, AccessEnds

LEMMA AskOrFailKeeps ==
    ASSUME RetrInv, NEW i \in Searches, (\E inject \in BOOLEAN : Retr!Ask(i, inject)) \/ Retr!Fail(i)
    PROVE  RetrInv'
<1>1. RetrTypes /\ CountsInv /\ KeptForAReason /\ DOMAIN req = Searches /\ \A j \in Searches : Asking(req[j])
  BY DEF RetrInv, RetrTypes
<1>2. UNCHANGED <<store, working, searcher, injected, object, unused, snapshots, accessed, exact>> /\ Quiet(req[i])
  BY DEF Retr!Ask, Retr!Fail, Quiet
<1>3. PICK r : req' = [req EXCEPT ![i] = r] /\ r.pc \in {"query", "idle"}
  <2>1. ASSUME NEW inject \in BOOLEAN, Retr!Ask(i, inject)
        PROVE  \E r : req' = [req EXCEPT ![i] = r] /\ r.pc \in {"query", "idle"}
    <3>1. PICK r : r = [pc |-> "query", inject |-> inject]
      OBVIOUS
    <3>2. req' = [req EXCEPT ![i] = r] /\ r.pc = "query"
      BY <2>1, <3>1 DEF Retr!Ask
    <3>3. QED  BY <3>2
  <2>2. ASSUME Retr!Fail(i)
        PROVE  \E r : req' = [req EXCEPT ![i] = r] /\ r.pc \in {"query", "idle"}
    <3>1. req' = [req EXCEPT ![i] = Retr!Idle] /\ Retr!Idle.pc = "idle"
      BY <2>2 DEF Retr!Fail, Retr!Idle
    <3>2. QED  BY <3>1
  <2>3. QED  BY <2>1, <2>2
<1>4. /\ DOMAIN req' = Searches /\ req'[i] = r /\ \A j \in Searches : j # i => req'[j] = req[j]
  BY <1>1, <1>3
<1>5. \A j \in Searches : Asking(req'[j])
  BY <1>1, <1>3, <1>4 DEF Asking
<1>6. RetrTypes'
  BY <1>1, <1>2, <1>4, <1>5 DEF RetrTypes, Retr!Stored
<1>7. CountsInv'
  <2>1. \A j \in Searches : req'[j] = req[j] \/ (Quiet(req'[j]) /\ (j = i \/ Quiet(req[j])))
    BY <1>3, <1>4 DEF Quiet
  <2>2. exact' \subseteq exact /\ exact' \cap WrittenBy(req[i]) = {}
    BY <1>2 DEF Quiet, WrittenBy
  <2>3. UNCHANGED <<store, working, object, unused, snapshots, accessed>>
    BY <1>2
  <2>4. QED  BY <2>1, <2>2, <2>3, <1>1, EndKeeps
<1>8. KeptForAReason'
  BY <1>1, <1>2, <1>3, <1>4 DEF KeptForAReason
<1>9. QED  BY <1>6, <1>7, <1>8 DEF RetrInv

\* What is delivered of a result is of it, and new unless all of it was shown.
LEMMA Delivers ==
    ASSUME RetrTypes, NEW i \in Searches, req[i].pc = "sync", Retr!Deliver(i)
    PROVE  /\ DOMAIN req' = Searches /\ \A j \in Searches : j # i => req'[j] = req[j]
           /\ Quiet(req'[i]) /\ Asking(req'[i])
           /\ req'[i].pc = "history" => req'[i].again \/ req'[i].kept \cap Retr!Range(injected) \subseteq req'[i].since
<1>1. PICK F \in Retr!Filtered(req[i].result) :
        req' = [req EXCEPT ![i] =
                  IF req[i].inject
                  THEN [pc |-> "history", kept |-> F, since |-> {}, again |-> req[i].result \subseteq Retr!Range(injected)]
                  ELSE Retr!Idle]
  BY DEF Retr!Deliver
<1>2. DOMAIN req = Searches /\ req[i].result \subseteq Retrievable
  BY DEF RetrTypes, Asking
<1>3. PICK yes \in BOOLEAN : yes = (req[i].result \subseteq Retr!Range(injected))
  OBVIOUS
<1>4. PICK none : none = {}
  OBVIOUS
<1>5. PICK r : r = [pc |-> "history", kept |-> F, since |-> none, again |-> yes]
  OBVIOUS
<1>6. req' = [req EXCEPT ![i] = IF req[i].inject THEN r ELSE Retr!Idle]
  BY <1>1, <1>3, <1>4, <1>5, Zenon
<1>7. /\ DOMAIN req' = Searches /\ \A j \in Searches : j # i => req'[j] = req[j]
      /\ req'[i] = r \/ req'[i] = Retr!Idle
  BY <1>2, <1>6
<1>8. F \subseteq req[i].result /\ (yes \/ F \cap Retr!Range(injected) = {})
  BY <1>3 DEF Retr!Filtered, Retr!Take
<1>9. r \in [pc : {"history"}, kept : SUBSET Retrievable, since : SUBSET Retrievable, again : BOOLEAN]
  BY <1>2, <1>4, <1>5, <1>8
<1>10. r.pc = "history" /\ r.kept = F /\ r.again = yes
  BY <1>5
<1>11. Retr!Idle.pc = "idle"
  BY DEF Retr!Idle
<1>12. CASE req'[i] = r
  BY <1>7, <1>8, <1>9, <1>10, <1>12 DEF Quiet, Asking
<1>13. CASE req'[i] = Retr!Idle
  BY <1>7, <1>11, <1>13 DEF Quiet, Asking
<1>14. QED  BY <1>7, <1>12, <1>13

LEMMA WriteKeeps ==
    ASSUME RetrInv, NEW i \in Searches, Retr!SyncReturns(i)
    PROVE  RetrInv'
<1>1. RetrTypes /\ CountsInv /\ KeptForAReason /\ req[i].pc = "sync" /\ \A j \in Searches : Asking(req[j])
  BY DEF RetrInv, RetrTypes, Retr!SyncReturns
<1>2. UNCHANGED <<working, searcher, injected, object, unused, snapshots, accessed, searched>> /\ Retr!Deliver(i)
  BY DEF Retr!SyncReturns
<1>3. /\ DOMAIN req' = Searches /\ \A j \in Searches : j # i => req'[j] = req[j]
      /\ Quiet(req'[i]) /\ Asking(req'[i])
      /\ req'[i].pc = "history" => req'[i].again \/ req'[i].kept \cap Retr!Range(injected) \subseteq req'[i].since
  BY <1>1, <1>2, Delivers
<1>4. \A j \in Searches : Asking(req'[j])
  BY <1>1, <1>3
<1>5. KeptForAReason'
  BY <1>1, <1>2, <1>3 DEF KeptForAReason
<1>6. WrittenBy(req[i]) = DOMAIN req[i].write
  BY <1>1 DEF WrittenBy
<1>7. CASE store' = Retr!Written(i) /\ UNCHANGED exact
  <2>1. /\ Retr!Stored' = Retr!Stored
        /\ \A m \in Retr!Stored : store'[m] = IF m \in WrittenBy(req[i]) THEN req[i].write[m] ELSE store[m]
    BY <1>6, <1>7 DEF Retr!Written, Retr!Stored
  <2>2. \A m \in WrittenBy(req[i]) : req[i].write[m] \in Nat
    BY <1>1 DEF Asking, WrittenBy
  <2>3. RetrTypes'
    BY <2>1, <2>2, <1>1, <1>2, <1>3, <1>4, <1>7 DEF RetrTypes
  <2>4. FoundBy(req'[i]) = {} /\ ReadBy(req'[i]) = {} /\ ClaimedBy(req'[i]) = {} /\ WrittenBy(req'[i]) = {}
    BY <1>3 DEF Quiet, FoundBy, ReadBy, ClaimedBy, WrittenBy
  <2>5. Fresh'
    BY <2>1, <2>4, <1>1, <1>2, <1>3 DEF CountsInv, Fresh
  <2>6. NoneMore'
    BY <2>1, <2>4, <1>1, <1>2, <1>3 DEF CountsInv, NoneMore
  <2>7. Undisturbed'
    <3>1. SUFFICES ASSUME NEW m \in exact
                   PROVE  /\ \A h, j \in Searches : m \in ClaimedBy(req'[h]) /\ m \in ClaimedBy(req'[j]) => h = j
                          /\ m \notin Retr!Stored => object[m] = accessed[m]
                          /\ \A j \in Searches :
                               /\ m \in ReadBy(req'[j]) => m \in Retr!Stored /\ req'[j].read[m] = accessed[m]
                               /\ m \in WrittenBy(req'[j]) => m \in Retr!Stored /\ req'[j].write[m] = accessed[m]
                          /\ m \in Retr!Stored /\ (\A j \in Searches : m \notin WrittenBy(req'[j])) => store'[m] = accessed[m]
      BY <2>1, <1>2, <1>7 DEF Undisturbed
    <3>2. /\ \A h, j \in Searches : m \in ClaimedBy(req[h]) /\ m \in ClaimedBy(req[j]) => h = j
          /\ m \notin Retr!Stored => object[m] = accessed[m]
          /\ \A j \in Searches :
               /\ m \in ReadBy(req[j]) => m \in Retr!Stored /\ req[j].read[m] = accessed[m]
               /\ m \in WrittenBy(req[j]) => m \in Retr!Stored /\ req[j].write[m] = accessed[m]
          /\ m \in Retr!Stored /\ (\A j \in Searches : m \notin WrittenBy(req[j])) => store[m] = accessed[m]
      BY <1>1 DEF CountsInv, Undisturbed
    <3>3. CASE m \in WrittenBy(req[i])
      BY <3>2, <3>3, <2>1, <2>4, <1>3
    <3>4. CASE m \notin WrittenBy(req[i])
      BY <3>2, <3>4, <2>1, <2>4, <1>3
    <3>5. QED  BY <3>3, <3>4
  <2>8. QED  BY <2>3, <2>5, <2>6, <2>7, <1>5 DEF RetrInv, CountsInv
<1>8. CASE exact' = exact \ DOMAIN req[i].write /\ UNCHANGED store
  <2>1. RetrTypes'
    BY <1>1, <1>2, <1>3, <1>4, <1>8 DEF RetrTypes, Retr!Stored
  <2>2. \A j \in Searches : req'[j] = req[j] \/ (Quiet(req'[j]) /\ (j = i \/ Quiet(req[j])))
    BY <1>3
  <2>3. exact' \subseteq exact /\ exact' \cap WrittenBy(req[i]) = {}
    BY <1>6, <1>8
  <2>4. UNCHANGED <<store, working, object, unused, snapshots, accessed>>
    BY <1>2, <1>8
  <2>5. CountsInv'
    BY <2>2, <2>3, <2>4, <1>1, EndKeeps
  <2>6. QED  BY <2>1, <2>5, <1>5 DEF RetrInv
<1>9. QED  BY <1>7, <1>8 DEF Retr!SyncReturns

\* What a mark does to the list: the marked are known, and nobody else.
LEMMA Marks ==
    ASSUME RetrTypes, Searchable, NEW K \in SUBSET Retrievable, Retr!Mark(K)
    PROVE  /\ injected' \in Seq(Retrievable)
           /\ Retr!Range(injected') \subseteq Retr!Range(injected) \cup K
           /\ Cardinality(K) <= MaxTrack => K \subseteq Retr!Range(injected')
<1>1. IsFiniteSet(K) /\ MaxTrack \in Nat \ {0} /\ injected \in Seq(Retrievable)
  BY FS_Subset DEF Searchable, RetrTypes
<1>2. PICK t : t = Retr!SetToSeq(K)
  OBVIOUS
<1>3. t \in Seq(K) /\ Len(t) = Cardinality(K) /\ Retr!Range(t) = K
  BY <1>1, <1>2, Listed, Zenon
<1>4. t \in Seq(Retrievable)
  BY <1>3, SeqMonotonic
<1>5. injected' = Retr!Newest(injected \o t, MaxTrack)
  BY <1>2, Zenon DEF Retr!Mark
<1>6. /\ Retr!Newest(injected \o t, MaxTrack) \in Seq(Retrievable)
      /\ Retr!Range(Retr!Newest(injected \o t, MaxTrack)) \subseteq Retr!Range(injected) \cup Retr!Range(t)
      /\ Len(t) <= MaxTrack => Retr!Range(t) \subseteq Retr!Range(Retr!Newest(injected \o t, MaxTrack))
  BY <1>1, <1>4, NewestOf, Zenon
<1>7. QED  BY <1>3, <1>5, <1>6, Zenon

LEMMA InjectKeeps ==
    ASSUME RetrInv, Searchable, NEW i \in Searches, NEW T \in SUBSET Retrievable, Retr!Inject(i, T)
    PROVE  RetrInv'
<1>1. /\ RetrTypes /\ CountsInv /\ KeptForAReason /\ req[i].pc = "history" /\ DOMAIN req = Searches
      /\ injected \in Seq(Retrievable) /\ \A j \in Searches : Asking(req[j])
  BY DEF RetrInv, RetrTypes, Retr!Inject
<1>2. UNCHANGED <<store, working, searcher, object, unused, snapshots, accessed, exact, searched>>
  BY DEF Retr!Inject
<1>3. PICK K : K = req[i].kept
  OBVIOUS
<1>4. K \in SUBSET Retrievable
  BY <1>1, <1>3 DEF Asking
<1>5. /\ injected' \in Seq(Retrievable)
      /\ Retr!Range(injected') \subseteq Retr!Range(injected) \cup K
  <2>1. injected' = injected \/ Retr!Mark(K)
    BY <1>3 DEF Retr!Inject
  <2>2. QED  BY <2>1, <1>1, <1>4, Marks DEF Retr!Range
<1>6. /\ DOMAIN req' = Searches
      /\ \A j \in Searches : req'[j] = IF j = i THEN Retr!Idle
                                       ELSE IF req[j].pc = "history" THEN [req[j] EXCEPT !.since = @ \cup K]
                                       ELSE req[j]
  BY <1>3 DEF Retr!Inject
<1>7. Retr!Idle.pc = "idle"
  BY DEF Retr!Idle
<1>8. req'[i].pc = "idle"
  BY <1>6, <1>7
<1>9. ASSUME NEW j \in Searches, j # i, req[j].pc = "history"
      PROVE  /\ req'[j] \in [pc : {"history"}, kept : SUBSET Retrievable, since : SUBSET Retrievable, again : BOOLEAN]
             /\ req'[j].kept = req[j].kept /\ req'[j].again = req[j].again /\ req'[j].since = req[j].since \cup K
  <2>1. PICK q : q = req[j]
    OBVIOUS
  <2>2. q \in [pc : {"history"}, kept : SUBSET Retrievable, since : SUBSET Retrievable, again : BOOLEAN]
    BY <2>1, <1>1, <1>9 DEF Asking
  <2>3. req'[j] = [q EXCEPT !.since = @ \cup K]
    BY <2>1, <1>6, <1>9
  <2>4. QED  BY <2>1, <2>2, <2>3, <1>4
<1>10. \A j \in Searches : j # i /\ req[j].pc # "history" => req'[j] = req[j]
  BY <1>6
<1>11. \A j \in Searches : Asking(req'[j])
  <2>1. TAKE j \in Searches
  <2>2. CASE j = i
    BY <2>2, <1>8 DEF Asking
  <2>3. CASE j # i /\ req[j].pc = "history"
    BY <2>3, <1>9 DEF Asking
  <2>4. CASE j # i /\ req[j].pc # "history"
    BY <2>4, <1>1, <1>10
  <2>5. QED  BY <2>2, <2>3, <2>4
<1>12. RetrTypes'
  BY <1>1, <1>2, <1>5, <1>6, <1>11 DEF RetrTypes, Retr!Stored
<1>13. CountsInv'
  <2>1. \A j \in Searches : req'[j] = req[j] \/ (Quiet(req'[j]) /\ (j = i \/ Quiet(req[j])))
    <3>1. TAKE j \in Searches
    <3>2. CASE j = i
      BY <3>2, <1>8 DEF Quiet
    <3>3. CASE j # i /\ req[j].pc = "history"
      BY <3>3, <1>9 DEF Quiet
    <3>4. CASE j # i /\ req[j].pc # "history"
      BY <3>4, <1>10
    <3>5. QED  BY <3>2, <3>3, <3>4
  <2>2. exact' \subseteq exact /\ exact' \cap WrittenBy(req[i]) = {}
    BY <1>1, <1>2 DEF WrittenBy
  <2>3. UNCHANGED <<store, working, object, unused, snapshots, accessed>>
    BY <1>2
  <2>4. QED  BY <2>1, <2>2, <2>3, <1>1, EndKeeps
<1>14. KeptForAReason'
  <2>1. SUFFICES ASSUME NEW j \in Searches, req'[j].pc = "history"
                 PROVE  req'[j].again \/ req'[j].kept \cap Retr!Range(injected') \subseteq req'[j].since
    BY DEF KeptForAReason, Retr!Range
  <2>2. j # i /\ req[j].pc = "history"
    BY <2>1, <1>8, <1>10
  <2>3. req[j].again \/ req[j].kept \cap Retr!Range(injected) \subseteq req[j].since
    BY <2>2, <1>1 DEF KeptForAReason
  <2>4. QED  BY <2>2, <2>3, <1>5, <1>9
<1>15. QED  BY <1>12, <1>13, <1>14 DEF RetrInv

\* A row that is read, and one that is let go.
LEMMA ReadKeeps ==
    ASSUME RetrInv, NEW m \in Retrievable, Retr!Reads(m)
    PROVE  RetrInv'
<1>1. /\ RetrTypes /\ CountsInv /\ KeptForAReason
      /\ UNCHANGED <<store, working, searcher, injected, req, object, unused, accessed, exact>>
  BY DEF RetrInv, Retr!Reads
<1>2. m \in Retr!Stored /\ m \notin unused /\ store[m] \in Nat /\ store[m] <= accessed[m]
  BY <1>1 DEF Retr!Reads, RetrTypes, CountsInv, Fresh, NoneMore
<1>3. \A r \in snapshots' : r \in snapshots \/ (r.memory = m /\ r.count = store[m])
  BY DEF Retr!Reads
<1>4. Retr!Stored' = Retr!Stored /\ Retr!Range(injected') = Retr!Range(injected)
  BY <1>1 DEF Retr!Stored, Retr!Range
<1>5. RetrTypes'
  BY <1>1, <1>2, <1>3, <1>4 DEF RetrTypes
<1>6. Fresh'
  BY <1>1, <1>2, <1>3, <1>4 DEF CountsInv, Fresh
<1>7. NoneMore'
  BY <1>1, <1>2, <1>3, <1>4 DEF CountsInv, NoneMore
<1>8. Undisturbed' /\ KeptForAReason'
  BY <1>1, <1>4 DEF CountsInv, Undisturbed, KeptForAReason
<1>9. QED  BY <1>5, <1>6, <1>7, <1>8 DEF RetrInv, CountsInv

LEMMA DropKeeps ==
    ASSUME RetrInv, NEW r \in snapshots, Retr!Drops(r)
    PROVE  RetrInv'
<1>1. /\ RetrTypes /\ CountsInv /\ KeptForAReason
      /\ UNCHANGED <<store, working, searcher, injected, req, object, unused, accessed, exact>>
      /\ \A q \in snapshots' : q \in snapshots
  BY DEF RetrInv, Retr!Drops
<1>2. Retr!Stored' = Retr!Stored /\ Retr!Range(injected') = Retr!Range(injected)
  BY <1>1 DEF Retr!Stored, Retr!Range
<1>3. RetrTypes' /\ KeptForAReason'
  BY <1>1, <1>2 DEF RetrTypes, KeptForAReason
<1>4. Fresh' /\ NoneMore' /\ Undisturbed'
  BY <1>1, <1>2 DEF CountsInv, Fresh, NoneMore, Undisturbed
<1>5. QED  BY <1>3, <1>4 DEF RetrInv, CountsInv

LEMMA SearchedBy ==
    ASSUME NEW m
    PROVE  m \in Retr!Searched <=> \E j \in Searches : m \in FoundBy(req[j])
BY DEF Retr!Searched, FoundBy

\* A row that is written back with the count that was read, or one more: what nothing
\* disturbs has the same count then, or one more that is counted.
LEMMA WriteBackKeeps ==
    ASSUME RetrInv, NEW r \in snapshots, NEW more \in 0 .. 1, Retr!WritesBack(r, more)
    PROVE  RetrInv'
<1>1. /\ RetrTypes /\ CountsInv /\ KeptForAReason /\ \A j \in Searches : Asking(req[j])
      /\ UNCHANGED <<working, searcher, injected, req, object, unused>>
      /\ \A q \in snapshots' : q \in snapshots
  BY DEF RetrInv, RetrTypes, Retr!WritesBack
<1>2. PICK k \in Retrievable, c \in Nat : k = r.memory /\ c = r.count
  BY <1>1 DEF RetrTypes
<1>3. k \notin unused /\ c <= accessed[k]
  BY <1>1, <1>2 DEF CountsInv, Fresh, NoneMore
<1>4. accessed \in [Retrievable -> Nat] /\ unused \subseteq Retrievable /\ exact \subseteq Retrievable
  BY <1>1 DEF RetrTypes
<1>5. /\ accessed' \in [Retrievable -> Nat]
      /\ \A m \in Retrievable : accessed'[m] = IF m = k THEN accessed[m] + more ELSE accessed[m]
      /\ \A m \in Retrievable : accessed'[m] >= accessed[m] /\ accessed'[m] \in Nat /\ accessed[m] \in Nat
  <2>1. accessed' = [accessed EXCEPT ![k] = @ + more]
    BY <1>2 DEF Retr!WritesBack
  <2>2. QED  BY <2>1, <1>4
<1>6. /\ Retr!Stored' = Retr!Stored
      /\ \A m \in Retr!Stored : store'[m] = IF m = k THEN c + more ELSE store[m]
  BY <1>2 DEF Retr!WritesBack, Retr!Stored
<1>7. /\ exact' \subseteq exact
      /\ k \in exact' => store[k] = c /\ (more = 1 => k \notin Retr!Searched)
  BY <1>2 DEF Retr!WritesBack
<1>8. Retr!Range(injected') = Retr!Range(injected)
  BY <1>1 DEF Retr!Range
<1>9. \A m \in Retr!Stored : store[m] \in Nat /\ store[m] <= accessed[m] /\ m \in Retrievable
  BY <1>1 DEF RetrTypes, CountsInv, NoneMore
<1>10. RetrTypes' /\ KeptForAReason'
  <2>1. \A m \in Retr!Stored : store'[m] \in Nat
    BY <1>6, <1>9
  <2>2. QED  BY <2>1, <1>1, <1>5, <1>6, <1>7, <1>8 DEF RetrTypes, KeptForAReason
<1>11. Fresh'
  BY <1>1, <1>3, <1>4, <1>5, <1>6 DEF CountsInv, Fresh
<1>12. NoneMore'
  <2>1. \A m \in Retrievable : object[m] \in Nat /\ object[m] <= accessed[m]
    BY <1>1 DEF RetrTypes, CountsInv, NoneMore
  <2>2. \A m \in Retrievable : object'[m] <= accessed'[m]
    BY <2>1, <1>1, <1>5
  <2>3. \A m \in Retr!Stored : store'[m] <= accessed'[m]
    BY <1>3, <1>5, <1>6, <1>9
  <2>4. \A q \in snapshots' : q.count <= accessed'[q.memory]
    <3>1. TAKE q \in snapshots'
    <3>2. q.memory \in Retrievable /\ q.count \in Nat /\ q.count <= accessed[q.memory]
      BY <1>1 DEF RetrTypes, CountsInv, NoneMore
    <3>3. QED  BY <3>2, <1>5
  <2>5. ASSUME NEW i \in Searches
        PROVE  /\ \A m \in ReadBy(req'[i]) : req'[i].read[m] <= accessed'[m]
               /\ \A m \in WrittenBy(req'[i]) : req'[i].write[m] <= accessed'[m]
    <3>1. Asking(req[i])
      BY <1>1
    <3>2. ReadBy(req[i]) \subseteq Retrievable /\ WrittenBy(req[i]) \subseteq Retrievable
      BY <3>1, FoundFirst
    <3>3. /\ \A m \in ReadBy(req[i]) : req[i].read[m] \in Nat /\ req[i].read[m] <= accessed[m]
          /\ \A m \in WrittenBy(req[i]) : req[i].write[m] \in Nat /\ req[i].write[m] <= accessed[m]
      BY <3>1, <1>1 DEF Asking, ReadBy, WrittenBy, CountsInv, NoneMore
    <3>4. QED  BY <3>2, <3>3, <1>1, <1>5
  <2>6. QED  BY <2>2, <2>3, <2>4, <2>5, <1>6 DEF NoneMore
<1>13. Undisturbed'
  <2>1. SUFFICES ASSUME NEW m \in exact'
                 PROVE  /\ \A h, j \in Searches : m \in ClaimedBy(req[h]) /\ m \in ClaimedBy(req[j]) => h = j
                        /\ m \notin Retr!Stored => object[m] = accessed'[m]
                        /\ \A j \in Searches :
                             /\ m \in ReadBy(req[j]) => m \in Retr!Stored /\ req[j].read[m] = accessed'[m]
                             /\ m \in WrittenBy(req[j]) => m \in Retr!Stored /\ req[j].write[m] = accessed'[m]
                        /\ m \in Retr!Stored /\ (\A j \in Searches : m \notin WrittenBy(req[j])) => store'[m] = accessed'[m]
    BY <1>1, <1>6 DEF Undisturbed
  <2>2. m \in exact /\ m \in Retrievable
    BY <1>4, <1>7
  <2>3. /\ \A h, j \in Searches : m \in ClaimedBy(req[h]) /\ m \in ClaimedBy(req[j]) => h = j
        /\ m \notin Retr!Stored => object[m] = accessed[m]
        /\ \A j \in Searches :
             /\ m \in ReadBy(req[j]) => m \in Retr!Stored /\ req[j].read[m] = accessed[m]
             /\ m \in WrittenBy(req[j]) => m \in Retr!Stored /\ req[j].write[m] = accessed[m]
        /\ m \in Retr!Stored /\ (\A j \in Searches : m \notin WrittenBy(req[j])) => store[m] = accessed[m]
    BY <2>2, <1>1 DEF CountsInv, Undisturbed
  <2>4. CASE m # k \/ more = 0
    <3>1. accessed'[m] = accessed[m]
      BY <2>2, <2>4, <1>5
    <3>2. m \in Retr!Stored => store'[m] = store[m]
      BY <2>1, <2>4, <1>6, <1>7
    <3>3. QED  BY <2>3, <3>1, <3>2
  <2>5. CASE m = k /\ more = 1
    <3>1. \A j \in Searches : m \notin FoundBy(req[j])
      BY <2>1, <2>5, <1>7, SearchedBy
    <3>2. \A j \in Searches : m \notin ClaimedBy(req[j]) /\ m \notin ReadBy(req[j]) /\ m \notin WrittenBy(req[j])
      <4>1. TAKE j \in Searches
      <4>2. Asking(req[j])
        BY <1>1
      <4>3. QED  BY <3>1, <4>2, FoundFirst
    <3>3. m \in Retr!Stored
      BY <2>1, <2>5, <1>2 DEF Retr!WritesBack
    <3>4. store'[m] = store[m] + 1 /\ accessed'[m] = accessed[m] + 1
      BY <2>1, <2>2, <2>5, <3>3, <1>5, <1>6, <1>7
    <3>5. QED  BY <2>3, <3>2, <3>3, <3>4
  <2>6. QED  BY <2>4, <2>5
<1>14. QED  BY <1>10, <1>11, <1>12, <1>13 DEF RetrInv, CountsInv

LEMMA RetrNext ==
    ASSUME RetrInv, Searchable, [Retr!Next]_Retr!vars
    PROVE  RetrInv'
<1>1. CASE UNCHANGED Retr!vars
  BY <1>1 DEF Retr!vars, RetrInv, RetrTypes, CountsInv, Fresh, NoneMore, Undisturbed, KeptForAReason, Retr!Stored, Retr!Range
<1>2. CASE \E m \in Retrievable : Retr!Capture(m) \/ Retr!ArchiveStores(m) \/ Retr!ArchiveClears(m)
  BY <1>2, MemoriesMove
<1>3. CASE Retr!DeleteAll
  BY <1>3, DeleteAllKeeps
<1>4. ASSUME NEW i \in Searches,
             \/ \E inject \in BOOLEAN : Retr!Ask(i, inject)
             \/ Retr!QueryReturns(i) \/ Retr!WorkingReturns(i) \/ Retr!SyncReturns(i)
             \/ \E T \in SUBSET Retrievable : Retr!Inject(i, T)
             \/ Retr!Fail(i)
      PROVE  RetrInv'
  BY <1>4, AskOrFailKeeps, QueryKeeps, WorkingKeeps, WriteKeeps, InjectKeeps
<1>5. ASSUME NEW r \in snapshots, Retr!Drops(r) \/ \E more \in 0 .. 1 : Retr!WritesBack(r, more)
      PROVE  RetrInv'
  BY <1>5, DropKeeps, WriteBackKeeps
<1>6. CASE \E m \in Retrievable : Retr!Reads(m)
  BY <1>6, ReadKeeps
<1>7. QED  BY <1>1, <1>2, <1>3, <1>4, <1>5, <1>6 DEF Retr!Next

\* The invariant, for any memories, requests and limits of at least one.
LEMMA RetrInvariant == ASSUME Searchable PROVE Retr!Spec => []RetrInv
<1>1. RetrInv /\ [Retr!Next]_Retr!vars => RetrInv'
  BY RetrNext
<1>2. QED  BY RetrStarts, <1>1, PTL DEF Retr!Spec

\* The merged list and the access counts are right (retrieval_engine.py, batch_update_access_stats).
LEMMA RetrCounts == ASSUME Searchable PROVE Retr!Spec => []Retr!RetrievalCounts
<1>1. RetrInv => Retr!RetrievalCounts
  <2> SUFFICES ASSUME RetrInv
               PROVE  Retr!RetrievalCounts
    OBVIOUS
  <2>1. \A j \in Searches : Asking(req[j])
    BY DEF RetrInv, RetrTypes
  <2>2. Retr!MergedOnce
    BY <2>1 DEF Asking, Retr!MergedOnce
  <2>3. \A j \in Searches : \A m \in WrittenBy(req[j]) : req[j].pc = "sync" /\ m \in req[j].result
    BY <2>1 DEF Asking, WrittenBy
  <2>4. Retr!AccessCounted
    <3>1. SUFFICES ASSUME NEW m \in Retr!Stored
                   PROVE  /\ store[m] <= accessed[m]
                          /\ m \in exact /\ (\A i \in Searches : req[i].pc = "sync" => m \notin req[i].result)
                               => store[m] = accessed[m]
      BY DEF Retr!AccessCounted
    <3>2. store[m] <= accessed[m]
      BY DEF RetrInv, CountsInv, NoneMore
    <3>3. m \in exact /\ (\A i \in Searches : m \notin WrittenBy(req[i])) => store[m] = accessed[m]
      BY DEF RetrInv, CountsInv, Undisturbed
    <3>4. QED  BY <2>3, <3>2, <3>3
  <2>5. QED  BY <2>2, <2>4 DEF Retr!RetrievalCounts
<1>2. QED  BY RetrInvariant, <1>1, PTL

\* What is shown again is for a reason, and what was shown last is known as shown.
LEMMA RetrReasons ==
    ASSUME Searchable
    PROVE  Retr!Spec => Retr!ShownAgainForAReason /\ Retr!LastShownKnown
<1>1. RetrInv => [\A i \in Searches, T \in SUBSET Retrievable : Retr!Inject(i, T) =>
                    T \cap Retr!Range(injected) \subseteq req[i].since \/ req[i].again]_Retr!vars
  BY DEF RetrInv, KeptForAReason, Retr!Inject
<1>2. RetrInv => [\A i \in Searches, T \in SUBSET Retrievable :
                    Retr!Inject(i, T) /\ Retr!Cardinality(req[i].kept) <= MaxTrack => T \subseteq Retr!Range(injected')]_Retr!vars
  <2>1. SUFFICES ASSUME RetrInv, NEW i \in Searches, NEW T \in SUBSET Retrievable,
                        Retr!Inject(i, T), Retr!Cardinality(req[i].kept) <= MaxTrack
                 PROVE  T \subseteq Retr!Range(injected')
    OBVIOUS
  <2>2. PICK K : K = req[i].kept
    OBVIOUS
  <2>3. Cardinality(K) <= MaxTrack
    BY <2>1, <2>2 DEF Retr!Cardinality, Cardinality
  <2>4. T \subseteq K /\ (K = {} \/ Retr!Mark(K)) /\ RetrTypes /\ K \in SUBSET Retrievable
    BY <2>1, <2>2 DEF RetrInv, RetrTypes, Asking, Retr!Inject
  <2>5. QED  BY <2>3, <2>4, Marks
<1>3. QED  BY RetrInvariant, <1>1, <1>2, PTL DEF Retr!ShownAgainForAReason, Retr!LastShownKnown


-----------------------------------------------------------------------------
(* The decisions of a retrieval (Ranking).                                   *)

\* An order by falling score takes every place, each once.
Falling(o, D, score) == o \in [D -> D] /\ \A k, l \in D : k < l => Rank!Before(score, o[k], o[l])

LEMMA OrderOfTwo ==
    ASSUME NEW score, score[1] \in Int, score[2] \in Int
    PROVE  Falling(Rank!Order(1 .. 2, score), 1 .. 2, score)
<1>1. PICK a \in 1 .. 2, b \in 1 .. 2 : Rank!Before(score, a, b)
  <2>1. Rank!Before(score, 1, 2) \/ Rank!Before(score, 2, 1)
    BY DEF Rank!Before
  <2>2. QED  BY <2>1
<1>2. PICK o : o = [k \in 1 .. 2 |-> IF k = 1 THEN a ELSE b]
  OBVIOUS
<1>3. o \in [1 .. 2 -> 1 .. 2] /\ o[1] = a /\ o[2] = b
  BY <1>2
<1>4. \A k, l \in 1 .. 2 : k < l => k = 1 /\ l = 2
  OBVIOUS
<1>5. \A k, l \in 1 .. 2 : k < l => Rank!Before(score, o[k], o[l])
  BY <1>1, <1>3, <1>4
<1>6. \E q \in [1 .. 2 -> 1 .. 2] : \A k, l \in 1 .. 2 : k < l => Rank!Before(score, q[k], q[l])
  BY <1>3, <1>5
<1>7. QED  BY <1>6 DEF Falling, Rank!Order

LEMMA OrderOfThree ==
    ASSUME NEW score, score[1] \in Int, score[2] \in Int, score[3] \in Int
    PROVE  Falling(Rank!Order(1 .. 3, score), 1 .. 3, score)
<1>1. PICK a \in 1 .. 3, b \in 1 .. 3, c \in 1 .. 3 :
        Rank!Before(score, a, b) /\ Rank!Before(score, b, c) /\ Rank!Before(score, a, c)
  <2> DEFINE B(i, j) == Rank!Before(score, i, j)
  <2>1. /\ B(1, 2) \/ B(2, 1)
        /\ B(2, 3) \/ B(3, 2)
        /\ B(1, 3) \/ B(3, 1)
    BY DEF Rank!Before
  <2>2. /\ B(1, 2) /\ B(2, 3) => B(1, 3)
        /\ B(2, 1) /\ B(1, 3) => B(2, 3)
        /\ B(3, 1) /\ B(1, 2) => B(3, 2)
        /\ B(1, 3) /\ B(3, 2) => B(1, 2)
        /\ B(2, 3) /\ B(3, 1) => B(2, 1)
        /\ B(3, 2) /\ B(2, 1) => B(3, 1)
    BY DEF Rank!Before
  <2> HIDE DEF B
  <2>3. \E a, b, c \in 1 .. 3 : B(a, b) /\ B(b, c) /\ B(a, c)
    BY <2>1, <2>2
  <2>4. QED  BY <2>3 DEF B
<1>2. PICK o : o = [k \in 1 .. 3 |-> IF k = 1 THEN a ELSE IF k = 2 THEN b ELSE c]
  OBVIOUS
<1>3. o \in [1 .. 3 -> 1 .. 3] /\ o[1] = a /\ o[2] = b /\ o[3] = c
  BY <1>2
<1>4. \A k, l \in 1 .. 3 : k < l => (k = 1 /\ l = 2) \/ (k = 2 /\ l = 3) \/ (k = 1 /\ l = 3)
  OBVIOUS
<1>5. \A k, l \in 1 .. 3 : k < l => Rank!Before(score, o[k], o[l])
  BY <1>1, <1>3, <1>4
<1>6. \E q \in [1 .. 3 -> 1 .. 3] : \A k, l \in 1 .. 3 : k < l => Rank!Before(score, q[k], q[l])
  BY <1>3, <1>5
<1>7. QED  BY <1>6 DEF Falling, Rank!Order

-----------------------------------------------------------------------------
(* What is decided.                                                          *)

LEMMA RouteWell ==
    ASSUME NEW q \in Rank!Queries, NEW m \in Rank!Models, Rank!Route(q, m)
    PROVE  Rank!RankingSound'
<1>1. input' = q /\ q.kind = "query"
  BY DEF Rank!Route, Rank!Queries
<1>2. output'.runs = Rank!Executed(q, IF Mode = "llm" /\ ~m.sure /\ ~q.empty THEN Rank!ByRules(q) ELSE Rank!ByMode(q, m))
  BY DEF Rank!Route
<1>3. output'.runs = "graph" => q.graph
  BY <1>2 DEF Rank!Executed
<1>4. ASSUME Mode # "llm", q.upset, output'.runs # "emotion" PROVE q.empty \/ (q.time /\ q.relation)
  <2>1. output'.runs = Rank!Executed(q, Rank!ByMode(q, m))
    BY <1>2, <1>4
  <2>2. SUFFICES ASSUME ~q.empty, ~(q.time /\ q.relation) PROVE FALSE
    OBVIOUS
  <2>3. Rank!ByRules(q) = "emotion"
    BY <1>4, <2>2 DEF Rank!ByRules
  <2>4. Rank!ByMode(q, m) = "emotion"
    BY <1>4, <2>2, <2>3 DEF Rank!ByMode
  <2>5. QED  BY <1>4, <2>1, <2>4 DEF Rank!Executed
<1>5. Rank!RoutesWell'
  BY <1>1, <1>3, <1>4 DEF Rank!RoutesWell
<1>6. QED  BY <1>1, <1>5 DEF Rank!RankingSound, Rank!BetterStaysFirst, Rank!AccessesDoNotWin, Rank!ShownFits

\* What makes up the score of a memory.
Weighted(q, r, c, x, e) == 220 * q + 220 * r + 100 * c + 90 * x + 50 * e + 850

LEMMA WeightsGrow ==
    ASSUME NEW q \in Int, NEW r \in Int, NEW c \in Int, NEW x \in Int, NEW e \in Int,
           NEW k \in Int, NEW t \in Int, NEW d \in Int, NEW y \in Int, NEW f \in Int
    PROVE  /\ q >= k /\ r >= t /\ c >= d /\ x >= y /\ e >= f => Weighted(q, r, c, x, e) >= Weighted(k, t, d, y, f)
           /\ (q = 15 /\ r = 10 /\ c = 10 /\ x >= 0 /\ e >= 0 /\ k = 4 /\ t = 0 /\ d <= 10 /\ y <= 10 /\ f <= 10 =>
                 Weighted(q, r, c, x, e) > Weighted(k, t, d, y, f))
BY DEF Weighted

LEMMA ScoreIs ==
    ASSUME NEW m \in Rank!Ranked, NEW mood \in {"anger", "joy"}
    PROVE  /\ m.quality \in Int /\ m.rif \in Int /\ m.accesses \in {0, 12}
           /\ Rank!AccessScore(m) \in 0 .. 10 /\ Rank!AccessScore(m) = IF m.accesses = 12 THEN 10 ELSE 0
           /\ Rank!SenderScore(m) \in 0 .. 10 /\ Rank!SenderScore(m) = IF m.mine THEN 10 ELSE 3
           /\ Rank!EmotionScore(m, mood) \in 0 .. 10
           /\ Rank!Score(m, mood) = Weighted(m.quality, m.rif, Rank!SenderScore(m), Rank!AccessScore(m),
                                             Rank!EmotionScore(m, mood))
<1>1. m.quality \in Int /\ m.rif \in Int /\ m.recent = 5 /\ m.accesses \in {0, 12}
  <2>1. m.quality \in {4, 15} /\ m.rif \in {0, 10} /\ m.recent \in {5} /\ m.accesses \in {0, 12}
    BY DEF Rank!Ranked
  <2>2. QED  BY <2>1
<1>2. Rank!AccessScore(m) = IF m.accesses = 12 THEN 10 ELSE 0
  BY <1>1 DEF Rank!AccessScore
<1>3. Rank!SenderScore(m) = IF m.mine THEN 10 ELSE 3
  BY DEF Rank!SenderScore
<1>4. Rank!EmotionScore(m, mood) \in 0 .. 10
  BY DEF Rank!EmotionScore
<1>5. Rank!AccessScore(m) \in 0 .. 10 /\ Rank!SenderScore(m) \in 0 .. 10
  BY <1>2, <1>3
<1>6. PICK q \in Int : q = m.quality
  BY <1>1
<1>7. PICK r \in Int : r = m.rif
  BY <1>1
<1>8. PICK c \in Int : c = Rank!SenderScore(m)
  BY <1>5
<1>9. PICK x \in Int : x = Rank!AccessScore(m)
  BY <1>5
<1>10. PICK e \in Int : e = Rank!EmotionScore(m, mood)
  BY <1>4
<1>11. Rank!Score(m, mood) = 220 * q + 220 * r + 50 * 5 + 100 * c + 40 * 5 + 90 * x + 50 * e + 80 * 5
  BY <1>1, <1>6, <1>7, <1>8, <1>9, <1>10 DEF Rank!Score
<1>12. Rank!Score(m, mood) = Weighted(q, r, c, x, e)
  BY <1>11 DEF Weighted
<1>13. QED  BY <1>1, <1>2, <1>3, <1>4, <1>5, <1>6, <1>7, <1>8, <1>9, <1>10, <1>12

\* What is at least as good in everything has no lower score.
LEMMA BetterScores ==
    ASSUME NEW a \in Rank!Ranked, NEW b \in Rank!Ranked, NEW mood \in {"anger", "joy"}
    PROVE  /\ Rank!Score(a, mood) \in Int /\ Rank!Score(b, mood) \in Int
           /\ Rank!AtLeast(a, b, mood) => Rank!Score(a, mood) >= Rank!Score(b, mood)
           /\ (a.quality = 15 /\ a.rif = 10 /\ a.mine /\ b.quality = 4 /\ b.rif = 0 =>
                 Rank!Score(a, mood) > Rank!Score(b, mood))
<1>1. PICK as \in 0 .. 10, bs \in 0 .. 10 : as = Rank!SenderScore(a) /\ bs = Rank!SenderScore(b)
  BY ScoreIs
<1>2. PICK aa \in 0 .. 10, ba \in 0 .. 10 : aa = Rank!AccessScore(a) /\ ba = Rank!AccessScore(b)
  BY ScoreIs
<1>3. PICK ae \in 0 .. 10, be \in 0 .. 10 : ae = Rank!EmotionScore(a, mood) /\ be = Rank!EmotionScore(b, mood)
  BY ScoreIs
<1>4. PICK aq \in Int, bq \in Int : aq = a.quality /\ bq = b.quality
  BY ScoreIs
<1>5. PICK ar \in Int, br \in Int : ar = a.rif /\ br = b.rif
  BY ScoreIs
<1>6. Rank!Score(a, mood) = Weighted(aq, ar, as, aa, ae) /\ Rank!Score(b, mood) = Weighted(bq, br, bs, ba, be)
  <2>1. /\ Rank!Score(a, mood) = Weighted(a.quality, a.rif, Rank!SenderScore(a), Rank!AccessScore(a),
                                          Rank!EmotionScore(a, mood))
        /\ Rank!Score(b, mood) = Weighted(b.quality, b.rif, Rank!SenderScore(b), Rank!AccessScore(b),
                                          Rank!EmotionScore(b, mood))
    BY ScoreIs
  <2>2. QED  BY <1>1, <1>2, <1>3, <1>4, <1>5, <2>1, Zenon
<1>7. ASSUME Rank!AtLeast(a, b, mood) PROVE aq >= bq /\ ar >= br /\ as >= bs /\ aa >= ba /\ ae >= be
  <2>1. aq >= bq /\ ar >= br
    BY <1>4, <1>5, <1>7 DEF Rank!AtLeast
  <2>2. as >= bs
    <3>1. b.mine => a.mine
      BY <1>7 DEF Rank!AtLeast
    <3>2. as = (IF a.mine THEN 10 ELSE 3) /\ bs = (IF b.mine THEN 10 ELSE 3)
      BY <1>1, ScoreIs
    <3>3. QED  BY <3>1, <3>2
  <2>3. aa >= ba
    <3>1. a.accesses \in {0, 12} /\ b.accesses \in {0, 12} /\ a.accesses >= b.accesses
      BY <1>7, ScoreIs DEF Rank!AtLeast
    <3>2. b.accesses = 12 => a.accesses = 12
      BY <3>1
    <3>3. aa = (IF a.accesses = 12 THEN 10 ELSE 0) /\ ba = (IF b.accesses = 12 THEN 10 ELSE 0)
      BY <1>2, ScoreIs
    <3>4. QED  BY <3>2, <3>3
  <2>4. ae >= be
    <3>1. a.feels = b.feels => Rank!EmotionScore(a, mood) = Rank!EmotionScore(b, mood)
      BY DEF Rank!EmotionScore
    <3>2. mood = "anger" /\ b.feels = "loud joy" => Rank!EmotionScore(b, mood) = 0
      BY DEF Rank!EmotionScore
    <3>3. ae = be \/ be = 0
      BY <1>3, <1>7, <3>1, <3>2 DEF Rank!AtLeast
    <3>4. QED  BY <3>3
  <2>5. QED  BY <2>1, <2>2, <2>3, <2>4
<1>8. ASSUME a.quality = 15, a.rif = 10, a.mine, b.quality = 4, b.rif = 0
      PROVE  aq = 15 /\ ar = 10 /\ as = 10 /\ bq = 4 /\ br = 0
  BY <1>1, <1>4, <1>5, <1>8, ScoreIs
<1>9. as \in Int /\ bs \in Int /\ aa \in Int /\ ba \in Int /\ ae \in Int /\ be \in Int
  OBVIOUS
<1>10. Weighted(aq, ar, as, aa, ae) \in Int /\ Weighted(bq, br, bs, ba, be) \in Int
  <2>1. Weighted(aq, ar, as, aa, ae) \in Int
    BY <1>9 DEF Weighted
  <2>2. Weighted(bq, br, bs, ba, be) \in Int
    BY <1>9 DEF Weighted
  <2>3. QED  BY <2>1, <2>2
<1>11. aq >= bq /\ ar >= br /\ as >= bs /\ aa >= ba /\ ae >= be =>
         Weighted(aq, ar, as, aa, ae) >= Weighted(bq, br, bs, ba, be)
  BY <1>9, WeightsGrow, Zenon
<1>12. aq = 15 /\ ar = 10 /\ as = 10 /\ bq = 4 /\ br = 0 =>
         Weighted(aq, ar, as, aa, ae) > Weighted(bq, br, bs, ba, be)
  <2>1. aa >= 0 /\ ae >= 0 /\ bs <= 10 /\ ba <= 10 /\ be <= 10
    OBVIOUS
  <2>2. QED  BY <1>9, <2>1, WeightsGrow, Zenon
<1>13. QED  BY <1>6, <1>7, <1>8, <1>10, <1>11, <1>12

LEMMA RerankWell ==
    ASSUME NEW p \in Rank!Pairs, Rank!Rerank(p)
    PROVE  Rank!RankingSound'
<1> DEFINE score == <<Rank!Score(p.first, p.mood), Rank!Score(p.second, p.mood)>>
           o == Rank!Order(1 .. 2, score)
<1>1. p.kind = "pair" /\ p.first \in Rank!Ranked /\ p.second \in Rank!Ranked /\ p.mood \in {"anger", "joy"}
  BY DEF Rank!Pairs
<1>2. score[1] = Rank!Score(p.first, p.mood) /\ score[2] = Rank!Score(p.second, p.mood)
  OBVIOUS
<1>3. input' = p /\ output' = Rank!Sorted(<<p.first, p.second>>, score)
  BY DEF Rank!Rerank
<1>4. DOMAIN <<p.first, p.second>> = 1 .. 2
  OBVIOUS
<1> HIDE DEF score
<1>5. output'[1] = <<p.first, p.second>>[o[1]]
  BY <1>3, <1>4 DEF Rank!Sorted
<1>6. Falling(o, 1 .. 2, score)
  <2>1. score[1] \in Int /\ score[2] \in Int
    BY <1>1, <1>2, BetterScores
  <2>2. QED  BY <2>1, OrderOfTwo
<1> HIDE DEF o
<1>7. Rank!Before(score, o[1], o[2]) /\ o[1] \in 1 .. 2 /\ o[2] \in 1 .. 2
  BY <1>6 DEF Falling
<1>8. ASSUME score[1] >= score[2] PROVE output'[1] = p.first
  <2>1. score[1] \in Int /\ score[2] \in Int
    BY <1>1, <1>2, BetterScores
  <2>2. o[1] = 1
    BY <1>7, <1>8, <2>1 DEF Rank!Before
  <2>3. QED  BY <1>5, <2>2
<1>9. ASSUME score[1] > score[2] PROVE output'[1] = p.first
  <2>1. score[1] \in Int /\ score[2] \in Int
    BY <1>1, <1>2, BetterScores
  <2>2. score[1] >= score[2]
    BY <1>9, <2>1
  <2>3. QED  BY <1>8, <2>2
<1>10. Rank!AtLeast(p.first, p.second, p.mood) => output'[1] = p.first
  BY <1>1, <1>2, <1>8, BetterScores
<1>11. p.first.quality = 15 /\ p.first.rif = 10 /\ p.first.mine /\ p.second.quality = 4 /\ p.second.rif = 0 =>
         output'[1] = p.first
  BY <1>1, <1>2, <1>9, BetterScores
<1>12. Rank!BetterStaysFirst' /\ Rank!AccessesDoNotWin'
  BY <1>3, <1>10, <1>11 DEF Rank!BetterStaysFirst, Rank!AccessesDoNotWin
<1>13. QED  BY <1>1, <1>3, <1>12 DEF Rank!RankingSound, Rank!ShownFits, Rank!RoutesWell

\* What the first memories take, and how many of them fit.
LEMMA TakenIs ==
    ASSUME Budgeted, NEW s \in [1 .. 3 -> [worth : Worths, cost : Costs]]
    PROVE  /\ Len(s) = 3 /\ Rank!Most(s) \in 0 .. 3
           /\ Rank!Taken(s) \in [0 .. Rank!Most(s) -> Int] /\ Rank!Taken(s)[0] = Preamble
<1>1. Len(s) = 3
  <2>1. s \in Seq([worth : Worths, cost : Costs])
    BY SeqDef
  <2>2. DOMAIN s = 1 .. 3 /\ Len(s) \in Nat /\ DOMAIN s = 1 .. Len(s)
    BY <2>1, LenProperties
  <2>3. QED  BY <2>2
<1>2. PICK m \in 0 .. 3 : m = Rank!Most(s)
  BY <1>1 DEF Rank!Most, Budgeted
<1>3. PICK c1 \in Nat, c2 \in Nat, c3 \in Nat : c1 = s[1].cost /\ c2 = s[2].cost /\ c3 = s[3].cost
  <2>1. \A k \in 1 .. 3 : s[k].cost \in Nat
    BY DEF Budgeted
  <2>2. QED  BY <2>1
<1> DEFINE Adds(f) == f = [k \in 0 .. m |-> IF k = 0 THEN Preamble ELSE f[k - 1] + s[k].cost]
<1>4. PICK p \in Nat : p = Preamble
  BY DEF Budgeted
<1>5. PICK g : g = [k \in 0 .. m |-> IF k = 0 THEN p ELSE IF k = 1 THEN p + c1 ELSE IF k = 2 THEN p + c1 + c2
                                     ELSE p + c1 + c2 + c3]
  OBVIOUS
<1>6. Adds(g)
  <2>1. ASSUME NEW k \in 0 .. m PROVE g[k] = IF k = 0 THEN Preamble ELSE g[k - 1] + s[k].cost
    <3>1. k = 0 \/ k = 1 \/ k = 2 \/ k = 3
      OBVIOUS
    <3>2. CASE k = 0
      BY <1>4, <1>5, <3>2
    <3>3. CASE k = 1
      <4>1. g[1] = p + c1 /\ g[0] = p
        BY <1>5, <3>3
      <4>2. QED  BY <1>3, <3>3, <4>1
    <3>4. CASE k = 2
      <4>1. g[2] = p + c1 + c2 /\ g[1] = p + c1
        BY <1>5, <3>4
      <4>2. QED  BY <1>3, <3>4, <4>1
    <3>5. CASE k = 3
      <4>1. g[3] = p + c1 + c2 + c3 /\ g[2] = p + c1 + c2
        BY <1>5, <3>5
      <4>2. QED  BY <1>3, <3>5, <4>1
    <3>6. QED  BY <3>1, <3>2, <3>3, <3>4, <3>5
  <2>2. g = [k \in 0 .. m |-> g[k]]
    BY <1>5
  <2>3. QED  BY <2>1, <2>2
<1>7. PICK f : f = CHOOSE h : Adds(h)
  OBVIOUS
<1>8. Adds(f)
  <2> HIDE DEF Adds
  <2>1. QED  BY <1>6, <1>7
<1>9. Rank!Taken(s) = f
  BY <1>2, <1>7 DEF Rank!Taken
<1>10. DOMAIN f = 0 .. m /\ f = [k \in 0 .. m |-> f[k]]
  BY <1>8
<1>11. \A k \in 0 .. m : f[k] = IF k = 0 THEN Preamble ELSE f[k - 1] + s[k].cost
  BY <1>8
<1>12. f[0] = p
  BY <1>4, <1>11
<1>13. m >= 1 => f[1] = p + c1
  <2>1. m >= 1 => f[1] = f[1 - 1] + s[1].cost
    BY <1>11
  <2>2. QED  BY <1>3, <1>12, <2>1
<1>14. m >= 2 => f[2] = p + c1 + c2
  <2>1. m >= 2 => f[2] = f[2 - 1] + s[2].cost
    BY <1>11
  <2>2. QED  BY <1>3, <1>13, <2>1
<1>15. m >= 3 => f[3] = p + c1 + c2 + c3
  <2>1. m >= 3 => f[3] = f[3 - 1] + s[3].cost
    BY <1>11
  <2>2. QED  BY <1>3, <1>14, <2>1
<1>16. \A k \in 0 .. m : f[k] \in Int
  <2>1. ASSUME NEW k \in 0 .. m PROVE f[k] \in Int
    <3>1. k = 0 \/ (k = 1 /\ m >= 1) \/ (k = 2 /\ m >= 2) \/ (k = 3 /\ m >= 3)
      OBVIOUS
    <3>2. QED  BY <1>12, <1>13, <1>14, <1>15, <3>1
  <2>2. QED  BY <2>1
<1>17. QED  BY <1>1, <1>2, <1>4, <1>9, <1>10, <1>12, <1>16

LEMMA FittingIs ==
    ASSUME Budgeted, NEW s \in [1 .. 3 -> [worth : Worths, cost : Costs]]
    PROVE  /\ Rank!Fitting(s) \in 0 .. Rank!Most(s)
           /\ Rank!Fitting(s) # 0 => Rank!Taken(s)[Rank!Fitting(s)] <= Budget
<1>1. PICK m \in 0 .. 3 : m = Rank!Most(s)
  BY TakenIs
<1>2. PICK t \in [0 .. m -> Int] : t = Rank!Taken(s)
  BY <1>1, TakenIs
<1> DEFINE LastFit(k) == (k = 0 \/ t[k] <= Budget) /\ (k = m \/ t[k + 1] > Budget)
<1>3. \E k \in 0 .. m : LastFit(k)
  <2>1. m = 0 \/ m = 1 \/ m = 2 \/ m = 3
    OBVIOUS
  <2>2. Budget \in Nat
    BY DEF Budgeted
  <2>3. ASSUME m >= 1, t[1] > Budget PROVE LastFit(0)
    BY <2>3
  <2>4. ASSUME m >= 2, t[1] <= Budget, t[2] > Budget PROVE LastFit(1)
    BY <2>4
  <2>5. ASSUME m = 3, t[2] <= Budget, t[3] > Budget PROVE LastFit(2)
    BY <2>5
  <2>6. ASSUME m = 0 \/ t[m] <= Budget PROVE LastFit(m)
    BY <2>6
  <2>7. /\ m >= 1 => t[1] \in Int
        /\ m >= 2 => t[2] \in Int
        /\ m >= 3 => t[3] \in Int
    OBVIOUS
  <2> HIDE DEF LastFit
  <2>8. QED  BY <2>1, <2>2, <2>3, <2>4, <2>5, <2>6, <2>7
<1>4. Rank!Fitting(s) = CHOOSE k \in 0 .. m : LastFit(k)
  BY <1>1, <1>2 DEF Rank!Fitting
<1>5. PICK n \in 0 .. m : n = Rank!Fitting(s) /\ LastFit(n)
  <2> HIDE DEF LastFit
  <2>1. QED  BY <1>3, <1>4
<1>6. QED  BY <1>1, <1>2, <1>5

LEMMA SelectWell ==
    ASSUME Budgeted, NEW i \in Rank!Shown, Rank!Select(i)
    PROVE  Rank!RankingSound'
<1>1. i.kind = "show" /\ i.memories \in [1 .. 3 -> [worth : Worths, cost : Costs]]
  BY DEF Rank!Shown
<1>2. PICK w : w = [k \in 1 .. 3 |-> i.memories[k].worth]
  OBVIOUS
<1>3. \A k \in 1 .. 3 : w[k] = i.memories[k].worth /\ w[k] \in Nat
  BY <1>1, <1>2 DEF Budgeted
<1>4. PICK o : o = Rank!Order(1 .. 3, w) /\ Falling(o, 1 .. 3, w)
  <2>1. w[1] \in Int /\ w[2] \in Int /\ w[3] \in Int
    BY <1>3
  <2>2. QED  BY <2>1, OrderOfThree
<1>5. o \in [1 .. 3 -> 1 .. 3] /\ \A k, l \in 1 .. 3 : k < l => Rank!Before(w, o[k], o[l])
  BY <1>4 DEF Falling
<1>6. PICK s : s = Rank!Sorted(i.memories, w)
  OBVIOUS
<1>7. s \in [1 .. 3 -> [worth : Worths, cost : Costs]] /\ \A k \in 1 .. 3 : s[k] = i.memories[o[k]]
  <2>1. DOMAIN i.memories = 1 .. 3
    BY <1>1
  <2>2. s = [k \in 1 .. 3 |-> i.memories[o[k]]]
    BY <1>4, <1>6, <2>1 DEF Rank!Sorted
  <2>3. QED  BY <1>1, <1>5, <2>2
<1>8. PICK n \in 0 .. 3 : n = Rank!Fitting(s) /\ (n # 0 => Rank!Taken(s)[n] <= Budget) /\ Len(s) = 3
  BY <1>7, TakenIs, FittingIs
<1>9. PICK x \in Int : x = Rank!Taken(s)[n] /\ x <= Budget
  <2>1. Rank!Taken(s)[n] \in Int
    BY <1>7, <1>8, TakenIs, FittingIs
  <2>2. n = 0 => Rank!Taken(s)[n] <= Budget
    BY <1>7, TakenIs DEF Budgeted
  <2>3. QED  BY <1>8, <2>1, <2>2
<1>10. PICK l : l = SubSeq(s, 1, n)
  OBVIOUS
<1>11. DOMAIN l = 1 .. n /\ \A k \in 1 .. n : l[k] = s[k]
  <2>1. s \in Seq([worth : Worths, cost : Costs])
    BY <1>7, SeqDef
  <2>2. \A k \in 1 .. n : s[k] \in [worth : Worths, cost : Costs]
    BY <1>7
  <2>3. /\ SubSeq(s, 1, n) \in Seq([worth : Worths, cost : Costs])
        /\ Len(SubSeq(s, 1, n)) = IF 1 <= n THEN n - 1 + 1 ELSE 0
        /\ \A k \in 1 .. (n - 1 + 1) : SubSeq(s, 1, n)[k] = s[1 + k - 1]
    BY <2>2, SubSeqProperties
  <2>4. l \in Seq([worth : Worths, cost : Costs]) /\ Len(l) = n
    BY <1>10, <2>3
  <2>5. ASSUME NEW k \in 1 .. n PROVE l[k] = s[k]
    <3>1. k \in 1 .. (n - 1 + 1) /\ 1 + k - 1 = k
      OBVIOUS
    <3>2. QED  BY <1>10, <2>3, <3>1
  <2>6. QED  BY <2>4, <2>5, LenProperties
<1>12. input' = i /\ output'.list = l /\ output'.used = IF x + Postamble <= Budget THEN x + Postamble ELSE x
  <2>1. Rank!Selected(s) = [list |-> l, used |-> x]
    BY <1>8, <1>9, <1>10 DEF Rank!Selected
  <2>2. output' = [list |-> Rank!Selected(s).list, used |-> Rank!Finalized(Rank!Selected(s))]
    BY <1>2, <1>6 DEF Rank!Select
  <2>3. QED  BY <2>1, <2>2 DEF Rank!Select, Rank!Finalized
<1>13. output'.used <= Budget
  BY <1>9, <1>12
<1>14. ASSUME NEW k \in 1 .. n, NEW j \in 1 .. 3, i.memories[j].worth > l[k].worth
       PROVE  i.memories[j] \in Rank!Range(l)
  <2>1. /\ o[1] \in 1 .. 3 /\ o[2] \in 1 .. 3 /\ o[3] \in 1 .. 3
        /\ o[1] # o[2] /\ o[1] # o[3] /\ o[2] # o[3]
    <3>1. \A a \in 1 .. 3 : ~Rank!Before(w, a, a)
      BY <1>3 DEF Rank!Before
    <3>2. Rank!Before(w, o[1], o[2]) /\ Rank!Before(w, o[1], o[3]) /\ Rank!Before(w, o[2], o[3])
      BY <1>5
    <3>3. o[1] \in 1 .. 3 /\ o[2] \in 1 .. 3 /\ o[3] \in 1 .. 3
      BY <1>5
    <3>4. QED  BY <3>1, <3>2, <3>3
  <2>2. PICK h \in 1 .. 3 : j = o[h]
    <3>1. j = o[1] \/ j = o[2] \/ j = o[3]
      BY <2>1
    <3>2. QED  BY <3>1
  <2>3. k \in 1 .. 3 /\ l[k] = i.memories[o[k]] /\ w[o[h]] > w[o[k]]
    BY <1>3, <1>5, <1>7, <1>11, <1>14, <2>2
  <2>4. h < k
    <3>1. h # k
      BY <1>3, <1>5, <2>3
    <3>2. ~(k < h)
      <4>1. ASSUME k < h PROVE FALSE
        <5>1. Rank!Before(w, o[k], o[h])
          BY <1>5, <2>3, <4>1
        <5>2. o[k] \in 1 .. 3 /\ o[h] \in 1 .. 3
          BY <1>5, <2>3
        <5>3. QED  BY <1>3, <2>3, <5>1, <5>2 DEF Rank!Before
      <4>2. QED  BY <4>1
    <3>3. QED  BY <3>1, <3>2, <2>3
  <2>5. h \in 1 .. n
    BY <2>4
  <2>6. i.memories[j] = l[h]
    BY <1>7, <1>11, <2>2, <2>5
  <2>7. QED  BY <1>11, <2>5, <2>6 DEF Rank!Range
<1>15. Rank!ShownFits'
  BY <1>11, <1>12, <1>13, <1>14 DEF Rank!ShownFits
<1>16. QED  BY <1>1, <1>12, <1>15 DEF Rank!RankingSound, Rank!BetterStaysFirst, Rank!AccessesDoNotWin, Rank!RoutesWell

\* A query is routed, two memories are ranked and some are shown as they should be, for
\* any budget that has room for the preamble, and any worths and costs.
THEOREM RanksRight == ASSUME Budgeted PROVE Rank!Spec => []Rank!RankingSound
<1>1. Rank!Init => Rank!RankingSound
  BY DEF Rank!Init, Rank!Nothing, Rank!RankingSound, Rank!BetterStaysFirst, Rank!AccessesDoNotWin, Rank!ShownFits,
         Rank!RoutesWell
<1>2. Rank!RankingSound /\ [Rank!Next]_(Rank!vars) => Rank!RankingSound'
  <2>1. Rank!RankingSound /\ UNCHANGED Rank!vars => Rank!RankingSound'
    BY DEF Rank!vars, Rank!RankingSound, Rank!BetterStaysFirst, Rank!AccessesDoNotWin, Rank!ShownFits, Rank!RoutesWell
  <2>2. QED  BY <2>1, RouteWell, RerankWell, SelectWell DEF Rank!Next
<1>3. QED  BY <1>1, <1>2, PTL DEF Rank!Spec


-----------------------------------------------------------------------------
(* From a message to a stored memory (Capture).                              *)

ToldAs == [user : Tellers, content : Contents, confidence : 3..10, asked : BOOLEAN, shared : BOOLEAN,
         quality : 1..5, marked : BOOLEAN, spared : SUBSET CaptureIds]

CaptTypes ==
    /\ doing \in [CaptureIds -> {"new", "search", "resolve", "store", "done"}]
    /\ fate \in [CaptureIds -> CaptureIds \cup Fates]
    /\ hits \in [CaptureIds -> SUBSET CaptureIds] /\ contrary \in [CaptureIds -> SUBSET CaptureIds]
    /\ stored \subseteq CaptureIds /\ worked \subseteq CaptureIds
    /\ told = [m \in CaptureIds |-> told[m]]

\* What is kept or under way is a memory that has no fate yet; its quality is what its
\* confidence says, or low since something better was kept instead.
Placed(m) ==
    /\ m \in stored \cup worked => doing[m] = "done" /\ fate[m] = "none"
    /\ doing[m] # "done" => fate[m] = "none"
    /\ m \in stored => m \notin worked
    /\ m \in stored \cup worked \/ doing[m] \in {"search", "resolve", "store"} \/ fate[m] # "none"
         => /\ told[m] \in ToldAs
            /\ \/ told[m].quality = Capt!Quality(told[m].confidence)
               \/ told[m].quality = 2 /\ told[m].confidence <= 7

\* A capture has looked at stored memories that others may see; what contradicts it is
\* still to be resolved, is marked, was spared, or is gone.
Looked(m) ==
    /\ doing[m] \in {"new", "search"} => hits[m] = {}
    /\ contrary[m] \subseteq hits[m]
    /\ doing[m] = "store" \/ m \in stored \cup worked => contrary[m] = {}
    /\ \A n \in hits[m] : /\ doing[n] = "done" /\ n \notin worked /\ told[n] \in ToldAs
                          /\ n \in stored \/ fate[n] # "none"
                          /\ Capt!Visible(m, n)
    /\ doing[m] \in {"resolve", "store"} \/ m \in stored \cup worked =>
         \A n \in hits[m] : /\ told[n].content # told[m].content
                            /\ n \in stored => n \in contrary[m] \/ told[m].marked \/ n \in told[m].spared

\* What gave way gave way to a capture that had seen it and is no worse by two grades.
Yielded(n) ==
    fate[n] \in CaptureIds =>
        /\ n \in hits[fate[n]] /\ doing[fate[n]] \notin {"new", "search"} /\ fate[fate[n]] # "duplicate"
        /\ \/ fate[n] \in stored \cup worked \/ fate[fate[n]] # "none"
           \/ doing[fate[n]] \in {"resolve", "store"}
        /\ \/ told[fate[n]].asked
           \/ Capt!Quality(told[fate[n]].confidence) + 1 >= Capt!Quality(told[n].confidence)

CaptInv == CaptTypes /\ \A m \in CaptureIds : Placed(m) /\ Looked(m) /\ Yielded(m)

LEMMA CaptInvSound == Tellable /\ CaptInv => Capt!CaptureSound
<1> SUFFICES ASSUME Tellable, CaptInv PROVE Capt!CaptureSound
  OBVIOUS
<1> USE DEF CaptInv, CaptTypes
<1>1. Capt!Held = stored \cup worked
  BY DEF Capt!Held
<1>2. ASSUME NEW m \in stored \cup worked, NEW n \in hits[m]
      PROVE  /\ told[n].content # told[m].content
             /\ n \in stored => told[m].marked \/ n \in told[m].spared
  <2>1. m \in CaptureIds /\ contrary[m] = {}
    BY DEF Looked
  <2>2. QED  BY <2>1, <1>2 DEF Looked
<1>3. Capt!ContradictionsMarked /\ Capt!ToldOnce
  BY <1>1, <1>2 DEF Capt!ContradictionsMarked, Capt!ToldOnce, Capt!Duplicates
<1>4. ASSUME NEW n \in Capt!GaveWay
      PROVE  /\ n \in CaptureIds /\ fate[n] \in CaptureIds /\ Yielded(n) /\ Looked(fate[n]) /\ Placed(fate[n])
             /\ fate[fate[n]] \in CaptureIds \cup Fates
  BY <1>4 DEF Capt!GaveWay
<1>5. Capt!SuccessorKnown
  BY <1>1, <1>4 DEF Capt!SuccessorKnown, Yielded, Fates, Capt!GaveWay, Capt!Running
<1>6. Capt!OthersPrivateKept
  <2>1. SUFFICES ASSUME NEW n \in Capt!GaveWay
                 PROVE  told[n].user = told[fate[n]].user \/ told[n].shared
    BY DEF Capt!OthersPrivateKept
  <2>2. n \in hits[fate[n]] /\ Looked(fate[n])
    BY <1>4 DEF Yielded
  <2>3. Capt!Visible(fate[n], n)
    BY <2>2 DEF Looked
  <2>4. QED  BY <2>3 DEF Capt!Visible
<1>7. Capt!WorthierKept
  BY <1>4 DEF Capt!WorthierKept, Yielded
<1>8. QED  BY <1>3, <1>5, <1>6, <1>7 DEF Capt!CaptureSound

-----------------------------------------------------------------------------
(* The steps.                                                                *)

LEMMA Grades ==
    ASSUME NEW c \in 3..10
    PROVE  /\ Capt!Quality(c) \in 2..5 /\ (c <= 7 <=> Capt!Quality(c) <= 3)
           /\ (c <= 4 <=> Capt!Quality(c) = 2) /\ (c >= 9 <=> Capt!Quality(c) = 5)
BY DEF Capt!Quality

\* A memory of the collection gives way only to one asked for, or no worse by two
\* grades; it is kept only against one of the lower half.
LEMMA Resolutions ==
    ASSUME NEW new \in ToldAs, NEW old \in ToldAs, NEW alike \in BOOLEAN,
           new.quality = Capt!Quality(new.confidence) \/ (new.quality = 2 /\ new.confidence <= 7),
           old.quality = Capt!Quality(old.confidence) \/ (old.quality = 2 /\ old.confidence <= 7)
    PROVE  /\ Capt!Resolution(new, old, alike) \in {"replace", "keep_old", "pending"}
           /\ Capt!Resolution(new, old, alike) = "replace" =>
                new.asked \/ Capt!Quality(new.confidence) + 1 >= Capt!Quality(old.confidence)
           /\ Capt!Resolution(new, old, alike) = "keep_old" => new.confidence <= 7
<1>1. new.confidence \in 3..10 /\ old.confidence \in 3..10 /\ new.asked \in BOOLEAN
      /\ new.quality \in 1..5 /\ old.quality \in 1..5
  BY DEF ToldAs
<1>2. PICK a, b : a = new.confidence /\ b = old.confidence
  OBVIOUS
<1>3. PICK p, q : p = Capt!Quality(a) /\ q = Capt!Quality(b)
  OBVIOUS
<1>4. /\ p \in 2..5 /\ (a <= 7 <=> p <= 3) /\ (a <= 4 <=> p = 2) /\ (a >= 9 <=> p = 5)
      /\ q \in 2..5 /\ (b <= 7 <=> q <= 3) /\ (b <= 4 <=> q = 2) /\ (b >= 9 <=> q = 5)
  BY <1>1, <1>2, <1>3, Grades
<1>5. QED  BY <1>1, <1>2, <1>3, <1>4 DEF Capt!Resolution

\* A capture that goes on beside a step of another has still seen what it has seen.
LEMMA LooksOn ==
    ASSUME NEW o, Looked(o), hits'[o] = hits[o], contrary'[o] = contrary[o], told'[o] = told[o],
           doing'[o] = doing[o], o \in (stored \cup worked)' => o \in stored \cup worked,
           \A n \in hits[o] :
             /\ told'[n].user = told[n].user /\ told'[n].shared = told[n].shared
             /\ told'[n].content = told[n].content /\ told'[n] \in ToldAs
             /\ doing'[n] = "done" /\ n \notin worked' /\ (n \in stored' => n \in stored)
             /\ n \in stored' \/ fate'[n] # "none"
    PROVE  Looked(o)'
<1>1. doing'[o] = "store" \/ o \in stored' \cup worked' => contrary'[o] = {}
  BY DEF Looked
<1>2. \A n \in hits[o] : Capt!Visible(o, n)'
  BY DEF Looked, Capt!Visible
<1>3. \A n \in hits'[o] : doing'[n] = "done" /\ n \notin worked' /\ told'[n] \in ToldAs
                          /\ (n \in stored' \/ fate'[n] # "none") /\ Capt!Visible(o, n)'
  BY <1>2
<1>4. doing'[o] \in {"resolve", "store"} \/ o \in stored' \cup worked' =>
         \A n \in hits'[o] :
           /\ told'[n].content # told'[o].content
           /\ n \in stored' => n \in contrary'[o] \/ told'[o].marked \/ n \in told'[o].spared
  BY DEF Looked
<1>5. (doing'[o] \in {"new", "search"} => hits'[o] = {}) /\ contrary'[o] \subseteq hits'[o]
  BY DEF Looked
<1>6. QED  BY <1>1, <1>3, <1>4, <1>5 DEF Looked

LEMMA DetectKeeps ==
    ASSUME Tellable, CaptInv, NEW m \in CaptureIds, NEW k \in Tellings, Capt!Detect(m, k)
    PROVE  CaptInv'
<1> USE DEF CaptInv, CaptTypes
<1>1. /\ doing[m] = "new" /\ UNCHANGED <<stored, worked, contrary, hits, fate>>
      /\ \/ told' = [told EXCEPT ![m] = Capt!Found(k)] /\ doing' = [doing EXCEPT ![m] = "search"]
         \/ told' = told /\ doing' = [doing EXCEPT ![m] = "done"]
  BY DEF Capt!Detect
<1>2. /\ Capt!Found(k) \in ToldAs /\ Capt!Found(k).quality = Capt!Quality(Capt!Found(k).confidence)
  BY Grades DEF Tellable, Tales, ToldAs, Capt!Found
<1>3. CaptTypes'
  BY <1>1
<1>4. m \notin stored \cup worked /\ fate[m] = "none" /\ hits[m] = {}
  BY <1>1 DEF Placed, Looked
<1>5. \A o \in CaptureIds : m \notin hits[o] /\ fate[o] # m
  <2>1. doing[m] = "new"
    BY <1>1
  <2>2. \A o \in CaptureIds : m \notin hits[o]
    BY <2>1 DEF Looked
  <2>3. \A o \in CaptureIds : fate[o] # m
    BY <2>1 DEF Yielded
  <2>4. QED  BY <2>2, <2>3
<1>6. \A o \in CaptureIds : o # m => told'[o] = told[o] /\ doing'[o] = doing[o]
  BY <1>1
<1>7. ASSUME NEW o \in CaptureIds PROVE Placed(o)'
  <2>1. CASE o = m
    BY <1>1, <1>2, <1>4, <2>1 DEF Placed
  <2>2. CASE o # m
    BY <1>1, <1>6, <2>2 DEF Placed
  <2>3. QED  BY <2>1, <2>2
<1>8. ASSUME NEW o \in CaptureIds PROVE Looked(o)'
  <2>1. CASE o = m
    BY <1>1, <1>4, <2>1 DEF Looked
  <2>2. CASE o # m
    <3>1. \A n \in hits[o] : n # m /\ n \in CaptureIds
      BY <1>5
    <3>2. \A n \in hits[o] : told[n] \in ToldAs /\ doing[n] = "done" /\ n \notin worked /\ (n \in stored \/ fate[n] # "none")
      BY DEF Looked
    <3>3. \A n \in hits[o] : told'[n] = told[n] /\ doing'[n] = doing[n]
      BY <1>6, <3>1
    <3>4. QED  BY <1>1, <1>6, <2>2, <3>2, <3>3, LooksOn
  <2>3. QED  BY <2>1, <2>2
<1>9. ASSUME NEW o \in CaptureIds PROVE Yielded(o)'
  <2>1. fate[o] \in CaptureIds => o # m
    BY <1>4 DEF Tellable, Fates
  <2>2. QED  BY <1>1, <1>5, <1>6, <2>1 DEF Yielded
<1>10. QED  BY <1>3, <1>7, <1>8, <1>9

LEMMA SearchKeeps ==
    ASSUME Tellable, CaptInv, NEW m \in CaptureIds, Capt!Search(m)
    PROVE  CaptInv'
<1> USE DEF CaptInv, CaptTypes
<1>1. PICK S \in {{n \in stored : Capt!Visible(m, n)}, {}} :
        /\ doing[m] = "search" /\ UNCHANGED <<told, stored, worked>>
        /\ hits' = [hits EXCEPT ![m] = S]
        /\ contrary' = [contrary EXCEPT ![m] = {n \in S : Capt!Opposite(m, n)}]
        /\ \/ /\ Capt!Duplicates(m, S) # {} /\ doing' = [doing EXCEPT ![m] = "done"]
              /\ fate' = [fate EXCEPT ![m] = "duplicate"]
           \/ /\ Capt!Duplicates(m, S) = {} /\ doing' = [doing EXCEPT ![m] = "resolve"] /\ fate' = fate
  BY DEF Capt!Search
<1>2. S \subseteq stored /\ \A n \in S : Capt!Visible(m, n)
  BY <1>1
<1>3. m \notin stored \cup worked /\ fate[m] = "none" /\ told[m] \in ToldAs /\ hits[m] = {}
  BY <1>1 DEF Placed, Looked
<1>4. \A o \in CaptureIds : m \notin hits[o] /\ fate[o] # m
  <2>1. doing[m] = "search"
    BY <1>1
  <2>2. ASSUME NEW o \in CaptureIds PROVE m \notin hits[o]
    BY <2>1 DEF Looked
  <2>3. ASSUME NEW o \in CaptureIds PROVE fate[o] # m
    BY <2>1 DEF Yielded
  <2>4. QED  BY <2>2, <2>3
<1>5. \A o \in CaptureIds : o # m =>
        doing'[o] = doing[o] /\ fate'[o] = fate[o] /\ hits'[o] = hits[o] /\ contrary'[o] = contrary[o]
  BY <1>1
<1>6. CaptTypes'
  BY <1>1, <1>2 DEF Fates
<1>7. ASSUME NEW o \in CaptureIds PROVE Placed(o)'
  <2>1. CASE o = m
    BY <1>1, <1>3, <2>1 DEF Placed
  <2>2. CASE o # m
    BY <1>1, <1>5, <2>2 DEF Placed
  <2>3. QED  BY <2>1, <2>2
<1>8. ASSUME NEW o \in CaptureIds PROVE Looked(o)'
  <2>1. CASE o = m
    <3>1. hits'[m] = S /\ contrary'[m] = {n \in S : told[n].content # told[m].content}
      BY <1>1 DEF Capt!Opposite
    <3>2. \A n \in S : doing'[n] = "done" /\ n \notin worked /\ told[n] \in ToldAs /\ n \in stored
      BY <1>2, <1>3, <1>5 DEF Placed
    <3>3. \A n \in S : Capt!Visible(m, n)'
      BY <1>1, <1>2 DEF Capt!Visible
    <3>4. doing'[m] = "resolve" => \A n \in S : told[n].content # told[m].content
      BY <1>1 DEF Capt!Duplicates
    <3>5. doing'[m] \in {"resolve", "done"}
      BY <1>1
    <3>6. QED  BY <1>1, <1>3, <2>1, <3>1, <3>2, <3>3, <3>4, <3>5 DEF Looked
  <2>2. CASE o # m
    <3>1. \A n \in hits[o] : n # m /\ n \in CaptureIds
      BY <1>4
    <3>2. \A n \in hits[o] : told[n] \in ToldAs /\ doing[n] = "done" /\ n \notin worked /\ (n \in stored \/ fate[n] # "none")
      BY DEF Looked
    <3>3. \A n \in hits[o] : fate'[n] = fate[n] /\ doing'[n] = doing[n]
      BY <1>5, <3>1
    <3>4. QED  BY <1>1, <1>5, <2>2, <3>2, <3>3, LooksOn
  <2>3. QED  BY <2>1, <2>2
<1>9. ASSUME NEW o \in CaptureIds PROVE Yielded(o)'
  <2>1. fate'[m] \notin CaptureIds
    BY <1>1, <1>3 DEF Tellable, Fates
  <2>2. QED  BY <1>1, <1>4, <1>5, <2>1 DEF Yielded
<1>10. QED  BY <1>6, <1>7, <1>8, <1>9

\* A contradiction that is resolved is gone, or the new memory tells of it.
LEMMA ResolveKeeps ==
    ASSUME Tellable, CaptInv, NEW m \in CaptureIds, NEW n \in CaptureIds, Capt!Resolve(m, n)
    PROVE  CaptInv'
<1> USE DEF CaptInv, CaptTypes
<1>1. PICK alike \in BOOLEAN :
        /\ doing[m] = "resolve" /\ n \in contrary[m] /\ worked' = worked /\ doing' = doing /\ hits' = hits
        /\ contrary' = [contrary EXCEPT ![m] = @ \ {n}]
        /\ Capt!Decide(m, n, Capt!Resolution(told[m], told[n], alike))
  BY DEF Capt!Resolve
<1>2. /\ m \notin stored \cup worked /\ fate[m] = "none" /\ told[m] \in ToldAs /\ n \in hits[m]
      /\ \/ told[m].quality = Capt!Quality(told[m].confidence)
         \/ told[m].quality = 2 /\ told[m].confidence <= 7
  BY <1>1 DEF Placed, Looked
<1>3. /\ told[n] \in ToldAs /\ doing[n] = "done" /\ n \notin worked /\ n # m /\ (n \in stored \/ fate[n] # "none")
      /\ \/ told[n].quality = Capt!Quality(told[n].confidence)
         \/ told[n].quality = 2 /\ told[n].confidence <= 7
  BY <1>1, <1>2 DEF Placed, Looked
<1>4. PICK answer : answer = Capt!Resolution(told[m], told[n], alike)
  OBVIOUS
<1>5. /\ answer \in {"replace", "keep_old", "pending"}
      /\ answer = "replace" =>
           told[m].asked \/ Capt!Quality(told[m].confidence) + 1 >= Capt!Quality(told[n].confidence)
      /\ answer = "keep_old" => told[m].confidence <= 7
  BY <1>2, <1>3, <1>4, Resolutions
<1>6. \/ /\ answer = "replace" /\ stored' = stored \ {n} /\ told' = told
         /\ fate' = [fate EXCEPT ![n] = IF n \in stored THEN m ELSE @]
      \/ /\ answer = "replace" /\ told' = [told EXCEPT ![m].spared = @ \cup {n}]
         /\ stored' = stored /\ fate' = fate
      \/ /\ answer = "keep_old" /\ told' = [told EXCEPT ![m].marked = TRUE, ![m].quality = 2]
         /\ stored' = stored /\ fate' = fate
      \/ /\ answer = "pending" /\ told' = [told EXCEPT ![m].marked = TRUE]
         /\ stored' = stored /\ fate' = fate
  BY <1>1, <1>4, <1>5 DEF Capt!Decide
<1>7. \A o \in CaptureIds : (o # m => told'[o] = told[o] /\ contrary'[o] = contrary[o]) /\ (o # n => fate'[o] = fate[o])
  BY <1>1, <1>6
<1>8. /\ told'[m] \in ToldAs /\ told'[m].user = told[m].user /\ told'[m].content = told[m].content
      /\ told'[m].shared = told[m].shared /\ told'[m].asked = told[m].asked
      /\ told'[m].confidence = told[m].confidence
      /\ told[m].marked => told'[m].marked
      /\ told[m].spared \subseteq told'[m].spared
      /\ told'[m].quality = told[m].quality \/ (told'[m].quality = 2 /\ told[m].confidence <= 7)
      /\ n \in stored' => told'[m].marked \/ n \in told'[m].spared
  <2>1. CASE told' = told /\ stored' = stored \ {n}
    BY <1>2, <2>1
  <2>2. CASE told' = [told EXCEPT ![m].spared = @ \cup {n}]
    <3>1. told'[m] = [told[m] EXCEPT !.spared = @ \cup {n}]
      BY <2>2
    <3>2. QED  BY <1>2, <3>1 DEF ToldAs
  <2>3. CASE told' = [told EXCEPT ![m].marked = TRUE, ![m].quality = 2] /\ answer = "keep_old"
    <3>1. told'[m] = [told[m] EXCEPT !.marked = TRUE, !.quality = 2]
      BY <2>3
    <3>2. told[m].confidence <= 7
      BY <1>5, <2>3
    <3>3. PICK r \in ToldAs : r = told[m]
      BY <1>2
    <3>4. PICK t \in ToldAs : t = [r EXCEPT !.marked = TRUE, !.quality = 2]
      <4>1. [r EXCEPT !.marked = TRUE] \in ToldAs
        BY DEF ToldAs
      <4>2. PICK u \in ToldAs : u = [r EXCEPT !.marked = TRUE]
        BY <4>1
      <4>3. [u EXCEPT !.quality = 2] \in ToldAs
        BY DEF ToldAs
      <4>4. [u EXCEPT !.quality = 2] = [r EXCEPT !.marked = TRUE, !.quality = 2]
        BY <4>2
      <4>5. QED  BY <4>3, <4>4
    <3>5. /\ t.user = r.user /\ t.content = r.content /\ t.shared = r.shared /\ t.asked = r.asked
          /\ t.confidence = r.confidence /\ t.marked = TRUE /\ t.spared = r.spared /\ t.quality = 2
      BY <3>4 DEF ToldAs
    <3>6. told'[m] = t
      BY <3>1, <3>3, <3>4
    <3>7. QED  BY <3>2, <3>3, <3>5, <3>6
  <2>4. CASE told' = [told EXCEPT ![m].marked = TRUE]
    <3>1. told'[m] = [told[m] EXCEPT !.marked = TRUE]
      BY <2>4
    <3>2. QED  BY <1>2, <3>1 DEF ToldAs
  <2>5. QED  BY <1>6, <2>1, <2>2, <2>3, <2>4
<1>9. CaptTypes'
  BY <1>1, <1>6
<1>10. stored' \subseteq stored /\ stored \ {n} \subseteq stored' /\ (n \notin stored' => fate'[n] # "none")
  <2>1. m # "none"
    BY DEF Tellable, Fates
  <2>2. QED  BY <1>3, <1>6, <2>1
<1>11. ASSUME NEW o \in CaptureIds PROVE Placed(o)'
  <2>1. CASE o = m
    BY <1>1, <1>2, <1>3, <1>7, <1>8, <1>10, <2>1 DEF Placed
  <2>2. CASE o = n
    <3>1. told'[n] = told[n] /\ doing'[n] = "done" /\ n \notin worked'
      BY <1>1, <1>3, <1>7
    <3>2. n \in stored' => fate'[n] = "none"
      BY <1>6, <1>10 DEF Placed
    <3>3. QED  BY <1>1, <1>3, <2>2, <3>1, <3>2 DEF Placed
  <2>3. CASE o # m /\ o # n
    BY <1>1, <1>7, <1>10, <2>3 DEF Placed
  <2>4. QED  BY <2>1, <2>2, <2>3
<1>12. ASSUME NEW o \in CaptureIds PROVE Looked(o)'
  <2>1. ASSUME NEW x \in hits[o]
        PROVE  /\ x \in CaptureIds /\ x # m /\ told'[x] = told[x] /\ told[x] \in ToldAs /\ doing'[x] = "done" /\ x \notin worked'
               /\ x \in stored' => x \in stored
               /\ x \in stored' \/ fate'[x] # "none"
    <3>1. x \in CaptureIds /\ told[x] \in ToldAs /\ doing[x] = "done" /\ x \notin worked /\ (x \in stored \/ fate[x] # "none")
      BY <2>1 DEF Looked
    <3>2. x # m
      BY <1>1, <3>1
    <3>3. QED  BY <1>1, <1>7, <1>10, <3>1, <3>2
  <2>2. CASE o = m
    <3>1. contrary'[m] = contrary[m] \ {n} /\ hits'[m] = hits[m] /\ doing'[m] = "resolve" /\ m \notin stored' \cup worked'
      BY <1>1, <1>2, <1>10
    <3>2. contrary[m] \subseteq hits[m]
      BY DEF Looked
    <3>3. ASSUME NEW x \in hits[m] PROVE Capt!Visible(m, x)'
      <4>1. told'[x] = told[x]
        BY <2>1, <2>2
      <4>2. Capt!Visible(m, x)
        BY DEF Looked
      <4>3. QED  BY <1>8, <4>1, <4>2 DEF Capt!Visible
    <3>4. ASSUME NEW x \in hits[m]
          PROVE  /\ told'[x].content # told'[m].content
                 /\ x \in stored' => x \in contrary'[m] \/ told'[m].marked \/ x \in told'[m].spared
      <4>1. /\ told[x].content # told[m].content /\ told'[x] = told[x] /\ (x \in stored' => x \in stored)
            /\ x \in stored => x \in contrary[m] \/ told[m].marked \/ x \in told[m].spared
        BY <1>1, <2>1, <2>2 DEF Looked
      <4>2. QED  BY <1>8, <3>1, <4>1
    <3>5. QED  BY <2>1, <2>2, <3>1, <3>2, <3>3, <3>4 DEF Looked
  <2>3. CASE o # m
    <3>1. /\ hits'[o] = hits[o] /\ contrary'[o] = contrary[o] /\ told'[o] = told[o] /\ doing'[o] = doing[o]
          /\ o \in (stored \cup worked)' => o \in stored \cup worked
      BY <1>1, <1>7, <1>10, <2>3
    <3>2. QED  BY <2>1, <3>1, LooksOn
  <2>4. QED  BY <2>2, <2>3
<1>13. ASSUME NEW o \in CaptureIds PROVE Yielded(o)'
  <2>1. CASE o = n /\ fate'[n] # fate[n]
    <3>1. answer = "replace" /\ fate'[n] = m /\ told' = told
      BY <1>6, <2>1
    <3>2. fate'[m] = fate[m]
      BY <1>3, <1>7
    <3>3. QED  BY <1>1, <1>2, <1>5, <2>1, <3>1, <3>2 DEF Yielded
  <2>2. CASE fate'[o] = fate[o]
    <3> SUFFICES ASSUME fate[o] \in CaptureIds PROVE Yielded(o)'
      BY <2>2 DEF Yielded
    <3> DEFINE f == fate[o]
    <3>1. /\ o \in hits[f] /\ doing[f] \notin {"new", "search"} /\ fate[f] # "duplicate"
          /\ f \in stored \cup worked \/ fate[f] # "none" \/ doing[f] \in {"resolve", "store"}
          /\ told[f].asked \/ Capt!Quality(told[f].confidence) + 1 >= Capt!Quality(told[o].confidence)
      BY DEF Yielded
    <3>2. fate'[f] # "duplicate" /\ (fate[f] # "none" => fate'[f] # "none")
      <4>1. CASE f = n
        <5>1. fate'[n] = fate[n] \/ fate'[n] = m
          BY <1>6
        <5>2. m # "duplicate" /\ m # "none"
          BY DEF Tellable, Fates
        <5>3. QED  BY <3>1, <4>1, <5>1, <5>2
      <4>2. CASE f # n
        BY <1>7, <3>1, <4>2
      <4>3. QED  BY <4>1, <4>2
    <3>3. f \in stored' \cup worked' \/ fate'[f] # "none" \/ doing'[f] \in {"resolve", "store"}
      BY <1>1, <1>10, <3>1, <3>2
    <3>4. o # m
      BY <1>2 DEF Tellable, Fates
    <3>5. told'[o] = told[o] /\ told'[f].asked = told[f].asked /\ told'[f].confidence = told[f].confidence
      BY <1>7, <1>8, <3>4
    <3>6. f \in CaptureIds /\ fate'[o] = f
      BY <2>2
    <3> HIDE DEF f
    <3>7. QED  BY <1>1, <3>1, <3>2, <3>3, <3>5, <3>6 DEF Yielded
  <2>3. QED  BY <1>7, <2>1, <2>2
<1>14. QED  BY <1>9, <1>11, <1>12, <1>13

\* What a capture has seen is no working memory, and done.
LEMMA SeenIsDone ==
    ASSUME CaptInv, NEW o \in CaptureIds, NEW n \in hits[o]
    PROVE  /\ n \in CaptureIds /\ told[n] \in ToldAs /\ doing[n] = "done" /\ n \notin worked
           /\ n \in stored \/ fate[n] # "none"
BY DEF CaptInv, CaptTypes, Looked

LEMMA StoreKeeps ==
    ASSUME Tellable, CaptInv, NEW m \in CaptureIds, Capt!Resolved(m) \/ Capt!Store(m)
    PROVE  CaptInv'
<1> USE DEF CaptInv, CaptTypes
<1>1. PICK was \in {"resolve", "store"}, is \in {"store", "done"} :
        /\ doing[m] = was /\ doing' = [doing EXCEPT ![m] = is] /\ UNCHANGED <<told, contrary, hits>>
        /\ contrary[m] = {}
        /\ \/ was = "resolve" /\ is = "store" /\ UNCHANGED <<stored, worked, fate>>
           \/ /\ was = "store" /\ is = "done"
              /\ \/ stored' = stored \cup {m} /\ UNCHANGED <<worked, fate>>
                 \/ fate' = [fate EXCEPT ![m] = "failed"] /\ UNCHANGED <<stored, worked>>
                 \/ worked' = worked \cup {m} /\ UNCHANGED <<stored, fate>>
  <2>1. CASE Capt!Resolved(m)
    BY <2>1 DEF Capt!Resolved
  <2>2. CASE Capt!Store(m)
    <3>1. contrary[m] = {}
      BY <2>2 DEF Capt!Store, Looked
    <3>2. QED  BY <2>2, <3>1 DEF Capt!Store
  <2>3. QED  BY <2>1, <2>2
<1>2. m \notin stored \cup worked /\ fate[m] = "none" /\ told[m] \in ToldAs
  BY <1>1 DEF Placed
<1>3. \A o \in CaptureIds : \A n \in hits[o] : n # m
  BY <1>1, SeenIsDone
<1>4. \A o \in CaptureIds : o # m =>
        /\ doing'[o] = doing[o] /\ fate'[o] = fate[o]
        /\ o \in stored' <=> o \in stored
        /\ o \in worked' <=> o \in worked
  BY <1>1
<1>5. CaptTypes'
  BY <1>1 DEF Fates
<1>6. ASSUME NEW o \in CaptureIds PROVE Placed(o)'
  <2>1. CASE o = m
    BY <1>1, <1>2, <2>1 DEF Placed
  <2>2. CASE o # m
    BY <1>1, <1>4, <2>2 DEF Placed
  <2>3. QED  BY <2>1, <2>2
<1>7. ASSUME NEW o \in CaptureIds PROVE Looked(o)'
  <2>1. ASSUME NEW n \in hits[o]
        PROVE  /\ told'[n] = told[n] /\ told[n] \in ToldAs /\ doing'[n] = "done" /\ n \notin worked'
               /\ n \in stored' => n \in stored
               /\ n \in stored' \/ fate'[n] # "none"
    BY <1>1, <1>3, <1>4, <2>1, SeenIsDone
  <2>2. CASE o = m
    <3>1. \A n \in hits[m] : Capt!Visible(m, n)' /\ told'[n].content # told'[m].content
      BY <1>1 DEF Looked, Capt!Visible
    <3>2. \A n \in hits[m] : n \in stored => told'[m].marked \/ n \in told'[m].spared
      BY <1>1 DEF Looked
    <3>3. hits'[m] = hits[m] /\ contrary'[m] = {} /\ doing'[m] \notin {"new", "search"}
      BY <1>1
    <3>4. QED  BY <2>1, <2>2, <3>1, <3>2, <3>3 DEF Looked
  <2>3. CASE o # m
    <3>1. /\ hits'[o] = hits[o] /\ contrary'[o] = contrary[o] /\ told'[o] = told[o] /\ doing'[o] = doing[o]
          /\ o \in (stored \cup worked)' => o \in stored \cup worked
      BY <1>1, <1>4, <2>3
    <3>2. QED  BY <2>1, <3>1, LooksOn
  <2>4. QED  BY <2>2, <2>3
<1>8. ASSUME NEW o \in CaptureIds PROVE Yielded(o)'
  <2>1. fate'[m] \notin CaptureIds
    BY <1>1, <1>2 DEF Tellable, Fates
  <2>2. CASE o # m
    <3> SUFFICES ASSUME fate[o] \in CaptureIds PROVE Yielded(o)'
      BY <1>4, <2>2 DEF Yielded
    <3>1. PICK f \in CaptureIds : f = fate[o]
      OBVIOUS
    <3>2. /\ o \in hits[f] /\ doing[f] \notin {"new", "search"} /\ fate[f] # "duplicate"
          /\ f \in stored \cup worked \/ fate[f] # "none" \/ doing[f] \in {"resolve", "store"}
          /\ told[f].asked \/ Capt!Quality(told[f].confidence) + 1 >= Capt!Quality(told[o].confidence)
      BY <3>1 DEF Yielded
    <3>3. fate'[f] # "duplicate" /\ doing'[f] \notin {"new", "search"}
      BY <1>1, <1>2, <1>4, <3>2
    <3>4. f \in stored' \cup worked' \/ fate'[f] # "none" \/ doing'[f] \in {"resolve", "store"}
      <4>1. CASE f = m
        BY <1>1, <4>1
      <4>2. CASE f # m
        BY <1>4, <3>2, <4>2
      <4>3. QED  BY <4>1, <4>2
    <3>5. QED  BY <1>1, <1>4, <2>2, <3>1, <3>2, <3>3, <3>4 DEF Yielded
  <2>3. QED  BY <2>1, <2>2 DEF Yielded
<1>9. QED  BY <1>5, <1>6, <1>7, <1>8

LEMMA MovesKeep ==
    ASSUME Tellable, CaptInv, NEW m \in CaptureIds, Capt!Promote(m) \/ Capt!Discard(m)
    PROVE  CaptInv'
<1> USE DEF CaptInv, CaptTypes
<1>1. /\ m \in worked /\ worked' = worked \ {m} /\ UNCHANGED <<told, doing, contrary, hits>>
      /\ \/ stored' = stored \cup {m} /\ fate' = fate
         \/ stored' = stored /\ fate' = [fate EXCEPT ![m] = "discarded"]
  BY DEF Capt!Promote, Capt!Discard
<1>2. doing[m] = "done" /\ fate[m] = "none" /\ told[m] \in ToldAs /\ m \notin stored
  BY <1>1 DEF Placed
<1>3. \A o \in CaptureIds : \A n \in hits[o] : n # m
  BY <1>1, SeenIsDone
<1>4. \A o \in CaptureIds : o # m =>
        fate'[o] = fate[o] /\ (o \in stored' <=> o \in stored) /\ (o \in worked' <=> o \in worked)
  BY <1>1
<1>5. CaptTypes'
  BY <1>1 DEF Fates
<1>6. ASSUME NEW o \in CaptureIds PROVE Placed(o)'
  <2>1. CASE o = m
    BY <1>1, <1>2, <2>1 DEF Placed
  <2>2. CASE o # m
    BY <1>1, <1>4, <2>2 DEF Placed
  <2>3. QED  BY <2>1, <2>2
<1>7. ASSUME NEW o \in CaptureIds PROVE Looked(o)'
  <2>1. ASSUME NEW n \in hits[o]
        PROVE  /\ told'[n] = told[n] /\ told[n] \in ToldAs /\ doing'[n] = "done" /\ n \notin worked'
               /\ n \in stored' => n \in stored
               /\ n \in stored' \/ fate'[n] # "none"
    BY <1>1, <1>3, <1>4, <2>1, SeenIsDone
  <2>2. /\ hits'[o] = hits[o] /\ contrary'[o] = contrary[o] /\ told'[o] = told[o] /\ doing'[o] = doing[o]
        /\ o \in (stored \cup worked)' => o \in stored \cup worked
    BY <1>1, <1>4
  <2>3. QED  BY <2>1, <2>2, LooksOn
<1>8. ASSUME NEW o \in CaptureIds PROVE Yielded(o)'
  <2>1. fate'[m] \notin CaptureIds /\ fate'[m] # "duplicate" /\ (m \in stored' \/ fate'[m] # "none")
    BY <1>1, <1>2 DEF Tellable, Fates
  <2>2. CASE o # m
    <3> SUFFICES ASSUME fate[o] \in CaptureIds PROVE Yielded(o)'
      BY <1>4, <2>2 DEF Yielded
    <3>1. PICK f \in CaptureIds : f = fate[o]
      OBVIOUS
    <3>2. /\ o \in hits[f] /\ doing[f] \notin {"new", "search"} /\ fate[f] # "duplicate"
          /\ f \in stored \cup worked \/ fate[f] # "none" \/ doing[f] \in {"resolve", "store"}
          /\ told[f].asked \/ Capt!Quality(told[f].confidence) + 1 >= Capt!Quality(told[o].confidence)
      BY <3>1 DEF Yielded
    <3>3. fate'[f] # "duplicate" /\ (f \in stored' \cup worked' \/ fate'[f] # "none" \/ doing'[f] \in {"resolve", "store"})
      <4>1. CASE f = m
        BY <2>1, <4>1
      <4>2. CASE f # m
        BY <1>1, <1>4, <3>2, <4>2
      <4>3. QED  BY <4>1, <4>2
    <3>4. QED  BY <1>1, <1>4, <2>2, <3>1, <3>2, <3>3 DEF Yielded
  <2>3. QED  BY <2>1, <2>2 DEF Yielded
<1>9. QED  BY <1>5, <1>6, <1>7, <1>8

\* A crash ends every capture under way, and the working memories.
LEMMA CrashKeeps ==
    ASSUME Tellable, CaptInv, Capt!Crash
    PROVE  CaptInv'
<1> USE DEF CaptInv, CaptTypes
<1>1. /\ worked' = {} /\ UNCHANGED <<told, stored, contrary, hits>>
      /\ doing' = [m \in CaptureIds |-> IF Capt!Running(m) THEN "done" ELSE doing[m]]
      /\ fate' = [m \in CaptureIds |-> IF Capt!Running(m) \/ m \in worked THEN "crashed" ELSE fate[m]]
  BY DEF Capt!Crash
<1>2. \A m \in CaptureIds : Capt!Running(m) <=> doing[m] \in {"search", "resolve", "store"}
  BY DEF Capt!Running
<1>3. CaptTypes'
  BY <1>1 DEF Fates
<1>4. ASSUME NEW o \in CaptureIds PROVE Placed(o)'
  BY <1>1, <1>2 DEF Placed
<1>5. ASSUME NEW o \in CaptureIds PROVE Looked(o)'
  <2>1. ASSUME NEW n \in hits[o]
        PROVE  /\ told'[n] = told[n] /\ told[n] \in ToldAs /\ doing'[n] = "done" /\ n \notin worked'
               /\ n \in stored' => n \in stored
               /\ n \in stored' \/ fate'[n] # "none"
    BY <1>1, <1>2, <2>1, SeenIsDone
  <2>2. CASE ~Capt!Running(o)
    <3>1. /\ hits'[o] = hits[o] /\ contrary'[o] = contrary[o] /\ told'[o] = told[o] /\ doing'[o] = doing[o]
          /\ o \in (stored \cup worked)' => o \in stored \cup worked
      BY <1>1, <2>2
    <3>2. QED  BY <2>1, <3>1, LooksOn
  <2>3. CASE Capt!Running(o)
    <3>1. doing'[o] = "done" /\ o \notin stored' \cup worked'
      BY <1>1, <1>2, <2>3 DEF Placed
    <3>2. contrary'[o] \subseteq hits'[o] /\ \A n \in hits'[o] : Capt!Visible(o, n)'
      BY <1>1 DEF Looked, Capt!Visible
    <3>3. QED  BY <1>1, <2>1, <3>1, <3>2 DEF Looked
  <2>4. QED  BY <2>2, <2>3
<1>6. ASSUME NEW o \in CaptureIds PROVE Yielded(o)'
  <2>1. "crashed" \notin CaptureIds
    BY DEF Tellable, Fates
  <2>2. QED  BY <1>1, <1>2, <2>1 DEF Yielded
<1>7. QED  BY <1>3, <1>4, <1>5, <1>6

LEMMA CaptStarts == Tellable /\ Capt!Init => CaptInv
<1> SUFFICES ASSUME Tellable, Capt!Init PROVE CaptInv
  OBVIOUS
<1>1. CaptTypes
  BY DEF Capt!Init, CaptTypes, Fates
<1>2. ASSUME NEW m \in CaptureIds PROVE Placed(m) /\ Looked(m) /\ Yielded(m)
  BY DEF Capt!Init, Placed, Looked, Yielded, Tellable, Fates
<1>3. QED  BY <1>1, <1>2 DEF CaptInv

LEMMA CaptKeeps == Tellable /\ CaptInv /\ [Capt!Next]_(Capt!vars) => CaptInv'
<1> SUFFICES ASSUME Tellable, CaptInv, [Capt!Next]_(Capt!vars) PROVE CaptInv'
  OBVIOUS
<1>1. ASSUME NEW m \in CaptureIds,
             \/ \E k \in Tellings : Capt!Detect(m, k)
             \/ Capt!Search(m) \/ Capt!Resolved(m) \/ Capt!Store(m) \/ Capt!Promote(m) \/ Capt!Discard(m)
             \/ \E n \in CaptureIds : Capt!Resolve(m, n)
      PROVE  CaptInv'
  BY <1>1, DetectKeeps, SearchKeeps, ResolveKeeps, StoreKeeps, MovesKeep
<1>2. CASE UNCHANGED Capt!vars
  <2>1. UNCHANGED <<told, stored, worked, doing, contrary, hits, fate>>
    BY <1>2 DEF Capt!vars
  <2>2. CaptTypes'
    BY <2>1 DEF CaptInv, CaptTypes
  <2>3. ASSUME NEW m \in CaptureIds PROVE Placed(m)' /\ Yielded(m)'
    BY <2>1 DEF CaptInv, Placed, Yielded
  <2>4. ASSUME NEW m \in CaptureIds PROVE Looked(m)'
    <3>1. Looked(m)
      BY DEF CaptInv
    <3>2. \A n \in hits[m] : told[n] \in ToldAs /\ doing[n] = "done" /\ n \notin worked /\ (n \in stored \/ fate[n] # "none")
      BY <3>1 DEF Looked
    <3>3. QED  BY <2>1, <3>1, <3>2, LooksOn
  <2>5. QED  BY <2>2, <2>3, <2>4 DEF CaptInv
<1>3. QED  BY <1>1, <1>2, CrashKeeps DEF Capt!Next

\* Whatever captures overlap, whatever the lifecycle promotes or discards meanwhile and
\* wherever the process dies: a memory stored beside one it was seen to contradict is
\* marked or says it could not be deleted, nothing is told twice, what gave way has a
\* successor whose end is known, nobody's private memory gives way to another user, and
\* none to a memory worse by two grades that was not asked for (Capture's CaptureSound).
THEOREM CapturesRight == ASSUME Tellable PROVE Capt!Spec => []Capt!CaptureSound
<1>1. Capt!Spec => []CaptInv
  BY CaptStarts, CaptKeeps, PTL DEF Capt!Spec
<1>2. QED  BY <1>1, CaptInvSound, PTL

-----------------------------------------------------------------------------
(* The bench and its components.                                           *)

\* A run of the bench is a run of each of its components.
LEMMA ServicesRuns ==
    ServicesSpec =>
      /\ Spec /\ GraphSpec /\ Capt!Spec /\ Detect!Spec
      /\ Cla!Spec /\ Emb!Spec /\ Img!Spec /\ Flow!Spec
      /\ Batches!Spec /\ Profile!Spec /\ Emotion!Spec /\ Retr!Spec
      /\ Rank!Spec /\ Sha!Spec
<1>1. ServicesInit =>
          /\ Init /\ GraphInit /\ Capt!Init /\ Detect!Init
          /\ Cla!Init /\ Emb!Init /\ Img!Init /\ Flow!Init
          /\ Batches!Init /\ Profile!Init /\ Emotion!Init /\ Retr!Init
          /\ Rank!Init /\ Sha!Init
  BY DEF ServicesInit
<1>2. [ServicesNext]_servicesVars =>
          /\ [Next]_(vars) /\ [GraphNext]_(graphVars) /\ [Capt!Next]_(Capt!vars) /\ [Detect!Next]_(Detect!vars)
          /\ [Cla!Next]_(Cla!vars) /\ [Emb!Next]_(Emb!vars) /\ [Img!Next]_(Img!vars) /\ [Flow!Next]_(Flow!vars)
          /\ [Batches!Next]_(Batches!vars) /\ [Profile!Next]_(Profile!vars) /\ [Emotion!Next]_(Emotion!vars) /\ [Retr!Next]_(Retr!vars)
          /\ [Rank!Next]_(Rank!vars) /\ [Sha!Next]_(Sha!vars)
  <2>1. ASSUME ServicesNext
        PROVE  /\ [Next]_(vars) /\ [GraphNext]_(graphVars) /\ [Capt!Next]_(Capt!vars) /\ [Detect!Next]_(Detect!vars)
               /\ [Cla!Next]_(Cla!vars) /\ [Emb!Next]_(Emb!vars) /\ [Img!Next]_(Img!vars) /\ [Flow!Next]_(Flow!vars)
               /\ [Batches!Next]_(Batches!vars) /\ [Profile!Next]_(Profile!vars) /\ [Emotion!Next]_(Emotion!vars) /\ [Retr!Next]_(Retr!vars)
               /\ [Rank!Next]_(Rank!vars) /\ [Sha!Next]_(Sha!vars)
    BY <2>1 DEF ServicesNext, Others, vars, graphVars, Capt!vars, Detect!vars,
      Cla!vars, Emb!vars, Img!vars, Flow!vars, Batches!vars, Profile!vars,
      Emotion!vars, Retr!vars, Rank!vars, Sha!vars, KgStep, LlmStep, CaptStep,
      DetectStep, ClaStep, EmbStep, ImgStep, FlowStep, BatchesStep, ProfileStep,
      EmotionStep, RetrStep, RankStep, ShaStep
  <2>2. CASE UNCHANGED servicesVars
    BY <2>2 DEF servicesVars
  <2>3. QED  BY <2>1, <2>2
<1>3. QED  BY <1>1, <1>2, PTL DEF ServicesSpec, Spec, GraphSpec, Capt!Spec,
  Detect!Spec, Cla!Spec, Emb!Spec, Img!Spec, Flow!Spec, Batches!Spec, Profile!Spec,
  Emotion!Spec, Retr!Spec, Rank!Spec, Sha!Spec

-----------------------------------------------------------------------------
(* What the run of the bench checks, for every value of its constants.       *)

\* A permit is never lost or doubled, a breaker counts failures, and the daily limit is
\* overshot by what was asked at once: GateSound, in the bench.
THEOREM GateIsSound == ServicesSpec => []GateSound
BY ServicesRuns, Sound, PTL

\* Overlapping calls and fallbacks keep the cache bounded and of one model.
THEOREM EmbeddingIsSound == ServicesSpec => []EmbeddingSound
<1>1. Emb!Spec => []Emb!EmbeddingSound
  BY EmbedsRight, ServicesAssumption
<1>2. Emb!EmbeddingSound => EmbeddingSound
  BY DEF EmbeddingSound
<1>3. QED  BY <1>1, <1>2, ServicesRuns, PTL

\* The shared dictionaries keep their limit, and what they hold of one user belongs
\* together unless an eviction took one of the two.
THEOREM SharedStateIsSound == ServicesSpec => []SharedStateSound
<1>1. Sha!Spec => []Sha!SharedStateSound
  BY SharesRight, ServicesAssumption
<1>2. Sha!SharedStateSound => SharedStateSound
  BY DEF SharedStateSound
<1>3. QED  BY <1>1, <1>2, ServicesRuns, PTL

\* A message is extracted once and in order or discarded by a restart, the change log
\* explains the persona as it shows it, and
\* a steady mood, a negation and a decline are taken for what they are.
THEOREM PersonaIsSound == ServicesSpec => PersonaSound
<1>1. Profile!Spec => []Profile!LogExplains
  BY LogsRight, ServicesAssumption
<1>2. Emotion!Spec => []Emotion!EmotionSound
  BY FeelsRight, ServicesAssumption
<1>3. Batches!Spec => [](Batches!EachOnce /\ Batches!NeverOverflows)
  BY BatchesRight, ServicesAssumption
<1>4. Batches!Spec => Batches!BatchesInOrder
  BY BatchesKeepOrder, ServicesAssumption
<1>5. QED
  BY <1>1, <1>2, <1>3, <1>4, ServicesRuns, PTL DEF PersonaSound

\* What is retrieved is merged once, counted but for a known excuse and shown again for
\* a reason, and ranking, routing and the token budget keep their promises.
THEOREM RetrievalIsSound == ServicesSpec => RetrievalSound
<1>1. Retr!Spec => []Retr!RetrievalCounts
  BY RetrCounts, ServicesAssumption
<1>2. Retr!Spec => Retr!ShownAgainForAReason /\ Retr!LastShownKnown
  BY RetrReasons, ServicesAssumption
<1>3. Rank!Spec => []Rank!RankingSound
  BY RanksRight, ServicesAssumption
<1>4. QED
  BY <1>1, <1>2, <1>3, ServicesRuns, PTL DEF RetrievalSound

\* A message is noted and captured once, its image described once; it is classified,
\* read and stored as rules, models and confidences say, and what it contradicts is
\* marked, succeeded or kept.
THEOREM MessagesAreSound == ServicesSpec => MessagesSound
<1>1. Capt!Spec => []Capt!CaptureSound
  BY CapturesRight, ServicesAssumption
<1>2. Detect!Spec => []Detect!DetectionSound
  BY DetectsRight, ServicesAssumption
<1>3. Img!Spec => []Img!ImagesSound
  BY DescribesRight, ServicesAssumption
<1>4. Cla!Spec => []Cla!ClassifierSound
  BY ClassifiesRight, ServicesAssumption
<1>5. QED
  BY <1>1, <1>2, <1>3, <1>4, ServicesRuns, FlowsRight, FlowStops, PTL DEF MessagesSound

=============================================================================

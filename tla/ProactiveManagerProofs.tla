----------------------- MODULE ProactiveManagerProofs -----------------------
(***************************************************************************)
(* Proofs about ProactiveManager, for any groups, users, tasks and limits. *)
(* What the guard keeps is proved in ReplyCoordinatorProofs, instantiated  *)
(* here as P: a step of the manager is a step of the coordinator, leaves   *)
(* it alone, or is the deferred signal that the coordinator does not know. *)
(***************************************************************************)
EXTENDS ProactiveManager, FiniteSetTheorems, TLAPS

P == INSTANCE ReplyCoordinatorProofs

-----------------------------------------------------------------------------
(* The coordinator under two names *)

\* The manager's constants satisfy what the coordinator assumes of them.
LEMMA GuardConstants == P!ConstantsAssumption
BY GuardAssumption DEF P!ConstantsAssumption

\* The operators the guard's steps are built from.
LEMMA SameOperators ==
  /\ \A g : P!CanSend(g) = C!CanSend(g)
  /\ \A p : P!Dequeue(p) = C!Dequeue(p)
  /\ \A l, p : P!WakeFirst(l, p) = C!WakeFirst(l, p)
BY DEF P!CanSend, C!CanSend, P!Dequeue, C!Dequeue, P!WakeFirst, C!WakeFirst,
       P!IsFirst, C!IsFirst, P!Waiters, C!Waiters

\* The manager reaches every step of the coordinator but the clearings.
LEMMA CoordinatorStep ==
  ASSUME [Next]_vars
  PROVE  \/ [P!Next]_(P!vars)
         \/ \E p \in Reply : ResumeDeferred(p)
<1>1. ASSUME NEW p \in Reply, NEW g \in Group, C!EnterRefused(p, g)
      PROVE  P!Next
  BY <1>1 DEF P!Next, C!EnterRefused, P!EnterRefused, C!LockOf, P!LockOf,
     C!CanSend, P!CanSend, C!WakeFirst, P!WakeFirst, C!IsFirst, P!IsFirst,
     C!Waiters, P!Waiters, C!normalVars, P!normalVars
<1>2. ASSUME NEW p \in Reply, NEW g \in Group, C!EnterFree(p, g) \/ C!EnterWait(p, g)
      PROVE  P!Next
  BY <1>2 DEF P!Next, C!EnterFree, P!EnterFree, C!EnterWait, P!EnterWait,
     C!LockOf, P!LockOf, C!CanSend, P!CanSend, C!Waiters, P!Waiters,
     C!normalVars, P!normalVars
<1>3. ASSUME NEW p \in Reply, C!ResumeAllowed(p) \/ C!ResumeRefused(p)
      PROVE  P!Next
  BY <1>3 DEF P!Next, C!ResumeAllowed, P!ResumeAllowed, C!ResumeRefused,
     P!ResumeRefused, C!CanSend, P!CanSend, C!Dequeue, P!Dequeue, C!Settle,
     P!Settle, C!WakeFirst, P!WakeFirst, C!IsFirst, P!IsFirst, C!Waiters,
     P!Waiters, C!normalVars, P!normalVars
<1>4. ASSUME NEW p \in Reply, C!Cancel(p) \/ C!CancelDelivered(p) \/ C!Exit(p)
      PROVE  P!Next
  BY <1>4 DEF P!Next, C!Cancel, P!Cancel, C!CancelDelivered, P!CancelDelivered,
     C!Exit, P!Exit, C!Dequeue, P!Dequeue, C!Settle, P!Settle, C!WakeFirst,
     P!WakeFirst, C!IsFirst, P!IsFirst, C!Waiters, P!Waiters, C!normalVars,
     P!normalVars
<1>5. CASE Normal
  BY <1>5 DEF Normal, NormalReplyStart, NormalReplyEnd, NormalReplyLost,
     GuardCooldownElapses, C!NormalReplyStart, P!NormalReplyStart,
     C!NormalReplyEnd, P!NormalReplyEnd, C!NormalReplyLost, P!NormalReplyLost,
     C!CooldownElapses, P!CooldownElapses, C!guardVars, P!guardVars, P!Next
<1>6. ASSUME UNCHANGED coordinatorVars
      PROVE  UNCHANGED P!vars
  BY <1>6 DEF coordinatorVars, P!vars
<1>7. CASE NewDay \/ \E g \in Group : FollowUpDecided(g) \/ ExpectationEnds(g)
                                        \/ ReplyCooldownElapses(g)
  BY <1>6, <1>7 DEF NewDay, FollowUpDecided, ExpectationEnds, ReplyCooldownElapses
<1>8. ASSUME NEW p \in Reply, NEW kind, NEW g \in Group, NEW u \in User,
             Attempt(p, kind, g, u)
      PROVE  [P!Next]_(P!vars)
  BY <1>1, <1>2, <1>6, <1>8 DEF Attempt
<1>9. ASSUME NEW p \in Reply, Resume(p) \/ Sent(p) \/ SendFails(p)
                                \/ SendCancelled(p) \/ WaitCancelled(p)
      PROVE  P!Next
  BY <1>3, <1>4, <1>9 DEF Resume, Sent, SendFails, SendCancelled, WaitCancelled
<1>10. CASE UNCHANGED vars
  BY <1>6, <1>10 DEF vars
<1>11. QED
  BY <1>5, <1>7, <1>8, <1>9, <1>10 DEF Next

-----------------------------------------------------------------------------
(* The guard's invariant under the manager *)

\* Admitted and deferred in one step: to the guard it is one more leaving.
LEMMA DeferredStep ==
  ASSUME P!IInv, NEW p \in Reply, ResumeDeferred(p)
  PROVE  P!IInv'
<1>1. /\ pc[p] = "waiting" /\ fut[p] = "woken"
      /\ locked' = locked \ {lock[p]} /\ pc' = [pc EXCEPT ![p] = "idle"]
      /\ lock' = [lock EXCEPT ![p] = NoLock]
      /\ ahead' = P!Dequeue(p) /\ fut' = P!WakeFirst(lock[p], p)
      /\ UNCHANGED strayed /\ UNCHANGED <<pending, cooling, request, gen>>
  BY SameOperators DEF ResumeDeferred
<1>2. P!TypeOK
  BY DEF P!IInv
<1>3. lock[p] \in P!Lock /\ lock[p] \notin locked
  BY <1>1, <1>2 DEF P!IInv, P!TypeOK, P!WokenInv
<1>4. \A q \in P!Sending(lock[p]) : lock[p] \notin strayed => q = p
  BY <1>3 DEF P!IInv, P!PermitInv, P!Sending
<1>5. P!TypeOK'
  BY <1>1, <1>2 DEF P!TypeOK, P!Dequeue, P!WakeFirst, P!Lock
<1>6. /\ P!QueueInv' /\ P!OrderInv' /\ P!WokenInv' /\ P!PermitInv'
      /\ P!MutexUnlessStrayed' /\ P!LockedHasSender' /\ P!NoLostWakeup'
  BY <1>1, <1>3, <1>4, GuardConstants, P!LeaveAndWake
<1>7. QED
  BY <1>5, <1>6 DEF P!IInv

\* The guard's inductive invariant holds at first and is kept by the manager.
LEMMA GuardInv == Spec => []P!IInv
<1>1. Init => P!IInv
  <2>1. Init => P!Init
    BY DEF Init, C!Init, P!Init
  <2>2. QED
    BY <2>1, GuardConstants, P!InitInv
<1>2. P!IInv /\ [Next]_vars => P!IInv'
  BY CoordinatorStep, DeferredStep, GuardConstants, P!StepInv
<1>3. QED
  BY <1>1, <1>2, PTL DEF Spec

\* The guard's promises hold for the manager, the deferred signal included:
\* no lock left locked without a sender, no waiter asleep on a free lock.
THEOREM Guarded == Spec => []GuardSurvives
<1>1. P!IInv => GuardSurvives
  BY DEF P!IInv, GuardSurvives, P!LockedHasSender, C!LockedHasSender,
     P!NoLostWakeup, C!NoLostWakeup, P!Sending, C!Sending, P!Waiters,
     C!Waiters, P!Lock, C!Lock
<1>2. QED
  BY <1>1, GuardInv, PTL

-----------------------------------------------------------------------------
(* Types *)

\* The two instances agree on the types of the coordinator's variables.
LEMMA SameType == C!TypeOK <=> P!TypeOK
BY DEF C!TypeOK, P!TypeOK, C!Lock, P!Lock

\* A task has a job exactly while it is inside a guard.
JobOK ==
  /\ job \in [Reply -> [kind : {"none", "signal", "followup"}, user : User \cup {NoUser}]]
  /\ \A p \in Reply : pc[p] = "idle" <=> job[p] = NoJob

\* The manager's own variables, the jobs apart.
QuotaOK ==
  /\ {expecting, deciding, recent} \subseteq SUBSET Group
  /\ daily \in Nat
  /\ perUser \in [User -> Nat]
  /\ day \in 0..MaxDays
  /\ burst \in [Group -> Nat]

\* The lock of a task inside a guard belongs to a group.
LEMMA GroupOfType ==
  ASSUME P!TypeOK, NEW p \in Reply, pc[p] # "idle"
  PROVE  GroupOf(p) \in Group
BY DEF P!TypeOK, P!Lock, GroupOf

\* An attempt either changes nothing of the guard's tasks or gives the task
\* its job as it enters the guard.
LEMMA AttemptJob ==
  ASSUME NEW p \in Reply, NEW kind \in {"signal", "followup"}, NEW g \in Group,
         NEW u \in User, Attempt(p, kind, g, u)
  PROVE  \/ UNCHANGED <<pc, job>>
         \/ /\ WithinQuota(g, u)
            /\ job' = [job EXCEPT ![p] = [kind |-> kind, user |-> u]]
            /\ \E at \in {"waiting", "sending"} : pc' = [pc EXCEPT ![p] = at]
BY DEF Attempt, Begins, coordinatorVars, C!EnterRefused, C!EnterFree, C!EnterWait

\* The steps of one task after its attempt: it goes on with its job, or ends
\* it as it leaves the guard.
LEMMA TaskJob ==
  ASSUME NEW p \in Reply,
         \/ Resume(p) \/ ResumeDeferred(p) \/ Sent(p) \/ SendFails(p)
         \/ SendCancelled(p) \/ WaitCancelled(p)
  PROVE  /\ pc[p] # "idle"
         /\ \/ /\ job' = job
               /\ \E at \in {"cancelling", "sending"} : pc' = [pc EXCEPT ![p] = at]
            \/ job' = [job EXCEPT ![p] = NoJob] /\ pc' = [pc EXCEPT ![p] = "idle"]
BY DEF Resume, ResumeDeferred, Sent, SendFails, SendCancelled, WaitCancelled, Ends,
       C!ResumeAllowed, C!ResumeRefused, C!Exit, C!Cancel, C!CancelDelivered

\* Everything else in the plugin leaves the tasks alone.
LEMMA OthersJob ==
  ASSUME \/ Normal \/ NewDay \/ UNCHANGED vars
         \/ \E g \in Group : FollowUpDecided(g) \/ ExpectationEnds(g)
                               \/ ReplyCooldownElapses(g)
  PROVE  UNCHANGED <<pc, lock, job>>
BY DEF Normal, NormalReplyStart, NormalReplyEnd, NormalReplyLost,
       GuardCooldownElapses, C!NormalReplyStart, C!NormalReplyEnd,
       C!NormalReplyLost, C!CooldownElapses, C!guardVars, NewDay, FollowUpDecided,
       ExpectationEnds, ReplyCooldownElapses, vars, coordinatorVars

\* Every step keeps a job with each task inside a guard, and with no other.
LEMMA JobStep ==
  ASSUME P!TypeOK, JobOK, [Next]_vars
  PROVE  JobOK'
<1> USE QuotaAssumption DEF JobOK, P!TypeOK, NoJob
<1>1. ASSUME NEW p \in Reply, NEW kind \in {"signal", "followup"}, NEW g \in Group,
             NEW u \in User, Attempt(p, kind, g, u)
      PROVE  JobOK'
  <2>1. CASE UNCHANGED <<pc, job>>
    BY <2>1
  <2>2. ASSUME NEW at \in {"waiting", "sending"}, pc' = [pc EXCEPT ![p] = at],
               job' = [job EXCEPT ![p] = [kind |-> kind, user |-> u]]
        PROVE  JobOK'
    BY <2>2
  <2>3. QED
    BY <1>1, <2>1, <2>2, AttemptJob
<1>2. ASSUME NEW p \in Reply,
             \/ Resume(p) \/ ResumeDeferred(p) \/ Sent(p) \/ SendFails(p)
             \/ SendCancelled(p) \/ WaitCancelled(p)
      PROVE  JobOK'
  <2>1. ASSUME NEW at \in {"cancelling", "sending"}, pc[p] # "idle", job' = job,
               pc' = [pc EXCEPT ![p] = at]
        PROVE  JobOK'
    BY <2>1
  <2>2. CASE job' = [job EXCEPT ![p] = NoJob] /\ pc' = [pc EXCEPT ![p] = "idle"]
    BY <2>2
  <2>3. QED
    BY <1>2, <2>1, <2>2, TaskJob
<1>3. CASE \/ Normal \/ NewDay \/ UNCHANGED vars
           \/ \E g \in Group : FollowUpDecided(g) \/ ExpectationEnds(g)
                                 \/ ReplyCooldownElapses(g)
  BY <1>3, OthersJob
<1>4. QED
  BY <1>1, <1>2, <1>3 DEF Next

\* Every step keeps the expectations among the groups and the counters natural.
LEMMA QuotaStep ==
  ASSUME P!TypeOK, JobOK, QuotaOK, [Next]_vars
  PROVE  QuotaOK'
<1> USE QuotaAssumption DEF QuotaOK, quotaVars
<1>1. ASSUME NEW p \in Reply, NEW kind, NEW g \in Group, NEW u \in User,
             Attempt(p, kind, g, u)
      PROVE  QuotaOK'
  BY <1>1 DEF Attempt, Begins, Dropped
<1>2. ASSUME NEW p \in Reply, Resume(p) \/ ResumeDeferred(p) \/ SendFails(p)
                                \/ SendCancelled(p) \/ WaitCancelled(p)
      PROVE  QuotaOK'
  BY <1>2 DEF Resume, ResumeDeferred, SendFails, SendCancelled, WaitCancelled, Dropped
<1>3. ASSUME NEW p \in Reply, Sent(p)
      PROVE  QuotaOK'
  <2>1. GroupOf(p) \in Group
    BY <1>3, GroupOfType DEF Sent, C!Exit
  <2>2. {expecting', deciding', recent'} \subseteq SUBSET Group /\ daily' \in Nat
        /\ day' \in 0..MaxDays /\ burst' \in [Group -> Nat]
    BY <1>3, <2>1 DEF Sent, Counted
  <2>3. perUser' \in [User -> Nat]
    <3>1. \A v \in User : perUser'[v] \in Nat
      BY <1>3 DEF Sent, Counted
    <3>2. QED
      BY <1>3, <3>1 DEF Sent, Counted
  <2>4. QED
    BY <2>2, <2>3
<1>4. CASE Normal
  BY <1>4 DEF Normal, NormalReplyStart, NormalReplyEnd, NormalReplyLost,
     GuardCooldownElapses, C!NormalReplyEnd
<1>5. CASE NewDay \/ \E g \in Group : FollowUpDecided(g) \/ ExpectationEnds(g)
                                        \/ ReplyCooldownElapses(g)
  BY <1>5 DEF NewDay, FollowUpDecided, ExpectationEnds, ReplyCooldownElapses
<1>6. CASE UNCHANGED vars
  BY <1>6 DEF vars
<1>7. QED
  BY <1>1, <1>2, <1>3, <1>4, <1>5, <1>6 DEF Next

\* Every variable stays in its type, and a task has a job exactly while it is
\* inside a guard.
THEOREM ManagerTypes == Spec => []TypeOK
<1>1. Init => JobOK /\ QuotaOK
  BY QuotaAssumption DEF Init, C!Init, JobOK, QuotaOK, NoJob
<1>2. P!IInv /\ JobOK /\ QuotaOK /\ [Next]_vars => JobOK' /\ QuotaOK'
  BY JobStep, QuotaStep DEF P!IInv
<1>3. P!IInv /\ JobOK /\ QuotaOK => TypeOK
  BY SameType DEF P!IInv, TypeOK, JobOK, QuotaOK
<1>4. QED
  BY <1>1, <1>2, <1>3, GuardInv, PTL DEF Spec

-----------------------------------------------------------------------------
(* The limits *)

InFlightOf(u) == {p \in Reply : job[p].user = u}

\* A reply in flight was admitted under the limit and will count once: what
\* is counted and what is in flight together pass the limit by no more than
\* the other tasks.
CountInv ==
  /\ daily + Cardinality(InFlight) <= MaxDaily + Cardinality(Reply) - 1
  /\ \A u \in User :
       perUser[u] + Cardinality(InFlightOf(u)) <= MaxPerUser + Cardinality(Reply) - 1

\* A set of tasks is finite and has at most all of them.
LEMMA TaskSet ==
  ASSUME NEW S \in SUBSET Reply
  PROVE  /\ IsFiniteSet(S) /\ Cardinality(S) \in Nat /\ Cardinality(Reply) \in Nat
         /\ Cardinality(S) <= Cardinality(Reply)
BY GuardAssumption, FS_Subset, FS_CardinalityType

\* A set of tasks that loses some of its members is no larger.
LEMMA FewerTasks ==
  ASSUME NEW S \in SUBSET Reply, NEW T \in SUBSET S
  PROVE  Cardinality(T) <= Cardinality(S)
BY TaskSet, FS_Subset

\* Without one of its members it is smaller by one.
LEMMA OneLess ==
  ASSUME NEW S \in SUBSET Reply, NEW p \in S
  PROVE  Cardinality(S \ {p}) = Cardinality(S) - 1
BY TaskSet, FS_RemoveElement

\* What an attempt adds to a set of tasks keeps it a set of tasks, and what
\* an ended job leaves is smaller by one.
LEMMA InFlightType ==
  /\ InFlight \in SUBSET Reply
  /\ \A u \in User : InFlightOf(u) \in SUBSET Reply
BY DEF InFlight, InFlightOf

\* Jobs come and go with the tasks only in attempts and endings.
LEMMA CountFrame ==
  ASSUME CountInv, QuotaOK, InFlight' \subseteq InFlight,
         \A u \in User : InFlightOf(u)' \subseteq InFlightOf(u),
         daily' = daily, perUser' = perUser
  PROVE  CountInv'
<1> USE QuotaAssumption, TaskSet, InFlightType DEF QuotaOK
<1>1. Cardinality(InFlight') <= Cardinality(InFlight)
  BY FewerTasks
<1>2. daily' + Cardinality(InFlight') <= MaxDaily + Cardinality(Reply) - 1
  <2>1. Cardinality(InFlight') \in Nat /\ Cardinality(InFlight) \in Nat
    BY FewerTasks, FS_Subset, FS_CardinalityType
  <2>2. QED
    BY <1>1, <2>1 DEF CountInv
<1>3. ASSUME NEW u \in User
      PROVE  perUser'[u] + Cardinality(InFlightOf(u)') <= MaxPerUser + Cardinality(Reply) - 1
  <2>1. Cardinality(InFlightOf(u)') <= Cardinality(InFlightOf(u))
    BY FewerTasks
  <2>2. Cardinality(InFlightOf(u)') \in Nat /\ Cardinality(InFlightOf(u)) \in Nat
    BY FS_Subset, FS_CardinalityType
  <2>3. QED
    BY <2>1, <2>2 DEF CountInv
<1>4. QED
  BY <1>2, <1>3 DEF CountInv

\* A reply that is delivered moves from the replies in flight to the counters.
LEMMA CountSent ==
  ASSUME P!TypeOK, JobOK, QuotaOK, CountInv, NEW p \in Reply, Sent(p)
  PROVE  CountInv'
<1> USE QuotaAssumption, TaskSet, InFlightType DEF QuotaOK
<1>1. /\ job[p] # NoJob /\ job' = [job EXCEPT ![p] = NoJob]
      /\ daily' = daily + 1
      /\ perUser' = [perUser EXCEPT ![job[p].user] = @ + 1]
  BY DEF Sent, Ends, Counted, C!Exit, JobOK
<1>2. daily' + Cardinality(InFlight') <= MaxDaily + Cardinality(Reply) - 1
  <2>1. InFlight' = InFlight \ {p} /\ p \in InFlight
    BY <1>1 DEF InFlight, JobOK
  <2>2. Cardinality(InFlight') = Cardinality(InFlight) - 1
    BY <2>1, OneLess
  <2>3. Cardinality(InFlight) \in Nat /\ Cardinality(Reply) \in Nat
    BY TaskSet
  <2>4. QED
    BY <1>1, <2>2, <2>3 DEF CountInv
<1>3. ASSUME NEW u \in User
      PROVE  perUser'[u] + Cardinality(InFlightOf(u)') <= MaxPerUser + Cardinality(Reply) - 1
  <2>1. InFlightOf(u)' = InFlightOf(u) \ {p}
    BY <1>1 DEF InFlightOf, JobOK, NoJob
  <2>2. Cardinality(InFlightOf(u)) \in Nat /\ Cardinality(Reply) \in Nat
    BY TaskSet
  <2>3. CASE job[p].user = u
    <3>1. Cardinality(InFlightOf(u)') = Cardinality(InFlightOf(u)) - 1
      BY <2>1, <2>3, OneLess DEF InFlightOf
    <3>2. perUser'[u] = perUser[u] + 1
      BY <1>1, <2>3
    <3>3. QED
      BY <2>2, <3>1, <3>2 DEF CountInv
  <2>4. CASE job[p].user # u
    <3>1. InFlightOf(u)' = InFlightOf(u)
      BY <2>1, <2>4 DEF InFlightOf
    <3>2. perUser'[u] = perUser[u]
      BY <1>1, <2>4
    <3>3. QED
      BY <3>1, <3>2 DEF CountInv
  <2>5. QED
    BY <2>3, <2>4
<1>4. QED
  BY <1>2, <1>3 DEF CountInv

\* An admitted attempt found the counters below their limits.
LEMMA CountAttempt ==
  ASSUME JobOK, QuotaOK, CountInv, NEW p \in Reply,
         NEW kind \in {"signal", "followup"}, NEW g \in Group, NEW u \in User,
         WithinQuota(g, u), job' = [job EXCEPT ![p] = [kind |-> kind, user |-> u]],
         job[p] = NoJob, UNCHANGED <<daily, perUser>>
  PROVE  CountInv'
<1> USE QuotaAssumption DEF QuotaOK
<1>1. daily' + Cardinality(InFlight') <= MaxDaily + Cardinality(Reply) - 1
  <2>1. InFlight' \in SUBSET Reply
    BY DEF InFlight
  <2>2. /\ Cardinality(InFlight') \in Nat /\ Cardinality(Reply) \in Nat
        /\ Cardinality(InFlight') <= Cardinality(Reply)
    BY <2>1, TaskSet
  <2>3. QED
    BY <2>2 DEF WithinQuota
<1>2. ASSUME NEW v \in User
      PROVE  perUser'[v] + Cardinality(InFlightOf(v)') <= MaxPerUser + Cardinality(Reply) - 1
  <2>1. InFlightOf(v)' \in SUBSET Reply
    BY DEF InFlightOf
  <2>2. /\ Cardinality(InFlightOf(v)') \in Nat /\ Cardinality(Reply) \in Nat
        /\ Cardinality(InFlightOf(v)') <= Cardinality(Reply)
    BY <2>1, TaskSet
  <2>3. CASE v = u
    BY <2>2, <2>3 DEF WithinQuota
  <2>4. CASE v # u
    <3>1. InFlightOf(v)' = InFlightOf(v)
      BY <2>4 DEF InFlightOf, JobOK, NoJob
    <3>2. QED
      BY <3>1 DEF CountInv
  <2>5. QED
    BY <2>3, <2>4
<1>3. QED
  BY <1>1, <1>2 DEF CountInv

\* Every step keeps what is counted and what is in flight within the bound.
LEMMA CountStep ==
  ASSUME P!TypeOK, JobOK, QuotaOK, CountInv, [Next]_vars
  PROVE  CountInv'
<1> USE DEF quotaVars
<1>1. ASSUME UNCHANGED <<job, daily, perUser>>
      PROVE  CountInv'
  BY <1>1 DEF CountInv, InFlight, InFlightOf
<1>2. ASSUME NEW p \in Reply, NEW kind \in {"signal", "followup"}, NEW g \in Group,
             NEW u \in User, Attempt(p, kind, g, u)
      PROVE  CountInv'
  <2>1. pc[p] = "idle" /\ UNCHANGED <<daily, perUser>>
    BY <1>2 DEF Attempt
  <2>2. QED
    BY <1>1, <1>2, <2>1, AttemptJob, CountAttempt DEF JobOK
<1>3. ASSUME NEW p \in Reply, Sent(p)
      PROVE  CountInv'
  BY <1>3, CountSent
<1>4. ASSUME NEW p \in Reply, Resume(p) \/ ResumeDeferred(p) \/ SendFails(p)
                                \/ SendCancelled(p) \/ WaitCancelled(p)
      PROVE  CountInv'
  <2>1. UNCHANGED <<daily, perUser>>
    BY <1>4 DEF Resume, ResumeDeferred, SendFails, SendCancelled, WaitCancelled
  <2>2. job' = job \/ job' = [job EXCEPT ![p] = NoJob]
    BY <1>4, TaskJob
  <2>3. /\ InFlight' \subseteq InFlight
        /\ \A u \in User : InFlightOf(u)' \subseteq InFlightOf(u)
    BY <2>2, QuotaAssumption DEF InFlight, InFlightOf, JobOK, NoJob
  <2>4. QED
    BY <2>1, <2>3, CountFrame
<1>5. CASE Normal \/ UNCHANGED vars
           \/ \E g \in Group : FollowUpDecided(g) \/ ExpectationEnds(g)
                                 \/ ReplyCooldownElapses(g)
  <2>1. UNCHANGED <<daily, perUser>>
    BY <1>5 DEF Normal, vars, FollowUpDecided, ExpectationEnds, ReplyCooldownElapses
  <2>2. QED
    BY <1>1, <1>5, <2>1, OthersJob
<1>6. CASE NewDay
  <2>1. UNCHANGED job /\ daily' = 0 /\ perUser' = [u \in User |-> 0]
    BY <1>6 DEF NewDay
  <2>2. daily' + Cardinality(InFlight') <= MaxDaily + Cardinality(Reply) - 1
    BY <2>1, TaskSet, InFlightType, QuotaAssumption DEF InFlight
  <2>3. ASSUME NEW u \in User
        PROVE  perUser'[u] + Cardinality(InFlightOf(u)')
                 <= MaxPerUser + Cardinality(Reply) - 1
    BY <2>1, TaskSet, InFlightType, QuotaAssumption DEF InFlightOf
  <2>4. QED
    BY <2>2, <2>3 DEF CountInv
<1>7. QED
  BY <1>2, <1>3, <1>4, <1>5, <1>6 DEF Next

\* The limits are checked before the guard waits and counted after the send:
\* the replies in flight together can pass them, and by no more.
THEOREM Overshoot == Spec => []OvershootBounded
<1>1. Init => JobOK /\ QuotaOK /\ CountInv
  <2> SUFFICES ASSUME Init PROVE JobOK /\ QuotaOK /\ CountInv
    OBVIOUS
  <2>1. JobOK /\ QuotaOK
    BY QuotaAssumption DEF Init, C!Init, JobOK, QuotaOK, NoJob
  <2>2. InFlight = {} /\ \A u \in User : InFlightOf(u) = {}
    BY QuotaAssumption DEF Init, InFlight, InFlightOf, NoJob
  <2>3. Cardinality({}) = 0 /\ Cardinality(Reply) \in Nat
    BY TaskSet, FS_EmptySet
  <2>4. CountInv
    <3>1. Cardinality(InFlight) = 0 /\ \A u \in User : Cardinality(InFlightOf(u)) = 0
      BY <2>2, <2>3
    <3>2. daily = 0 /\ \A u \in User : perUser[u] = 0
      BY DEF Init
    <3>3. QED
      BY <2>3, <3>1, <3>2, QuotaAssumption DEF CountInv
  <2>5. QED
    BY <2>1, <2>4
<1>2. P!IInv /\ JobOK /\ QuotaOK /\ CountInv /\ [Next]_vars
        => JobOK' /\ QuotaOK' /\ CountInv'
  BY JobStep, QuotaStep, CountStep DEF P!IInv
<1>3. QuotaOK /\ CountInv => OvershootBounded
  BY TaskSet, InFlightType, QuotaAssumption DEF QuotaOK, CountInv, OvershootBounded
<1>4. QED
  BY <1>1, <1>2, <1>3, GuardInv, PTL DEF Spec

-----------------------------------------------------------------------------
(* The starts *)

\* A send starts in an attempt that finds the lock free or in a woken wait
\* that is admitted, and in no other step.
LEMMA StartsOnly ==
  ASSUME P!TypeOK, Next, NEW p \in Reply, Starts(p)
  PROVE  \/ \E kind \in {"signal", "followup"}, g \in Group, u \in User :
              /\ WithinQuota(g, u) /\ ~Defers(kind, g)
              /\ C!EnterFree(p, g) /\ Begins(p, kind, g, u)
         \/ /\ ~Defers(job[p].kind, GroupOf(p))
            /\ C!ResumeAllowed(p) /\ job' = job
<1> USE DEF P!TypeOK, Starts
<1>1. ASSUME NEW q \in Reply, NEW kind \in {"signal", "followup"}, NEW g \in Group,
             NEW u \in User, Attempt(q, kind, g, u)
      PROVE  /\ p = q /\ WithinQuota(g, u) /\ ~Defers(kind, g)
             /\ C!EnterFree(p, g) /\ Begins(p, kind, g, u)
  <2>1. ~UNCHANGED coordinatorVars /\ ~C!EnterRefused(q, g) /\ ~C!EnterWait(q, g)
    BY DEF coordinatorVars, C!EnterRefused, C!EnterWait
  <2>2. WithinQuota(g, u) /\ ~Defers(kind, g) /\ C!EnterFree(q, g) /\ Begins(q, kind, g, u)
    BY <1>1, <2>1 DEF Attempt
  <2>3. p = q
    BY <2>2 DEF C!EnterFree
  <2>4. QED
    BY <2>2, <2>3
<1>2. ASSUME NEW q \in Reply,
             \/ Resume(q) \/ ResumeDeferred(q) \/ Sent(q) \/ SendFails(q)
             \/ SendCancelled(q) \/ WaitCancelled(q)
      PROVE  /\ p = q /\ ~Defers(job[p].kind, GroupOf(p))
             /\ C!ResumeAllowed(p) /\ job' = job
  <2>1. /\ ~ResumeDeferred(q) /\ ~C!Exit(q) /\ ~C!ResumeRefused(q)
        /\ ~C!Cancel(q) /\ ~C!CancelDelivered(q)
    BY DEF ResumeDeferred, C!Exit, C!ResumeRefused, C!Cancel, C!CancelDelivered
  <2>2. ~Defers(job[q].kind, GroupOf(q)) /\ C!ResumeAllowed(q) /\ job' = job
    BY <1>2, <2>1 DEF Resume, Sent, SendFails, SendCancelled, WaitCancelled
  <2>3. p = q
    BY <2>2 DEF C!ResumeAllowed
  <2>4. QED
    BY <2>2, <2>3
<1>3. ~ \/ Normal \/ NewDay
        \/ \E g \in Group : FollowUpDecided(g) \/ ExpectationEnds(g)
                              \/ ReplyCooldownElapses(g)
  BY OthersJob
<1>4. QED
  BY <1>1, <1>2, <1>3 DEF Next

\* A signal reply never starts on top of a conversation that is being
\* followed up, even when the expectation appeared while it queued.
THEOREM Defer == Spec => SignalDefers
<1>1. P!IInv /\ JobOK /\ [Next]_vars =>
        [\A p \in Reply : Starts(p) /\ job'[p].kind = "signal"
                            => lock'[p][1] \notin expecting]_vars
  <2> SUFFICES ASSUME P!TypeOK, JobOK, Next, NEW p \in Reply, Starts(p),
                      job'[p].kind = "signal"
               PROVE  lock'[p][1] \notin expecting
    BY DEF P!IInv
  <2>1. ASSUME NEW kind \in {"signal", "followup"}, NEW g \in Group, NEW u \in User,
               ~Defers(kind, g), C!EnterFree(p, g), Begins(p, kind, g, u)
        PROVE  lock'[p][1] \notin expecting
    <3>1. lock'[p][1] = g
      BY <2>1 DEF C!EnterFree, C!LockOf, P!TypeOK
    <3>2. kind = "signal"
      BY <2>1 DEF Begins, JobOK
    <3>3. QED
      BY <2>1, <3>1, <3>2 DEF Defers
  <2>2. CASE /\ ~Defers(job[p].kind, GroupOf(p))
             /\ C!ResumeAllowed(p) /\ job' = job
    BY <2>2 DEF C!ResumeAllowed, Defers, GroupOf
  <2>3. QED
    BY <2>1, <2>2, StartsOnly
<1>2. P!IInv /\ JobOK /\ [Next]_vars => JobOK'
  BY JobStep DEF P!IInv
<1>3. Init => JobOK
  BY QuotaAssumption DEF Init, C!Init, JobOK, NoJob
<1>4. QED
  BY <1>1, <1>2, <1>3, GuardInv, PTL DEF Spec, SignalDefers

-----------------------------------------------------------------------------
(* The cooldown *)

\* In a group's cooldown nobody new enters its guard: where the replies under
\* way are no more, and none is sent, the bound stays.
LEMMA BurstFrame ==
  ASSUME QuotaOK, CooldownEndsBurst, recent' = recent, burst' = burst,
         \A g \in recent : RepliesIn(g)' \subseteq RepliesIn(g)
  PROVE  CooldownEndsBurst'
<1> SUFFICES ASSUME NEW g \in recent
             PROVE  burst[g] + Cardinality(RepliesIn(g)') <= Cardinality(Reply)
  BY DEF CooldownEndsBurst
<1>1. RepliesIn(g) \in SUBSET Reply /\ RepliesIn(g)' \in SUBSET RepliesIn(g)
  BY DEF RepliesIn, InFlight
<1>2. PICK n \in Nat : n = Cardinality(RepliesIn(g))
  BY <1>1, TaskSet
<1>3. PICK k \in Nat : k = Cardinality(RepliesIn(g)')
  BY <1>1, TaskSet
<1>4. PICK c \in Nat : c = Cardinality(Reply)
  BY TaskSet
<1>5. k <= n
  BY <1>1, <1>2, <1>3, FewerTasks
<1>6. burst[g] + n <= c /\ burst[g] \in Nat
  BY <1>2, <1>4 DEF CooldownEndsBurst, QuotaOK
<1>7. burst[g] + k <= c
  BY <1>5, <1>6
<1>8. QED
  BY <1>3, <1>4, <1>7

\* A delivered reply leaves those under way and joins those sent.
LEMMA BurstSent ==
  ASSUME P!TypeOK, JobOK, QuotaOK, CooldownEndsBurst,
         \A g \in Group \ recent : burst[g] = 0, NEW p \in Reply, Sent(p)
  PROVE  CooldownEndsBurst'
<1>1. /\ job[p] # NoJob /\ job' = [job EXCEPT ![p] = NoJob]
      /\ lock' = [lock EXCEPT ![p] = NoLock]
  BY DEF Sent, Ends, C!Exit, JobOK
<1>2. \A g : RepliesIn(g)' = RepliesIn(g) \ {p}
  BY <1>1 DEF RepliesIn, InFlight, GroupOf, JobOK, P!TypeOK
<1>3. GroupOf(p) \in Group
  BY GroupOfType DEF Sent, C!Exit
<1> SUFFICES ASSUME NEW g \in recent'
             PROVE  burst'[g] + Cardinality(RepliesIn(g)') <= Cardinality(Reply)
  BY DEF CooldownEndsBurst
<1>4. RepliesIn(g) \in SUBSET Reply /\ RepliesIn(g) \ {p} \in SUBSET RepliesIn(g)
  BY DEF RepliesIn, InFlight
<1>5. PICK n \in Nat : n = Cardinality(RepliesIn(g))
  BY <1>4, TaskSet
<1>6. PICK k \in Nat : k = Cardinality(RepliesIn(g)')
  BY <1>2, <1>4, TaskSet
<1>7. PICK c \in Nat : c = Cardinality(Reply)
  BY TaskSet
<1>8. k <= n /\ n <= c
  BY <1>2, <1>4, <1>5, <1>6, <1>7, FewerTasks, TaskSet
<1>9. CASE g # GroupOf(p)
  <2>1. g \in recent /\ burst'[g] = burst[g] /\ burst[g] \in Nat
    BY <1>9, <1>3 DEF Sent, Counted, QuotaOK
  <2>2. burst[g] + n <= c
    BY <2>1, <1>5, <1>7 DEF CooldownEndsBurst
  <2>3. burst'[g] + k <= c
    BY <2>1, <2>2, <1>8
  <2>4. QED  BY <2>3, <1>6, <1>7
<1>10. CASE g = GroupOf(p)
  <2>1. p \in RepliesIn(g)
    BY <1>1, <1>10 DEF RepliesIn, InFlight
  <2>2. k = n - 1
    BY <2>1, <1>2, <1>4, <1>5, <1>6, OneLess
  <2>3. burst'[g] = burst[g] + 1 \/ (burst' = burst /\ recent' = recent)
    BY <1>3, <1>10 DEF Sent, Counted, QuotaOK
  <2>4. burst[g] \in Nat /\ (g \in recent \/ burst[g] = 0)
    BY <1>3, <1>10 DEF QuotaOK
  <2>5. burst[g] + n <= c
    <3>1. CASE g \in recent
      BY <3>1, <1>5, <1>7 DEF CooldownEndsBurst
    <3>2. CASE burst[g] = 0
      BY <3>2, <1>8
    <3>3. QED  BY <2>4, <3>1, <3>2
  <2>6. burst'[g] + k <= c
    BY <2>2, <2>3, <2>4, <2>5
  <2>7. QED  BY <2>6, <1>6, <1>7
<1>11. QED  BY <1>9, <1>10

\* Where no cooldown runs nothing is counted.
BurstInv ==
  /\ CooldownEndsBurst
  /\ \A g \in Group \ recent : burst[g] = 0

\* Every step keeps what was sent and what is under way within the tasks.
LEMMA BurstStep ==
  ASSUME P!TypeOK, JobOK, QuotaOK, BurstInv, [Next]_vars
  PROVE  BurstInv'
<1> USE DEF quotaVars
<1>1. ASSUME NEW p \in Reply, NEW kind \in {"signal", "followup"}, NEW g \in Group,
             NEW u \in User, Attempt(p, kind, g, u)
      PROVE  BurstInv'
  <2>1. recent' = recent /\ burst' = burst
    BY <1>1 DEF Attempt
  <2>2. ASSUME NEW h \in recent
        PROVE  RepliesIn(h)' \subseteq RepliesIn(h)
    <3>1. CASE UNCHANGED <<coordinatorVars, job>>
      BY <3>1 DEF RepliesIn, InFlight, GroupOf, coordinatorVars
    <3>2. CASE C!EnterRefused(p, g) /\ UNCHANGED job
      BY <3>2 DEF RepliesIn, InFlight, GroupOf, C!EnterRefused
    <3>3. CASE /\ WithinQuota(g, u) /\ Begins(p, kind, g, u)
               /\ C!EnterFree(p, g) \/ C!EnterWait(p, g)
      <4>1. /\ lock' = [lock EXCEPT ![p] = C!LockOf(g)] /\ g \notin recent
            /\ \A q \in Reply \ {p} : job'[q] = job[q]
        BY <3>3 DEF C!EnterFree, C!EnterWait, WithinQuota, Begins, JobOK
      <4>2. GroupOf(p)' = g
        BY <4>1 DEF GroupOf, C!LockOf, P!TypeOK
      <4>3. \A q \in Reply \ {p} : GroupOf(q)' = GroupOf(q)
        BY <4>1 DEF GroupOf, P!TypeOK
      <4>4. QED
        BY <4>1, <4>2, <4>3 DEF RepliesIn, InFlight
    <3>4. QED
      BY <1>1, <3>1, <3>2, <3>3 DEF Attempt
  <2>3. QED
    BY <2>1, <2>2, BurstFrame DEF BurstInv
<1>2. ASSUME NEW p \in Reply, Sent(p)
      PROVE  BurstInv'
  <2>1. CooldownEndsBurst'
    BY <1>2, BurstSent DEF BurstInv
  <2>2. \A g \in Group \ recent' : burst'[g] = 0
    BY <1>2 DEF Sent, Counted, BurstInv, QuotaOK
  <2>3. QED  BY <2>1, <2>2 DEF BurstInv
<1>3. ASSUME NEW p \in Reply, Resume(p) \/ ResumeDeferred(p) \/ SendFails(p)
                                \/ SendCancelled(p) \/ WaitCancelled(p)
      PROVE  BurstInv'
  <2>1. recent' = recent /\ burst' = burst
    BY <1>3 DEF Resume, ResumeDeferred, SendFails, SendCancelled, WaitCancelled
  <2>2. \/ job' = job /\ lock' = lock
        \/ job' = [job EXCEPT ![p] = NoJob] /\ lock' = [lock EXCEPT ![p] = NoLock]
    BY <1>3 DEF Resume, ResumeDeferred, SendFails, SendCancelled, WaitCancelled, Ends,
       C!ResumeAllowed, C!ResumeRefused, C!Exit, C!Cancel, C!CancelDelivered
  <2>3. \A h : RepliesIn(h)' \subseteq RepliesIn(h)
    BY <2>2 DEF RepliesIn, InFlight, GroupOf, JobOK, P!TypeOK
  <2>4. QED
    BY <2>1, <2>3, BurstFrame DEF BurstInv
<1>4. ASSUME NEW g \in Group, ReplyCooldownElapses(g)
      PROVE  BurstInv'
  <2>1. /\ recent' = recent \ {g} /\ burst' = [burst EXCEPT ![g] = 0]
        /\ UNCHANGED <<job, lock>>
    BY <1>4 DEF ReplyCooldownElapses, coordinatorVars
  <2>2. \A h : RepliesIn(h)' = RepliesIn(h)
    BY <2>1 DEF RepliesIn, InFlight, GroupOf
  <2>3. \A h \in recent' : h \in recent /\ burst'[h] = burst[h]
    BY <2>1 DEF QuotaOK
  <2>4. CooldownEndsBurst'
    BY <2>2, <2>3 DEF CooldownEndsBurst, BurstInv
  <2>5. \A h \in Group \ recent' : burst'[h] = 0
    BY <2>1 DEF BurstInv, QuotaOK
  <2>6. QED  BY <2>4, <2>5 DEF BurstInv
<1>5. CASE Normal \/ NewDay \/ UNCHANGED vars
           \/ \E g \in Group : FollowUpDecided(g) \/ ExpectationEnds(g)
  <2>1. UNCHANGED <<recent, burst>>
    BY <1>5 DEF Normal, NewDay, vars, FollowUpDecided, ExpectationEnds
  <2>2. UNCHANGED <<job, lock>>
    BY <1>5, OthersJob
  <2>3. \A h : RepliesIn(h)' = RepliesIn(h)
    BY <2>2 DEF RepliesIn, InFlight, GroupOf
  <2>4. QED
    BY <2>1, <2>3 DEF CooldownEndsBurst, BurstInv
<1>6. QED
  BY <1>1, <1>2, <1>3, <1>4, <1>5 DEF Next

\* A reply that waited for the guard is sent in the cooldown of another, and
\* begins it anew: those sent in one cooldown of a group, with those under way
\* there, are at most the tasks there are.
THEOREM Bursts == Spec => []CooldownEndsBurst
<1>1. Init => JobOK /\ QuotaOK /\ BurstInv
  BY QuotaAssumption DEF Init, C!Init, JobOK, QuotaOK, NoJob, BurstInv, CooldownEndsBurst
<1>2. P!IInv /\ JobOK /\ QuotaOK /\ BurstInv /\ [Next]_vars
        => JobOK' /\ QuotaOK' /\ BurstInv'
  BY JobStep, QuotaStep, BurstStep DEF P!IInv
<1>3. BurstInv => CooldownEndsBurst
  BY DEF BurstInv
<1>4. QED
  BY <1>1, <1>2, <1>3, GuardInv, PTL DEF Spec

-----------------------------------------------------------------------------
(* The refinement of the abstract permit *)

\* The manager's replies together are still a permit per lock: a deferred
\* signal takes no permit and gives none back.
THEOREM ManagerImplements == Spec => ImplementsGate
<1>1. Init => P!Gate!GateInit
  BY DEF Init, C!Init, P!Gate!GateInit
<1>2. P!IInv /\ [Next]_vars => [P!Gate!GateNext]_(P!Gate!gateVars)
  <2> SUFFICES ASSUME P!IInv, [Next]_vars
               PROVE  [P!Gate!GateNext]_(P!Gate!gateVars)
    OBVIOUS
  <2>1. CASE [P!Next]_(P!vars)
    BY <2>1, GuardConstants, P!GateStep
  <2>2. ASSUME NEW p \in Reply, ResumeDeferred(p)
        PROVE  UNCHANGED P!Gate!gateVars
    <3>1. locked' = locked /\ UNCHANGED <<pending, cooling>>
      BY <2>2 DEF ResumeDeferred, P!IInv, P!WokenInv
    <3>2. UNCHANGED {<<q, lock[q]>> : q \in {r \in Reply : pc[r] = "sending"}}
      BY <2>2 DEF ResumeDeferred, P!IInv, P!TypeOK
    <3>3. QED
      BY <3>1, <3>2 DEF P!Gate!gateVars, P!Lock
  <2>3. QED
    BY <2>1, <2>2, CoordinatorStep
<1>3. /\ P!Gate!GateInit => C!Gate!GateInit
      /\ [P!Gate!GateNext]_(P!Gate!gateVars) => [C!Gate!GateNext]_(C!Gate!gateVars)
  BY DEF P!Gate!GateInit, C!Gate!GateInit, P!Gate!GateNext, C!Gate!GateNext,
     P!Gate!gateVars, C!Gate!gateVars, P!Gate!ShutOrOpen, C!Gate!ShutOrOpen,
     P!Gate!StrayRelease, C!Gate!StrayRelease, P!Gate!Begin, C!Gate!Begin,
     P!Gate!End, C!Gate!End, P!Lock, C!Lock
<1>4. QED
  BY <1>1, <1>2, <1>3, GuardInv, PTL
     DEF Spec, ImplementsGate, C!ImplementsGate, C!Gate!GateSpec
=============================================================================

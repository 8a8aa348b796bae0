----------------------- MODULE ReplyCoordinatorProofs -----------------------
(***************************************************************************)
(* Proofs about ReplyCoordinator, for any groups, tasks and requests.      *)
(***************************************************************************)
EXTENDS ReplyCoordinator, TLAPS

\* The waiters of a deque, as their program counters and futures show them.
Waiting(p) == pc[p] \in {"waiting", "cancelling"}

QueueInv ==
  /\ \A p \in Reply : pc[p] \in {"idle", "sending"} => ahead[p] = {} /\ fut[p] = "none"
  /\ \A p \in Reply : pc[p] = "waiting" => fut[p] \in {"pending", "woken"}
  /\ \A p \in Reply : pc[p] = "cancelling" => fut[p] \in {"cancelled", "woken"}

\* ahead is a strict order on the waiters of one lock, and total on them.
OrderInv ==
  /\ \A p \in Reply : \A q \in ahead[p] :
       q # p /\ Waiting(q) /\ Waiting(p) /\ lock[q] = lock[p]
  /\ \A p, q \in Reply :
       p # q /\ Waiting(p) /\ Waiting(q) /\ lock[p] = lock[q]
         => p \in ahead[q] \/ q \in ahead[p]

\* Only the head of a deque is woken, and only while its lock is free.
WokenInv ==
  \A p \in Reply : fut[p] = "woken" => ahead[p] = {} /\ lock[p] \notin locked

\* The permit: a send holds its lock unless a refused guard took it away.
PermitInv ==
  \A p \in Reply : pc[p] = "sending" /\ lock[p] \notin strayed => lock[p] \in locked

IInv ==
  /\ TypeOK
  /\ QueueInv
  /\ OrderInv
  /\ WokenInv
  /\ PermitInv
  /\ MutexUnlessStrayed
  /\ LockedHasSender
  /\ NoLostWakeup

-----------------------------------------------------------------------------

\* A lock identifier has a group and a generation.
LEMMA LockOfType ==
  ASSUME TypeOK, NEW g \in Group
  PROVE  LockOf(g) \in Lock
BY DEF TypeOK, LockOf, Lock

\* The type invariant holds before the first step.
LEMMA InitType == Init => TypeOK
BY ConstantsAssumption DEF Init, TypeOK, Lock

\* Every action keeps every variable in its type.
LEMMA StepType == TypeOK /\ [Next]_vars => TypeOK'
<1> SUFFICES ASSUME TypeOK, [Next]_vars
             PROVE  TypeOK'
  OBVIOUS
<1> USE ConstantsAssumption
<1>1. ASSUME NEW r \in Request, NEW g \in Group, NormalReplyStart(r, g)
      PROVE  TypeOK'
  BY <1>1 DEF NormalReplyStart, TypeOK, guardVars, Lock
<1>2. ASSUME NEW r \in Request, NormalReplyEnd(r) \/ NormalReplyLost(r)
      PROVE  TypeOK'
  BY <1>2 DEF NormalReplyEnd, NormalReplyLost, TypeOK, guardVars, Lock
<1>3. ASSUME NEW g \in Group, CooldownElapses(g)
      PROVE  TypeOK'
  BY <1>3 DEF CooldownElapses, TypeOK, guardVars, Lock
<1>4. ASSUME NEW g \in Group, ClearGroup(g)
      PROVE  TypeOK'
  BY <1>4 DEF ClearGroup, TypeOK, guardVars, Lock
<1>5. ASSUME NEW p \in Reply, NEW g \in Group, EnterRefused(p, g)
      PROVE  TypeOK'
  BY <1>5, LockOfType DEF EnterRefused, TypeOK, normalVars, WakeFirst
<1>6. ASSUME NEW p \in Reply, NEW g \in Group, EnterFree(p, g) \/ EnterWait(p, g)
      PROVE  TypeOK'
  BY <1>6, LockOfType DEF EnterFree, EnterWait, TypeOK, normalVars, Waiters
<1>7. ASSUME NEW p \in Reply, ResumeAllowed(p) \/ ResumeRefused(p)
      PROVE  TypeOK'
  BY <1>7 DEF ResumeAllowed, ResumeRefused, TypeOK, normalVars, Dequeue,
              Settle, WakeFirst
<1>8. ASSUME NEW p \in Reply, Cancel(p) \/ CancelDelivered(p) \/ Exit(p)
      PROVE  TypeOK'
  BY <1>8 DEF Cancel, CancelDelivered, Exit, TypeOK, normalVars, Dequeue,
              Settle, WakeFirst
<1>9. CASE ClearAll
  BY <1>9 DEF ClearAll, TypeOK, guardVars, Lock
<1>10. CASE UNCHANGED vars
  BY <1>10 DEF vars, TypeOK
<1>11. QED
  BY <1>1, <1>2, <1>3, <1>4, <1>5, <1>6, <1>7, <1>8, <1>9, <1>10 DEF Next

\* Every variable stays in its type.
THEOREM TypeCorrect == Spec => []TypeOK
BY InitType, StepType, PTL DEF Spec

-----------------------------------------------------------------------------
(* The inductive invariant, one lemma per step of a guard *)

\* The inductive invariant holds before the first step.
LEMMA InitInv == Init => IInv
<1> SUFFICES ASSUME Init PROVE IInv
  OBVIOUS
<1>1. QueueInv /\ OrderInv /\ WokenInv /\ PermitInv
  BY DEF Init, QueueInv, OrderInv, WokenInv, PermitInv, Waiting
<1>2. MutexUnlessStrayed /\ LockedHasSender /\ NoLostWakeup
  BY DEF Init, MutexUnlessStrayed, LockedHasSender, NoLostWakeup, Sending, Waiters
<1>3. QED
  BY <1>1, <1>2, InitType DEF IInv

\* Steps that leave the guards alone.
LEMMA FrameStep ==
  ASSUME IInv, UNCHANGED guardVars
  PROVE  /\ QueueInv' /\ OrderInv' /\ WokenInv' /\ PermitInv'
         /\ MutexUnlessStrayed' /\ LockedHasSender' /\ NoLostWakeup'
<1>1. QueueInv' /\ OrderInv' /\ WokenInv' /\ PermitInv'
  BY DEF IInv, guardVars, QueueInv, OrderInv, WokenInv, PermitInv, Waiting
<1>2. MutexUnlessStrayed' /\ LockedHasSender' /\ NoLostWakeup'
  BY DEF IInv, guardVars, MutexUnlessStrayed, LockedHasSender, NoLostWakeup,
         Sending, Waiters
<1>3. QED
  BY <1>1, <1>2

\* A guard its first check refuses: __aenter__ returns and __aexit__ releases
\* whatever holds the lock.
LEMMA EnterRefusedStep ==
  ASSUME IInv, NEW p \in Reply, NEW g \in Group, EnterRefused(p, g)
  PROVE  /\ QueueInv' /\ OrderInv' /\ WokenInv' /\ PermitInv'
         /\ MutexUnlessStrayed' /\ LockedHasSender' /\ NoLostWakeup'
<1> USE DEF IInv
<1>1. LockOf(g) \in Lock
  BY LockOfType
<1>2. CASE LockOf(g) \notin locked
  <2>1. UNCHANGED guardVars
    BY <1>2 DEF EnterRefused, guardVars
  <2>2. QED
    BY <2>1, FrameStep
<1>3. CASE LockOf(g) \in locked
  <2> DEFINE l == LockOf(g)
  <2>1. /\ locked' = locked \ {l} /\ strayed' = strayed \cup {l}
        /\ fut' = WakeFirst(l, p) /\ UNCHANGED <<pc, lock, ahead>>
        /\ pc[p] = "idle"
    BY <1>3 DEF EnterRefused
  <2> HIDE DEF l
  <2>2. QueueInv'
    BY <2>1 DEF QueueInv, WakeFirst, IsFirst, Waiters, TypeOK
  <2>3. OrderInv'
    BY <2>1 DEF OrderInv, Waiting
  <2>4. WokenInv'
    BY <2>1 DEF WokenInv, OrderInv, Waiting, WakeFirst, IsFirst, Waiters, TypeOK
  <2>5. PermitInv' /\ MutexUnlessStrayed' /\ LockedHasSender'
    BY <2>1 DEF PermitInv, MutexUnlessStrayed, LockedHasSender, Sending
  <2>6. NoLostWakeup'
    BY <2>1 DEF NoLostWakeup, Waiters, WakeFirst, IsFirst, TypeOK
  <2>7. QED
    BY <2>2, <2>3, <2>4, <2>5, <2>6
<1>4. QED
  BY <1>2, <1>3

\* A guard that finds the lock free takes it without waiting.
LEMMA EnterFreeStep ==
  ASSUME IInv, NEW p \in Reply, NEW g \in Group, EnterFree(p, g)
  PROVE  /\ QueueInv' /\ OrderInv' /\ WokenInv' /\ PermitInv'
         /\ MutexUnlessStrayed' /\ LockedHasSender' /\ NoLostWakeup'
<1> USE DEF IInv
<1> DEFINE l == LockOf(g)
<1>1. l \in Lock
  BY LockOfType
<1>2. /\ pc[p] = "idle" /\ l \notin locked
      /\ \A q \in Waiters(l) : fut[q] = "cancelled"
      /\ locked' = locked \cup {l} /\ pc' = [pc EXCEPT ![p] = "sending"]
      /\ lock' = [lock EXCEPT ![p] = l] /\ UNCHANGED <<ahead, fut, strayed>>
  BY DEF EnterFree
<1> HIDE DEF l
<1>3. QueueInv' /\ OrderInv'
  BY <1>2 DEF QueueInv, OrderInv, Waiting, TypeOK
<1>4. WokenInv'
  BY <1>2 DEF WokenInv, QueueInv, Waiters, TypeOK
<1>5. PermitInv' /\ MutexUnlessStrayed'
  BY <1>2 DEF PermitInv, MutexUnlessStrayed, Sending, TypeOK
<1>6. LockedHasSender'
  BY <1>1, <1>2 DEF LockedHasSender, Sending, TypeOK
<1>7. NoLostWakeup'
  BY <1>2 DEF NoLostWakeup, Waiters, TypeOK
<1>8. QED
  BY <1>3, <1>4, <1>5, <1>6, <1>7

\* A guard that finds the lock taken, or others queueing, joins the lock's queue.
LEMMA EnterWaitStep ==
  ASSUME IInv, NEW p \in Reply, NEW g \in Group, EnterWait(p, g)
  PROVE  /\ QueueInv' /\ OrderInv' /\ WokenInv' /\ PermitInv'
         /\ MutexUnlessStrayed' /\ LockedHasSender' /\ NoLostWakeup'
<1> USE DEF IInv
<1> DEFINE l == LockOf(g)
<1>1. /\ pc[p] = "idle"
      /\ l \in locked \/ Waiters(l) # {}
      /\ pc' = [pc EXCEPT ![p] = "waiting"] /\ lock' = [lock EXCEPT ![p] = l]
      /\ ahead' = [ahead EXCEPT ![p] = Waiters(l)]
      /\ fut' = [fut EXCEPT ![p] = "pending"] /\ UNCHANGED <<locked, strayed>>
  BY DEF EnterWait
<1> HIDE DEF l
<1>2. p \notin Waiters(l)
  BY <1>1 DEF Waiters
<1>3. QueueInv'
  BY <1>1 DEF QueueInv, TypeOK
<1>4. OrderInv'
  <2>1. ASSUME NEW r \in Reply, NEW q \in ahead'[r]
        PROVE  q # r /\ Waiting(q)' /\ Waiting(r)' /\ lock'[q] = lock'[r]
    BY <1>1, <1>2, <2>1 DEF OrderInv, Waiting, Waiters, TypeOK
  <2>2. ASSUME NEW r \in Reply, NEW q \in Reply, r # q, Waiting(r)', Waiting(q)',
               lock'[r] = lock'[q]
        PROVE  r \in ahead'[q] \/ q \in ahead'[r]
    BY <1>1, <1>2, <2>2 DEF OrderInv, Waiting, Waiters, TypeOK
  <2>3. QED
    BY <2>1, <2>2 DEF OrderInv
<1>5. WokenInv'
  BY <1>1 DEF WokenInv, TypeOK
<1>6. PermitInv' /\ MutexUnlessStrayed' /\ LockedHasSender'
  BY <1>1 DEF PermitInv, MutexUnlessStrayed, LockedHasSender, Sending, TypeOK
<1>7. NoLostWakeup'
  BY <1>1, <1>2 DEF NoLostWakeup, Waiters, TypeOK
<1>8. QED
  BY <1>3, <1>4, <1>5, <1>6, <1>7

\* A waiter that takes the lock and passes the second check starts its send.
LEMMA ResumeAllowedStep ==
  ASSUME IInv, NEW p \in Reply, ResumeAllowed(p)
  PROVE  /\ QueueInv' /\ OrderInv' /\ WokenInv' /\ PermitInv'
         /\ MutexUnlessStrayed' /\ LockedHasSender' /\ NoLostWakeup'
<1> USE DEF IInv
<1> DEFINE l == lock[p]
<1>1. /\ pc[p] = "waiting" /\ fut[p] = "woken" /\ locked' = locked \cup {l}
      /\ pc' = [pc EXCEPT ![p] = "sending"] /\ ahead' = Dequeue(p)
      /\ fut' = Settle(p) /\ UNCHANGED <<lock, strayed>>
  BY DEF ResumeAllowed
<1>2. l \in Lock /\ l \notin locked /\ ahead[p] = {}
  BY <1>1 DEF TypeOK, WokenInv
<1>3. QueueInv'
  BY <1>1 DEF QueueInv, Dequeue, Settle, TypeOK
<1>4. OrderInv'
  BY <1>1 DEF OrderInv, Waiting, Dequeue, TypeOK
<1>5. WokenInv'
  <2> SUFFICES ASSUME NEW q \in Reply, fut'[q] = "woken"
               PROVE  ahead'[q] = {} /\ lock'[q] \notin locked'
    BY DEF WokenInv
  <2>1. q # p /\ fut[q] = "woken"
    BY <1>1 DEF Settle
  <2>2. ahead[q] = {} /\ Waiting(q) /\ lock[q] \notin locked
    BY <2>1 DEF WokenInv, QueueInv, Waiting, TypeOK
  <2>3. lock[q] # l
    BY <1>1, <1>2, <2>1, <2>2 DEF OrderInv, Waiting
  <2>4. QED
    BY <1>1, <2>2, <2>3 DEF Dequeue
<1>6. PermitInv' /\ MutexUnlessStrayed'
  BY <1>1, <1>2 DEF PermitInv, MutexUnlessStrayed, Sending, TypeOK
<1>7. LockedHasSender'
  BY <1>1 DEF LockedHasSender, Sending, TypeOK
<1>8. NoLostWakeup'
  <2> SUFFICES ASSUME NEW k \in Lock \ locked', NEW q \in Waiters(k)', ahead'[q] = {}
               PROVE  fut'[q] # "pending"
    BY DEF NoLostWakeup
  <2>1. q # p /\ q \in Waiters(k) /\ k # l
    BY <1>1 DEF Waiters, TypeOK
  <2>2. ahead[q] = {}
    BY <1>1, <2>1 DEF Dequeue, OrderInv, Waiters, TypeOK
  <2>3. QED
    BY <1>1, <2>1, <2>2 DEF NoLostWakeup, Settle, Waiters
<1>9. QED
  BY <1>3, <1>4, <1>5, <1>6, <1>7, <1>8

\* Cancelling a waiting task marks it; it leaves the queue with CancelDelivered.
LEMMA CancelStep ==
  ASSUME IInv, NEW p \in Reply, Cancel(p)
  PROVE  /\ QueueInv' /\ OrderInv' /\ WokenInv' /\ PermitInv'
         /\ MutexUnlessStrayed' /\ LockedHasSender' /\ NoLostWakeup'
<1> USE DEF IInv
<1>1. QueueInv' /\ OrderInv' /\ WokenInv'
  BY DEF Cancel, QueueInv, OrderInv, WokenInv, Waiting, TypeOK
<1>2. PermitInv' /\ MutexUnlessStrayed' /\ LockedHasSender'
  BY DEF Cancel, PermitInv, MutexUnlessStrayed, LockedHasSender, Sending, TypeOK
<1>3. NoLostWakeup'
  BY DEF Cancel, NoLostWakeup, Waiters, TypeOK
<1>4. QED
  BY <1>1, <1>2, <1>3

\* A task leaves its deque or its send, and its lock is free afterwards: the
\* common part of ResumeRefused, CancelDelivered on a free lock, and Exit.
LEMMA LeaveAndWake ==
  ASSUME IInv, NEW p \in Reply, NEW l \in Lock,
         l = lock[p], pc[p] # "idle",
         locked' = locked \ {l},
         pc' = [pc EXCEPT ![p] = "idle"],
         lock' = [lock EXCEPT ![p] = NoLock],
         ahead' = Dequeue(p),
         fut' = WakeFirst(l, p),
         UNCHANGED strayed,
         \A q \in Sending(l) : l \notin strayed => q = p
  PROVE  /\ QueueInv' /\ OrderInv' /\ WokenInv' /\ PermitInv'
         /\ MutexUnlessStrayed' /\ LockedHasSender' /\ NoLostWakeup'
<1> USE DEF IInv
<1>1. QueueInv' /\ OrderInv'
  BY DEF QueueInv, OrderInv, Waiting, Dequeue, WakeFirst, IsFirst, Waiters, TypeOK
<1>2. WokenInv'
  <2> SUFFICES ASSUME NEW q \in Reply, fut'[q] = "woken"
               PROVE  ahead'[q] = {} /\ lock'[q] \notin locked'
    BY DEF WokenInv
  <2>1. q # p /\ lock'[q] = lock[q]
    BY DEF WakeFirst, TypeOK
  <2>2. CASE fut[q] = "woken"
    BY <2>1, <2>2 DEF WokenInv, Dequeue
  <2>3. CASE IsFirst(q, l, p) /\ fut[q] = "pending"
    BY <2>1, <2>3 DEF IsFirst, Waiters, Dequeue
  <2>4. QED
    BY <2>1, <2>2, <2>3 DEF WakeFirst
<1>3. PermitInv' /\ MutexUnlessStrayed'
  BY DEF PermitInv, MutexUnlessStrayed, Sending, TypeOK
<1>4. LockedHasSender'
  BY DEF LockedHasSender, Sending, TypeOK
<1>5. NoLostWakeup'
  <2> SUFFICES ASSUME NEW k \in Lock \ locked', NEW q \in Waiters(k)', ahead'[q] = {}
               PROVE  fut'[q] # "pending"
    BY DEF NoLostWakeup
  <2>1. q \in Reply /\ q # p /\ q \in Waiters(k) /\ ahead[q] \subseteq {p}
    BY DEF Waiters, Dequeue, TypeOK
  <2>2. CASE k = l
    <3>1. IsFirst(q, l, p)
      BY <2>1, <2>2 DEF IsFirst
    <3>2. QED
      BY <2>1, <3>1 DEF WakeFirst
  <2>3. CASE k # l
    <3>1. ahead[q] = {} /\ k \notin locked
      BY <2>1, <2>3 DEF OrderInv, Waiters
    <3>2. QED
      BY <2>1, <2>3, <3>1 DEF NoLostWakeup, WakeFirst, IsFirst, Waiters
  <2>4. QED
    BY <2>2, <2>3
<1>6. QED
  BY <1>1, <1>2, <1>3, <1>4, <1>5

\* A waiter the second check refuses releases the lock and wakes the next.
LEMMA ResumeRefusedStep ==
  ASSUME IInv, NEW p \in Reply, ResumeRefused(p)
  PROVE  /\ QueueInv' /\ OrderInv' /\ WokenInv' /\ PermitInv'
         /\ MutexUnlessStrayed' /\ LockedHasSender' /\ NoLostWakeup'
<1> USE DEF IInv
<1>1. lock[p] \in Lock /\ lock[p] \notin locked
  BY DEF ResumeRefused, TypeOK, WokenInv
<1>2. \A q \in Sending(lock[p]) : lock[p] \notin strayed => q = p
  BY <1>1 DEF PermitInv, Sending
<1>3. QED
  BY <1>1, <1>2, LeaveAndWake DEF ResumeRefused

\* A send that ends, well or not, releases the lock and wakes the next.
LEMMA ExitStep ==
  ASSUME IInv, NEW p \in Reply, Exit(p)
  PROVE  /\ QueueInv' /\ OrderInv' /\ WokenInv' /\ PermitInv'
         /\ MutexUnlessStrayed' /\ LockedHasSender' /\ NoLostWakeup'
<1> USE DEF IInv
<1>1. lock[p] \in Lock /\ pc[p] = "sending" /\ p \in Sending(lock[p])
  BY DEF Exit, TypeOK, Sending
<1>2. /\ pc' = [pc EXCEPT ![p] = "idle"] /\ lock' = [lock EXCEPT ![p] = NoLock]
      /\ UNCHANGED <<ahead, strayed>>
  BY DEF Exit
<1>3. ahead' = Dequeue(p)
  <2>1. \A q \in Reply : p \notin ahead[q]
    BY <1>1 DEF OrderInv, Waiting
  <2>2. ahead[p] = {}
    BY <1>1 DEF QueueInv
  <2>3. QED
    BY <1>2, <2>1, <2>2 DEF Dequeue, TypeOK
<1>4. \A q \in Sending(lock[p]) : lock[p] \notin strayed => q = p
  BY <1>1 DEF MutexUnlessStrayed
<1>5. locked' = locked \ {lock[p]} /\ fut' = WakeFirst(lock[p], p)
  <2>1. CASE lock[p] \in locked
    BY <2>1 DEF Exit
  <2>2. CASE lock[p] \notin locked
    <3>1. UNCHANGED <<locked, fut>>
      BY <2>2 DEF Exit
    <3>2. fut[p] = "none"
      BY <1>1 DEF QueueInv
    <3>3. \A q \in Reply : IsFirst(q, lock[p], p) => fut[q] # "pending"
      BY <1>1, <2>2 DEF IsFirst, NoLostWakeup, OrderInv, Waiting, Waiters
    <3>4. QED
      BY <2>2, <3>1, <3>2, <3>3 DEF WakeFirst, TypeOK
  <2>3. QED
    BY <2>1, <2>2
<1>6. QED
  BY <1>1, <1>2, <1>3, <1>4, <1>5, LeaveAndWake

\* A cancelled waiter leaves the queue and, if it was the one woken, passes the
\* wake-up on.
LEMMA CancelDeliveredStep ==
  ASSUME IInv, NEW p \in Reply, CancelDelivered(p)
  PROVE  /\ QueueInv' /\ OrderInv' /\ WokenInv' /\ PermitInv'
         /\ MutexUnlessStrayed' /\ LockedHasSender' /\ NoLostWakeup'
<1> USE DEF IInv
<1>1. lock[p] \in Lock /\ pc[p] = "cancelling"
  BY DEF CancelDelivered, TypeOK
<1>2. CASE lock[p] \notin locked
  <2>1. \A q \in Sending(lock[p]) : lock[p] \notin strayed => q = p
    BY <1>2 DEF PermitInv, Sending
  <2>2. locked' = locked \ {lock[p]} /\ fut' = WakeFirst(lock[p], p)
    BY <1>2 DEF CancelDelivered
  <2>3. QED
    BY <1>1, <2>1, <2>2, LeaveAndWake DEF CancelDelivered
<1>3. CASE lock[p] \in locked
  <2>1. /\ pc' = [pc EXCEPT ![p] = "idle"] /\ lock' = [lock EXCEPT ![p] = NoLock]
        /\ ahead' = Dequeue(p) /\ fut' = Settle(p) /\ UNCHANGED <<locked, strayed>>
    BY <1>3 DEF CancelDelivered
  <2>2. QueueInv' /\ OrderInv' /\ WokenInv'
    BY <1>1, <2>1 DEF QueueInv, OrderInv, WokenInv, Waiting, Dequeue, Settle, TypeOK
  <2>3. PermitInv' /\ MutexUnlessStrayed' /\ LockedHasSender'
    BY <1>1, <2>1 DEF PermitInv, MutexUnlessStrayed, LockedHasSender, Sending, TypeOK
  <2>4. NoLostWakeup'
    <3> SUFFICES ASSUME NEW k \in Lock \ locked', NEW q \in Waiters(k)', ahead'[q] = {}
                 PROVE  fut'[q] # "pending"
      BY DEF NoLostWakeup
    <3>1. q \in Reply /\ q # p /\ q \in Waiters(k) /\ k # lock[p]
      BY <1>3, <2>1 DEF Waiters, TypeOK
    <3>2. ahead[q] = {}
      BY <2>1, <3>1 DEF Dequeue, OrderInv, Waiters, TypeOK
    <3>3. QED
      BY <2>1, <3>1, <3>2 DEF NoLostWakeup, Settle
  <2>5. QED
    BY <2>2, <2>3, <2>4
<1>4. QED
  BY <1>2, <1>3

-----------------------------------------------------------------------------
(* The theorems *)

\* The inductive invariant is kept by every step.
LEMMA StepInv == IInv /\ [Next]_vars => IInv'
<1> SUFFICES ASSUME IInv, [Next]_vars
             PROVE  IInv'
  OBVIOUS
<1>1. TypeOK'
  BY StepType DEF IInv
<1>2. ASSUME UNCHANGED guardVars
      PROVE  IInv'
  BY <1>1, <1>2, FrameStep DEF IInv
<1>3. ASSUME NEW r \in Request, NEW g \in Group, NormalReplyStart(r, g)
      PROVE  IInv'
  BY <1>2, <1>3 DEF NormalReplyStart
<1>4. ASSUME NEW r \in Request, NormalReplyEnd(r) \/ NormalReplyLost(r)
      PROVE  IInv'
  BY <1>2, <1>4 DEF NormalReplyEnd, NormalReplyLost
<1>5. ASSUME NEW g \in Group, CooldownElapses(g) \/ ClearGroup(g)
      PROVE  IInv'
  BY <1>2, <1>5 DEF CooldownElapses, ClearGroup
<1>6. ASSUME NEW p \in Reply, NEW g \in Group,
             EnterRefused(p, g) \/ EnterFree(p, g) \/ EnterWait(p, g)
      PROVE  IInv'
  BY <1>1, <1>6, EnterRefusedStep, EnterFreeStep, EnterWaitStep DEF IInv
<1>7. ASSUME NEW p \in Reply,
             \/ ResumeAllowed(p) \/ ResumeRefused(p) \/ Cancel(p)
             \/ CancelDelivered(p) \/ Exit(p)
      PROVE  IInv'
  BY <1>1, <1>7, ResumeAllowedStep, ResumeRefusedStep, CancelStep,
     CancelDeliveredStep, ExitStep DEF IInv
<1>8. CASE ClearAll
  BY <1>2, <1>8 DEF ClearAll
<1>9. CASE UNCHANGED vars
  BY <1>2, <1>9 DEF vars, guardVars
<1>10. QED
  BY <1>3, <1>4, <1>5, <1>6, <1>7, <1>8, <1>9 DEF Next

\* The inductive invariant holds in every reachable state.
LEMMA Inductive == Spec => []IInv
BY InitInv, StepInv, PTL DEF Spec

\* Two proactive replies are under way under one lock only if a refused
\* guard has released it.
THEOREM Mutex == Spec => []MutexUnlessStrayed
<1>1. IInv => MutexUnlessStrayed
  BY DEF IInv
<1>2. QED
  BY <1>1, Inductive, PTL

\* No guard leaves its lock locked behind it.
THEOREM NoLeak == Spec => []LockedHasSender
<1>1. IInv => LockedHasSender
  BY DEF IInv
<1>2. QED
  BY <1>1, Inductive, PTL

\* No waiter sleeps on a lock that nobody will release.
THEOREM NoWaiterForgotten == Spec => []NoLostWakeup
<1>1. IInv => NoLostWakeup
  BY DEF IInv
<1>2. QED
  BY <1>1, Inductive, PTL

\* A send starts only in a group that is open to proactive replies at the
\* moment it starts, whatever happened while its guard queued.
THEOREM StartsClear == Spec => SendsStartClear
<1>1. TypeOK /\ [Next]_vars =>
        [\A p \in Reply : pc[p] # "sending" /\ pc'[p] = "sending"
                             => CanSend(lock'[p][1])]_vars
  <2> SUFFICES ASSUME TypeOK, Next, NEW p \in Reply,
                      pc[p] # "sending", pc'[p] = "sending"
               PROVE  CanSend(lock'[p][1])
    BY DEF vars
  <2>1. ASSUME NEW q \in Reply, NEW g \in Group, EnterFree(q, g)
        PROVE  CanSend(lock'[p][1])
    BY <2>1 DEF EnterFree, LockOf, TypeOK
  <2>2. ASSUME NEW q \in Reply, ResumeAllowed(q)
        PROVE  CanSend(lock'[p][1])
    BY <2>2 DEF ResumeAllowed, TypeOK
  <2>3. CASE \/ \E r \in Request, g \in Group : NormalReplyStart(r, g)
             \/ \E r \in Request : NormalReplyEnd(r) \/ NormalReplyLost(r)
             \/ \E g \in Group : CooldownElapses(g) \/ ClearGroup(g)
             \/ ClearAll
    BY <2>3 DEF NormalReplyStart, NormalReplyEnd, NormalReplyLost,
                CooldownElapses, ClearGroup, ClearAll, guardVars
  <2>4. ASSUME NEW q \in Reply, NEW g \in Group, EnterRefused(q, g) \/ EnterWait(q, g)
        PROVE  FALSE
    BY <2>4 DEF EnterRefused, EnterWait, TypeOK
  <2>5. ASSUME NEW q \in Reply,
               ResumeRefused(q) \/ Cancel(q) \/ CancelDelivered(q) \/ Exit(q)
        PROVE  FALSE
    BY <2>5 DEF ResumeRefused, Cancel, CancelDelivered, Exit, TypeOK
  <2>6. QED
    BY <2>1, <2>2, <2>3, <2>4, <2>5 DEF Next
<1>2. QED
  BY <1>1, TypeCorrect, PTL DEF Spec, SendsStartClear

-----------------------------------------------------------------------------
(* The refinement of the abstract permit *)

\* The sends of the abstract permit, and its locked locks.
Sends == {<<p, lock[p]>> : p \in {q \in Reply : pc[q] = "sending"}}

\* Every step is a step of ProactiveGate or a stutter.
LEMMA GateStep ==
  ASSUME IInv, [Next]_vars
  PROVE  [Gate!GateNext]_(Gate!gateVars)
<1> DEFINE shut == pending \cup cooling
           free == Lock \ locked
<1>1. TypeOK /\ TypeOK'
  BY StepType DEF IInv
<1>2. ASSUME UNCHANGED guardVars
      PROVE  Gate!ShutOrOpen
  BY <1>1, <1>2 DEF Gate!ShutOrOpen, guardVars, TypeOK, Lock
<1>3. CASE \/ \E r \in Request, g \in Group : NormalReplyStart(r, g)
           \/ \E r \in Request : NormalReplyEnd(r) \/ NormalReplyLost(r)
           \/ \E g \in Group : CooldownElapses(g) \/ ClearGroup(g)
           \/ ClearAll \/ UNCHANGED vars
  BY <1>2, <1>3 DEF NormalReplyStart, NormalReplyEnd, NormalReplyLost,
     CooldownElapses, ClearGroup, ClearAll, vars, guardVars, Gate!GateNext
<1>4. ASSUME NEW p \in Reply, NEW g \in Group, EnterRefused(p, g)
      PROVE  \E l \in Lock : Gate!StrayRelease(l)
  <2>1. PICK l \in Lock : l = LockOf(g) /\ l[1] = g
    BY <1>1, LockOfType DEF LockOf
  <2>2. UNCHANGED <<shut, Sends>>
    BY <1>4 DEF EnterRefused, normalVars, Sends
  <2>3. free' = free \cup {l}
    BY <1>4, <2>1 DEF EnterRefused
  <2>4. g \in shut
    BY <1>4 DEF EnterRefused, CanSend
  <2>5. QED
    BY <2>1, <2>2, <2>3, <2>4 DEF Gate!StrayRelease, Sends
<1>5. ASSUME NEW p \in Reply, NEW l \in Lock, l \notin locked, CanSend(l[1]),
             pc[p] # "sending", locked' = locked \cup {l},
             pc' = [pc EXCEPT ![p] = "sending"], lock' = [lock EXCEPT ![p] = l],
             UNCHANGED normalVars
      PROVE  Gate!Begin(p, l)
  <2>1. UNCHANGED shut /\ l[1] \notin shut
    BY <1>5 DEF normalVars, CanSend
  <2>2. free' = free \ {l} /\ l \in free
    BY <1>5
  <2>3. Sends' = Sends \cup {<<p, l>>}
    BY <1>1, <1>5 DEF Sends, TypeOK
  <2>4. \A k \in Lock : <<p, k>> \notin Sends
    BY <1>5 DEF Sends
  <2>5. QED
    BY <2>1, <2>2, <2>3, <2>4 DEF Gate!Begin, Sends
<1>6. ASSUME NEW p \in Reply, NEW g \in Group, EnterFree(p, g)
      PROVE  \E l \in Lock : Gate!Begin(p, l)
  <2>1. PICK l \in Lock : l = LockOf(g) /\ l[1] = g
    BY <1>1, LockOfType DEF LockOf
  <2>2. Gate!Begin(p, l)
    BY <1>5, <1>6, <2>1 DEF EnterFree
  <2>3. QED
    BY <2>2
<1>7. ASSUME NEW p \in Reply, ResumeAllowed(p)
      PROVE  \E l \in Lock : Gate!Begin(p, l)
  <2>1. PICK l \in Lock : l = lock[p]
    BY <1>1, <1>7 DEF ResumeAllowed, TypeOK
  <2>2. l \notin locked /\ lock' = [lock EXCEPT ![p] = l]
    BY <1>1, <1>7, <2>1 DEF ResumeAllowed, IInv, WokenInv, TypeOK
  <2>3. Gate!Begin(p, l)
    BY <1>5, <1>7, <2>1, <2>2 DEF ResumeAllowed
  <2>4. QED
    BY <2>3
<1>8. ASSUME NEW p \in Reply, Exit(p)
      PROVE  \E l \in Lock : Gate!End(p, l)
  <2>1. PICK l \in Lock : l = lock[p] /\ <<p, l>> \in Sends
    BY <1>1, <1>8 DEF Exit, TypeOK, Sends
  <2>2. UNCHANGED shut
    BY <1>8 DEF Exit, normalVars
  <2>3. free' = free \cup {l}
    BY <1>8, <2>1 DEF Exit
  <2>4. Sends' = Sends \ {<<p, l>>}
    BY <1>1, <1>8, <2>1 DEF Exit, Sends, TypeOK
  <2>5. QED
    BY <2>1, <2>2, <2>3, <2>4 DEF Gate!End, Sends
<1>9. ASSUME NEW p \in Reply,
             \/ \E g \in Group : EnterWait(p, g)
             \/ ResumeRefused(p) \/ Cancel(p) \/ CancelDelivered(p)
      PROVE  UNCHANGED Gate!gateVars
  <2>1. UNCHANGED shut
    BY <1>9 DEF EnterWait, ResumeRefused, Cancel, CancelDelivered, normalVars
  <2>2. UNCHANGED free
    BY <1>9 DEF EnterWait, ResumeRefused, Cancel, CancelDelivered, IInv, WokenInv
  <2>3. UNCHANGED Sends
    BY <1>1, <1>9 DEF EnterWait, ResumeRefused, Cancel, CancelDelivered, Sends, TypeOK
  <2>4. QED
    BY <2>1, <2>2, <2>3 DEF Sends, Gate!gateVars
<1>10. QED
  BY <1>3, <1>4, <1>6, <1>7, <1>8, <1>9 DEF Next, Gate!GateNext

\* The coordinator implements the permit it amounts to for its callers.
THEOREM Implements == Spec => ImplementsGate
<1>1. Init => Gate!GateInit
  BY DEF Init, Gate!GateInit
<1>2. QED
  BY <1>1, GateStep, Inductive, PTL DEF Spec, ImplementsGate, Gate!GateSpec
=============================================================================

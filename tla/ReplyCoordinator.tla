-------------------------- MODULE ReplyCoordinator --------------------------
(***************************************************************************)
(* ReplyCoordinator (proactive/reply_coordinator.py): the flags and the    *)
(* per-group asyncio.Lock that keep the bot's proactive replies apart from *)
(* its normal replies and from one another.                                *)
(*                                                                         *)
(* A step is one run of a coroutine between two awaits.  The deque of      *)
(* waiting futures of a lock is kept as a relation: ahead[p] is the set of *)
(* tasks queued before p, so the head of the deque is the waiter with      *)
(* nobody ahead of it.                                                     *)
(***************************************************************************)
EXTENDS Naturals

CONSTANTS
  Group,        \* group chats
  Reply,        \* tasks that may attempt a proactive reply
  Request,      \* messages whose normal reply is being generated
  HasCooldown,  \* cooldown_seconds > 0
  MaxClears,    \* bound: how often a group's state is cleared
  NoGroup,
  NoLock

ASSUME ConstantsAssumption ==
  /\ HasCooldown \in BOOLEAN
  /\ MaxClears \in Nat
  /\ NoGroup \notin Group
  /\ NoLock \notin Group \X (0..MaxClears)

VARIABLES
  pending,   \* _normal_reply_pending
  cooling,   \* groups whose last normal reply is younger than the cooldown
  request,   \* the group each normal request is being answered in
  gen,       \* which lock object _proactive_locks holds for the group
  locked,    \* the asyncio locks that are locked
  pc,        \* where each proactive task stands
  lock,      \* the guard's _lock
  ahead,     \* the deque of each lock's waiters
  fut,       \* the future each waiter awaits
  strayed    \* history: locks a guard released without having acquired them

vars == <<pending, cooling, request, gen, locked, pc, lock, ahead, fut, strayed>>
guardVars == <<locked, pc, lock, ahead, fut, strayed>>
normalVars == <<pending, cooling, request, gen>>

-----------------------------------------------------------------------------

Lock == Group \X (0..MaxClears)

LockOf(g) == <<g, gen[g]>>                     \* _get_proactive_lock

CanSend(g) == g \notin pending /\ g \notin cooling   \* can_send_proactive

Waiters(l) == {p \in Reply : pc[p] \in {"waiting", "cancelling"} /\ lock[p] = l}

Sending(l) == {p \in Reply : pc[p] = "sending" /\ lock[p] = l}

\* The deques after p has left, and the futures after the lock then wakes
\* the first waiter, if its future is still pending.
Dequeue(p) == [q \in Reply |-> IF q = p THEN {} ELSE ahead[q] \ {p}]

IsFirst(q, l, p) == q \in Waiters(l) \ {p} /\ ahead[q] \subseteq {p}

\* Mutant: the lock is released and nobody woken.
WakeFirst_Nobody(l, p) == [q \in Reply |-> IF q = p THEN "none" ELSE fut[q]]

WakeFirst(l, p) ==
  [q \in Reply |-> IF q = p THEN "none"
                   ELSE IF IsFirst(q, l, p) /\ fut[q] = "pending" THEN "woken"
                   ELSE fut[q]]

Settle(p) == [q \in Reply |-> IF q = p THEN "none" ELSE fut[q]]

TypeOK ==
  /\ pending \in SUBSET Group
  /\ cooling \in SUBSET Group
  /\ request \in [Request -> Group \cup {NoGroup}]
  /\ gen \in [Group -> 0..MaxClears]
  /\ locked \in SUBSET Lock
  /\ strayed \in SUBSET Lock
  /\ pc \in [Reply -> {"idle", "waiting", "cancelling", "sending"}]
  /\ lock \in [Reply -> Lock \cup {NoLock}]
  /\ ahead \in [Reply -> SUBSET Reply]
  /\ fut \in [Reply -> {"none", "pending", "woken", "cancelled"}]
  /\ \A p \in Reply : pc[p] # "idle" => lock[p] \in Lock

Init ==
  /\ pending = {}
  /\ cooling = {}
  /\ request = [r \in Request |-> NoGroup]
  /\ gen = [g \in Group |-> 0]
  /\ locked = {}
  /\ pc = [p \in Reply |-> "idle"]
  /\ lock = [p \in Reply |-> NoLock]
  /\ ahead = [p \in Reply |-> {}]
  /\ fut = [p \in Reply |-> "none"]
  /\ strayed = {}

-----------------------------------------------------------------------------
(* Normal replies, as the message hooks drive them *)

\* The LLM request hook: mark_normal_reply_start.
NormalReplyStart(r, g) ==
  /\ request[r] = NoGroup
  /\ request' = [request EXCEPT ![r] = g]
  /\ pending' = pending \cup {g}
  /\ UNCHANGED <<cooling, gen>>
  /\ UNCHANGED guardVars

\* The LLM response hook with a non-empty reply: mark_normal_reply_end.
NormalReplyEnd(r) ==
  /\ request[r] \in Group
  /\ pending' = pending \ {request[r]}
  /\ cooling' = IF HasCooldown THEN cooling \cup {request[r]} ELSE cooling
  /\ request' = [request EXCEPT ![r] = NoGroup]
  /\ UNCHANGED gen
  /\ UNCHANGED guardVars

\* The LLM call fails or answers with no text: the hook marks nothing.
NormalReplyLost(r) ==
  /\ request[r] \in Group
  /\ request' = [request EXCEPT ![r] = NoGroup]
  /\ UNCHANGED <<pending, cooling, gen>>
  /\ UNCHANGED guardVars

\* The clock passes the end of the group's cooldown.
CooldownElapses(g) ==
  /\ g \in cooling
  /\ cooling' = cooling \ {g}
  /\ UNCHANGED <<pending, request, gen>>
  /\ UNCHANGED guardVars

-----------------------------------------------------------------------------
(* The guard of a proactive reply *)

\* The check before the lock refuses, and leaving the guard releases the
\* group's lock whenever somebody has it locked.
EnterRefused(p, g) ==
  LET l == LockOf(g) IN
  /\ pc[p] = "idle"
  /\ ~CanSend(g)
  /\ IF l \in locked
     THEN /\ locked' = locked \ {l}
          /\ fut' = WakeFirst(l, p)
          /\ strayed' = strayed \cup {l}
     ELSE UNCHANGED <<locked, fut, strayed>>
  /\ UNCHANGED <<pc, lock, ahead>>
  /\ UNCHANGED normalVars

\* Mutant: the guard is admitted and does not acquire the lock.
EnterFree_Unlocked(p, g) ==
  LET l == LockOf(g) IN
  /\ pc[p] = "idle"
  /\ CanSend(g)
  /\ l \notin locked
  /\ \A q \in Waiters(l) : fut[q] = "cancelled"
  /\ pc' = [pc EXCEPT ![p] = "sending"]
  /\ lock' = [lock EXCEPT ![p] = l]
  /\ UNCHANGED <<locked, ahead, fut, strayed>>
  /\ UNCHANGED normalVars

\* acquire() succeeds at once when the lock is free and every waiter in the
\* deque has been cancelled; nothing runs in between, so the second check
\* agrees with the first.
EnterFree(p, g) ==
  LET l == LockOf(g) IN
  /\ pc[p] = "idle"
  /\ CanSend(g)
  /\ l \notin locked
  /\ \A q \in Waiters(l) : fut[q] = "cancelled"
  /\ locked' = locked \cup {l}
  /\ pc' = [pc EXCEPT ![p] = "sending"]
  /\ lock' = [lock EXCEPT ![p] = l]
  /\ UNCHANGED <<ahead, fut, strayed>>
  /\ UNCHANGED normalVars

\* Mutant: the guard does not keep the lock it queues for.
EnterWait_Forgets(p, g) ==
  LET l == LockOf(g) IN
  /\ pc[p] = "idle" /\ CanSend(g)
  /\ l \in locked \/ \E q \in Waiters(l) : fut[q] # "cancelled"
  /\ pc' = [pc EXCEPT ![p] = "waiting"]
  /\ ahead' = [ahead EXCEPT ![p] = Waiters(l)]
  /\ fut' = [fut EXCEPT ![p] = "pending"]
  /\ UNCHANGED <<locked, lock, strayed>>
  /\ UNCHANGED normalVars

EnterWait(p, g) ==
  LET l == LockOf(g) IN
  /\ pc[p] = "idle"
  /\ CanSend(g)
  /\ l \in locked \/ \E q \in Waiters(l) : fut[q] # "cancelled"
  /\ pc' = [pc EXCEPT ![p] = "waiting"]
  /\ lock' = [lock EXCEPT ![p] = l]
  /\ ahead' = [ahead EXCEPT ![p] = Waiters(l)]
  /\ fut' = [fut EXCEPT ![p] = "pending"]
  /\ UNCHANGED <<locked, strayed>>
  /\ UNCHANGED normalVars

\* Mutant: no second check after the wait.
ResumeAllowed_Unchecked(p) ==
  /\ pc[p] = "waiting" /\ fut[p] = "woken"
  /\ locked' = locked \cup {lock[p]}
  /\ pc' = [pc EXCEPT ![p] = "sending"]
  /\ ahead' = Dequeue(p)
  /\ fut' = Settle(p)
  /\ UNCHANGED <<lock, strayed>>
  /\ UNCHANGED normalVars

\* A woken waiter takes the lock and passes the second check ...
ResumeAllowed(p) ==
  LET l == lock[p] IN
  /\ pc[p] = "waiting"
  /\ fut[p] = "woken"
  /\ CanSend(l[1])
  /\ locked' = locked \cup {l}
  /\ pc' = [pc EXCEPT ![p] = "sending"]
  /\ ahead' = Dequeue(p)
  /\ fut' = Settle(p)
  /\ UNCHANGED <<lock, strayed>>
  /\ UNCHANGED normalVars

\* Mutant: refused by the second check, the guard keeps the lock.
ResumeRefused_Keeps(p) ==
  /\ pc[p] = "waiting" /\ fut[p] = "woken"
  /\ ~CanSend(lock[p][1])
  /\ locked' = locked \cup {lock[p]}
  /\ pc' = [pc EXCEPT ![p] = "idle"]
  /\ lock' = [lock EXCEPT ![p] = NoLock]
  /\ ahead' = Dequeue(p)
  /\ fut' = Settle(p)
  /\ UNCHANGED strayed
  /\ UNCHANGED normalVars

\* ... or fails it and releases the lock it has just taken.
ResumeRefused(p) ==
  LET l == lock[p] IN
  /\ pc[p] = "waiting"
  /\ fut[p] = "woken"
  /\ ~CanSend(l[1])
  /\ locked' = locked \ {l}
  /\ pc' = [pc EXCEPT ![p] = "idle"]
  /\ lock' = [lock EXCEPT ![p] = NoLock]
  /\ ahead' = Dequeue(p)
  /\ fut' = WakeFirst(l, p)
  /\ UNCHANGED strayed
  /\ UNCHANGED normalVars

\* task.cancel() on a waiting task (a timer reset, a normal reply, close).
Cancel(p) ==
  /\ pc[p] = "waiting"
  /\ pc' = [pc EXCEPT ![p] = "cancelling"]
  /\ fut' = [fut EXCEPT ![p] = IF @ = "pending" THEN "cancelled" ELSE @]
  /\ UNCHANGED <<locked, lock, ahead, strayed>>
  /\ UNCHANGED normalVars

\* CancelledError reaches acquire(): it leaves the deque and passes on a
\* wake-up it may have been given.  The guard was not entered, so no exit.
CancelDelivered(p) ==
  LET l == lock[p] IN
  /\ pc[p] = "cancelling"
  /\ pc' = [pc EXCEPT ![p] = "idle"]
  /\ lock' = [lock EXCEPT ![p] = NoLock]
  /\ ahead' = Dequeue(p)
  /\ fut' = IF l \in locked THEN Settle(p) ELSE WakeFirst(l, p)
  /\ UNCHANGED <<locked, strayed>>
  /\ UNCHANGED normalVars

\* Mutant: the guard of a send that has ended does not release.
Exit_KeepsLock(p) ==
  /\ pc[p] = "sending"
  /\ pc' = [pc EXCEPT ![p] = "idle"]
  /\ lock' = [lock EXCEPT ![p] = NoLock]
  /\ UNCHANGED <<locked, fut, ahead, strayed>>
  /\ UNCHANGED normalVars

\* The send ends, fails or is cancelled: __aexit__ of the admitted guard.
Exit(p) ==
  LET l == lock[p] IN
  /\ pc[p] = "sending"
  /\ pc' = [pc EXCEPT ![p] = "idle"]
  /\ lock' = [lock EXCEPT ![p] = NoLock]
  /\ IF l \in locked
     THEN locked' = locked \ {l} /\ fut' = WakeFirst(l, p)
     ELSE UNCHANGED <<locked, fut>>
  /\ UNCHANGED <<ahead, strayed>>
  /\ UNCHANGED normalVars

-----------------------------------------------------------------------------
(* Clearing: tasks inside a guard keep the lock object that was dropped *)

ClearGroup(g) ==
  /\ gen[g] < MaxClears
  /\ gen' = [gen EXCEPT ![g] = @ + 1]
  /\ pending' = pending \ {g}
  /\ cooling' = cooling \ {g}
  /\ UNCHANGED request
  /\ UNCHANGED guardVars

ClearAll ==
  /\ \A g \in Group : gen[g] < MaxClears
  /\ gen' = [g \in Group |-> gen[g] + 1]
  /\ pending' = {}
  /\ cooling' = {}
  /\ UNCHANGED request
  /\ UNCHANGED guardVars

-----------------------------------------------------------------------------

Next ==
  \/ \E r \in Request, g \in Group : NormalReplyStart(r, g)
  \/ \E r \in Request : NormalReplyEnd(r) \/ NormalReplyLost(r)
  \/ \E g \in Group : CooldownElapses(g) \/ ClearGroup(g)
  \/ \E p \in Reply, g \in Group :
        EnterRefused(p, g) \/ EnterFree(p, g) \/ EnterWait(p, g)
  \/ \E p \in Reply : ResumeAllowed(p) \/ ResumeRefused(p) \/ Cancel(p)
                        \/ CancelDelivered(p) \/ Exit(p)
  \/ ClearAll

Spec == Init /\ [][Next]_vars

\* The event loop runs every ready callback, and a send always ends: the LLM
\* and platform calls it awaits return, raise or are cancelled.
Fairness ==
  \A p \in Reply : /\ WF_vars(ResumeAllowed(p) \/ ResumeRefused(p))
                   /\ WF_vars(CancelDelivered(p))
                   /\ WF_vars(Exit(p))

FairSpec == Spec /\ Fairness

-----------------------------------------------------------------------------
(* Properties *)

\* At most one proactive reply is being sent under a lock, as long as no
\* refused guard has released that lock.
MutexUnlessStrayed ==
  \A l \in Lock : l \notin strayed =>
    \A p, q \in Sending(l) : p = q

\* A lock is never left locked by a guard that has gone (cancelled while
\* queueing, refused by the second check, failed in its send).
LockedHasSender ==
  \A l \in locked : Sending(l) # {}

\* A free lock with waiters has woken (or cancelled) the first of them: no
\* waiter sleeps on a lock that nobody will release.
NoLostWakeup ==
  \A l \in Lock \ locked : \A p \in Waiters(l) :
    ahead[p] = {} => fut[p] # "pending"

\* A proactive send never starts in a group whose pending flag is set or
\* which is still cooling down, however long its guard queued.
SendsStartClear ==
  [][\A p \in Reply : pc[p] # "sending" /\ pc'[p] = "sending"
                        => CanSend(lock'[p][1])]_vars

\* Behind its queue and its futures the coordinator is a permit per lock: a
\* send starts only with the permit of a group open to proactive replies.
Gate == INSTANCE ProactiveGate WITH
  shut <- pending \cup cooling,
  free <- Lock \ locked,
  sends <- {<<p, lock[p]>> : p \in {q \in Reply : pc[q] = "sending"}}

ImplementsGate == Gate!GateSpec

\* A proactive reply queueing for its group's lock gets to its second check
\* or is cancelled.
WaiterServed == \A p \in Reply : (pc[p] = "waiting") ~> (pc[p] # "waiting")

-----------------------------------------------------------------------------
(* Statements of the comments and tests that the code does not keep: TLC    *)
(* finds each of them violated (README, Disagreements).                     *)

\* The module's docstring: "群级别回复锁：防止多个主动回复（signal + followup）
\* 并发发送" (the group's lock keeps proactive replies from being sent at once).
OneProactiveReplyPerGroup ==
  \A p, q \in Reply :
    /\ pc[p] = "sending" /\ pc[q] = "sending"
    /\ lock[p][1] = lock[q][1]
    => p = q

\* The pending flag's comment: the set of the groups "正在进行正常 LLM 回复"
\* (with a normal LLM reply in progress).
PendingWhileInProgress ==
  \A r \in Request : request[r] \in Group => request[r] \in pending

\* The flag marks replies in progress: once no normal reply is being
\* generated in the group, the flag does not stay set for ever.
PendingIsLifted ==
  \A g \in Group : (g \in pending) ~>
    (g \notin pending \/ \E r \in Request : request[r] = g)
=============================================================================

-------------------------- MODULE ProactiveManager --------------------------
(***************************************************************************)
(* The reply handlers of ProactiveManager (proactive/manager.py): a signal *)
(* decision or a follow-up decision passes the quota checks, then the      *)
(* guard of the ReplyCoordinator, then sends.  The checks are made before  *)
(* the guard may wait, the counters move after the send.                   *)
(*                                                                         *)
(* The coordinator is the module ReplyCoordinator, step for step; the      *)
(* planner's expectations are reduced to whether a group has one.  Quiet   *)
(* hours and the /cooldown command only refuse an attempt before it has    *)
(* changed anything, and are left out.                                     *)
(***************************************************************************)
EXTENDS Naturals, FiniteSets

CONSTANTS
  Group, Reply, Request, HasCooldown, MaxClears, NoGroup, NoLock,
  User,
  MaxDaily,     \* max_daily_replies
  MaxPerUser,   \* max_daily_per_user
  AfterAll,     \* followup_after_all_replies
  MaxDays,      \* bound: how often the date changes
  NoUser

ASSUME QuotaAssumption ==
  /\ MaxDaily \in Nat \ {0} /\ MaxPerUser \in Nat \ {0}
  /\ MaxDays \in Nat /\ AfterAll \in BOOLEAN
  /\ NoUser \notin User

\* The guard's own constants, and the tasks of a bot are finitely many.
ASSUME GuardAssumption ==
  /\ HasCooldown \in BOOLEAN
  /\ MaxClears \in Nat
  /\ NoGroup \notin Group
  /\ NoLock \notin Group \X (0..MaxClears)
  /\ IsFiniteSet(Reply)

VARIABLES
  pending, cooling, request, gen, locked, pc, lock, ahead, fut, strayed,
  job,        \* what each reply task is sending: its kind and its user
  expecting,  \* groups with an active follow-up expectation
  deciding,   \* groups for which a follow-up has been decided
  recent,     \* groups whose _last_reply_time is younger than the cooldown
  daily,      \* _daily_reply_count
  perUser,    \* _per_user_daily
  day,        \* _daily_reply_date
  burst       \* history: replies sent in a group's present cooldown

coordinatorVars == <<pending, cooling, request, gen, locked, pc, lock, ahead, fut, strayed>>
quotaVars == <<recent, daily, perUser, day, burst>>
vars == <<coordinatorVars, job, expecting, deciding, quotaVars>>

C == INSTANCE ReplyCoordinator

-----------------------------------------------------------------------------

NoJob == [kind |-> "none", user |-> NoUser]

GroupOf(p) == lock[p][1]

InFlight == {p \in Reply : job[p] # NoJob}

TypeOK ==
  /\ C!TypeOK
  /\ job \in [Reply -> [kind : {"none", "signal", "followup"}, user : User \cup {NoUser}]]
  /\ {expecting, deciding, recent} \subseteq SUBSET Group
  /\ daily \in Nat
  /\ perUser \in [User -> Nat]
  /\ day \in 0..MaxDays
  /\ burst \in [Group -> Nat]
  /\ \A p \in Reply : pc[p] = "idle" <=> job[p] = NoJob

Init ==
  /\ C!Init
  /\ job = [p \in Reply |-> NoJob]
  /\ expecting = {} /\ deciding = {} /\ recent = {}
  /\ daily = 0
  /\ perUser = [u \in User |-> 0]
  /\ day = 0
  /\ burst = [g \in Group |-> 0]

\* Mutant: the limits are not checked.
WithinQuota_NoLimit(g, u) == g \notin recent

\* Mutant: the cooldown is not checked.
WithinQuota_NoCooldown(g, u) == daily < MaxDaily /\ perUser[u] < MaxPerUser

\* _check_rate_limit and _check_daily_limit.
WithinQuota(g, u) ==
  /\ g \notin recent
  /\ daily < MaxDaily
  /\ perUser[u] < MaxPerUser

\* Mutant: the expectation is not looked at once inside the guard.
Defers_Never(kind, g) == FALSE

\* A signal reply that is admitted while the group has an expectation leaves
\* the guard at once.
Defers(kind, g) == kind = "signal" /\ g \in expecting

-----------------------------------------------------------------------------
(* An attempt, up to its first await *)

\* The refused attempt of a follow-up drops the group's expectation.
Dropped(kind, g) == IF kind = "followup" THEN expecting \ {g} ELSE expecting

Begins(p, kind, g, u) ==
  /\ job' = [job EXCEPT ![p] = [kind |-> kind, user |-> u]]
  /\ UNCHANGED expecting

Attempt(p, kind, g, u) ==
  /\ pc[p] = "idle"
  /\ kind = "followup" => g \in deciding
  /\ deciding' = IF kind = "followup" THEN deciding \ {g} ELSE deciding
  /\ \/ /\ ~WithinQuota(g, u)
        /\ expecting' = Dropped(kind, g)
        /\ UNCHANGED <<coordinatorVars, job>>
     \/ /\ WithinQuota(g, u)
        /\ C!EnterRefused(p, g)
        /\ expecting' = Dropped(kind, g)
        /\ UNCHANGED job
     \/ /\ WithinQuota(g, u)
        /\ ~Defers(kind, g)
        /\ C!EnterFree(p, g)
        /\ Begins(p, kind, g, u)
     \/ /\ WithinQuota(g, u)
        /\ C!EnterWait(p, g)
        /\ Begins(p, kind, g, u)
  /\ UNCHANGED quotaVars

\* The wait for the lock ends.
Ends(p) == job' = [job EXCEPT ![p] = NoJob]

Resume(p) ==
  LET kind == job[p].kind  g == GroupOf(p) IN
  /\ \/ /\ ~Defers(kind, g)
        /\ C!ResumeAllowed(p)
        /\ UNCHANGED <<job, expecting>>
     \/ /\ C!ResumeRefused(p)
        /\ Ends(p)
        /\ expecting' = Dropped(kind, g)
  /\ UNCHANGED <<deciding, quotaVars>>

\* Mutant: the deferred reply keeps the lock.
ResumeDeferred_Keeps(p) ==
  /\ pc[p] = "waiting" /\ fut[p] = "woken"
  /\ C!CanSend(GroupOf(p)) /\ Defers(job[p].kind, GroupOf(p))
  /\ locked' = locked \cup {lock[p]}
  /\ pc' = [pc EXCEPT ![p] = "idle"]
  /\ lock' = [lock EXCEPT ![p] = NoLock]
  /\ ahead' = C!Dequeue(p)
  /\ fut' = C!Settle(p)
  /\ Ends(p)
  /\ UNCHANGED <<strayed, expecting, deciding, quotaVars, pending, cooling, request, gen>>

\* Mutant: the deferred reply releases the lock and wakes nobody.
ResumeDeferred_WakesNobody(p) ==
  /\ pc[p] = "waiting" /\ fut[p] = "woken"
  /\ C!CanSend(GroupOf(p)) /\ Defers(job[p].kind, GroupOf(p))
  /\ locked' = locked \ {lock[p]}
  /\ pc' = [pc EXCEPT ![p] = "idle"]
  /\ lock' = [lock EXCEPT ![p] = NoLock]
  /\ ahead' = C!Dequeue(p)
  /\ fut' = C!Settle(p)
  /\ Ends(p)
  /\ UNCHANGED <<strayed, expecting, deciding, quotaVars, pending, cooling, request, gen>>

\* Admitted and deferred at once: the lock is taken and released.
ResumeDeferred(p) ==
  /\ pc[p] = "waiting" /\ fut[p] = "woken"
  /\ C!CanSend(GroupOf(p))
  /\ Defers(job[p].kind, GroupOf(p))
  /\ locked' = locked \ {lock[p]}
  /\ pc' = [pc EXCEPT ![p] = "idle"]
  /\ lock' = [lock EXCEPT ![p] = NoLock]
  /\ ahead' = C!Dequeue(p)
  /\ fut' = C!WakeFirst(lock[p], p)
  /\ Ends(p)
  /\ UNCHANGED <<strayed, expecting, deciding, quotaVars>>
  /\ UNCHANGED <<pending, cooling, request, gen>>

-----------------------------------------------------------------------------
(* The send ends *)

Counted(p) ==
  /\ IF HasCooldown
     THEN /\ recent' = recent \cup {GroupOf(p)}
          /\ burst' = [burst EXCEPT ![GroupOf(p)] = @ + 1]
     ELSE UNCHANGED <<recent, burst>>
  /\ daily' = daily + 1
  /\ perUser' = [perUser EXCEPT ![job[p].user] = @ + 1]

\* The reply is delivered: the cooldown and the counters, then the guard.  A
\* signal reply creates an expectation; a follow-up creates the next one or,
\* at its limit, drops it.
Sent(p) ==
  LET g == GroupOf(p) IN
  /\ C!Exit(p)
  /\ Counted(p)
  /\ expecting' \in IF job[p].kind = "signal" THEN {expecting \cup {g}}
                    ELSE {expecting \cup {g}, expecting \ {g}}
  /\ Ends(p)
  /\ UNCHANGED <<deciding, day>>

SendFails(p) ==
  /\ C!Exit(p)
  /\ expecting' = Dropped(job[p].kind, GroupOf(p))
  /\ Ends(p)
  /\ UNCHANGED <<deciding, quotaVars>>

\* CancelledError in the send (clear_expectation, a timer reset, close), before
\* or after the platform has delivered the message: nothing is counted.
SendCancelled(p) ==
  /\ C!Exit(p)
  /\ Ends(p)
  /\ UNCHANGED <<expecting, deciding, quotaVars>>

WaitCancelled(p) ==
  \/ C!Cancel(p) /\ UNCHANGED <<job, expecting, deciding, quotaVars>>
  \/ C!CancelDelivered(p) /\ Ends(p) /\ UNCHANGED <<expecting, deciding, quotaVars>>

-----------------------------------------------------------------------------
(* The rest of the plugin *)

\* Normal replies; the end of one also ends the group's follow-up, or makes a
\* new expectation of it (clear_pending_tasks_for_session, notify_bot_reply).
NormalReplyStart(r, g) == C!NormalReplyStart(r, g) /\ UNCHANGED <<job, expecting>>

NormalReplyEnd(r) ==
  /\ C!NormalReplyEnd(r)
  /\ expecting' = IF AfterAll THEN expecting \cup {request[r]}
                  ELSE expecting \ {request[r]}
  /\ UNCHANGED job

NormalReplyLost(r) == C!NormalReplyLost(r) /\ UNCHANGED <<job, expecting>>

GuardCooldownElapses(g) == C!CooldownElapses(g) /\ UNCHANGED <<job, expecting>>

Normal ==
  /\ \/ \E r \in Request, g \in Group : NormalReplyStart(r, g)
     \/ \E r \in Request : NormalReplyEnd(r) \/ NormalReplyLost(r)
     \/ \E g \in Group : GuardCooldownElapses(g)
  /\ UNCHANGED <<deciding, quotaVars>>

\* The planner decides to follow up: with the window timer the expectation has
\* left the store, with the short timer it has not.
FollowUpDecided(g) ==
  /\ g \in expecting
  /\ deciding' = deciding \cup {g}
  /\ expecting' \in {expecting, expecting \ {g}}
  /\ UNCHANGED <<coordinatorVars, job, quotaVars>>

\* The expectation is judged not worth a reply, or expires.
ExpectationEnds(g) ==
  /\ expecting' = expecting \ {g}
  /\ UNCHANGED <<coordinatorVars, job, deciding, quotaVars>>

ReplyCooldownElapses(g) ==
  /\ g \in recent
  /\ recent' = recent \ {g}
  /\ burst' = [burst EXCEPT ![g] = 0]
  /\ UNCHANGED <<coordinatorVars, job, expecting, deciding, daily, perUser, day>>

\* _refresh_daily_counter on a new date.
NewDay ==
  /\ day < MaxDays
  /\ day' = day + 1
  /\ daily' = 0
  /\ perUser' = [u \in User |-> 0]
  /\ UNCHANGED <<coordinatorVars, job, expecting, deciding, recent, burst>>

Next ==
  \/ \E p \in Reply, kind \in {"signal", "followup"}, g \in Group, u \in User :
        Attempt(p, kind, g, u)
  \/ \E p \in Reply : Resume(p) \/ ResumeDeferred(p) \/ Sent(p) \/ SendFails(p)
                        \/ SendCancelled(p) \/ WaitCancelled(p)
  \/ Normal
  \/ \E g \in Group : FollowUpDecided(g) \/ ExpectationEnds(g) \/ ReplyCooldownElapses(g)
  \/ NewDay

Spec == Init /\ [][Next]_vars

-----------------------------------------------------------------------------
(* Properties *)

\* The limits are checked before the guard waits and counted after the send:
\* they can be passed by the replies in flight together, and by no more.
OvershootBounded ==
  LET atOnce == Cardinality(Reply) - 1 IN
  /\ daily <= MaxDaily + atOnce
  /\ \A u \in User : perUser[u] <= MaxPerUser + atOnce

\* The manager's use of the guard, the deferred signal included, leaves no
\* lock locked without its sender and no waiter asleep on a free lock.
GuardSurvives == C!LockedHasSender /\ C!NoLostWakeup

\* The manager's replies together are still a permit per lock.
ImplementsGate == C!ImplementsGate

Starts(p) == pc[p] # "sending" /\ pc'[p] = "sending"

\* A signal reply never starts on top of a conversation that is being
\* followed up, even when the expectation appeared while it queued.
SignalDefers ==
  [][\A p \in Reply : Starts(p) /\ job'[p].kind = "signal"
                        => lock'[p][1] \notin expecting]_vars

RepliesIn(g) == {p \in InFlight : GroupOf(p) = g}

\* The cooldown is checked before the guard waits and begins after the send: a
\* reply that queued meanwhile is sent in it, and begins it anew.  Those sent in
\* one cooldown of a group, with those still under way there, are at most the
\* tasks there are, so a cooldown ends the burst.
CooldownEndsBurst ==
  \A g \in recent : burst[g] + Cardinality(RepliesIn(g)) <= Cardinality(Reply)

-----------------------------------------------------------------------------
(* Statements of the comments and tests that the code does not keep: TLC    *)
(* finds each of them violated (README, Disagreements).                     *)

\* config/schema.py, max_daily_replies: "每日最大主动回复次数" (the greatest
\* number of proactive replies a day).
DailyLimit == daily <= MaxDaily

\* manager.py, _check_rate_limit: a reply may pass when "冷却时间已过" (the
\* cooldown has elapsed).
CooldownKept ==
  [][\A p \in Reply : Starts(p) => lock'[p][1] \notin recent]_vars
=============================================================================

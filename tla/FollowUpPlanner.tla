--------------------------- MODULE FollowUpPlanner ---------------------------
(***************************************************************************)
(* FollowUpPlanner (proactive/followup_planner.py) and its ExpectationStore *)
(* for one group: the expectation that the user will answer, the short     *)
(* window timer that every message of the user resets, the window timer    *)
(* that ends the expectation, and the LLM decision either of them starts.  *)
(* Groups share nothing, so one group is the whole behaviour.              *)
(*                                                                         *)
(* A step is one run of a coroutine between two awaits.  task.cancel() sets *)
(* a flag; CancelledError arrives when the task next runs.                 *)
(***************************************************************************)
EXTENDS Naturals

CONSTANTS
  Exp,       \* expectation objects
  Task,      \* asyncio tasks
  Msg,       \* messages of the user the expectation waits for
  Max,       \* max_followup_count
  AfterAll,  \* followup_after_all_replies
  NoExp,
  NoTask

ASSUME ConstantsAssumption ==
  /\ Max \in Nat \ {0}
  /\ AfterAll \in BOOLEAN
  /\ NoExp \notin Exp
  /\ NoTask \notin Task

VARIABLES
  store,   \* the group's entry of ExpectationStore
  exp,     \* followup_count, aggregated_messages, window expired, _processing
  short,   \* the group's entry of _short_window_timers
  window,  \* the group's entry of _window_timeout_timers
  task,    \* every task: its coroutine, where it stands, what it works on
  closed   \* _closed

vars == <<store, exp, short, window, task, closed>>

-----------------------------------------------------------------------------

\* A task is "created" until its coroutine first runs.  A sleeping task is on
\* the expectation whose window end it sleeps to, if it is that it waits for;
\* a deciding or replying one is on the expectation it decides about.
Idle == [kind |-> "short", phase |-> "free", on |-> NoExp, cancelled |-> FALSE]

New(kind, e) == [kind |-> kind, phase |-> "created", on |-> e, cancelled |-> FALSE]

Fresh(count, msgs) ==
  [count |-> count, msgs |-> msgs, expired |-> FALSE, processing |-> FALSE]

Ready(t, kind, phase) ==
  task[t].kind = kind /\ task[t].phase = phase /\ ~task[t].cancelled

Deciding(t) == task[t].phase \in {"deciding", "replying"}

Unused(t) == task[t].phase = "free" /\ t \notin {short, window}

UnusedExp(e) ==
  e # store /\ \A t \in Task : task[t].phase # "free" => task[t].on # e

Active == store # NoExp /\ ~exp[store].expired   \* what store.get() returns

Messages == IF Active THEN exp[store].msgs ELSE {}

\* _cancel_*_timer: the tasks of T are asked to stop.
Cancelling(T) ==
  [t \in Task |-> IF t \in T /\ task[t].phase # "free"
                  THEN [task[t] EXCEPT !.cancelled = TRUE] ELSE task[t]]

TypeOK ==
  /\ store \in Exp \cup {NoExp}
  /\ exp \in [Exp -> [count : 0..Max - 1, msgs : SUBSET Msg,
                      expired : BOOLEAN, processing : BOOLEAN]]
  /\ short \in Task \cup {NoTask}
  /\ window \in Task \cup {NoTask}
  /\ task \in [Task -> [kind : {"short", "window"},
                        phase : {"free", "created", "sleeping", "deciding", "replying"},
                        on : Exp \cup {NoExp}, cancelled : BOOLEAN]]
  /\ closed \in BOOLEAN
  /\ \A t \in Task : Deciding(t) => task[t].on \in Exp

Init ==
  /\ store = NoExp
  /\ exp = [e \in Exp |-> Fresh(0, {})]
  /\ short = NoTask
  /\ window = NoTask
  /\ task = [t \in Task |-> Idle]
  /\ closed = FALSE

-----------------------------------------------------------------------------
(* Operations, called from the rest of the plugin *)

\* Mutant: the old window timer is not cancelled.
Create_KeepsTimer(e, count, tasks) ==
  /\ UnusedExp(e)
  /\ store' = e
  /\ exp' = [exp EXCEPT ![e] = Fresh(count, {})]
  /\ short' = NoTask
  /\ \E w \in Task : /\ Unused(w)
                      /\ window' = w
                      /\ task' = [tasks EXCEPT ![w] = New("window", e)]

\* create_expectation, from a step that leaves the tasks as in tasks: both
\* timers of the group are cancelled and the window timer of the new
\* expectation starts, unless the planner is closed.
Create(e, count, tasks) ==
  LET stopped == [t \in Task |-> IF t \in {short, window} /\ tasks[t].phase # "free"
                                 THEN [tasks[t] EXCEPT !.cancelled = TRUE] ELSE tasks[t]]
  IN
  /\ UnusedExp(e)
  /\ store' = e
  /\ exp' = [exp EXCEPT ![e] = Fresh(count, {})]
  /\ short' = NoTask
  /\ IF closed
     THEN window' = NoTask /\ task' = stopped
     ELSE \E w \in Task : /\ Unused(w)
                          /\ window' = w
                          /\ task' = [stopped EXCEPT ![w] = New("window", e)]

\* The bot has sent a proactive reply to a signal.
CreateExpectation(e) == Create(e, 0, task) /\ UNCHANGED closed

\* Mutant: the timers are cancelled and the expectation stays.
ClearExpectation_KeepsStore ==
  /\ ~AfterAll
  /\ short' = NoTask
  /\ window' = NoTask
  /\ task' = Cancelling({short, window})
  /\ UNCHANGED <<store, exp, closed>>

\* clear_expectation, after a normal reply.
ClearExpectation ==
  /\ ~AfterAll
  /\ store' = NoExp
  /\ short' = NoTask
  /\ window' = NoTask
  /\ task' = Cancelling({short, window})
  /\ UNCHANGED <<exp, closed>>

\* ProactiveManager.notify_bot_reply, after any reply of the bot: a new
\* expectation takes over the messages of the old one, and a new short
\* window starts for them.
NotifyBotReply(e) ==
  LET stopped == Cancelling({short, window}) IN
  /\ AfterAll
  /\ ~closed
  /\ UnusedExp(e)
  /\ store' = e
  /\ exp' = [exp EXCEPT ![e] = Fresh(0, Messages)]
  /\ \E w \in Task :
       /\ Unused(w)
       /\ window' = w
       /\ IF Messages = {}
          THEN short' = NoTask /\ task' = [stopped EXCEPT ![w] = New("window", e)]
          ELSE \E s \in Task \ {w} :
                 /\ Unused(s)
                 /\ short' = s
                 /\ task' = [stopped EXCEPT ![w] = New("window", e),
                                            ![s] = New("short", NoExp)]
  /\ UNCHANGED closed

\* on_user_message on an active expectation: the message is aggregated and the
\* short window timer is started afresh, cut off at the end of the window.
UserMessage(m) ==
  /\ Active
  /\ exp' = [exp EXCEPT ![store].msgs = @ \cup {m}]
  /\ IF closed
     THEN short' = NoTask /\ task' = Cancelling({short})
     ELSE \E s \in Task, cut \in {NoExp, store} :
            /\ Unused(s)
            /\ short' = s
            /\ task' = [Cancelling({short}) EXCEPT ![s] = New("short", cut)]
  /\ UNCHANGED <<store, window, closed>>

\* on_user_message or has_active_expectation on an expired expectation, which
\* store.get() removes.
LookUpExpired ==
  /\ store # NoExp
  /\ exp[store].expired
  /\ store' = NoExp
  /\ UNCHANGED <<exp, short, window, task, closed>>

\* on_user_message whose window ends between store.get() and its own check.
MessageAtWindowEnd ==
  /\ Active
  /\ exp' = [exp EXCEPT ![store].expired = TRUE]
  /\ store' = NoExp
  /\ short' = NoTask
  /\ task' = Cancelling({short})
  /\ UNCHANGED <<window, closed>>

Close ==
  /\ ~closed
  /\ closed' = TRUE
  /\ task' = Cancelling({short, window})
  /\ short' = NoTask
  /\ window' = NoTask
  /\ store' = NoExp
  /\ UNCHANGED exp

-----------------------------------------------------------------------------
(* The timers' coroutines *)

\* The clock passes followup_window_end.
WindowEnds(e) ==
  /\ ~UnusedExp(e)
  /\ ~exp[e].expired
  /\ exp' = [exp EXCEPT ![e].expired = TRUE]
  /\ UNCHANGED <<store, short, window, task, closed>>

Start(t) ==
  /\ task[t].phase = "created"
  /\ ~task[t].cancelled
  /\ task' = [task EXCEPT ![t].phase = "sleeping"]
  /\ UNCHANGED <<store, exp, short, window, closed>>

Due(t) == task[t].on # NoExp => exp[task[t].on].expired

\* _short_window_expired finds nothing to decide; its finally clause drops
\* the group's entry of _short_window_timers.
ShortFiresIdle(t) ==
  /\ Ready(t, "short", "sleeping") /\ Due(t)
  /\ closed \/ Messages = {}
  /\ store' = IF closed \/ Active THEN store ELSE NoExp
  /\ short' = NoTask
  /\ task' = [task EXCEPT ![t] = Idle]
  /\ UNCHANGED <<exp, window, closed>>

\* Mutant: the expectation is not marked as being processed.
ShortFires_Unmarked(t) ==
  /\ Ready(t, "short", "sleeping") /\ Due(t)
  /\ ~closed /\ Messages # {}
  /\ window' = NoTask
  /\ task' = [Cancelling({window}) EXCEPT ![t].phase = "deciding", ![t].on = store]
  /\ UNCHANGED <<store, exp, short, closed>>

\* _short_window_expired: the window timer is cancelled and the decision
\* starts, unless the expectation is marked as being processed.
ShortFires(t) ==
  /\ Ready(t, "short", "sleeping") /\ Due(t)
  /\ ~closed /\ Messages # {}
  /\ window' = NoTask
  /\ IF exp[store].processing
     THEN /\ task' = [Cancelling({window}) EXCEPT ![t] = Idle]
          /\ short' = NoTask
          /\ UNCHANGED exp
     ELSE /\ task' = [Cancelling({window}) EXCEPT ![t].phase = "deciding", ![t].on = store]
          /\ exp' = [exp EXCEPT ![store].processing = TRUE]
          /\ UNCHANGED short
  /\ UNCHANGED <<store, closed>>

\* _followup_window_expired takes the expectation out of the store, expired or
\* not, and starts the decision if there is something to decide.  A timer that
\* close() had left running would end here instead: there is none.
WindowFires(t) ==
  LET decides == /\ store # NoExp
                 /\ exp[store].msgs # {} \/ AfterAll
                 /\ ~exp[store].processing
  IN
  /\ Ready(t, "window", "sleeping") /\ Due(t)
  /\ ~closed
  /\ window' = NoTask
  /\ store' = NoExp
  /\ short' = IF store = NoExp THEN short ELSE NoTask
  /\ LET tasks == IF store = NoExp THEN task ELSE Cancelling({short})
     IN task' = IF decides
                THEN [tasks EXCEPT ![t].phase = "deciding", ![t].on = store]
                ELSE [tasks EXCEPT ![t] = Idle]
  /\ exp' = IF decides THEN [exp EXCEPT ![store].processing = TRUE] ELSE exp
  /\ UNCHANGED closed

\* The short timer's coroutine ends through its finally clause.
AfterEnd(t, entry) == IF task[t].kind = "short" THEN NoTask ELSE entry

\* The LLM (or the rule it falls back to) decides against a reply: the group's
\* expectation is removed, whichever it now is.
DecidesNo(t) ==
  /\ task[t].phase = "deciding" /\ ~task[t].cancelled
  /\ store' = NoExp
  /\ short' = AfterEnd(t, short)
  /\ task' = [task EXCEPT ![t] = Idle]
  /\ UNCHANGED <<exp, window, closed>>

DecidesYes(t) ==
  /\ task[t].phase = "deciding" /\ ~task[t].cancelled
  /\ task' = [task EXCEPT ![t].phase = "replying"]
  /\ UNCHANGED <<store, exp, short, window, closed>>

\* The reply callback returns: the reply was refused or failed, or it was the
\* last one the limit allows ...
ReplyEnds(t) ==
  /\ task[t].phase = "replying" /\ ~task[t].cancelled
  /\ store' = NoExp
  /\ short' = AfterEnd(t, short)
  /\ task' = [task EXCEPT ![t] = Idle]
  /\ UNCHANGED <<exp, window, closed>>

\* Mutant: one follow-up more than the limit.
ReplySent_OneMore(t, e) ==
  /\ task[t].phase = "replying" /\ ~task[t].cancelled
  /\ exp[task[t].on].count < Max
  /\ Create(e, exp[task[t].on].count + 1, [task EXCEPT ![t] = Idle])
  /\ UNCHANGED closed

\* Mutant: the next expectation counts from zero.
ReplySent_Uncounted(t, e) ==
  /\ task[t].phase = "replying" /\ ~task[t].cancelled
  /\ Create(e, 0, [task EXCEPT ![t] = Idle])
  /\ UNCHANGED closed

\* ... or it was sent, and the next expectation counts one more.
ReplySent(t, e) ==
  LET count == exp[task[t].on].count + 1 IN
  /\ task[t].phase = "replying" /\ ~task[t].cancelled
  /\ count < Max
  /\ Create(e, count, [task EXCEPT ![t] = Idle])
  /\ UNCHANGED closed

\* CancelledError: a coroutine that has not started never reaches its finally
\* clause; _processing stays as it is.
CancelDelivered(t) ==
  /\ task[t].cancelled
  /\ short' = IF task[t].phase = "created" THEN short ELSE AfterEnd(t, short)
  /\ task' = [task EXCEPT ![t] = Idle]
  /\ UNCHANGED <<store, exp, window, closed>>

-----------------------------------------------------------------------------

TaskStep(t) ==
  \/ Start(t) \/ ShortFiresIdle(t) \/ ShortFires(t)
  \/ WindowFires(t)
  \/ DecidesNo(t) \/ DecidesYes(t) \/ ReplyEnds(t)
  \/ (\E e \in Exp : ReplySent(t, e))
  \/ CancelDelivered(t)

Environment ==
  \/ \E e \in Exp : CreateExpectation(e) \/ NotifyBotReply(e)
  \/ \E m \in Msg : UserMessage(m)
  \/ ClearExpectation \/ LookUpExpired \/ MessageAtWindowEnd \/ Close

Next ==
  \/ \E t \in Task : TaskStep(t)
  \/ \E e \in Exp : WindowEnds(e)
  \/ Environment

Spec == Init /\ [][Next]_vars

\* Time passes, the event loop runs ready tasks, and the LLM and the reply
\* callback come back; nobody has to write or to reply.
Fairness ==
  /\ \A t \in Task : WF_vars(TaskStep(t))
  /\ \A e \in Exp : WF_vars(WindowEnds(e))

FairSpec == Spec /\ Fairness

-----------------------------------------------------------------------------
(* Properties *)

\* However the two timers, new messages and cancellations interleave, an
\* expectation is never being decided or replied to by two tasks at once.
OneDecisionPerExpectation ==
  \A t, u \in Task :
    Deciding(t) /\ Deciding(u) /\ task[t].on = task[u].on => t = u

\* An expectation nobody has begun to decide has its window timer running and
\* registered: it is decided or dropped even if the user never writes again.
TimeoutArmed ==
  store # NoExp /\ ~closed /\ ~exp[store].processing =>
    /\ window # NoTask
    /\ task[window].phase \in {"created", "sleeping"}
    /\ ~task[window].cancelled
    /\ task[window].on = store

\* Every window timer that may still fire is the registered one, so that
\* clearing or replacing the expectation always reaches it.
WindowTimerTracked ==
  \A t \in Task :
    /\ task[t].kind = "window"
    /\ task[t].phase \in {"created", "sleeping"}
    /\ ~task[t].cancelled
    => t = window

\* A chain of follow-ups ends by itself: when users and normal replies leave
\* the group alone, at most Max follow-ups later no task is left.
Quiesces ==
  <>[][~Environment]_vars => <>[](\A t \in Task : task[t].phase = "free")

-----------------------------------------------------------------------------
(* Statements of the comments and tests that the code does not keep: TLC    *)
(* finds each of them violated (README, Disagreements).                     *)

\* on_user_message's comment "重置短期窗口定时器" (reset the short window timer):
\* of the short window timers only the last one started may still fire.
OneShortTimer ==
  \A t, u \in Task : Ready(t, "short", "sleeping") /\ Ready(u, "short", "sleeping") => t = u

\* The class's life cycle, "短期窗口到期 → LLM 判断": when a short window ends
\* with messages to judge, a decision about them is under way.
ShortWindowIsJudged ==
  [][\A t \in Task : ShortFires(t) => \E u \in Task : Deciding(u)' /\ task'[u].on = store]_vars

\* _followup_window_expired's comment: remove() instead of get(), because get()
\* would delete the expired expectation and the follow-up could not run.  So
\* messages still waiting when the window ends are not deleted unjudged.
MessagesOutliveWindow ==
  [][\A t \in Task : ShortFiresIdle(t) /\ ~closed /\ store # NoExp
       => exp[store].msgs = {} \/ store' = store]_vars
=============================================================================

------------------------ MODULE FollowUpPlannerProofs ------------------------
(***************************************************************************)
(* Proofs about FollowUpPlanner, for any number of expectations, tasks and *)
(* messages and any limit of follow-ups.                                   *)
(***************************************************************************)
EXTENDS FollowUpPlanner, TLAPS

TaskRec == [kind : {"short", "window"},
            phase : {"free", "created", "sleeping", "deciding", "replying"},
            on : Exp \cup {NoExp}, cancelled : BOOLEAN]

ExpRec == [count : 0..Max - 1, msgs : SUBSET Msg,
           expired : BOOLEAN, processing : BOOLEAN]

Armed(t) == task[t].phase \in {"created", "sleeping"} /\ ~task[t].cancelled

\* An expectation that is being decided or replied to is marked so.
DecidingIsMarked ==
  \A t \in Task : Deciding(t) => exp[task[t].on].processing

\* The registered window timer is one that will fire: whatever cancels it
\* takes it out of the register in the same step.
WindowEntry ==
  window # NoTask => task[window].kind = "window" /\ Armed(window)

\* The registered short timer is not a window timer, running or not.
ShortEntry == short # NoTask => task[short].kind = "short"

IInv ==
  /\ TypeOK
  /\ DecidingIsMarked
  /\ OneDecisionPerExpectation
  /\ WindowEntry
  /\ ShortEntry
  /\ WindowTimerTracked
  /\ TimeoutArmed

-----------------------------------------------------------------------------
(* Tasks that are cancelled or started *)

\* task.cancel() on the tasks of T changes their flag alone.
LEMMA CancellingTasks ==
  ASSUME TypeOK, NEW T
  PROVE  /\ Cancelling(T) \in [Task -> TaskRec]
         /\ \A t \in Task :
              /\ Cancelling(T)[t].kind = task[t].kind
              /\ Cancelling(T)[t].phase = task[t].phase
              /\ Cancelling(T)[t].on = task[t].on
              /\ Cancelling(T)[t].cancelled
                   <=> task[t].cancelled \/ (t \in T /\ task[t].phase # "free")
BY DEF Cancelling, TypeOK, TaskRec

\* A new task is of the right shape.
LEMMA NewTask ==
  ASSUME NEW kind \in {"short", "window"}, NEW e \in Exp \cup {NoExp}
  PROVE  /\ New(kind, e) \in TaskRec
         /\ New(kind, e).kind = kind /\ New(kind, e).phase = "created"
         /\ New(kind, e).on = e /\ ~New(kind, e).cancelled
BY DEF New, TaskRec

\* A new expectation counts from its place in the chain and is not marked.
LEMMA FreshExp ==
  ASSUME NEW count \in 0..Max - 1, NEW msgs \in SUBSET Msg
  PROVE  Fresh(count, msgs) \in ExpRec /\ ~Fresh(count, msgs).processing
BY DEF Fresh, ExpRec

-----------------------------------------------------------------------------
(* One lemma per operation *)

\* create_expectation: the old timers are cancelled, a new window timer covers
\* the new expectation.  The step may end a decision as well.
LEMMA CreateStep ==
  ASSUME IInv, NEW e \in Exp, NEW count \in 0..Max - 1,
         NEW tasks \in [Task -> TaskRec],
         \A u \in Task : tasks[u] = task[u] \/ (Deciding(u) /\ tasks[u] = Idle),
         Create(e, count, tasks), UNCHANGED closed
  PROVE  IInv'
<1> DEFINE stopped == [t \in Task |-> IF t \in {short, window} /\ tasks[t].phase # "free"
                                 THEN [tasks[t] EXCEPT !.cancelled = TRUE] ELSE tasks[t]]
<1>1. /\ stopped \in [Task -> TaskRec]
      /\ \A u \in Task : /\ stopped[u].kind = tasks[u].kind
                         /\ stopped[u].phase = tasks[u].phase
                         /\ stopped[u].on = tasks[u].on
                         /\ stopped[u].cancelled
                              <=> \/ tasks[u].cancelled
                                  \/ u \in {short, window} /\ tasks[u].phase # "free"
  BY DEF TaskRec
<1>2. /\ UnusedExp(e) /\ store' = e /\ short' = NoTask
      /\ exp' = [exp EXCEPT ![e] = Fresh(count, {})]
      /\ \/ closed /\ window' = NoTask /\ task' = stopped
         \/ ~closed /\ \E w \in Task : /\ Unused(w) /\ window' = w
                            /\ task' = [stopped EXCEPT ![w] = New("window", e)]
  BY DEF Create
<1> HIDE DEF stopped
<1>3. /\ exp' \in [Exp -> ExpRec] /\ ~exp'[e].processing
      /\ \A x \in Exp : x # e => exp'[x] = exp[x]
  BY <1>2, FreshExp DEF IInv, TypeOK, ExpRec
<1>4. \A u \in Task : Deciding(u) => task[u].on \in Exp /\ task[u].on # e
  BY <1>2 DEF UnusedExp, Deciding, IInv, TypeOK
<1>5. CASE closed /\ window' = NoTask /\ task' = stopped
  <2>1. TypeOK'
    BY <1>1, <1>2, <1>3, <1>4, <1>5 DEF TypeOK, TaskRec, ExpRec, IInv, Deciding, Idle
  <2>2. DecidingIsMarked' /\ OneDecisionPerExpectation'
    BY <1>1, <1>3, <1>4, <1>5
    DEF DecidingIsMarked, OneDecisionPerExpectation, Deciding, IInv, Idle
  <2>3. WindowEntry' /\ ShortEntry' /\ TimeoutArmed'
    BY <1>2, <1>5 DEF WindowEntry, ShortEntry, TimeoutArmed
  <2>4. WindowTimerTracked'
    BY <1>1, <1>5 DEF WindowTimerTracked, IInv, Deciding, Idle
  <2>5. QED
    BY <2>1, <2>2, <2>3, <2>4 DEF IInv
<1>6. ASSUME NEW w \in Task, ~closed, Unused(w), window' = w,
             task' = [stopped EXCEPT ![w] = New("window", e)]
      PROVE  IInv'
  <2>1. /\ task'[w] \in TaskRec
        /\ task'[w].kind = "window" /\ task'[w].phase = "created"
        /\ task'[w].on = e /\ ~task'[w].cancelled
        /\ \A u \in Task : u # w => task'[u] = stopped[u]
        /\ task' \in [Task -> TaskRec]
    BY <1>1, <1>6, NewTask
  <2>2. TypeOK'
    BY <1>1, <1>2, <1>3, <1>4, <1>6, <2>1 DEF TypeOK, TaskRec, ExpRec, IInv, Deciding, Idle
  <2>3. DecidingIsMarked' /\ OneDecisionPerExpectation'
    BY <1>1, <1>3, <1>4, <2>1
    DEF DecidingIsMarked, OneDecisionPerExpectation, Deciding, IInv, Idle
  <2>4. WindowEntry' /\ ShortEntry' /\ TimeoutArmed'
    BY <1>2, <1>6, <2>1, ConstantsAssumption
    DEF WindowEntry, ShortEntry, TimeoutArmed, Armed
  <2>5. WindowTimerTracked'
    BY <1>1, <1>6, <2>1 DEF WindowTimerTracked, IInv, Deciding, Idle
  <2>6. QED
    BY <2>2, <2>3, <2>4, <2>5 DEF IInv
<1>7. QED
  BY <1>2, <1>5, <1>6

\* notify_bot_reply: the old timers are cancelled, a new window timer covers the
\* new expectation, and a short timer the messages it takes over.
LEMMA NotifyStep ==
  ASSUME IInv, NEW e \in Exp, NotifyBotReply(e)
  PROVE  IInv'
<1> DEFINE stopped == Cancelling({short, window})
<1>1. /\ stopped \in [Task -> TaskRec]
      /\ \A u \in Task : /\ stopped[u].kind = task[u].kind
                         /\ stopped[u].phase = task[u].phase
                         /\ stopped[u].on = task[u].on
                         /\ stopped[u].cancelled
                              <=> \/ task[u].cancelled
                                  \/ u \in {short, window} /\ task[u].phase # "free"
  BY CancellingTasks DEF IInv
<1>2. PICK w \in Task, s \in Task :
        /\ Unused(w) /\ window' = w
        /\ \/ short' = NoTask /\ task' = [stopped EXCEPT ![w] = New("window", e)]
           \/ /\ s # w /\ Unused(s) /\ short' = s
              /\ task' = [stopped EXCEPT ![w] = New("window", e), ![s] = New("short", NoExp)]
  BY DEF NotifyBotReply
<1>3. /\ UnusedExp(e) /\ store' = e /\ UNCHANGED closed
      /\ exp' = [exp EXCEPT ![e] = Fresh(0, Messages)]
  BY DEF NotifyBotReply
<1> HIDE DEF stopped
<1>4. Messages \in SUBSET Msg /\ 0 \in 0..Max - 1
  BY ConstantsAssumption DEF Messages, Active, IInv, TypeOK
<1>5. /\ exp' \in [Exp -> ExpRec] /\ ~exp'[e].processing
      /\ \A x \in Exp : x # e => exp'[x] = exp[x]
  BY <1>3, <1>4, FreshExp DEF IInv, TypeOK, ExpRec
<1>6. \A u \in Task : Deciding(u) => task[u].on \in Exp /\ task[u].on # e
  BY <1>3 DEF UnusedExp, Deciding, IInv, TypeOK
<1>7. /\ task' \in [Task -> TaskRec]
      /\ task'[w].kind = "window" /\ task'[w].phase = "created"
      /\ task'[w].on = e /\ ~task'[w].cancelled
      /\ \A u \in Task \ {w} : \/ task'[u] = stopped[u]
                                \/ /\ u = short' /\ u = s
                                   /\ task'[u].kind = "short" /\ task'[u].phase = "created"
      /\ short' = NoTask \/ (short' = s /\ task'[s].kind = "short")
  <2> DEFINE nw == New("window", e)
             ns == New("short", NoExp)
  <2>1. /\ nw \in TaskRec /\ nw.kind = "window" /\ nw.phase = "created"
        /\ nw.on = e /\ ~nw.cancelled
        /\ ns \in TaskRec /\ ns.kind = "short" /\ ns.phase = "created"
    BY NewTask
  <2>2. \/ short' = NoTask /\ task' = [stopped EXCEPT ![w] = nw]
        \/ s # w /\ short' = s /\ task' = [stopped EXCEPT ![w] = nw, ![s] = ns]
    BY <1>2
  <2> HIDE DEF nw, ns
  <2>3. CASE short' = NoTask /\ task' = [stopped EXCEPT ![w] = nw]
    BY <1>1, <2>1, <2>3
  <2>4. CASE s # w /\ short' = s /\ task' = [stopped EXCEPT ![w] = nw, ![s] = ns]
    BY <1>1, <2>1, <2>4
  <2>5. QED
    BY <2>2, <2>3, <2>4
<1>8. TypeOK'
  <2>1. \A u \in Task : Deciding(u)' => task'[u].on \in Exp
    BY <1>1, <1>6, <1>7 DEF Deciding
  <2>2. QED
    BY <2>1, <1>2, <1>3, <1>5, <1>7 DEF TypeOK, TaskRec, ExpRec, IInv
<1>9. DecidingIsMarked' /\ OneDecisionPerExpectation'
  BY <1>1, <1>5, <1>6, <1>7
  DEF DecidingIsMarked, OneDecisionPerExpectation, Deciding, IInv
<1>10. WindowEntry' /\ ShortEntry' /\ TimeoutArmed'
  BY <1>2, <1>3, <1>7, ConstantsAssumption
  DEF WindowEntry, ShortEntry, TimeoutArmed, Armed
<1>11. WindowTimerTracked'
  BY <1>1, <1>2, <1>7 DEF WindowTimerTracked, IInv
<1>12. QED
  BY <1>8, <1>9, <1>10, <1>11 DEF IInv

\* Steps that empty the store, or leave store, window and the marks as they
\* are, and touch no task but to cancel it or to end it: clear_expectation, a
\* lookup at the end of the window, close, the ends of decisions.
LEMMA EndingStep ==
  ASSUME IInv, TypeOK',
         \A u \in Task : \/ task'[u].phase = "free"
                         \/ /\ task'[u].kind = task[u].kind
                            /\ task'[u].phase = task[u].phase
                            /\ task'[u].on = task[u].on
                            /\ task[u].cancelled => task'[u].cancelled,
         \A x \in Exp : (exp'[x].processing <=> exp[x].processing),
         closed => closed',
         store' = NoExp \/ (store' = store /\ window' = window),
         \/ window' = window /\ (window # NoTask => task'[window] = task[window])
         \/ window' = NoTask /\ (window # NoTask => task'[window].cancelled),
         short' = NoTask \/ (short' = short /\ task'[short].kind = task[short].kind)
  PROVE  IInv'
<1>1. DecidingIsMarked' /\ OneDecisionPerExpectation'
  BY DEF DecidingIsMarked, OneDecisionPerExpectation, Deciding, IInv, TypeOK
<1>2. WindowEntry' /\ ShortEntry'
  BY DEF WindowEntry, ShortEntry, Armed, IInv
<1>3. WindowTimerTracked'
  BY DEF WindowTimerTracked, IInv, TypeOK
<1>4. TimeoutArmed'
  BY DEF TimeoutArmed, IInv, TypeOK
<1>5. QED
  BY <1>1, <1>2, <1>3, <1>4 DEF IInv

\* on_user_message: the message is added, the short timer is started afresh and
\* the window timer left alone.
LEMMA UserMessageStep ==
  ASSUME IInv, NEW m \in Msg, UserMessage(m)
  PROVE  IInv'
<1> DEFINE stopped == Cancelling({short})
<1>1. /\ stopped \in [Task -> TaskRec]
      /\ \A u \in Task : /\ stopped[u].kind = task[u].kind
                         /\ stopped[u].phase = task[u].phase
                         /\ stopped[u].on = task[u].on
                         /\ stopped[u].cancelled
                              <=> task[u].cancelled \/ (u = short /\ task[u].phase # "free")
  BY CancellingTasks DEF IInv
<1>2. /\ store \in Exp /\ UNCHANGED <<store, window, closed>>
      /\ exp' = [exp EXCEPT ![store].msgs = @ \cup {m}]
  BY DEF UserMessage, Active, IInv, TypeOK
<1>3. \/ short' = NoTask /\ task' = stopped
      \/ \E s \in Task, cut \in {NoExp, store} :
           Unused(s) /\ short' = s /\ task' = [stopped EXCEPT ![s] = New("short", cut)]
  BY DEF UserMessage
<1> HIDE DEF stopped
<1>4. /\ exp' \in [Exp -> ExpRec]
      /\ \A x \in Exp : exp'[x].processing <=> exp[x].processing
  BY <1>2 DEF IInv, TypeOK, ExpRec
<1>5. /\ task' \in [Task -> TaskRec]
      /\ \A u \in Task : \/ task'[u] = stopped[u]
                          \/ /\ Unused(u) /\ short' = u
                             /\ task'[u].kind = "short" /\ task'[u].phase = "created"
      /\ short' = NoTask \/ (short' \in Task /\ task'[short'].kind = "short")
  <2>1. CASE short' = NoTask /\ task' = stopped
    BY <1>1, <2>1
  <2>2. CASE \E s \in Task, cut \in {NoExp, store} :
               Unused(s) /\ short' = s /\ task' = [stopped EXCEPT ![s] = New("short", cut)]
    <3>1. PICK s \in Task, cut \in Exp \cup {NoExp} :
            Unused(s) /\ short' = s /\ task' = [stopped EXCEPT ![s] = New("short", cut)]
      BY <1>2, <2>2
    <3> DEFINE ns == New("short", cut)
    <3>2. ns \in TaskRec /\ ns.kind = "short" /\ ns.phase = "created"
      BY NewTask
    <3>3. task' = [stopped EXCEPT ![s] = ns]
      BY <3>1
    <3> HIDE DEF ns
    <3>4. QED
      BY <1>1, <3>1, <3>2, <3>3
  <2>3. QED
    BY <1>3, <2>1, <2>2
<1>6. TypeOK'
  <2>1. \A u \in Task : Deciding(u)' => task'[u].on \in Exp
    BY <1>1, <1>5 DEF Deciding, IInv, TypeOK
  <2>2. QED
    BY <2>1, <1>2, <1>4, <1>5 DEF Deciding, TypeOK, TaskRec, ExpRec, IInv
<1>7. DecidingIsMarked' /\ OneDecisionPerExpectation'
  <2>1. \A u \in Task : Deciding(u)' => /\ Deciding(u) /\ task'[u].on = task[u].on
                                         /\ task[u].on \in Exp
    BY <1>1, <1>5 DEF Deciding, IInv, TypeOK
  <2>2. QED
    BY <1>4, <2>1 DEF DecidingIsMarked, OneDecisionPerExpectation, IInv
<1>8. ASSUME window # NoTask
      PROVE  /\ window # short /\ task'[window] = stopped[window]
             /\ stopped[window].cancelled <=> task[window].cancelled
  BY <1>1, <1>5, <1>8 DEF WindowEntry, ShortEntry, Armed, Unused, IInv, TypeOK
<1>9. WindowEntry' /\ ShortEntry'
  BY <1>1, <1>2, <1>5, <1>8 DEF WindowEntry, ShortEntry, Armed, IInv, TypeOK
<1>10. WindowTimerTracked'
  BY <1>1, <1>2, <1>5 DEF WindowTimerTracked, IInv
<1>11. TimeoutArmed'
  BY <1>1, <1>2, <1>4, <1>5, <1>8 DEF TimeoutArmed, WindowEntry, Armed, IInv, TypeOK
<1>12. QED
  BY <1>6, <1>7, <1>9, <1>10, <1>11 DEF IInv

\* The short timer fires: it marks the expectation and decides about it, or it
\* finds it marked; either way it cancels the window timer and strikes it out.
LEMMA ShortFiresStep ==
  ASSUME IInv, NEW t \in Task, ShortFires(t)
  PROVE  IInv'
<1> DEFINE stopped == Cancelling({window})
<1>1. /\ stopped \in [Task -> TaskRec]
      /\ \A u \in Task : /\ stopped[u].kind = task[u].kind
                         /\ stopped[u].phase = task[u].phase
                         /\ stopped[u].on = task[u].on
                         /\ stopped[u].cancelled
                              <=> task[u].cancelled \/ (u = window /\ task[u].phase # "free")
  BY CancellingTasks DEF IInv
<1>2. /\ store \in Exp /\ window' = NoTask /\ UNCHANGED <<store, closed>>
      /\ task[t].kind = "short" /\ task[t].phase = "sleeping"
  BY DEF ShortFires, Ready, Messages, Active, IInv, TypeOK
<1>3. CASE exp[store].processing
  <2>1. task' = [stopped EXCEPT ![t] = Idle] /\ short' = NoTask /\ exp' = exp
    BY <1>3 DEF ShortFires
  <2> HIDE DEF stopped
  <2>2. /\ task' \in [Task -> TaskRec]
        /\ task'[t].phase = "free"
        /\ \A u \in Task \ {t} : task'[u] = stopped[u]
    BY <1>1, <2>1 DEF Idle, TaskRec
  <2>3. TypeOK'
    BY <1>1, <1>2, <2>1, <2>2 DEF TypeOK, TaskRec, Deciding, IInv
  <2>4. DecidingIsMarked' /\ OneDecisionPerExpectation'
    BY <1>1, <2>1, <2>2 DEF DecidingIsMarked, OneDecisionPerExpectation, Deciding, IInv
  <2>5. WindowEntry' /\ ShortEntry' /\ TimeoutArmed'
    BY <1>2, <1>3, <2>1 DEF WindowEntry, ShortEntry, TimeoutArmed
  <2>6. WindowTimerTracked'
    BY <1>1, <2>2 DEF WindowTimerTracked, IInv
  <2>7. QED
    BY <2>3, <2>4, <2>5, <2>6 DEF IInv
<1>4. CASE ~exp[store].processing
  <2>1. /\ task' = [stopped EXCEPT ![t].phase = "deciding", ![t].on = store]
        /\ exp' = [exp EXCEPT ![store].processing = TRUE]
        /\ UNCHANGED short
    BY <1>4 DEF ShortFires
  <2> HIDE DEF stopped
  <2>2. /\ task' \in [Task -> TaskRec]
        /\ task'[t].phase = "deciding" /\ task'[t].on = store /\ task'[t].kind = "short"
        /\ \A u \in Task \ {t} : task'[u] = stopped[u]
    <3> DEFINE decided == [stopped[t] EXCEPT !.phase = "deciding", !.on = store]
    <3>1. /\ decided \in TaskRec
          /\ decided.phase = "deciding" /\ decided.on = store /\ decided.kind = "short"
      BY <1>1, <1>2 DEF TaskRec
    <3>2. task' = [stopped EXCEPT ![t] = decided]
      BY <1>1, <2>1 DEF TaskRec
    <3> HIDE DEF decided
    <3>3. QED
      BY <1>1, <3>1, <3>2
  <2>3. /\ exp' \in [Exp -> ExpRec] /\ exp'[store].processing
        /\ \A x \in Exp : exp[x].processing => exp'[x].processing
    BY <1>2, <2>1 DEF IInv, TypeOK, ExpRec
  <2>4. TypeOK'
    <3>1. \A u \in Task : Deciding(u)' => task'[u].on \in Exp
      BY <1>1, <1>2, <2>2 DEF Deciding, IInv, TypeOK
    <3>2. QED
      BY <3>1, <1>2, <2>1, <2>2, <2>3 DEF TypeOK, TaskRec, ExpRec, Deciding, IInv
  <2>5. \A u \in Task : Deciding(u) => task[u].on # store
    BY <1>4 DEF DecidingIsMarked, IInv
  <2>6. DecidingIsMarked' /\ OneDecisionPerExpectation'
    BY <1>1, <2>2, <2>3, <2>5
    DEF DecidingIsMarked, OneDecisionPerExpectation, Deciding, IInv, TypeOK
  <2>7. WindowEntry' /\ ShortEntry' /\ TimeoutArmed'
    BY <1>1, <1>2, <2>1, <2>2, <2>3 DEF WindowEntry, ShortEntry, TimeoutArmed, IInv, TypeOK
  <2>8. WindowTimerTracked'
    BY <1>1, <2>2 DEF WindowTimerTracked, IInv
  <2>9. QED
    BY <2>4, <2>6, <2>7, <2>8 DEF IInv
<1>5. QED
  BY <1>3, <1>4

\* The window timer fires: it empties the store, and the expectation it took
\* out is decided about unless there is nothing to say or it is marked.
LEMMA WindowFiresStep ==
  ASSUME IInv, NEW t \in Task, WindowFires(t)
  PROVE  IInv'
<1> DEFINE tasks == IF store = NoExp THEN task ELSE Cancelling({short})
<1>1. /\ tasks \in [Task -> TaskRec]
      /\ \A u \in Task : /\ tasks[u].kind = task[u].kind
                         /\ tasks[u].phase = task[u].phase
                         /\ tasks[u].on = task[u].on
                         /\ task[u].cancelled => tasks[u].cancelled
  BY CancellingTasks DEF IInv, TypeOK, TaskRec
<1>2. /\ window' = NoTask /\ store' = NoExp /\ UNCHANGED closed
      /\ short' = NoTask \/ short' = short
      /\ task[t].kind = "window" /\ task[t].phase = "sleeping" /\ ~task[t].cancelled
  BY DEF WindowFires, Ready
<1>3. t = window /\ t # short
  BY <1>2, ConstantsAssumption DEF IInv, WindowTimerTracked, ShortEntry, TypeOK
<1>4. \/ /\ store \in Exp /\ ~exp[store].processing
         /\ exp' = [exp EXCEPT ![store].processing = TRUE]
         /\ task' = [tasks EXCEPT ![t].phase = "deciding", ![t].on = store]
      \/ exp' = exp /\ task' = [tasks EXCEPT ![t] = Idle]
  BY DEF WindowFires, IInv, TypeOK
<1> HIDE DEF tasks
<1>5. /\ task' \in [Task -> TaskRec]
      /\ \A u \in Task \ {t} : task'[u] = tasks[u]
      /\ \/ /\ task'[t].phase = "deciding" /\ task'[t].on = store
            /\ store \in Exp /\ ~exp[store].processing
            /\ exp' = [exp EXCEPT ![store].processing = TRUE]
         \/ task'[t].phase = "free" /\ exp' = exp
  <2>1. CASE /\ store \in Exp /\ ~exp[store].processing
             /\ exp' = [exp EXCEPT ![store].processing = TRUE]
             /\ task' = [tasks EXCEPT ![t].phase = "deciding", ![t].on = store]
    <3> DEFINE decided == [tasks[t] EXCEPT !.phase = "deciding", !.on = store]
    <3>1. decided \in TaskRec /\ decided.phase = "deciding" /\ decided.on = store
      BY <1>1, <2>1 DEF TaskRec
    <3>2. task' = [tasks EXCEPT ![t] = decided]
      BY <1>1, <2>1 DEF TaskRec
    <3> HIDE DEF decided
    <3>3. QED
      BY <1>1, <2>1, <3>1, <3>2
  <2>2. CASE exp' = exp /\ task' = [tasks EXCEPT ![t] = Idle]
    BY <1>1, <2>2 DEF Idle, TaskRec
  <2>3. QED
    BY <1>4, <2>1, <2>2
<1>6. /\ exp' \in [Exp -> ExpRec]
      /\ task'[t].phase = "deciding" => exp'[store].processing
      /\ \A x \in Exp : exp[x].processing => exp'[x].processing
  <2>1. exp \in [Exp -> ExpRec]
    BY DEF IInv, TypeOK, ExpRec
  <2>2. CASE store \in Exp /\ exp' = [exp EXCEPT ![store].processing = TRUE]
    BY <2>1, <2>2 DEF ExpRec
  <2>3. CASE task'[t].phase = "free" /\ exp' = exp
    BY <2>1, <2>3
  <2>4. QED
    BY <1>5, <2>2, <2>3
<1>7. TypeOK'
  <2>1. \A u \in Task : Deciding(u)' => task'[u].on \in Exp
    BY <1>1, <1>5 DEF Deciding, IInv, TypeOK
  <2>2. QED
    BY <2>1, <1>2, <1>5, <1>6 DEF TypeOK, TaskRec, ExpRec, Deciding, IInv
<1>8. task'[t].phase = "deciding" =>
        \A u \in Task : Deciding(u) => task[u].on # store
  BY <1>5, <1>6 DEF DecidingIsMarked, IInv, TypeOK
<1>9. DecidingIsMarked' /\ OneDecisionPerExpectation'
  BY <1>1, <1>5, <1>6, <1>8
  DEF DecidingIsMarked, OneDecisionPerExpectation, Deciding, IInv, TypeOK
<1>10. WindowEntry' /\ TimeoutArmed'
  BY <1>2 DEF WindowEntry, TimeoutArmed
<1>11. ShortEntry'
  BY <1>1, <1>2, <1>3, <1>5 DEF ShortEntry, IInv, TypeOK
<1>12. WindowTimerTracked'
  BY <1>1, <1>3, <1>5 DEF WindowTimerTracked, IInv
<1>13. QED
  BY <1>7, <1>9, <1>10, <1>11, <1>12 DEF IInv

\* A task that only moves on to its next await: a coroutine's first run, or
\* a decision that turns into a reply.
LEMMA MoveStep ==
  ASSUME IInv, NEW t \in Task, NEW phase \in {"sleeping", "replying"},
         task' = [task EXCEPT ![t].phase = phase],
         \/ phase = "sleeping" /\ task[t].phase = "created"
         \/ phase = "replying" /\ task[t].phase = "deciding",
         UNCHANGED <<store, exp, short, window, closed>>
  PROVE  IInv'
<1> DEFINE moved == [task[t] EXCEPT !.phase = phase]
<1>1. /\ moved \in TaskRec
      /\ moved.kind = task[t].kind /\ moved.phase = phase
      /\ moved.on = task[t].on /\ (moved.cancelled <=> task[t].cancelled)
      /\ task' = [task EXCEPT ![t] = moved]
  BY DEF IInv, TypeOK, TaskRec
<1> HIDE DEF moved
<1>2. /\ task' \in [Task -> TaskRec]
      /\ \A u \in Task :
           /\ task'[u].kind = task[u].kind /\ task'[u].on = task[u].on
           /\ task'[u].cancelled <=> task[u].cancelled
           /\ \/ task'[u].phase = task[u].phase
              \/ task'[u].phase = "sleeping" /\ task[u].phase = "created"
              \/ task'[u].phase = "replying" /\ task[u].phase = "deciding"
  BY <1>1 DEF IInv, TypeOK, TaskRec
<1>3. TypeOK'
  <2>1. \A u \in Task : Deciding(u)' => task'[u].on \in Exp
    BY <1>2 DEF Deciding, IInv, TypeOK
  <2>2. QED
    BY <2>1, <1>2 DEF TypeOK, TaskRec, Deciding, IInv
<1>4. DecidingIsMarked' /\ OneDecisionPerExpectation'
  BY <1>2 DEF DecidingIsMarked, OneDecisionPerExpectation, Deciding, IInv
<1>5. WindowEntry' /\ ShortEntry' /\ WindowTimerTracked'
  BY <1>2 DEF WindowEntry, ShortEntry, WindowTimerTracked, Armed, IInv, TypeOK
<1>6. TimeoutArmed'
  BY <1>2 DEF TimeoutArmed, IInv, TypeOK
<1>7. QED
  BY <1>3, <1>4, <1>5, <1>6 DEF IInv

\* The operations that end an expectation are ending steps.
LEMMA OperationEnds ==
  ASSUME IInv, ClearExpectation \/ LookUpExpired \/ MessageAtWindowEnd \/ Close
  PROVE  IInv'
<1>1. \/ exp' = exp
      \/ store \in Exp /\ exp' = [exp EXCEPT ![store].expired = TRUE]
  BY DEF ClearExpectation, LookUpExpired, MessageAtWindowEnd, Close, Active, IInv, TypeOK
<1>2. /\ exp' \in [Exp -> ExpRec]
      /\ \A x \in Exp : (exp'[x].processing <=> exp[x].processing)
  <2>1. exp \in [Exp -> ExpRec]
    BY DEF IInv, TypeOK, ExpRec
  <2>2. CASE store \in Exp /\ exp' = [exp EXCEPT ![store].expired = TRUE]
    BY <2>1, <2>2 DEF ExpRec
  <2>3. QED
    BY <1>1, <2>1, <2>2
<1>3. /\ store' = NoExp
      /\ short' = NoTask \/ (short' = short /\ task' = task)
      /\ closed' \in BOOLEAN /\ (closed => closed')
      /\ \/ window' = NoTask /\ task' = Cancelling({short, window})
         \/ window' = window /\ task' = Cancelling({short})
         \/ window' = window /\ task' = task
  <2>1. CASE ClearExpectation
    BY <2>1 DEF ClearExpectation, IInv, TypeOK
  <2>2. CASE LookUpExpired
    BY <2>2 DEF LookUpExpired, IInv, TypeOK
  <2>3. CASE MessageAtWindowEnd
    BY <2>3 DEF MessageAtWindowEnd, IInv, TypeOK
  <2>4. CASE Close
    BY <2>4 DEF Close, IInv, TypeOK
  <2>5. QED
    BY <2>1, <2>2, <2>3, <2>4
<1>4. /\ task' \in [Task -> TaskRec]
      /\ \A u \in Task : /\ task'[u].kind = task[u].kind
                         /\ task'[u].phase = task[u].phase
                         /\ task'[u].on = task[u].on
                         /\ task[u].cancelled => task'[u].cancelled
  BY <1>3, CancellingTasks DEF IInv, TypeOK, TaskRec
<1>5. \/ window' = window /\ (window # NoTask => task'[window] = task[window])
      \/ window' = NoTask /\ (window # NoTask => task'[window].cancelled)
  <2>1. CASE window' = NoTask /\ task' = Cancelling({short, window})
    BY <2>1, CancellingTasks DEF IInv, WindowEntry, Armed, TypeOK
  <2>2. CASE window' = window /\ task' = Cancelling({short})
    BY <2>2 DEF Cancelling, IInv, WindowEntry, ShortEntry, TypeOK
  <2>3. CASE window' = window /\ task' = task
    BY <2>3
  <2>4. QED
    BY <1>3, <2>1, <2>2, <2>3
<1>6. TypeOK'
  <2>1. \A u \in Task : Deciding(u)' => task'[u].on \in Exp
    BY <1>4 DEF Deciding, IInv, TypeOK
  <2>2. QED
    BY <2>1, <1>2, <1>3, <1>4 DEF TypeOK, TaskRec, ExpRec, Deciding, IInv
<1>7. QED
  BY <1>2, <1>3, <1>4, <1>5, <1>6, EndingStep

\* The steps that end a task, without a new expectation, are ending steps.
LEMMA TaskEnds ==
  ASSUME IInv, NEW t \in Task,
         ShortFiresIdle(t) \/ DecidesNo(t) \/ ReplyEnds(t) \/ CancelDelivered(t)
  PROVE  IInv'
<1>1. /\ UNCHANGED <<exp, window, closed>>
      /\ store' = NoExp \/ store' = store
      /\ short' = NoTask \/ short' = short
      /\ task' = [task EXCEPT ![t] = Idle]
  BY DEF ShortFiresIdle, DecidesNo, ReplyEnds, CancelDelivered, AfterEnd
<1>2. /\ task' \in [Task -> TaskRec]
      /\ task'[t].phase = "free" /\ task'[t].kind = "short"
      /\ \A u \in Task \ {t} : task'[u] = task[u]
  BY <1>1 DEF Idle, IInv, TypeOK, TaskRec
<1>3. t # window
  BY ConstantsAssumption
  DEF ShortFiresIdle, DecidesNo, ReplyEnds, CancelDelivered, Ready,
      WindowEntry, Armed, IInv, TypeOK
<1>4. window' = window /\ (window # NoTask => task'[window] = task[window])
  BY <1>1, <1>2, <1>3 DEF IInv, TypeOK
<1>5. short' = NoTask \/ (short' = short /\ task'[short].kind = task[short].kind)
  BY <1>1, <1>2 DEF ShortEntry, IInv, TypeOK
<1>6. TypeOK'
  <2>1. \A u \in Task : Deciding(u)' => task'[u].on \in Exp
    BY <1>2 DEF Deciding, IInv, TypeOK
  <2>2. QED
    BY <2>1, <1>1, <1>2 DEF TypeOK, TaskRec, Deciding, IInv
<1>7. \A u \in Task : \/ task'[u].phase = "free"
                      \/ /\ task'[u].kind = task[u].kind
                         /\ task'[u].phase = task[u].phase
                         /\ task'[u].on = task[u].on
                         /\ task[u].cancelled => task'[u].cancelled
  BY <1>2
<1>8. QED
  BY <1>1, <1>4, <1>5, <1>6, <1>7, EndingStep

\* A sent follow-up ends its task and creates the next expectation.
LEMMA ReplySentStep ==
  ASSUME IInv, NEW t \in Task, NEW e \in Exp, ReplySent(t, e)
  PROVE  IInv'
<1> DEFINE count == exp[task[t].on].count + 1
           tasks == [task EXCEPT ![t] = Idle]
<1>1. /\ Create(e, count, tasks) /\ UNCHANGED closed
      /\ Deciding(t) /\ count < Max
  BY DEF ReplySent, Deciding
<1>2. count \in 0..Max - 1
  BY <1>1, ConstantsAssumption DEF IInv, TypeOK
<1>3. /\ tasks \in [Task -> TaskRec]
      /\ \A u \in Task : tasks[u] = task[u] \/ (Deciding(u) /\ tasks[u] = Idle)
  BY <1>1 DEF Idle, IInv, TypeOK, TaskRec
<1> HIDE DEF count, tasks
<1>4. QED
  BY <1>1, <1>2, <1>3, CreateStep

\* The end of the window is seen by the tasks, and changes nothing else.
LEMMA WindowEndsStep ==
  ASSUME IInv, NEW e \in Exp, WindowEnds(e)
  PROVE  IInv'
<1>1. /\ exp' \in [Exp -> ExpRec]
      /\ \A x \in Exp : (exp'[x].processing <=> exp[x].processing)
      /\ UNCHANGED <<store, short, window, task, closed>>
  BY DEF WindowEnds, IInv, TypeOK, ExpRec
<1>2. TypeOK'
  BY <1>1 DEF TypeOK, ExpRec, Deciding, IInv
<1>3. QED
  BY <1>1, <1>2, EndingStep DEF IInv, TypeOK

-----------------------------------------------------------------------------

\* A new expectation after a proactive reply counts from zero.
LEMMA CreateExpectationStep ==
  ASSUME IInv, NEW e \in Exp, CreateExpectation(e)
  PROVE  IInv'
<1>1. Create(e, 0, task) /\ UNCHANGED closed /\ 0 \in 0..Max - 1
  BY ConstantsAssumption DEF CreateExpectation
<1>2. task \in [Task -> TaskRec]
  BY DEF IInv, TypeOK, TaskRec
<1>3. QED
  BY <1>1, <1>2, CreateStep

\* Every step of a timer's task keeps the invariant.
LEMMA TaskStepInv ==
  ASSUME IInv, NEW t \in Task, TaskStep(t)
  PROVE  IInv'
<1>1. CASE Start(t)
  BY <1>1, MoveStep DEF Start
<1>2. CASE DecidesYes(t)
  BY <1>2, MoveStep DEF DecidesYes
<1>3. CASE ShortFires(t)
  BY <1>3, ShortFiresStep
<1>4. CASE WindowFires(t)
  BY <1>4, WindowFiresStep
<1>5. CASE ShortFiresIdle(t) \/ DecidesNo(t) \/ ReplyEnds(t) \/ CancelDelivered(t)
  BY <1>5, TaskEnds
<1>6. ASSUME NEW e \in Exp, ReplySent(t, e)
      PROVE  IInv'
  BY <1>6, ReplySentStep
<1>7. QED
  BY <1>1, <1>2, <1>3, <1>4, <1>5, <1>6 DEF TaskStep

\* Every step keeps the invariant.
LEMMA StepInv == IInv /\ [Next]_vars => IInv'
<1> SUFFICES ASSUME IInv, [Next]_vars PROVE IInv'
  OBVIOUS
<1>1. ASSUME NEW t \in Task, TaskStep(t)
      PROVE  IInv'
  BY <1>1, TaskStepInv
<1>2. ASSUME NEW e \in Exp, WindowEnds(e)
      PROVE  IInv'
  BY <1>2, WindowEndsStep
<1>3. ASSUME NEW e \in Exp, CreateExpectation(e)
      PROVE  IInv'
  BY <1>3, CreateExpectationStep
<1>4. ASSUME NEW e \in Exp, NotifyBotReply(e)
      PROVE  IInv'
  BY <1>4, NotifyStep
<1>5. ASSUME NEW m \in Msg, UserMessage(m)
      PROVE  IInv'
  BY <1>5, UserMessageStep
<1>6. CASE ClearExpectation \/ LookUpExpired \/ MessageAtWindowEnd \/ Close
  BY <1>6, OperationEnds
<1>7. CASE UNCHANGED vars
  BY <1>7 DEF vars, IInv, TypeOK, DecidingIsMarked, OneDecisionPerExpectation, Deciding,
             WindowEntry, ShortEntry, Armed, WindowTimerTracked, TimeoutArmed
<1>8. QED
  BY <1>1, <1>2, <1>3, <1>4, <1>5, <1>6, <1>7 DEF Next, Environment

\* The invariant holds in every reachable state.
LEMMA Inductive == Spec => []IInv
<1>1. Init => IInv
  <2> SUFFICES ASSUME Init PROVE IInv
    OBVIOUS
  <2>1. \A t \in Task : task[t] = Idle
    BY DEF Init
  <2>2. TypeOK
    <3>1. Fresh(0, {}) \in ExpRec /\ Idle \in TaskRec
      BY ConstantsAssumption, FreshExp DEF Idle, TaskRec
    <3>2. exp \in [Exp -> ExpRec] /\ task \in [Task -> TaskRec]
      BY <3>1 DEF Init
    <3>3. QED
      BY <2>1, <3>2 DEF Init, TypeOK, ExpRec, TaskRec, Deciding, Idle
  <2>3. DecidingIsMarked /\ OneDecisionPerExpectation /\ WindowTimerTracked
    BY <2>1 DEF DecidingIsMarked, OneDecisionPerExpectation, WindowTimerTracked, Deciding, Idle
  <2>4. WindowEntry /\ ShortEntry /\ TimeoutArmed
    BY DEF Init, WindowEntry, ShortEntry, TimeoutArmed
  <2>5. QED
    BY <2>2, <2>3, <2>4 DEF IInv
<1>2. QED
  BY <1>1, StepInv, PTL DEF Spec

\* Every variable stays in its type; so the count of a chain stays below its
\* limit.
THEOREM TypeCorrect == Spec => []TypeOK
<1>1. IInv => TypeOK
  BY DEF IInv
<1>2. QED
  BY <1>1, Inductive, PTL

\* However many timers, messages and cancellations interleave, the user is
\* never answered twice about one expectation at once.
THEOREM OneDecision == Spec => []OneDecisionPerExpectation
<1>1. IInv => OneDecisionPerExpectation
  BY DEF IInv
<1>2. QED
  BY <1>1, Inductive, PTL

\* An expectation nobody has begun to decide has a live window timer.
THEOREM TimeoutIsArmed == Spec => []TimeoutArmed
<1>1. IInv => TimeoutArmed
  BY DEF IInv
<1>2. QED
  BY <1>1, Inductive, PTL

\* No window timer escapes the register through which it is cancelled.
THEOREM TimerIsTracked == Spec => []WindowTimerTracked
<1>1. IInv => WindowTimerTracked
  BY DEF IInv
<1>2. QED
  BY <1>1, Inductive, PTL
=============================================================================

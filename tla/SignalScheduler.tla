--------------------------- MODULE SignalScheduler ---------------------------
(***************************************************************************)
(* SignalQueue and GroupScheduler (proactive/signal_queue.py,              *)
(* proactive/group_scheduler.py) for one group: messages leave weighted    *)
(* signals in the queue, and a timer task wakes up to add them up once the *)
(* group has been silent for a while.  Groups share nothing.               *)
(*                                                                         *)
(* Weights are in units of 1/200, so that halving one is exact.  The queue *)
(* is a set: of two signals of the least weight the code evicts the older, *)
(* here either may go.                                                     *)
(***************************************************************************)
EXTENDS Naturals, FiniteSets, FiniteSetsExt, FiniteSetTheorems, TLAPS

CONSTANTS
  Sig,          \* signals
  Weight,       \* [Sig -> 0..200]
  Session,      \* [Sig -> the user whose message it came from]
  MaxSignals,   \* signal_max_signals_per_group
  Direct,       \* signal_weight_direct_reply
  Confirm,      \* signal_weight_llm_confirm
  Hybrid        \* proactive_mode is "hybrid"

ASSUME ConstantsAssumption ==
  /\ Weight \in [Sig -> 0..200]
  /\ DOMAIN Session = Sig
  /\ MaxSignals \in Nat \ {0}
  /\ Direct \in 0..200 /\ Confirm \in 0..Direct
  /\ Hybrid \in BOOLEAN

VARIABLES
  queue,    \* the group's entry of _queues
  expired,  \* signals past their expires_at
  silence,  \* get_silence_duration against the two limits
  loop,     \* where the group's timer task stands
  batch,    \* the signals the current decision is about
  closed    \* GroupScheduler._closed

vars == <<queue, expired, silence, loop, batch, closed>>

-----------------------------------------------------------------------------

\* aggregate_weight: the greatest weight and half of every other.
AggregateWeight(S) ==
  IF S = {} THEN 0
  ELSE LET top == CHOOSE s \in S : \A r \in S : Weight[r] <= Weight[s]
           sum == Weight[top] + MapThenSumSet(LAMBDA s : Weight[s], S \ {top}) \div 2
       IN Min({200, sum})

TypeOK ==
  /\ queue \in SUBSET Sig
  /\ expired \in SUBSET Sig
  /\ silence \in {"active", "quiet", "dead"}
  /\ loop \in {"none", "sleeping", "confirming", "replying", "stopping"}
  /\ batch \in SUBSET Sig
  /\ closed \in BOOLEAN

Init ==
  /\ queue = {}
  /\ expired = {}
  /\ silence = "dead"      \* no message yet: an infinite silence
  /\ loop = "none"
  /\ batch = {}
  /\ closed = FALSE

\* Mutant: the limit is off by one.
Enqueue_OneMore(Q, s) ==
  IF Cardinality(Q) > MaxSignals
  THEN {(Q \ {r}) \cup {s} : r \in {q \in Q : \A x \in Q : Weight[q] <= Weight[x]}}
  ELSE {Q \cup {s}}

\* enqueue(s) on the queue Q.
Enqueue(Q, s) ==
  IF Cardinality(Q) >= MaxSignals
  THEN {(Q \ {r}) \cup {s} : r \in {q \in Q : \A x \in Q : Weight[q] <= Weight[x]}}
  ELSE {Q \cup {s}}

\* get_signals: what is left of Q without the expired signals.
Valid(Q) == Q \ expired

-----------------------------------------------------------------------------
(* What the rest of the plugin does to the queue *)

\* process_message once the signals are queued: the silence starts again and
\* the timer is made to run.
Heard ==
  /\ silence' = "active"
  /\ loop' = IF loop = "none" /\ ~closed THEN "sleeping" ELSE loop
  /\ UNCHANGED <<batch, closed>>

\* A message carries no signal, or one, or a rule match and a high emotion.
PlainMessage == Heard /\ UNCHANGED <<queue, expired>>

SignalMessage(s) ==
  /\ s \notin queue \cup batch
  /\ queue' \in Enqueue(queue, s)
  /\ expired' = expired \ {s}
  /\ Heard

TwoSignalMessage(s, r) ==
  /\ {s, r} \cap (queue \cup batch) = {}
  /\ s # r /\ Session[s] = Session[r]
  /\ \E Q \in Enqueue(queue, s) : queue' \in Enqueue(Q, r)
  /\ expired' = expired \ {s, r}
  /\ Heard

Message ==
  \/ PlainMessage
  \/ \E s \in Sig : SignalMessage(s)
  \/ \E s, r \in Sig : TwoSignalMessage(s, r)

\* Mutant: the users are kept, not their signals.
ClearSession_Users(u) ==
  /\ queue' = {Session[s] : s \in queue} \ {u}
  /\ UNCHANGED <<expired, silence, loop, batch, closed>>

\* clear_session, after a normal reply to the user u.
ClearSession(u) ==
  /\ queue' = {s \in queue : Session[s] # u}
  /\ UNCHANGED <<expired, silence, loop, batch, closed>>

\* clear_group, when a follow-up is about to be sent.
ClearGroup ==
  /\ queue' = {}
  /\ UNCHANGED <<expired, silence, loop, batch, closed>>

\* close() cancels the timer task and waits for it.
Close ==
  /\ ~closed
  /\ closed' = TRUE
  /\ loop' = IF loop = "none" THEN "none" ELSE "stopping"
  /\ UNCHANGED <<queue, expired, silence, batch>>

Stopped ==
  /\ loop = "stopping"
  /\ loop' = "none"
  /\ batch' = {}
  /\ UNCHANGED <<queue, expired, silence, closed>>

-----------------------------------------------------------------------------
(* Time *)

SilenceGrows ==
  /\ silence # "dead"
  /\ silence' = IF silence = "active" THEN "quiet" ELSE "dead"
  /\ UNCHANGED <<queue, expired, loop, batch, closed>>

Expires(s) ==
  /\ s \in queue \ expired
  /\ expired' = expired \cup {s}
  /\ UNCHANGED <<queue, silence, loop, batch, closed>>

-----------------------------------------------------------------------------
(* The timer task: each action is what it does between two awaits *)

\* Mutant: the timer ends without clearing the group.
SilenceTimeout_KeepsQueue ==
  /\ loop = "sleeping" /\ silence = "dead"
  /\ loop' = "none"
  /\ UNCHANGED <<queue, expired, silence, batch, closed>>

\* Mutant: the group is cleared and the timer goes on.
SilenceTimeout_Continues ==
  /\ loop = "sleeping" /\ silence = "dead"
  /\ queue' = {}
  /\ UNCHANGED <<expired, silence, loop, batch, closed>>

\* The group has been silent for too long: the timer ends.
SilenceTimeout ==
  /\ loop = "sleeping" /\ silence = "dead"
  /\ queue' = {}
  /\ loop' = "none"
  /\ UNCHANGED <<expired, silence, batch, closed>>

\* Expired signals go, and too little weight clears the rest.
NothingToSay ==
  LET weight == AggregateWeight(Valid(queue)) IN
  /\ loop = "sleeping" /\ silence = "quiet"
  /\ weight < Direct
  /\ ~(Hybrid /\ weight >= Confirm) \/ Valid(queue) = {}
  /\ queue' = {}
  /\ UNCHANGED <<expired, silence, loop, batch, closed>>

\* Enough weight: the group's signals are cleared and the reply callback runs.
DirectReply ==
  /\ loop = "sleeping" /\ silence = "quiet"
  /\ Valid(queue) # {}
  /\ AggregateWeight(Valid(queue)) >= Direct
  /\ queue' = {}
  /\ loop' = "replying"
  /\ batch' = Valid(queue)
  /\ UNCHANGED <<expired, silence, closed>>

\* In between, in hybrid mode, the LLM is asked first.
AskLLM ==
  /\ loop = "sleeping" /\ silence = "quiet"
  /\ Hybrid
  /\ Valid(queue) # {}
  /\ AggregateWeight(Valid(queue)) \in Confirm..(Direct - 1)
  /\ queue' = Valid(queue)
  /\ loop' = "confirming"
  /\ batch' = Valid(queue)
  /\ UNCHANGED <<expired, silence, closed>>

\* The LLM agrees (_execute_reply) or declines; either way clear_group.
LLMConfirms(agrees) ==
  /\ loop = "confirming"
  /\ queue' = {}
  /\ loop' = IF agrees THEN "replying" ELSE "sleeping"
  /\ batch' = IF agrees THEN batch ELSE {}
  /\ UNCHANGED <<expired, silence, closed>>

\* The reply callback returns, whether it has sent, refused or failed.
ReplyDone ==
  /\ loop = "replying"
  /\ loop' = IF closed THEN "none" ELSE "sleeping"
  /\ batch' = {}
  /\ UNCHANGED <<queue, expired, silence, closed>>

-----------------------------------------------------------------------------

TimerStep ==
  \/ SilenceTimeout \/ NothingToSay \/ DirectReply \/ AskLLM
  \/ (\E agrees \in BOOLEAN : LLMConfirms(agrees)) \/ ReplyDone

Next ==
  \/ Message
  \/ \E s \in Sig : ClearSession(Session[s]) \/ Expires(s)
  \/ ClearGroup \/ Close \/ Stopped
  \/ SilenceGrows
  \/ TimerStep

Spec == Init /\ [][Next]_vars

\* Time passes and the timer task is run; messages may stop for ever.
Fairness == WF_vars(SilenceGrows) /\ WF_vars(TimerStep) /\ WF_vars(Stopped)

FairSpec == Spec /\ Fairness

-----------------------------------------------------------------------------
(* Properties *)

\* A busy group never makes the queue outgrow its limit.
CapacityRespected == Cardinality(queue) <= MaxSignals

\* Signals are never stranded: while any is queued, a timer task is alive to
\* aggregate it or to clear it, through timeouts, decisions and new messages.
TimerCoversSignals == queue # {} /\ ~closed => loop # "none"

\* Once a group falls silent its signals are decided on or dropped and its
\* timer is destroyed.
SilenceDrains ==
  <>[][~Message]_vars => <>[](closed \/ (queue = {} /\ loop = "none"))

-----------------------------------------------------------------------------
(* Statements of the comments and tests that the code does not keep: TLC    *)
(* finds each of them violated (README, Disagreements).                     *)

\* _aggregate_and_decide's comment "清除已处理的信号" (clear the processed
\* signals): deciding on a batch removes no signal that is not in it.
ClearsOnlyProcessed ==
  [][\A agrees \in BOOLEAN : LLMConfirms(agrees) => queue \ queue' \subseteq batch]_vars

\* enqueue's comment "保留高权重信号" (high-weight signals are kept): a signal
\* evicted by a full queue outweighs none of those that stay.
EvictsLightest ==
  [][Message => \A r \in queue \ queue' : \A q \in queue' : Weight[r] <= Weight[q]]_vars

\* aggregate_weight's docstring: the other weights count with 0.3.
DocumentedWeight ==
  \A s \in queue : queue # {s} =>
    LET top == CHOOSE r \in queue : \A q \in queue : Weight[q] <= Weight[r]
        rest == MapThenSumSet(LAMBDA r : Weight[r], queue \ {top})
    IN AggregateWeight(queue) * 10 = Min({2000, Weight[top] * 10 + rest * 3})

-----------------------------------------------------------------------------
(* Proofs, for any signals, weights and limits.                            *)

\* The queue is finite and within its limit; the two parts go together, since
\* a signal more is counted in a finite set only.
Bounded(Q) == IsFiniteSet(Q) /\ Cardinality(Q) <= MaxSignals

QueueBounded == Bounded(queue)

\* Only close() stops the timer task from outside.
StoppingIsClosed == loop = "stopping" => closed

IInv == TypeOK /\ StoppingIsClosed /\ TimerCoversSignals

-----------------------------------------------------------------------------
(* The queue's limit *)

\* A set of signals without some of them is as bounded.
LEMMA SubsetBounded ==
  ASSUME NEW Q, Bounded(Q), NEW R \in SUBSET Q
  PROVE  Bounded(R)
<1>1. IsFiniteSet(R) /\ Cardinality(R) <= Cardinality(Q)
  BY FS_Subset DEF Bounded
<1>2. Cardinality(R) \in Nat /\ Cardinality(Q) \in Nat
  BY <1>1, FS_CardinalityType DEF Bounded
<1>3. QED
  BY <1>1, <1>2, ConstantsAssumption DEF Bounded

\* enqueue keeps the limit: a full queue gives up one signal first.
LEMMA EnqueueBounded ==
  ASSUME NEW Q, Bounded(Q), NEW s \in Sig, NEW R \in Enqueue(Q, s)
  PROVE  Bounded(R)
<1>1. Cardinality(Q) \in Nat
  BY FS_CardinalityType DEF Bounded
<1>2. CASE Cardinality(Q) >= MaxSignals
  <2>1. PICK r \in Q : R = (Q \ {r}) \cup {s}
    BY <1>2 DEF Enqueue
  <2>2. IsFiniteSet(Q \ {r}) /\ Cardinality(Q \ {r}) = Cardinality(Q) - 1
    BY FS_RemoveElement DEF Bounded
  <2>3. IsFiniteSet(R) /\ Cardinality(R) \in {Cardinality(Q) - 1, Cardinality(Q)}
    BY <1>1, <2>1, <2>2, FS_AddElement
  <2>4. QED
    BY <1>1, <2>3, ConstantsAssumption DEF Bounded
<1>3. CASE ~(Cardinality(Q) >= MaxSignals)
  <2>1. R = Q \cup {s}
    BY <1>3 DEF Enqueue
  <2>2. IsFiniteSet(R) /\ Cardinality(R) \in {Cardinality(Q), Cardinality(Q) + 1}
    BY <1>1, <2>1, FS_AddElement DEF Bounded
  <2>3. QED
    BY <1>1, <1>3, <2>2, ConstantsAssumption DEF Bounded
<1>4. QED
  BY <1>2, <1>3

\* Messages enqueue one signal or two; every other step only takes away.
LEMMA StepBounded == Bounded(queue) /\ [Next]_vars => Bounded(queue')
<1> SUFFICES ASSUME Bounded(queue), [Next]_vars
             PROVE  Bounded(queue')
  OBVIOUS
<1>1. ASSUME NEW s \in Sig, SignalMessage(s)
      PROVE  Bounded(queue')
  BY <1>1, EnqueueBounded DEF SignalMessage
<1>2. ASSUME NEW s \in Sig, NEW r \in Sig, TwoSignalMessage(s, r)
      PROVE  Bounded(queue')
  <2>1. PICK Q \in Enqueue(queue, s) : queue' \in Enqueue(Q, r)
    BY <1>2 DEF TwoSignalMessage
  <2>2. Bounded(Q)
    BY EnqueueBounded
  <2>3. QED
    BY <2>1, <2>2, EnqueueBounded
<1>3. CASE PlainMessage \/ UNCHANGED vars
  BY <1>3 DEF PlainMessage, vars
<1>4. CASE \/ \E s \in Sig : ClearSession(Session[s]) \/ Expires(s)
           \/ ClearGroup \/ Close \/ Stopped \/ SilenceGrows \/ TimerStep
  <2>1. queue' \in SUBSET queue
    BY <1>4 DEF ClearSession, Expires, ClearGroup, Close, Stopped, SilenceGrows,
         TimerStep, SilenceTimeout, NothingToSay, DirectReply, AskLLM,
         LLMConfirms, ReplyDone, Valid
  <2>2. QED
    BY <2>1, SubsetBounded
<1>5. QED
  BY <1>1, <1>2, <1>3, <1>4 DEF Next, Message

\* However signals come, singly or in pairs, the group's queue keeps to
\* signal_max_signals_per_group.
THEOREM Capacity == Spec => []CapacityRespected
<1>1. Init => QueueBounded
  BY FS_EmptySet, ConstantsAssumption DEF Init, QueueBounded, Bounded
<1>2. QueueBounded /\ [Next]_vars => QueueBounded'
  BY StepBounded DEF QueueBounded
<1>3. QueueBounded => CapacityRespected
  BY DEF QueueBounded, Bounded, CapacityRespected
<1>4. QED
  BY <1>1, <1>2, <1>3, PTL DEF Spec

-----------------------------------------------------------------------------
(* Types, and the timer that covers the signals *)

\* enqueue leaves a set of signals.
LEMMA EnqueueType ==
  ASSUME NEW Q \in SUBSET Sig, NEW s \in Sig, NEW R \in Enqueue(Q, s)
  PROVE  R \in SUBSET Sig
BY DEF Enqueue

\* A message restarts the silence and makes the timer run, unless closed.
LEMMA HeardStep ==
  ASSUME IInv, Heard, queue' \in SUBSET Sig, expired' \in SUBSET Sig
  PROVE  IInv'
BY DEF IInv, Heard, TypeOK, StoppingIsClosed, TimerCoversSignals

\* The steps of messages keep the invariant.
LEMMA MessageStep ==
  ASSUME IInv, Message
  PROVE  IInv'
<1>1. CASE PlainMessage
  BY <1>1, HeardStep DEF PlainMessage, IInv, TypeOK
<1>2. ASSUME NEW s \in Sig, SignalMessage(s)
      PROVE  IInv'
  <2>1. queue' \in SUBSET Sig /\ expired' \in SUBSET Sig
    BY <1>2, EnqueueType DEF SignalMessage, IInv, TypeOK
  <2>2. QED
    BY <1>2, <2>1, HeardStep DEF SignalMessage
<1>3. ASSUME NEW s \in Sig, NEW r \in Sig, TwoSignalMessage(s, r)
      PROVE  IInv'
  <2>1. PICK Q \in Enqueue(queue, s) : queue' \in Enqueue(Q, r)
    BY <1>3 DEF TwoSignalMessage
  <2>2. Q \in SUBSET Sig
    BY EnqueueType DEF IInv, TypeOK
  <2>3. queue' \in SUBSET Sig /\ expired' \in SUBSET Sig
    BY <1>3, <2>1, <2>2, EnqueueType DEF TwoSignalMessage, IInv, TypeOK
  <2>4. QED
    BY <1>3, <2>3, HeardStep DEF TwoSignalMessage
<1>4. QED
  BY <1>1, <1>2, <1>3 DEF Message

\* The steps of the timer task keep the invariant: it ends only with the queue
\* empty or the scheduler closed.
LEMMA TimerKeeps ==
  ASSUME IInv, TimerStep
  PROVE  IInv'
<1> USE DEF IInv, TypeOK, StoppingIsClosed, TimerCoversSignals
<1>1. CASE SilenceTimeout
  BY <1>1 DEF SilenceTimeout
<1>2. CASE NothingToSay
  BY <1>2 DEF NothingToSay
<1>3. CASE DirectReply
  BY <1>3 DEF DirectReply, Valid
<1>4. CASE AskLLM
  BY <1>4 DEF AskLLM, Valid
<1>5. ASSUME NEW agrees \in BOOLEAN, LLMConfirms(agrees)
      PROVE  IInv'
  BY <1>5 DEF LLMConfirms
<1>6. CASE ReplyDone
  BY <1>6 DEF ReplyDone
<1>7. QED
  BY <1>1, <1>2, <1>3, <1>4, <1>5, <1>6 DEF TimerStep

\* Every step keeps the invariant.
LEMMA StepInv == IInv /\ [Next]_vars => IInv'
<1> SUFFICES ASSUME IInv, [Next]_vars PROVE IInv'
  OBVIOUS
<1> USE DEF IInv, TypeOK, StoppingIsClosed, TimerCoversSignals
<1>1. ASSUME NEW s \in Sig, ClearSession(Session[s]) \/ Expires(s)
      PROVE  IInv'
  BY <1>1 DEF ClearSession, Expires
<1>2. CASE ClearGroup
  BY <1>2 DEF ClearGroup
<1>3. CASE Close
  BY <1>3 DEF Close
<1>4. CASE Stopped
  BY <1>4 DEF Stopped
<1>5. CASE SilenceGrows
  BY <1>5 DEF SilenceGrows
<1>6. CASE UNCHANGED vars
  BY <1>6 DEF vars
<1>7. QED
  BY <1>1, <1>2, <1>3, <1>4, <1>5, <1>6, MessageStep, TimerKeeps DEF Next

\* The invariant holds in every reachable state.
LEMMA Inductive == Spec => []IInv
<1>1. Init => IInv
  BY DEF Init, IInv, TypeOK, StoppingIsClosed, TimerCoversSignals
<1>2. QED
  BY <1>1, StepInv, PTL DEF Spec

\* Every variable stays in its type.
THEOREM TypeCorrect == Spec => []TypeOK
<1>1. IInv => TypeOK
  BY DEF IInv
<1>2. QED
  BY <1>1, Inductive, PTL

\* While a signal is queued and the scheduler open, the group has its timer:
\* no signal waits for a task that is gone.
THEOREM TimerCovers == Spec => []TimerCoversSignals
<1>1. IInv => TimerCoversSignals
  BY DEF IInv
<1>2. QED
  BY <1>1, Inductive, PTL
=============================================================================

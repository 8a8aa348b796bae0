---------------------------- MODULE PersonaBatch ----------------------------
(* persona/persona_batch_processor.py: messages queue per session until the  *)
(* threshold or a flush; one lock covers the queues and is held while the    *)
(* model extracts. The result of a batch goes to a callback, and the plugin  *)
(* sets none (services/initializer.py).                                      *)
EXTENDS Naturals, Sequences, SequencesExt, FiniteSets

CONSTANTS
    Messages, Sessions,
    Threshold,   \* batch_threshold
    BatchMax,    \* batch_max_size
    MaxQueue     \* MAX_QUEUE_SIZE

VARIABLES
    coming,   \* messages whose add_message waits for the lock: [message, session]
    queue,    \* _queues
    lock,     \* who holds _lock: an adder's message, "flush", or nobody
    batch,    \* what the holder is extracting: [session, messages]
    left,     \* sessions the flush under way has still to process
    running,  \* _is_running
    taken,    \* history: what left each queue for an extraction, in order
    lost      \* history: what restarts discarded

vars == <<coming, queue, lock, batch, left, running, taken, lost>>

Nobody == "nobody"
Nothing == [session |-> Nobody, messages |-> <<>>]
Known == {c.message : c \in coming} \cup (UNION {Range(queue[s]) \cup Range(taken[s]) : s \in Sessions})
            \cup Range(batch.messages) \cup lost

Init ==
    /\ coming = {} /\ queue = [s \in Sessions |-> <<>>]
    /\ lock = Nobody /\ batch = Nothing /\ left = {} /\ running = TRUE
    /\ taken = [s \in Sessions |-> <<>>] /\ lost = {}

\* business_service hands a stored memory over.
Arrive(m, s) ==
    /\ m \notin Known
    /\ coming' = coming \cup {[message |-> m, session |-> s]}
    /\ UNCHANGED <<queue, lock, batch, left, running, taken, lost>>

\* Mutant: what exceeds the batch is not put back.
ProcessQueue_NoRest(q, s) ==
    /\ batch' = [session |-> s, messages |-> SubSeq(q, 1, IF Len(q) < BatchMax THEN Len(q) ELSE BatchMax)]
    /\ queue' = [queue EXCEPT ![s] = <<>>]

\* _process_queue up to its await, on a queue that holds q; the lock stays held.
ProcessQueue(q, s) ==
    /\ batch' = [session |-> s, messages |-> SubSeq(q, 1, IF Len(q) < BatchMax THEN Len(q) ELSE BatchMax)]
    /\ queue' = [queue EXCEPT ![s] = SubSeq(q, BatchMax + 1, Len(q))]

\* add_message: enqueue, and process at the threshold. (A queue of MaxQueue
\* would be processed before; NeverOverflows says there is none.)
AddMessage(c) ==
    /\ lock = Nobody /\ c \in coming
    /\ coming' = coming \ {c}
    /\ LET q == Append(queue[c.session], c.message) IN
       IF Len(q) >= Threshold
       THEN ProcessQueue(q, c.session) /\ lock' = c.message
       ELSE queue' = [queue EXCEPT ![c.session] = q] /\ UNCHANGED <<lock, batch>>
    /\ UNCHANGED <<left, running, taken, lost>>

\* The extraction ends: applied to nobody, empty, or failed; the batch is gone.
ExtractEnds ==
    /\ batch # Nothing
    /\ taken' = [taken EXCEPT ![batch.session] = @ \o batch.messages]
    /\ batch' = Nothing
    /\ lock' = IF left = {} THEN Nobody ELSE lock
    /\ UNCHANGED <<coming, queue, left, running, lost>>

NonEmpty == {s \in Sessions : queue[s] # <<>>}

\* flush_all_queues, of the scheduled task while running, or of stop.
FlushBegins(stops) ==
    /\ lock = Nobody /\ running
    /\ running' = ~stops
    /\ left' = NonEmpty
    /\ lock' = IF left' = {} THEN Nobody ELSE "flush"
    /\ UNCHANGED <<coming, queue, batch, taken, lost>>

FlushNext(s) ==
    /\ lock = "flush" /\ batch = Nothing /\ s \in left
    /\ left' = left \ {s}
    /\ ProcessQueue(queue[s], s)
    /\ UNCHANGED <<coming, lock, running, taken, lost>>

Stop == FlushBegins(TRUE)
Flush == FlushBegins(FALSE)

\* A restart: what was queued is discarded, here and in the saved data, and what
\* still waited for the old processor's lock goes with it.
Restart ==
    /\ ~running /\ lock = Nobody
    /\ lost' = lost \cup {c.message : c \in coming} \cup UNION {Range(queue[s]) : s \in Sessions}
    /\ coming' = {} /\ queue' = [s \in Sessions |-> <<>>]
    /\ running' = TRUE
    /\ UNCHANGED <<lock, batch, left, taken>>

Next ==
    \/ \E m \in Messages, s \in Sessions : Arrive(m, s)
    \/ \E c \in coming : AddMessage(c)
    \/ ExtractEnds \/ Stop \/ Flush \/ Restart
    \/ \E s \in Sessions : FlushNext(s)

Spec == Init /\ [][Next]_vars

-----------------------------------------------------------------------------
InHand(s) == IF batch.session = s THEN batch.messages ELSE <<>>
All(s) == taken[s] \o InHand(s) \o queue[s]

\* No message is in two places, and none that was discarded is extracted.
EachOnce ==
    /\ \A s \in Sessions : IsInjective(All(s)) /\ Range(All(s)) \cap lost = {}
    /\ \A s, t \in Sessions : s # t => Range(All(s)) \cap Range(All(t)) = {}

\* Between two extractions a queue is short of its threshold, so that the overflow
\* branch of add_message is never needed.
NeverOverflows == \A s \in Sessions :
    Len(queue[s]) < MaxQueue /\ (lock = Nobody => Len(queue[s]) < Threshold)

Discarded(s) == taken'[s] = taken[s] /\ queue'[s] = <<>> /\ Range(queue[s]) \subseteq lost'

\* Each session's messages leave its queue for an extraction, in the order they were
\* added; only a restart discards any, and it discards all that stop left.
BatchesInOrder ==
    [][LET restart == ~running /\ running' IN
       /\ \A s \in Sessions : IsPrefix(All(s), All(s)') \/ (restart /\ Discarded(s))
       /\ lost' # lost => restart]_vars

\* What stop leaves is not empty when a queue is longer than a batch, or when a
\* message comes after it: documented as a last flush, and false.
StopEmpties == ~running /\ lock = Nobody => \A s \in Sessions : queue[s] = <<>>
=============================================================================

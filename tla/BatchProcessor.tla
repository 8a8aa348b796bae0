--------------------------- MODULE BatchProcessor ---------------------------
(***************************************************************************)
(* MessageBatchProcessor (capture/batch_processor.py) with the message     *)
(* deduplication of MessageMerger (capture/message_merger.py) and the save *)
(* of its queues (services/persistence_service.py).  Messages are queued   *)
(* per session; a run of _process_queue reads a session's queue, works on  *)
(* a copy while it awaits the capture engine, and empties the queue when   *)
(* it ends.  Message handlers, the cleanup loop and stop() all run it.     *)
(*                                                                         *)
(* A step is one run of a coroutine between two awaits.  What a run does   *)
(* with its messages (merging, classifying, summarising) is abstracted to  *)
(* their being captured; a queue is a set.                                 *)
(***************************************************************************)
EXTENDS Naturals, FiniteSets, FiniteSetsExt

CONSTANTS
  Session,
  Msg,
  SessionOf,    \* [Msg -> Session]
  TextOf,       \* the fingerprint of each message's text
  Handler,      \* background tasks of the message hook
  Cleaner,      \* the task of _cleanup_loop
  Stopper,      \* the task running stop()
  Commands,     \* commands, and the plugin's termination, that save everything
  AutoSaver,    \* the task of _auto_save_loop
  Threshold,    \* threshold_count
  MaxSessions,  \* MAX_TRACKED_SESSIONS
  CacheSize,   \* fingerprint_cache_size
  CacheTrim,    \* fingerprint_trim_size
  Saving,       \* bound: whether the queues are saved in this instance
  NoSession

ASSUME ConstantsAssumption ==
  /\ SessionOf \in [Msg -> Session]
  /\ DOMAIN TextOf = Msg
  /\ Threshold \in Nat \ {0}
  /\ MaxSessions \in Nat
  /\ CacheSize \in Nat /\ CacheTrim \in 0..CacheSize
  /\ Saving \in BOOLEAN
  /\ NoSession \notin Session
  /\ Cleaner \notin Handler /\ Stopper \notin Handler \cup {Cleaner}
  /\ AutoSaver \notin Commands \cup {Stopper} /\ Stopper \notin Commands

Runner == Handler \cup {Cleaner, Stopper}

Saver == Commands \cup {AutoSaver, Stopper}

VARIABLES
  tracked,   \* the keys of message_queues and of last_process_time
  queue,     \* message_queues; {} for a session not tracked
  age,       \* time since last_process_time: below the interval, past it, past expiry
  seen,      \* _processed_fingerprints
  run,       \* per task: the session it is processing and the messages in hand
  sweep,     \* the cleanup loop's variables while it awaits a run
  life,      \* the processor is running, stop() waits for the loop, drains, or is done
  drain,     \* the sessions stop() has still to process
  dirty,     \* _dirty
  saving,    \* per saver: the queues it has serialised, while it awaits the put
  putKnown,  \* PersistenceService has been given its put function
  saved,     \* the queued messages in the key-value store
  read,      \* history: messages some run has read from the queue
  captured,  \* history: messages handed to the capture engine
  forgotten, \* history: fingerprints the cache has dropped
  late,      \* history: messages queued during a run on their session, or
             \* after the cleanup loop had marked it stale
  missed,    \* history: messages queued during a save, or whose put failed, since
             \* the last automatic save that began alone
  lost       \* history: messages removed from a queue that no run had read

queueVars == <<tracked, queue, age, seen, run, sweep, read, forgotten, lost>>
lifeVars == <<life, drain>>
saveVars == <<dirty, saving, putKnown, saved, missed>>
vars == <<queueVars, lifeVars, saveVars, captured, late>>

-----------------------------------------------------------------------------

Idle == [on |-> NoSession, batch |-> {}]
NoSweep == [todo |-> {}, due |-> {}, expired |-> {}, stale |-> {}]
NoSave == [busy |-> FALSE, queues |-> {}]

Quiet == \A x \in Saver : ~saving[x].busy

Queued == UNION {queue[s] : s \in Session}

Arrived == Queued \cup read \cup lost

InHand == UNION {run[r].batch : r \in Runner}

TypeOK ==
  /\ tracked \in SUBSET Session
  /\ queue \in [Session -> SUBSET Msg]
  /\ age \in [Session -> {"fresh", "due", "stale"}]
  /\ seen \in SUBSET {TextOf[m] : m \in Msg}
  /\ forgotten \in SUBSET {TextOf[m] : m \in Msg}
  /\ run \in [Runner -> [on : Session \cup {NoSession}, batch : SUBSET Msg]]
  /\ sweep \in [todo : SUBSET Session, due : SUBSET Session,
                expired : SUBSET Session, stale : SUBSET Session]
  /\ life \in {"running", "stopping", "draining", "stopped"}
  /\ drain \in SUBSET Session
  /\ dirty \in BOOLEAN /\ putKnown \in BOOLEAN
  /\ saving \in [Saver -> [busy : BOOLEAN, queues : SUBSET Msg]]
  /\ saved \in SUBSET Msg
  /\ {read, captured, late, missed, lost} \subseteq SUBSET Msg

Init ==
  /\ tracked = {}
  /\ queue = [s \in Session |-> {}]
  /\ age = [s \in Session |-> "fresh"]
  /\ seen = {}
  /\ run = [r \in Runner |-> Idle]
  /\ sweep = NoSweep
  /\ life = "running"
  /\ drain = {}
  /\ dirty = FALSE
  /\ saving = [x \in Saver |-> NoSave]
  /\ putKnown = FALSE
  /\ saved = {}
  /\ read = {} /\ captured = {} /\ forgotten = {}
  /\ late = {} /\ missed = {} /\ lost = {}

-----------------------------------------------------------------------------
(* Pieces of the operations *)

\* register_fingerprint: a cache that outgrows its size drops CacheTrim entries.
Trimmed(S) ==
  IF Cardinality(S) <= CacheSize THEN {S}
  ELSE {P \in SUBSET S : Cardinality(P) = Cardinality(S) - CacheTrim}

\* Mutant: a text is looked for in the batch alone, not in the cache.
Registered_BatchOnly(d, m) ==
  IF \E n \in d.batch : TextOf[n] = TextOf[m] THEN {d}
  ELSE {[batch |-> d.batch \cup {m}, seen |-> P, forgotten |-> d.forgotten]
          : P \in Trimmed(d.seen \cup {TextOf[m]})}

\* is_duplicate_message on m, after the part d of the deduplication.
Registered(d, m) ==
  LET all == d.seen \cup {TextOf[m]} IN
  IF TextOf[m] \in d.seen THEN {d}
  ELSE {[batch |-> d.batch \cup {m}, seen |-> P, forgotten |-> d.forgotten \cup (all \ P)]
          : P \in Trimmed(all)}

\* deduplicate_messages on the queue Q, taken in any order: the messages that
\* are left, and the fingerprint cache.
Deduplicated(Q) ==
  LET after[R \in SUBSET Q] ==
        IF R = {} THEN {[batch |-> {}, seen |-> seen, forgotten |-> forgotten]}
        ELSE UNION {UNION {Registered(d, m) : d \in after[R \ {m}]} : m \in R}
  IN after[Q]

\* The empty queues an eviction of n sessions may take (the oldest go first;
\* here any).
Oldest(T, q, n) ==
  LET idle == {s \in T : q[s] = {}}
  IN {E \in SUBSET idle : Cardinality(E) = Min({n, Cardinality(idle)})}

Excess(T) == IF Cardinality(T) > MaxSessions THEN Cardinality(T) - MaxSessions ELSE 0

\* What add_message leaves of the tracked sessions before it adds a new one.
MakeRoom ==
  LET expired == IF Cardinality(tracked) >= MaxSessions
                 THEN {s \in tracked : age[s] = "stale" /\ queue[s] = {}} ELSE {}
      left == tracked \ expired
  IN {left \ E : E \in Oldest(left, queue, Excess(left))}

\* last_process_time[s] = now, as a cleanup loop that reads it later sees it.
Touched(w, s) ==
  IF s \in w.todo THEN [w EXCEPT !.due = @ \ {s}, !.expired = @ \ {s}] ELSE w

Emptied(q, S) == [s \in Session |-> IF s \in S THEN {} ELSE q[s]]

\* Mutant: every queue is emptied.
EndRun_EveryQueue(s) ==
  /\ tracked' = tracked \cup {s}
  /\ queue' = Emptied(queue, Session)
  /\ age' = [age EXCEPT ![s] = "fresh"]
  /\ lost' = lost \cup (Queued \ read)
  /\ UNCHANGED <<seen, forgotten, read>>

\* The end of a run on the session s: the finally clause of _process_queue.
EndRun(s) ==
  /\ tracked' = tracked \cup {s}
  /\ queue' = Emptied(queue, {s})
  /\ age' = [age EXCEPT ![s] = "fresh"]
  /\ lost' = lost \cup (queue[s] \ read)
  /\ UNCHANGED <<seen, forgotten, read>>

\* A run of the task r on the session s begins, with the queues q, the ages a
\* and the cleanup loop's variables w.  With nothing to capture it awaits
\* nothing and ends at once.
Process(r, s, q, a, w) ==
  \E d \in Deduplicated(q[s]) :
    /\ seen' = d.seen
    /\ forgotten' = d.forgotten
    /\ IF d.batch = {}
       THEN /\ queue' = Emptied(q, {s})
            /\ age' = [a EXCEPT ![s] = "fresh"]
            /\ sweep' = Touched(w, s)
            /\ run' = [run EXCEPT ![r] = Idle]
       ELSE /\ queue' = q
            /\ age' = a
            /\ sweep' = w
            /\ run' = [run EXCEPT ![r] = [on |-> s, batch |-> d.batch]]

-----------------------------------------------------------------------------
(* Messages *)

\* add_message in the task h: a new session may evict others; the message is
\* queued, and a full or overdue queue is processed by the same task.
AddMessage(h, m) ==
  LET s == SessionOf[m]
      new == s \notin tracked
      q == [queue EXCEPT ![s] = @ \cup {m}]
      a == IF new THEN [age EXCEPT ![s] = "fresh"] ELSE age
      w == IF new THEN Touched(sweep, s) ELSE sweep
      overlaps == s \in sweep.stale \/ \E r \in Runner : run[r].on = s
  IN
  /\ m \notin Arrived
  /\ run[h] = Idle
  /\ tracked' \in {T \cup {s} : T \in IF new THEN MakeRoom ELSE {tracked}}
  /\ IF Cardinality(q[s]) >= Threshold \/ a[s] # "fresh"
     THEN Process(h, s, q, a, w) /\ read' = read \cup q[s]
     ELSE /\ queue' = q /\ age' = a /\ sweep' = w
          /\ UNCHANGED <<seen, forgotten, run, read>>
  /\ dirty' = TRUE
  /\ late' = IF overlaps THEN late \cup {m} ELSE late
  /\ missed' = IF Quiet THEN missed ELSE missed \cup {m}
  /\ UNCHANGED <<lifeVars, saving, putKnown, saved, captured, lost>>

\* The run of a message handler or of stop() ends, whatever failed in it.
Finish(r) ==
  /\ r # Cleaner
  /\ run[r] # Idle
  /\ EndRun(run[r].on)
  /\ sweep' = Touched(sweep, run[r].on)
  /\ run' = [run EXCEPT ![r] = Idle]
  /\ captured' = captured \cup run[r].batch
  /\ UNCHANGED <<lifeVars, saveVars, late>>

\* The clock passes a session's interval, then its expiry.
Ages(s) ==
  /\ s \in tracked
  /\ age[s] # "stale"
  /\ age' = [age EXCEPT ![s] = IF @ = "fresh" THEN "due" ELSE "stale"]
  /\ UNCHANGED <<tracked, queue, seen, run, sweep, read, forgotten, lost>>
  /\ UNCHANGED <<lifeVars, saveVars, captured, late>>

-----------------------------------------------------------------------------
(* The cleanup loop.  One step goes from where the loop awaited, its sleep or *)
(* a run on a session, to where it awaits next.                             *)

\* The state the loop goes on from.
Resumed ==
  LET s == run[Cleaner].on IN
  IF s = NoSession
  THEN [tracked |-> tracked, queue |-> queue, age |-> age,
        lost |-> lost, captured |-> captured,
        sweep |-> [todo |-> tracked, due |-> {t \in tracked : age[t] # "fresh"},
                   expired |-> {t \in tracked : age[t] = "stale"}, stale |-> {}]]
  ELSE [tracked |-> tracked \cup {s}, queue |-> Emptied(queue, {s}),
        age |-> [age EXCEPT ![s] = "fresh"],
        lost |-> lost \cup (queue[s] \ read),
        captured |-> captured \cup run[Cleaner].batch,
        sweep |-> [sweep EXCEPT !.stale = @ \cup ({s} \cap sweep.expired)]]

\* The sessions of st the loop gets past without waiting: not overdue, or with
\* nothing to capture in their queue.
Passable(st) ==
  {s \in st.sweep.todo \cap st.tracked :
     s \in st.sweep.due => \A m \in st.queue[s] : TextOf[m] \in seen}

\* st after the loop has passed the sessions of V.
Passed(st, V) ==
  LET done == V \cap st.sweep.due IN
  [st EXCEPT !.queue = Emptied(@, done),
             !.age = [s \in Session |-> IF s \in done /\ st.queue[s] # {}
                                        THEN "fresh" ELSE @[s]],
             !.sweep.todo = @ \ V,
             !.sweep.stale = @ \cup {s \in V \cap st.sweep.expired :
                                       s \in done \/ st.queue[s] = {}}]

ReadIn(st, V) == read \cup UNION {st.queue[s] : s \in V \cap st.sweep.due}

Continues(st) ==
  /\ lost' = st.lost
  /\ captured' = st.captured
  /\ UNCHANGED <<lifeVars, saveVars, late>>

\* The loop comes to an overdue session and processes its queue.
SweepAwaits(s, V) ==
  LET st == Passed(Resumed, V) IN
  /\ V \subseteq Passable(Resumed)
  /\ s \in (st.sweep.todo \cap st.sweep.due \cap st.tracked) \ Passable(Resumed)
  /\ Process(Cleaner, s, st.queue, st.age, [st.sweep EXCEPT !.todo = @ \ {s}])
  /\ tracked' = st.tracked
  /\ read' = ReadIn(Resumed, V) \cup st.queue[s]
  /\ Continues(st)

\* The loop ends: the sessions marked stale go with what is now in their
\* queues, and the oldest empty ones beyond the limit.
SweepEnds(V) ==
  LET st == Passed(Resumed, V)
      stale == st.sweep.stale
      left == st.tracked \ stale
  IN
  /\ V = st.tracked \cap Resumed.sweep.todo
  /\ V \subseteq Passable(Resumed)
  /\ st.sweep.todo = {}
  /\ \E E \in Oldest(left, st.queue, Excess(left)) : tracked' = left \ E
  /\ queue' = Emptied(st.queue, stale)
  /\ age' = st.age
  /\ sweep' = NoSweep
  /\ run' = [run EXCEPT ![Cleaner] = Idle]
  /\ read' = ReadIn(Resumed, V)
  /\ lost' = st.lost \cup ((UNION {st.queue[s] : s \in stale}) \ read')
  /\ captured' = st.captured
  /\ UNCHANGED <<seen, forgotten, lifeVars, saveVars, late>>

\* The loop comes to a session evicted since it listed them: the KeyError ends
\* it, and what was marked stale stays.
SweepAborts(V) ==
  LET st == Passed(Resumed, V) IN
  /\ V \subseteq Passable(Resumed)
  /\ st.sweep.todo \ st.tracked # {}
  /\ tracked' = st.tracked
  /\ queue' = st.queue
  /\ age' = st.age
  /\ sweep' = NoSweep
  /\ run' = [run EXCEPT ![Cleaner] = Idle]
  /\ read' = ReadIn(Resumed, V)
  /\ UNCHANGED <<seen, forgotten>>
  /\ Continues(st)

\* Mutant: the loop evicts but processes no overdue queue.
CleanerStep_EvictsOnly ==
  /\ life = "running"
  /\ \E V \in SUBSET Resumed.sweep.todo : SweepEnds(V) \/ SweepAborts(V)

CleanerStep ==
  /\ life = "running"
  /\ \E V \in SUBSET Resumed.sweep.todo :
       SweepEnds(V) \/ SweepAborts(V) \/ \E s \in Session : SweepAwaits(s, V)

-----------------------------------------------------------------------------
(* Stopping *)

StopBegins ==
  /\ life = "running"
  /\ life' = "stopping"
  /\ UNCHANGED <<queueVars, saveVars, drain, captured, late>>

\* A run cut short by CancelledError, which only the finally clause sees: part
\* of its batch has been captured.
CutRun(r) ==
  /\ EndRun(run[r].on)
  /\ run' = [run EXCEPT ![r] = Idle]
  /\ captured' \in {captured \cup C : C \in SUBSET run[r].batch}

\* A put cut short by a cancellation: the store may have taken it or not.
CutSave(x) ==
  /\ saving' = [saving EXCEPT ![x] = NoSave]
  /\ saved' \in {saved, IF saving[x].busy THEN saving[x].queues ELSE saved}

\* The cancelled cleanup loop and automatic save end; stop() lists the queues.
LoopsCancelled ==
  /\ life = "stopping"
  /\ IF run[Cleaner] = Idle
     THEN UNCHANGED <<tracked, queue, age, seen, run, read, forgotten, lost, captured>>
     ELSE CutRun(Cleaner)
  /\ sweep' = NoSweep
  /\ life' = "draining"
  /\ drain' = tracked'
  /\ CutSave(AutoSaver)
  /\ UNCHANGED <<dirty, putKnown, missed, late>>

\* _process_all_queues comes to the session s.
DrainQueue(s) ==
  /\ life = "draining"
  /\ run[Stopper] = Idle
  /\ s \in drain \cap tracked
  /\ drain' = drain \ {s}
  /\ IF queue[s] = {}
     THEN UNCHANGED <<queue, age, seen, run, sweep, read, forgotten>>
     ELSE Process(Stopper, s, queue, age, sweep) /\ read' = read \cup queue[s]
  /\ UNCHANGED <<tracked, lost, life, saveVars, captured, late>>

\* A listed session has been evicted: the KeyError leaves out the save.
DrainAborts ==
  /\ life = "draining"
  /\ run[Stopper] = Idle
  /\ drain \ tracked # {}
  /\ life' = "stopped"
  /\ drain' = {}
  /\ UNCHANGED <<queueVars, saveVars, captured, late>>

\* Its queues processed, stop() saves; without a put function it is done.
StopSaves ==
  /\ life = "draining"
  /\ run[Stopper] = Idle
  /\ drain = {}
  /\ ~saving[Stopper].busy
  /\ IF putKnown
     THEN /\ saving' = [saving EXCEPT ![Stopper] = [busy |-> TRUE, queues |-> Queued]]
          /\ UNCHANGED life
     ELSE life' = "stopped" /\ UNCHANGED saving
  /\ UNCHANGED <<queueVars, drain, dirty, putKnown, saved, missed, captured, late>>

\* The service gives stop() three seconds and then cancels it.
StopTimesOut ==
  /\ life = "draining"
  /\ life' = "stopped"
  /\ drain' = {}
  /\ IF run[Stopper] = Idle
     THEN UNCHANGED <<queueVars, captured>>
     ELSE CutRun(Stopper) /\ sweep' = Touched(sweep, run[Stopper].on)
  /\ CutSave(Stopper)
  /\ UNCHANGED <<dirty, putKnown, missed, late>>

-----------------------------------------------------------------------------
(* Saving *)

\* save_to_kv begins, by a command or before stop(): from now on the put
\* function is known to the other savers.
SaveToKv ==
  /\ Saving
  /\ ~putKnown
  /\ putKnown' = TRUE
  /\ UNCHANGED <<queueVars, lifeVars, dirty, saving, saved, missed, captured, late>>

\* The save of the command k comes to the queues, if no earlier part of it
\* failed: it serialises them and awaits the put.
CommandSaves(k) ==
  /\ putKnown
  /\ ~saving[k].busy
  /\ saving' = [saving EXCEPT ![k] = [busy |-> TRUE, queues |-> Queued]]
  /\ UNCHANGED <<queueVars, lifeVars, dirty, putKnown, saved, missed, captured, late>>

\* The put of a command or of stop() returns or raises; the exception is
\* logged, and nobody touches the dirty flag.
PutEnds(x, ok) ==
  /\ x # AutoSaver
  /\ saving[x].busy
  /\ saving' = [saving EXCEPT ![x] = NoSave]
  /\ saved' = IF ok THEN saving[x].queues ELSE saved
  /\ life' = IF x = Stopper THEN "stopped" ELSE life
  /\ UNCHANGED <<queueVars, drain, dirty, putKnown, missed, captured, late>>

\* Mutant: the flag is lowered before the put is awaited.
AutoSaveBegins_FlagFirst ==
  /\ Saving /\ life = "running" /\ dirty /\ ~saving[AutoSaver].busy /\ putKnown
  /\ saving' = [saving EXCEPT ![AutoSaver] = [busy |-> TRUE, queues |-> Queued]]
  /\ dirty' = FALSE
  /\ UNCHANGED <<queueVars, lifeVars, putKnown, saved, missed, captured, late>>

\* _auto_save_loop wakes up and serialises the queues; without a put function
\* there is nothing to await.
AutoSaveBegins ==
  /\ Saving
  /\ life \in {"running", "stopping"}
  /\ dirty /\ ~saving[AutoSaver].busy
  /\ IF putKnown
     THEN /\ saving' = [saving EXCEPT ![AutoSaver] = [busy |-> TRUE, queues |-> Queued]]
          /\ missed' = IF Quiet THEN missed \ Queued ELSE missed
          /\ UNCHANGED dirty
     ELSE dirty' = FALSE /\ missed' = missed \cup Queued /\ UNCHANGED saving
  /\ UNCHANGED <<queueVars, lifeVars, putKnown, saved, captured, late>>

\* The put returns or raises; _trigger_save logs the exception and the flag is
\* cleared all the same.
AutoSaveEnds(ok) ==
  /\ life \in {"running", "stopping"}
  /\ saving[AutoSaver].busy
  /\ saved' = IF ok THEN saving[AutoSaver].queues ELSE saved
  /\ missed' = IF ok THEN missed ELSE missed \cup saving[AutoSaver].queues
  /\ dirty' = FALSE
  /\ saving' = [saving EXCEPT ![AutoSaver] = NoSave]
  /\ UNCHANGED <<queueVars, lifeVars, putKnown, captured, late>>

-----------------------------------------------------------------------------

Next ==
  \/ \E h \in Handler, m \in Msg : AddMessage(h, m)
  \/ \E r \in Runner : Finish(r)
  \/ \E s \in Session : Ages(s) \/ DrainQueue(s)
  \/ CleanerStep
  \/ StopBegins \/ LoopsCancelled \/ DrainAborts \/ StopSaves \/ StopTimesOut
  \/ SaveToKv \/ AutoSaveBegins
  \/ \E k \in Commands : CommandSaves(k)
  \/ \E x \in Saver, ok \in BOOLEAN : PutEnds(x, ok)
  \/ \E ok \in BOOLEAN : AutoSaveEnds(ok)

Spec == Init /\ [][Next]_vars

\* Time passes, the loop sleeps no longer than its interval, and the capture
\* engine comes back to every run.
Fairness ==
  /\ WF_vars(CleanerStep)
  /\ \A s \in Session : WF_vars(Ages(s))
  /\ \A r \in Runner : WF_vars(Finish(r))

FairSpec == Spec /\ Fairness

-----------------------------------------------------------------------------
(* Properties *)

\* However many tasks process one session at once, no message is captured
\* twice, as long as the fingerprint cache has not dropped its text.
ProcessedOnce ==
  /\ \A r \in Runner : \A m \in run[r].batch \cap captured : TextOf[m] \in forgotten
  /\ \A r, t \in Runner : r # t =>
       \A m \in run[r].batch \cap run[t].batch : TextOf[m] \in forgotten

\* A message is dropped unread only if it was queued while a run on its own
\* session, or a cleanup that had marked it stale, was under way.
LossOnlyByOverlap == lost \subseteq late

\* However the saves of the commands, of the loop and of stop() overlap, and in
\* whatever order their puts end or fail: when the dirty flag is down, the store
\* holds every queued message but those queued while a save was under way, or
\* whose automatic put failed, since the last automatic save that began alone.
SavedUnlessMissed == ~dirty => Queued \subseteq saved \cup missed

\* A session that falls silent is processed: no queue waits for ever below its
\* threshold while the processor runs.
QueuesDrain ==
  \A s \in Session : (queue[s] # {}) ~> (queue[s] = {} \/ life # "running")

-----------------------------------------------------------------------------
(* Statements of the comments and tests that the code does not keep: TLC    *)
(* finds each of them violated (README, Disagreements).                     *)

\* test_stop_processes_remaining, "停止时应该处理剩余消息" (stop should process
\* the remaining messages): cancelling the loop captures what it had in hand.
StopProcessesRemaining ==
  [][LoopsCancelled => run[Cleaner].batch \subseteq captured']_vars

\* add_message's comment "清理后仍超限则强制淘汰最旧会话" (still over the limit
\* after the cleanup, the oldest session is evicted by force): a new session
\* takes the number tracked past the limit only if none of them is idle.
SessionsWithinCap ==
  [][\A h \in Handler, m \in Msg : AddMessage(h, m) /\ SessionOf[m] \notin tracked
       => \/ Cardinality(tracked') <= MaxSessions
          \/ \A s \in tracked \cap tracked' : queue[s] # {}]_vars

\* _cleanup_loop's comment "标记过期会话（队列为空且超过过期时间）" (marks expired
\* sessions: the queue is empty and the expiry has passed): evicting a session
\* drops no message that nobody has read.
EvictsOnlyEmpty ==
  [][CleanerStep => \A s \in tracked \ (tracked' \cup {run[Cleaner].on}) :
                      queue[s] \subseteq read']_vars

\* _save_batch_queues's docstring, "支持无参回调" (can be called back without
\* arguments): lowering the dirty flag means the queues have been put, unless
\* the put failed.
AutoSaveSaves ==
  [][dirty /\ ~dirty' /\ ~AutoSaveEnds(FALSE) => Queued \subseteq saved' \cup missed]_vars
=============================================================================

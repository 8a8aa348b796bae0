# Iris Memory: specifications, model checking and proofs

TLA+ modules for the Iris Memory plugin (three-layer memory and proactive
replies for AstrBot): what it says and when, what it remembers, forgets and
shows, and how it starts, saves and stops. The plugin is one asyncio program:
message hooks, timer tasks, a cleanup loop and an automatic save share Python
objects and interleave at every `await`. Nothing in it is preemptive, so
**one action of these modules is one run of a coroutine between two awaits**;
what a run does before it suspends is atomic, what it read before it suspended
may be stale when it goes on. Paths below are relative to `src/iris_memory/`.

How to run: `tlc -workers 2 -config X.cfg M` for a run of `PROJECT.json`,
`tlapm M.tla` for the proofs, which are in `ReplyCoordinatorProofs`,
`FollowUpPlannerProofs`, `SignalScheduler` (at its end), `ProactiveManagerProofs`,
`BatchProcessorProofs`, `KnowledgeGraphProofs`, and, for the components of the two
benches, `ServiceProofs` and `StorageProofs` (these two take about twenty minutes).

## 1. Inventory

| component | state it keeps | operations | what is hard | what makes it correct |
|---|---|---|---|---|
| Reply coordinator `proactive/reply_coordinator.py` | groups with a normal reply pending, time of the last normal reply, an `asyncio.Lock` per group | mark start / end, `proactive_reply_guard`, clear | checks before and after awaiting the lock; cancellation while queueing; refusal without acquisition; locks replaced by a clear | exclusive sends, no leaked lock, no forgotten waiter, no send in a closed group |
| Follow-up planner `proactive/followup_planner.py`, `proactive/storage` | one expectation per group, two timer tasks per group, `_processing` | create, clear, user message, timers, LLM decision, close | two timers of one expectation, cancelled coroutines whose `finally` runs later, `get()` that deletes | one decision per expectation, an expectation is always armed, chains end |
| Signal queue and group scheduler `proactive/signal_queue.py`, `group_scheduler.py` | weighted signals per group with expiry, a timer task per group | enqueue, clear group / session, aggregate, decide, close | decisions awaited while signals arrive; eviction; silence | bounded queue, signals never stranded, silent groups end |
| Proactive manager `proactive/manager.py`, `reply_sender.py` | quotas (day, user), cooldown per group, statistics | signal reply, follow-up reply, user message, bot reply | quotas checked before an await and counted after it; expectation appears while a reply queues | overshoot bounded, signals defer to conversations |
| Signal generator `proactive/signal_generator.py` | none | rule and emotion signals of a message | – | – |
| Batch processor `capture/batch_processor.py` | a message queue per session, ages, fingerprints, dirty flag, cleanup task | add message, process queue, cleanup loop, evict, stop, load | four kinds of task run `_process_queue` on one session; `finally` empties the queue after awaits; eviction during the loop; stop cancels mid-run | captured once, lost only by overlap, silent queues drain |
| Message merger `capture/message_merger.py` | fingerprint cache | merge short messages, deduplicate | cache at its limit | duplicates dropped, nothing else |
| Persistence `services/persistence_service.py` | put function, dirty state, KV keys | save, automatic save of the queues, load, terminate | overlapping saves whose puts end in any order, puts that fail, crash between saves, flag lowered after a failed save, a save after an aborted load | what is clean is stored, nothing stored goes back |
| Message hooks `processing/` | none of their own | LLM request / response, non-LLM message | start and end marks of overlapping requests | every start is ended |
| Sessions and lifecycle `storage/session_manager.py`, `lifecycle_manager.py`, `grace_period.py` | working memories per session, access times, grace entries, maintenance task | create, append, access, expire, archive, promote, review | archive awaits and then clears; promotion, expiry and archive of one memory | a memory is stored before it is cleared |
| Scoring `core/upgrade_evaluator.py`, `analysis/rif_scorer.py`, `reinforcement.py` | review state in the memory | RIF score, upgrade verdicts, reinforcement | thresholds | monotone, layered upgrades |
| Caches `storage/cache.py`, `chat_history_buffer.py`, `utils/bounded_dict.py` | LRU / LFU entries, buffers | get, put, expire, evict | limits, TTL | bounded, most recent kept |
| Vector storage `storage/chroma_*.py` | Chroma collection | add, update, delete, query | external database | – |
| Capture `capture/capture_engine.py`, `conflict/`, `detector/` | none / statistics | detect, dedupe, resolve conflicts, store | two captures between check and store | no duplicate, no lost memory |
| Semantic extraction `capture/semantic/` | clusters, schedule | cluster, extract, confirm | partial failure of a job | extracted once |
| Retrieval `retrieval/` | access counters | route, retrieve, rerank, format | access update of memories being archived, or of rows that others write back whole | accesses counted once, ranking respects filters |
| Knowledge graph `knowledge_graph/` | SQLite nodes, edges, caches | upsert, query, maintain, merge | interleaved upsert and delete | edges have both ends |
| Persona `persona/` | batch queue, profiles, versions | add, extract, apply, roll back | LLM call under the only lock; batch removed before extraction; queues discarded at a restart | lost only by a restart, the log explains the persona |
| Embedding `embedding/` | provider, cache | embed, fall back, re-embed | provider changes during an await | vectors of one dimension |
| Image analysis `multimodal/` | budget, cooldowns, cache | analyse | check before, count after an await | budget bounded |
| Rate limits `utils/llm_rate_controller.py`, `rate_limiter.py` | semaphore, last release, daily counts | acquire, release, reconfigure | reconfiguration with calls in flight | concurrency bounded |
| Cooldown `cooldown/` | expiry per group | activate, query, deactivate | bounded table | – |
| Configuration `config/` | layered values, subscribers, backups | read, write, notify, restore | – | last write wins, subscribers told |
| Services and entry `services/`, `core/service_container.py`, `main.py` | components, phases | initialise, hot reload, terminate | reload with calls in flight | used only when ready |
| Web, commands, statistics, models, emotion and entity analysis | request-local, counters, data | – | – | – |

**How they interact.** A platform message reaches the hooks of `main.py`; the
hooks mark normal replies on the coordinator, give every message to the batch
processor and to `ProactiveManager.on_user_message`. The manager feeds the
planner (if the group has an expectation) or the signal queue. The scheduler's
timer and the planner's timers call back into the manager's reply handlers,
which pass the quotas, the coordinator's guard, and the sender. A sent signal
reply creates an expectation; a normal reply clears it (or replaces it, with
`followup_after_all_replies`) and clears the user's signals. The batch
processor hands batches to the capture engine, which stores memories; the
persistence service saves queues and state to AstrBot's key-value store.

The hazards of this code, each at its line, are in `PROJECT.json` with the
properties that would catch them.

## 2. Plan

Most important behaviour first: what the bot says and when (1, 2, 3, 5), then
what it remembers and what it may lose (4, 6, 7, 8), then the rest.

| # | module | abstracts or composes | status |
|---|---|---|---|
| 1 | `ReplyCoordinator`, abstract `ProactiveGate` | refines `ProactiveGate` | proved |
| 2 | `FollowUpPlanner` (with the expectation store) | – | proved |
| 3 | `SignalScheduler` (queue and timer) | – | proved |
| 4 | `BatchProcessor` (with deduplication and the save of its queues) | – | proved |
| 5 | `ProactiveManager` | instance of `ReplyCoordinator`, abstracts the planner; refines `ProactiveGate` | proved |
| 6 | `MemoryLifecycle` | the store as a set of rows | proved |
| 7 | `LlmGate` | – | proved |
| 8 | `KnowledgeGraph` | texts as model values | proved |
| 9 | `SessionCache`, `UpgradeEvaluation`, `SemanticExtraction` | the store as a set of rows | proved |
| 10 | `Persistence`, `Startup`, `ScheduledTasks`, `ConfigStore` | components as contents with a number | proved |
| 11 | `MessageFlow`, `Detection`, `MessageClassifier`, `Capture`, `ImageAnalysis` | queues and store as sets | proved |
| 12 | `VectorStore`, `CollectionMigration`, `Caches`, `ChatHistory`, `SharedState` | – | proved |
| 13 | `GraphChecks`, `PersonaBatch`, `PersonaProfile`, `EmotionalState` | texts as model values | proved |
| 14 | `Retrieval`, `Ranking`, `EmbeddingService`, `GroupActivity` | `VectorStore`'s clauses as any subset | proved |

"Proved" is every safety property a run checks of the module; liveness stays with TLC.
What would be worth adding is composition: the modules of the two benches as callers
of each other, instead of free choices (section 7).

Modules 1 to 5 have runs of their own. Those of lines 6 to 14 keep their state
to themselves or share it through calls that appear in each as a choice of its
answers, so they are checked side by side in two runs (see *Benches*).

## 3. The modules and the code

### ReplyCoordinator (and ProactiveGate, ReplyCoordinatorProofs)

State: `pending` is `_normal_reply_pending`, `cooling` the groups whose
`_last_normal_reply_time` is younger than the cooldown (time is abstracted to
the one comparison the code makes), `gen` tells which lock object
`_proactive_locks` holds, since `clear_group` and `clear_all` drop lock objects
that guards still hold. `locked`, `ahead` and `fut` are `asyncio.Lock`: its
flag, its deque of waiters (as the relation "queued before") and their futures.
`pc` and `lock` are the guard object of each proactive task. `strayed` is a
history variable.

| action | code |
|---|---|
| `NormalReplyStart`, `NormalReplyEnd`, `NormalReplyLost` | `mark_normal_reply_start` / `_end` from the LLM hooks; a request whose LLM call fails or whose reply is empty ends with no mark |
| `EnterRefused` | first check of `__aenter__` fails; `__aexit__` follows at once and releases the lock if it is locked, whoever holds it |
| `EnterFree`, `EnterWait` | `await lock.acquire()` without and with suspension (CPython's rule: no waiter that is not cancelled) |
| `ResumeAllowed`, `ResumeRefused` | the second check after the lock was acquired |
| `Exit` | the send ends and `__aexit__` runs |
| `Cancel`, `CancelDelivered` | `task.cancel()` and the `CancelledError` inside `acquire` |
| `ClearGroup`, `ClearAll`, `CooldownElapses` | `clear_group`, `clear_all`, the clock |

`ProactiveGate` is what callers may rely on: a permit per lock that is taken by
a send in an open group and put back when it ends, and that a refusal in a shut
group may put back for somebody else. It says nothing of queues, futures or
cancellation. `ReplyCoordinator` implements it with `shut <- pending ∪ cooling`,
`free <- Lock \ locked` and `sends` the pairs of sending tasks and their locks.

### FollowUpPlanner (and FollowUpPlannerProofs)

One group: the dictionaries of the planner and of the expectation store are
keyed by group and no operation touches two of them (`close` is the same for
each). `store`, `short` and `window` are the group's entries, `exp` the fields
of expectation objects that decide anything, `task` every asyncio task the
planner has started, registered or not. A task is created, sleeping, deciding
(the LLM is awaited) or replying (the callback is awaited); `cancelled` is the
flag of `task.cancel()` and `CancelDelivered` the moment the coroutine sees it.
A message may be looked up just before its window ends and handled just after
(`MessageAtWindowEnd`); `LookUpExpired` is the deletion inside `store.get()`.
What the LLM answers is `DecidesNo` or `DecidesYes`, what the callback returns
`ReplyEnds` or `ReplySent`. Message texts, delays and prompts are left out.

### SignalScheduler

`SignalQueue` and `GroupScheduler` for one group. Weights are kept exactly, in
1/200, because eviction and the three verdicts compare them. Silence has the
three values the loop tells apart (below the interval, past it, past the
timeout). `DirectReply`, `AskLLM`, `NothingToSay` and `SilenceTimeout` are the
branches of one turn of `_timer_loop`; `LLMConfirms` and `ReplyDone` what follows
its awaits. A message leaves no signal, one, or two (rule and emotion).

### BatchProcessor (and BatchProcessorProofs)

A queue is a set, since order is used only for formatting. `run[r]` is a
suspended `_process_queue` of task `r`: its session and the batch it copied.
Message handlers (`AddMessage`, with the eviction a new session causes), the
cleanup loop (`CleanerStep`) and `stop` (`DrainQueue`) all start runs; `Finish`
is their end, whose `finally` empties the queue whatever came meanwhile. The
loop's local lists are `sweep`: which sessions it has still to see, which were
due and expired when it reads them, which it has marked stale. One
`CleanerStep` passes all the sessions that need no wait, in any order, up to
the next await or the end of the loop. `Deduplicated` is
`deduplicate_messages` with the fingerprint cache, which drops entries when it
outgrows its size (it is a Python set: which entries go is unspecified).
`StopBegins`, `LoopsCancelled`, `DrainQueue`, `DrainAborts`, `StopSaves` and
`StopTimesOut` are `stop()` as the persistence service calls it, with three
seconds to end. Saving is in the two halves the code has around
`await put_kv_data` (`persistence_service.py:371`): a save serialises the queues,
and its put returns, raises or is cut off later. `SaveToKv` tells the put function,
`CommandSaves`, `AutoSaveBegins` and `StopSaves` begin a save, `PutEnds` and
`AutoSaveEnds` end one; all of them overlap, a slow put may bring older queues over
newer ones, and the flag is lowered after a failed automatic put as in the code.
`read`, `captured`, `forgotten`, `late`, `missed`, `lost` are history variables. The three processing modes inside a run differ in which
text they hand to capture, not in when; they are one `captured`.

### ProactiveManager (and ProactiveManagerProofs)

The composition: `C == INSTANCE ReplyCoordinator` and its actions, called from
`_handle_signal_reply` and `_handle_followup_reply`. `Attempt` is everything up
to the first await (quotas, the first check of the guard, the lock if it is
free); `Resume` and `ResumeDeferred` what follows the wait, among it the second
look at the expectation; `Sent`, `SendFails`, `SendCancelled` the end of the
send with the counters, the cooldown, the expectation and the guard's exit.
The planner appears as the set of groups with an expectation and of groups for
which a follow-up has been decided; `FollowUpPlanner` has its inside. Quiet
hours, the whitelist and the `/cooldown` command refuse an attempt before it
changes anything, and are left out. `burst` is a history variable: the replies sent
in the cooldown a group is in.

### What a message meets (run `services`)

| module | state ↔ code | actions ↔ code |
|---|---|---|
| `MessageFlow` | `at`: where an event is between the three hooks of `main.py`; `recorded`: its extra; `task`: the background task of `message_processor.py:398`; `history`, `counted`, `marked`: what hooks wrote | `Hear`, `Ignore`, `Spawn` (first hook), `Prepare`, `Unprepared`, `NoAnswer` (model request), `Answer` (model response), `Unheeded`, `Capture` (last hook), `Classify`, `Remember` (task), `Started`, `Embeds`, `Stop` |
| `Detection` | `triggers`, `ruled`, `level`, `feeling`, `memory`: the locals of `capture_memory` before its search | `Trigger`, `NegativeSample`, `Sense`, `Feel`, `Build`: one per detector and the assembly of the memory; rules and model answers are inputs, thresholds are the code's |
| `MessageClassifier` | `answers`: `_fingerprint_cache`; `cooling`: the per-user cooldown | `ByRules`, `ByCache`, `Skips`, `Ask`, `Answer`, `CooldownEnds`, `Expire` |
| `Capture` | `rows`, `session`: where memories are; `task`, `todo`: captures between awaits | `Detect`, `Search` (duplicates and contradictions), `Resolve` / `Resolved` (one per contradicted memory), `Store`, `Promote`, `Discard`, `Crash` |
| `ImageAnalysis` | `cache`, `recent`, `daily`, `session`, `cooling`: `ImageCacheManager` and `ImageBudgetManager` | `Analyse` (all checks), `Describe`, `Fail` (all writes), and the clocks |
| `KnowledgeGraph` | `nodes`, `edges`: the tables; `known`: `_node_cache`; `pending`: `_pending_items`; `storing`: an extraction between its three storage calls; `owner` and `fact` are history | `ProcessByRules`, `ProcessByModel`, `Flush` (scheduled or of `close`), `Answer` (any part of the batch in its order, `Thinned`), `Subject`, `Object`, `Edge`, `DeleteGraph`, `ForgetFacts` and the other deletions, `Expire`, `UpkeepReads` / `UpkeepDeletes`; a query is the operator `Told`: it crosses an edge only between two visible nodes, at any depth |
| `GraphChecks` | `present`, `rows`: the tables in row order; `reading`: a report between two reads | node and edge changes, `ReadFirst`, `ReadSecond`; cycles, contradictions and duplicates are operators. The cycle search has the code's three caps: the rows it reads (`MaxRead`, LIMIT 50000), the frames one search pops (`MaxPops`, 10000) and the cycles it reports (`MaxIssues`, 100). It takes nodes and edges in an order the code leaves to a set, so `CycleReports` is the set of what it may report |
| `PersonaBatch` | `queue`, `lock`, `batch`, `left`: queues and the one lock; `taken` and `lost` are history | `Arrive`, `AddMessage`, `ExtractEnds`, `Flush`, `FlushNext`, `Stop`, `Restart`, which discards what is queued (`persona_batch_processor.py:418`) |
| `PersonaProfile` | `profile`, `log`, `bound` of a `UserPersona` | `UpdateFromMemory`, `Extract`, `Save`, `Restart`; the log keeps values as `_safe_log_value` (`user_persona.py:345`) shortens them, lists to 20 items and texts to 200 characters (`Shown`) |
| `EmotionalState` | `current`, `history`, `trend`, `anomaly`, `needs` | `Feel`; `Analysis` is the emotion of a text, `Hint` what the coordinator makes of it |
| `Retrieval` | `req`: requests between their awaits; `store`, `working`, `injected`; `snapshots`: rows another component has read and may write back; `accessed`, `exact` are history | `Ask`, `QueryReturns`, `WorkingReturns`, `SyncReturns`, `Inject`, `Fail`; meanwhile captures, archive, `DeleteAll`, and `Reads` / `WritesBack` / `Drops`: promotion and demotion, reviews, marks of extracted memories and merged conflicts, which write a row whole with the count they read (`lifecycle_manager.py:387`, `:427`, `reinforcement.py:134`, `grace_period.py:107`, `semantic_extractor.py:530`, `conflict_resolver.py:359`) |
| `Ranking` | `input`, `output`: one decision | `Route` (an empty query is not looked at, `llm_retrieval_router.py:166`), `Rerank`, `Select` |
| `EmbeddingService` | `providers`, `current`, `loading`, `cache`, `call` of `EmbeddingManager` | `Initialize`, `LoadEnds`, `Close`, `Hit`, `Miss`, `Answered`, `Fails`, `AnsweredByFallback`, `Raises` |
| `LlmGate` | `controller`, `permits`, `holder`: the rate controllers; `request`: calls, in the two attempts of their caller; `used`, `breaker`, `failures` | `Begin`, `Moves` (`TakeLock`, `GapOver`, `TakePermit`, `Retry` after a pause), `Ends` (`Answers`, `ProviderFails`), `TimesOut`, `Configure`, `NewDay`; `NextVia`: the second method of one provider goes through the controller of the first, the next provider through the current one |
| `SharedState` | two `BoundedDict`s and the references between them | `GetEmotion`, `GetPersona`, `Bind`, `DeletePersona` |

### What is stored and kept (run `storage`)

| module | state ↔ code | actions ↔ code |
|---|---|---|
| `MemoryLifecycle` | `working`, `apart`: the session managers before and after `delete_all`; `layer`, `review` of the shared `Memory` objects; `rows`; `archive`, `promote`: the two background tasks between awaits | `Capture`, `Activate`, `Deactivate`, `ArchiveStart` / `Judge` / `ArchiveAdd` / `ArchiveEnds`, `PromoteStart` / `PromoteNext` / `PromoteAdded`, `Rank` / `RankWritten`, `ClearRows` then `ClearWorking`, `DeleteAll`, `Forget` |
| `SessionCache`, `Caches` | `_sessions` and `_session_order`; LRU and LFU entries and `_min_freq` | one action per operation |
| `ChatHistory` | buffers, limit, and what was saved | `AddMessage`, `Clear`, `SetMaxMessages`, `Save`, `Restart` |
| `VectorStore` | `collection`; `job`: each caller between two `to_thread` calls | add, update, statistics, single and bulk deletion in their steps, `Close`, `Initialize`; the query clauses are `Searched` and `Listed` |
| `CollectionMigration` | `disk`, `files`, `backup`, `stage`, `todo`, `failed` | `Start`, `TakeBackup`, `DeleteCollection`, `OpenCollection`, `ReimportBatch`, `ReimportDone`, `Store`, `Stop`, `Crash` |
| `UpgradeEvaluation` | `evaluating`: `_evaluating_memories`; `call`: an evaluation between awaits | `Evaluate`, `Acquire`, `Answer`, `Wake`, `Use`, `SetProvider`, `Access`; `Rule`, `Pass`, `Reject` are the rules |
| `SemanticExtraction` | `rows`, `job`, `sums` | `Read`, `Answer`, `Keep`, `Mark`, and `Promote`, `Delete`, `Crash` meanwhile |
| `ConfigStore` | `user` and `file`: levels 1 and 2; `data`, `cache`, `backup` | `Start`, `Sets`, `UserEdits`, `FileEdited` (a torn file), `Get`, `Expire` |
| `GroupActivity` | hourly counts by age, level, cached presets | `Record`, `GetConfig`, `Later`, `NextHour`, `Expire`, `Restart` |
| `ScheduledTasks` | `jobs` (AstrBot's, persistent), `handlers`, `known` | `Start`, `Disable` / `Reuse` / `Recreate` / `Register` per task, `Started`, `Delete`, `Stop`, `Stopped`, `Crash`; each call may fail |
| `Persistence` | `mem`, `kv`: contents as numbers; `at`, `took`, `hold`: the load and the saves of commands, of the stop and of the batch processor's timer; `unread`: the keys this start did not load | key by key `Load`, `Serialize` and `Put`, an exception that ends the row, `AutoSaves` and `CutAuto` for the queues' own save, commands that clear, delete and reset, `Stop`, `Crash` |
| `Startup` | `at`, `stops`, `up`, `stuck`, `tasks` | one step per started part, `Finalize`, `CreateServices`, `StartJobs`, `Terminate`, one step per stopped part, message tasks |

### MC modules

`MCFollowUpPlanner`, `MCSignalScheduler` and `MCBatchProcessor` hold symmetry
sets, weights and the message–session–text maps, and nothing about the system;
`ReplyCoordinator` and `ProactiveManager` need none. The operators named
`X_Something` after an action or operator `X` are mutants: `X` with a plausible
bug, used by no specification; each shows that a property can fail. A joined
property keeps one.

**Benches.** `MCServices` and `MCStorage` hold the modules of the two tables, each by
one INSTANCE (`KnowledgeGraph`, `LlmGate` and `MemoryLifecycle` by EXTENDS). The initial
state picks a `part`, and the behaviour is that part's alone: the states are the sum of
the parts' states and not their product. A property `part = "x" => X!P` is about part
`x`; one of an extended module is checked in every state and says something where the
part is that module's. Properties of related parts are joined under one name
(`PersonaSound`, `RetrievalSound`, `MessagesSound`, `KnowledgeGraphSound`, `CachesSound`,
`ConfigSound`, `UpkeepSound`); each conjunct has its own comment in its module.
`KnowledgeGraph` is in both benches: in `services` with three memories, one of them
private, and one extraction at a time; in `storage` with two extractions that overlap,
of memories of two users of a group, and `GraphChecks` is beside it there. What the constants are assumed to be is
`ServicesAssumption` and `StorageAssumption`, which TLC evaluates with each run. A part
is checked alone by setting `Parts`. The modules of the benches take few library
modules: what they need of them (`Range`, a sequence without its i-th element) is a line
each, and the proofs can then expand it.

## 4. The runs

Sizes are distinct states; every run ends within four minutes on two
workers. The deadlock check is off where every task may end for good (after
`close` or `stop`, or when all messages have been sent).

| run | instance | shows |
|---|---|---|
| `coordinator` (40 k) | 1 group, 3 tasks, 2 requests, 1 clear | `MutexUnlessStrayed`, `LockedHasSender`, `NoLostWakeup`, `SendsStartClear`, refinement of `ProactiveGate`, and `WaiterServed` under fairness |
| `coordinator_one_reply` | 2 tasks | violated: two replies are sent in one group |
| `followup_safety` | 2 expectations, 4 tasks, `followup_after_all_replies` off | `OneDecisionPerExpectation`, `TimeoutArmed`, `WindowTimerTracked` |
| `followup_after_all` (40 k) | 2 expectations, 2 tasks, on | the same where every reply replaces the expectation, and `Quiesces` |
| `signals_safety` | 4 signals of 2 users, limit 3, weights 60, 60, 100, 150 of 200 | `CapacityRespected`, `TimerCoversSignals`, `SilenceDrains` |
| `signals_confirm_race` | the same | violated: signals that came during the LLM call are cleared |
| `batch_queue` (2.6 M) | 1 session, 3 messages with 2 texts, 1 handler, threshold 2, cache of 1; saves of a command, the loop and the stop | `SavedUnlessMissed` |
| `batch_sessions` (68 k) | 2 sessions, limit 1, 3 messages, 2 handlers, threshold 3, cache of 1 | `ProcessedOnce`, `LossOnlyByOverlap`, and `QueuesDrain` under fairness |
| `batch_stop` | 1 session, 3 messages | violated: stop loses what the loop had in hand |
| `manager_safety` (2.4 M) | 3 replies, 2 users, day limit 2, user limit 1, one new day | `OvershootBounded`, `GuardSurvives`, `ImplementsGate`, `SignalDefers`, `CooldownEndsBurst` |
| `services` (1.2 M) | the parts of the first table, instances in `MCServices` | what the modules' last definitions say, by part: see below |
| `storage` (1.7 M) | those of the second, two more instances of `KnowledgeGraph`, and `GraphChecks`, in `MCStorage` | the same |

What the two benches show, with the definitions of the modules:

| property | says |
|---|---|
| `MessagesSound` | the background task and the last hook never both capture a message, the history has question and answer once and in order, a stopped plugin notes nothing (`FlowSound`, `StopSeals`); what a message is found to be follows from rules, models and confidences, and what is private stays so (`DetectionSound`); one model call per user and cooldown, and what is dropped is explained (`ClassifierSound`); a contradicted memory is marked, spared, or has a successor, and nobody's private memory gives way to another user (`CaptureSound`); an image is described again only for a reason, and budgets overshoot by the overlapping calls at most (`ImagesSound`) |
| `GraphSound` (three memories, one extraction) | edges have both ends, nodes are unique, the cache is stale only for another user's key, a deleted fact comes back only if it was in flight |
| `PrivateFactsStayPrivate` | what was said in a private chat is told to nobody else, although a query looks at nodes only and edges hang on nodes of any chat |
| `KnowledgeGraphSound` | the same two where two extractions overlap; a report errs only after a change between its reads; the cycles it reports are rings up to its length, and one is missing only if the table is longer than is read, the report is full, or the search from each of its nodes was cut |
| `PersonaSound` | a message leaves its queue once, in order, for an extraction, or is discarded by a restart and never extracted; the change log explains the profile as it shows values, across restarts, trimming and shortening; a decline reaches the prompt, a negated joy is not taken for joy |
| `RetrievalSound` | a memory found twice is merged; no access is counted that was not one, and each is counted unless requests or reviews of the memory overlap, an update fails, or another component writes the row back with the count it had before; what was shown lately is shown again only for a reason; a memory at least as good stays first, what is shown fits the budget, routing respects what there is |
| `EmbeddingSound`, `SharedStateSound` | the cache is bounded, has a text once for each dimension, and is of one model; a persona follows its user's emotional state unless that was evicted |
| `GateSound` | `PermitsConserved`, `LockHeldAsleep`, `BreakerCountsFailures` and `DailyOvershootBounded`: permits are conserved across timeouts, fail-over and a replaced controller, quotas overshoot by the calls in flight |
| `LifecycleSound` | `NothingVanishes` and `ForgottenReturnsInFlightOnly`: no memory vanishes but as the code means to lose it, and what was cleared returns only if a background task held it |
| `VectorStoreSound`, `MigrationSound` | what is deleted stays deleted, scopes separate users and groups, forgetting selects what the listing shows; a collection is deleted only with a backup, and every document is accounted for |
| `CachesSound` | recency, frequency and values right along every path of the caches; the two structures of the session cache agree; histories are gapless tails within their limit, across restarts |
| `ConfigSound` | a value set is read and loaded again, only a start brings in a bad one; a group's level settles, does not flap and ends with silence |
| `UpkeepSound` | an undisturbed stop keeps everything, also while the queues are saved by themselves; a stored key goes back only by a reset, by a put of what was serialised before another put of the key, or when this start did not load it, and only to what memory was left with; a task has one job; a memory is summed up once but for failures, overlaps and crashes, and always with memories of its own user; one evaluation judges a memory at a time, and what another passed over is judged; no part outlives one it works on |

**Why the bounds are enough.** The smallest scenes in which each hazard bites
need: a holder, a refused guard and a waiter (3 tasks, and the theorems remove
the bound); an expectation and its successor, with two registered timers and
two cancelled ones (2 and 4); signals that fill the queue and one that evicts,
with sums in each of the three verdicts (4 signals around thresholds 100 and
160); two handlers, the cleanup loop and `stop` with a text that comes twice and one
that pushes its fingerprint out (3 messages, 2 texts, cache of 1); three savers, so
that two puts are overtaken by a third; a tracked session and one more than the limit (2 sessions); a holder, a
queueing and a third reply, with a limit smaller than their number (3 replies).
The benches follow the same rule: two overlapping callers, jobs, requests,
evaluations or extractions on the same thing and a third thing to tell it from;
caches and limits of one or two with one key more; two users and, where scopes
matter, two groups; one crash, and starts enough to load what it left; two changes of what is saved, so
that there is an older content to go back to; retries and fail-over over two
providers; a threshold one below or at the number of messages; memories of worth and
cost 1 to 3 against a budget of 5; searches of at most three frames, so that this cap of
`GraphChecks` cuts searches in the run, where a table is never longer than is read nor
has cycles for more than one report (the theorem has these two caps of any size).
Bounds that stop a counter are constants: `MaxClears`, `MaxDays`, `Saving`,
`MaxNodes`, `MaxRows`, `MaxCrashes`, `MaxBoots`, `MaxAsks`, `MaxAsked` (the requests
of `Retrieval` and the rows others read whole), `MaxReads`, `MaxMoves`,
`MaxCalls`, `MaxAccesses`, `MaxFaults`, `MaxJobs`, `MaxChanges`, `MaxTasks`, `MaxObjects`,
`MaxControllers`, `MaxUsed`, `MaxSaid`, `MaxCount`, `MaxAccess`, and the finite sets
of tasks and expectations. In `FollowUpPlanner` tasks and expectations are reused as soon as nobody refers to them, so chains are not
bounded by them; `View` identifies states that differ in an object nobody holds.

**Symmetry** is used in runs without liveness properties, over sets no constant and
no property tells apart: in `services` the callers `Processors` of `LlmGate` (in
`MCBatchProcessor` also over the two messages with the same session and text).
`StorageView` leaves out of a state what the components that do not run began with.

**Fairness** is what asyncio gives: a ready callback runs, a timer that is due
fires, and an awaited call comes back, fails or is cancelled (the LLM and
platform calls have timeouts of the host). It is weak and on those actions
alone: `ReplyCoordinator` on resumption, cancellation and the end of a send;
`FollowUpPlanner` on each task's step and the end of the window;
`SignalScheduler` on silence growing and the timer; `BatchProcessor` on the
loop, ages and the end of runs. The benches state no fairness: their properties
are about what happens, not that something does. Nobody is assumed to write, to
reply, to call `stop`, or to answer in a particular way.

## 5. What is proved

Every theorem holds for all values of the constants that satisfy the module's named
assumption (`ConstantsAssumption`, `QuotaAssumption` and `GuardAssumption`,
`GateAssumption`, `LifecycleAssumption`, `GraphAssumption`, `ServicesAssumption`,
`StorageAssumption`), which every run of the module evaluates; nothing else is assumed. They say that limits are numbers, maps
are defined on what they map, markers such as `NoSession` are not sessions, and,
where something is counted, that the tasks or callers are finitely many. The proofs
have one frame: an inductive invariant, a lemma per operation, one lemma for the
whole of `Next`, and one theorem per property. Each inductive invariant was first
checked by TLC on the instance of a run.

**`ReplyCoordinatorProofs`**, for any groups, tasks, requests and clears:

| theorem | statement |
|---|---|
| `TypeCorrect` | `Spec => []TypeOK` |
| `Mutex` | `Spec => []MutexUnlessStrayed` |
| `NoLeak` | `Spec => []LockedHasSender` |
| `NoWaiterForgotten` | `Spec => []NoLostWakeup` |
| `StartsClear` | `Spec => SendsStartClear` |
| `Implements` | `Spec => ImplementsGate`: each step is a step of `ProactiveGate` or a stutter |

The argument. None of the three invariants is inductive. That a free lock has
woken its first waiter needs to know who is first, so `OrderInv` says `ahead` is
a strict total order on the waiters of one lock, and `QueueInv` ties program
counters to futures. A waiter that is cancelled after it was woken passes the
wake-up on; this needs `WokenInv`: only the head of a deque is woken, and only
while its lock is free. Exclusion needs `PermitInv`: a send holds its lock unless
a refused guard took it away. `IInv` is their conjunction with the invariants
themselves. `StepInv` proves it step by step, with one lemma for each kind of
guard step; leaving a lock (`Exit`, `ResumeRefused`, a cancellation on a free
lock) shares `LeaveAndWake`. `Implements` then uses `IInv` for the two facts the
gate asks for: a send begins with its permit free, and no task begins twice.

The qualification in `Mutex` is the code's: a refused guard really does release
a lock it does not hold, which `coordinator_one_reply` exhibits.

**`FollowUpPlannerProofs`**, for any expectations, tasks, messages, any limit of
follow-ups and both values of `followup_after_all_replies`:

| theorem | statement |
|---|---|
| `TypeCorrect` | `Spec => []TypeOK`; with it a chain of follow-ups stays below its limit |
| `OneDecision` | `Spec => []OneDecisionPerExpectation` |
| `TimeoutIsArmed` | `Spec => []TimeoutArmed` |
| `TimerIsTracked` | `Spec => []WindowTimerTracked` |

The argument. Two tasks cannot decide about one expectation because the second
finds it marked: `DecidingIsMarked` says that what is being decided is marked as
processing, and nothing clears the mark. A new expectation starts unmarked, which
is harmless only because no task works on it (`UnusedExp`, a fresh Python
object). That the window timer is armed needs `WindowEntry`, that the registered
window timer is live, since whatever cancels it strikes it out before the next
await. It also needs `ShortEntry`, that the entry of the short timer is never a
window timer, so that a message which cancels the short timer cannot hit the
window's. The steps that create an expectation are `CreateStep` and `NotifyStep`;
those that only cancel, end or empty share `EndingStep`; a coroutine that goes
from one await to the next is `MoveStep`. The two firings have lemmas of their own.

**`SignalScheduler`**, at the end of the module, for any signals, users, weights, thresholds and limits:

| theorem | statement |
|---|---|
| `TypeCorrect` | `Spec => []TypeOK` |
| `Capacity` | `Spec => []CapacityRespected` |
| `TimerCovers` | `Spec => []TimerCoversSignals` |

The argument. A bound on the cardinality is kept only for a finite queue, so
`Capacity` carries `Bounded`, finiteness and bound together, from `EnqueueBounded`
(a full queue gives up one signal before it takes one) through the one or two
signals of a message. `TimerCovers` needs `StoppingIsClosed`: the one way a timer
task is stopped from outside is `close`, so a timer that is on its way out while
the scheduler is open has cleared the queue itself.

**`ProactiveManagerProofs`**, for any groups, users, tasks, quotas and resets of a day:

| theorem | statement |
|---|---|
| `ManagerTypes` | `Spec => []TypeOK` |
| `Guarded` | `Spec => []GuardSurvives` |
| `Overshoot` | `Spec => []OvershootBounded` |
| `Defer`, `Bursts` | `Spec => SignalDefers`, `Spec => []CooldownEndsBurst` |
| `ManagerImplements` | `Spec => ImplementsGate` |

The argument. `P == INSTANCE ReplyCoordinatorProofs` brings that module's lemmas
under the manager's own variables, so nothing about the lock is proved twice.
`CoordinatorStep` shows that each step of the manager is a step of the coordinator
or leaves it alone, but for one: a signal that finds an expectation when it wakes
leaves the guard at once, without ever having been in it. `DeferredStep` proves
that this step keeps `P!IInv` too and is a stutter of the gate. `OvershootBounded`
is not inductive, since a reply is checked before it waits and counted after it is
sent: `CountInv` says that what is counted and what is in flight together pass the
limit by less than one for each task, so counting one moves it from one summand to
the other. A cooldown is the same: a reply that queued before it began is sent in it
and begins it anew, so the code does not keep it; `Bursts` says that this comes to an
end. `BurstInv` counts the replies sent in a group's cooldown (none where none runs),
and a group in its cooldown lets nobody begin, so those under way there only become
fewer: together they stay at most the tasks there are.

**`BatchProcessorProofs`**, for any handlers, sessions, messages, texts, thresholds
and sizes of the fingerprint cache:

| theorem | statement |
|---|---|
| `BatchTypes` | `Spec => []TypeOK` |
| `Once` | `Spec => []ProcessedOnce` |
| `Loss` | `Spec => []LossOnlyByOverlap` |
| `Saves` | `Spec => []SavedUnlessMissed` |

The argument. Four kinds of task run the same `_process_queue`, so each operation is
first reduced to a summary of what it does to queues, runs and fingerprints (`Begun`,
`Swept`, `Added`, `Drained`, `Ended`), and the invariants are proved from summaries.
`Deduplicated` goes through a queue in an arbitrary order; `DeduplicatedSound` says
of any finite queue that the batch comes from it, that a text of the batch was in the
cache before only if it has been dropped on the way, and that no fingerprint is
lost unaccounted. It is proved by `SubsetInduction`, which rests on the
well-foundedness of strict inclusion and needs no rule with an operator parameter.
`ProcessedOnce` needs `SeenInv`: what is in a batch or captured has its fingerprint
in the cache unless it was dropped. `LossOnlyByOverlap` needs `OverlapInv`: what a run
under way, or a cleanup that has marked the session, has not read came late.
`SavedUnlessMissed` needs `SaveInv`: what each save under way has serialised holds every
queued message but the missed ones. It is kept whichever put ends first (`PutKept`), as
each of them says it; only an automatic save that begins while no other is under way
(`BeginKept`) may call the queues complete again.

**`KnowledgeGraphProofs`**, for any memories, users, groups, workers, batch size and
number of nodes:

| theorem | statement |
|---|---|
| `GraphInvariant`, `GraphTypes` | `GraphSpec => []GraphInv`, `GraphSpec => []GraphTypeOK` |
| `OnNodes`, `Unique`, `Stale` | edges have both nodes; a name has one node per user and chat; a stale cache entry is under another user's key |
| `FactsForgotten` | `GraphSpec => []ForgottenOnlyInFlight` |
| `GraphIsSound` | `GraphSpec => []GraphSound`, the five together |
| `PrivateStays` | `GraphSpec => []PrivateFactsStayPrivate` |

The argument. The tables' part (`TablesInv`) is kept by each operation of the storage
alone (`UpsertKeeps`, `EdgeKeeps`, `DeleteKeeps`, `ExpireKeeps`), given what a worker
remembers from its earlier thirds (`Works`). That two extractions make no node twice
rests on the cache and the table being looked at in one operation; that a cached
identifier of a node that is gone has another owner is what `StaleOnlyForeign` adds
for the case the table is not looked at. Privacy cannot be proved of `Told` alone,
since a query does not look at edges: `PrivateRows` says that an edge from a private
chat hangs on private nodes of its own user, and it holds because a worker that
stores a private memory remembers only such nodes, even when they have been deleted
and their identifiers are cached. That forgotten knowledge stays forgotten needs
`HandsInv`: a memory is in one place of the batch or of one worker's hands, once, and
marked as being stored; that in turn needs `TailItems` and `ThinnedItems`, on what is
left of a batch when the model answers only for part of it.

**`ServiceProofs`** and **`StorageProofs`** hold a part for each component of the
benches: its inductive invariant, a lemma per action, a theorem about the component's
own specification (`X!Spec => []X!P`), for any values of its constants that meet the
assumption named. The last part of each module is about the bench: `ServicesRuns` and
`StorageRuns` say that a run of the bench is a run of every component (the chosen one
moves, the others stutter), and the theorems below it conclude, of the bench's
specification, the property its run checks, word for word:

| theorem | property of the run | rests on |
|---|---|---|
| `GateIsSound` | `GateSound` | `Permits`, `Locks`, `Breaker`, `Overshoot` |
| `EmbeddingIsSound` | `EmbeddingSound` | `EmbedsRight` |
| `SharedStateIsSound` | `SharedStateSound` | `SharesRight` |
| `MessagesAreSound` | `MessagesSound` | `FlowsRight`, `FlowStops`, `DetectsRight`, `ClassifiesRight`, `DescribesRight`, `CapturesRight` |
| `PersonaIsSound` | `PersonaSound` | `BatchesRight`, `BatchesKeepOrder`, `LogsRight`, `FeelsRight` |
| `RetrievalIsSound` | `RetrievalSound` | `RetrCounts`, `RetrReasons`, `RanksRight` |
| `LifecycleIsSound` | `LifecycleSound` | `LifecycleTypes`, `Vanishes`, `Forgotten` |
| `KnowledgeGraphIsSound` | `KnowledgeGraphSound` | `GraphIsSound`, `PrivateStays`, `ReportsRight` |
| `CachesAreSound` | `CachesSound` | `CachesRight`, `SessionsRight`, `HistoriesRight` |
| `MigrationIsSound` | `MigrationSound` | `Migrates` |
| `VectorStoreIsSound` | `VectorStoreSound` | `StoresRight` |
| `ConfigIsSound` | `ConfigSound` | `CacheAnswers`, `SavedLoads`, `OnlyLoadsBad`, `ActivityRight` |
| `UpkeepIsSound` | `UpkeepSound` | `StopsKeep`, `NeverGoesBack`, `TasksRight`, `ExtractsRight`, `EvaluatesRight`, `StartsRight` |

The assumptions, each a conjunct of `ServicesAssumption` or `StorageAssumption`, and
where the code makes them true:

| component | assumed | because |
|---|---|---|
| `LlmGate`, `MemoryLifecycle`, `KnowledgeGraph` | `GateAssumption`, `LifecycleAssumption`, `GraphAssumption` of the modules | limits are numbers, callers are finitely many |
| `EmbeddingService` | `CacheMax` at least 1 | `manager.py:81`, `constants.py:312`: 1000 |
| `SharedState` | `MaxUsers` at least 1 | `bounded_dict.py:42` takes `max(1, max_size)` |
| `Detection` | `Detectable`: counts are numbers, a type found has a match | types come from matches (`trigger_detector.py`) |
| `Capture` | `Tellable`: confidences from 0.3 up, and an id is no marker | `SureEnough`, a theorem about `Detection`: nothing below 0.3 reaches the search |
| `MessageClassifier` | `AnswersMax` a number | a size |
| `ImageAnalysis` | `Imageable`: finitely many analyses, budgets are numbers | each is a task of the process |
| `PersonaBatch` | `Batchable`: `Threshold` in `1..MaxQueue`, `BatchMax` at least 1 | `schema.py:491`, `:507`; `persona_batch_processor.py:103` |
| `PersonaProfile` | `MaxLog` at least 1; `MaxShown`, `Top` numbers | `user_persona.py:112` (200; a slice `[-0:]` would keep all), `:345`; scores are clamped |
| `EmotionalState` | `WindowSize` at least 1 | `emotion_state.py:43`: 7 |
| `Retrieval` | `Searchable`: finitely many memories, `TopK` and `MaxTrack` at least 1 | `schema.py:281` (`min_val=1`), `shared_state.py:28`: 20 |
| `Ranking` | `Budgeted`: the preamble fits the budget, worths and costs are numbers | `token_manager.py:40`: 512 and 20 |
| `CollectionMigration` | some dimension exists | a model has one |
| `VectorStore` | `MaxAccess` a number | the bound of the run |
| `UpgradeEvaluation` | `BatchSize` at least 1, finitely many memories, scores are numbers | a batch size of 0 would make `range(0, n, 0)` raise |
| `ChatHistory` | limits are numbers | `schema.py` types them `int` |
| `GroupActivity` | hourly counts are numbers | they are counted |
| `SessionCache` | `MaxSessions`, `MaxMemories` at least 1 | `schema.py:291` (`min_val=1`), and 100 sessions |
| `GraphChecks` | finitely many nodes; the longest cycle and the rows read are numbers | a table; `kg_storage.py:992`; nothing is assumed of the other two caps |
| `Persistence` | no command is named like the other rows | names |
| `SemanticExtraction` | `Extractable`: finitely many memories, jobs and keywords; `1 <= MinSize <= MaxPerCluster` | `schema.py:1340` to `:1365`: 3, 15 and 20 clusters, not for users to change |

The arguments, where the invariant is more than the property:

- `LlmGate`. Every step of a caller is a `Turns(c, x)`: its request becomes `x`, and
  permits, locks and counts change as the place it leaves and the place it enters say.
  `PermitsTurn`, `LockTurn` and `CountTurn` are then each one case analysis instead of
  eight. `LockHeldAsleep` needs its converse (`LockInv`), or a caller that leaves could
  free another's lock; the daily limits need `CountInv`, as in the manager: counted and
  under way together.
- `MessageFlow`. That a message is captured once needs `Heard`, which hook may still
  come and whether a background task may exist, and `Captured`, that what was captured
  was by the one that is at its end. The order of the history needs `Noted`.
- `Detection` is a pipeline: `Believed` says which level counts while the memory is yet
  to be built; `Triggered`, that a trigger has a type, a match and half the confidence.
- `MessageClassifier`. In the hybrid mode only texts the rules find urgent are asked
  about, so only such texts are ever in the cache of answers: the cache cannot turn an
  ordinary message into one that is captured at once.
- `Capture`. What contradicts a capture is, by the time it is stored, resolved, marked,
  spared, or gone (`Looked`), and what gave way gave way to a capture that had seen it
  and is no worse by two grades (`Yielded`); a duplicate gives way to nothing.
- `ImageAnalysis`. An image is paid for once more than it has excuses, counting the
  analyses that run (`Excused`); budgets count those that have begun and those that may
  overlap, so a budget is passed by less than their number.
- `EmbeddingService`. `Sole`: one provider at most is registered, has answered, and is
  still to answer, since `initialize` stops at the first that comes up. The fallback
  cannot mix models: it enters only where nobody was, and without a source there is no
  vector (`source = "unset"`).
- `SharedState`. A persona's entry is the same object the other dictionary has, or that
  one was evicted. `DictPlaces` and the lemmas about moving an entry to the end carry it.
- `PersonaBatch`. A message is in one queue, batch or caller's hands (`Waiting`, `Held`,
  `EachOnce`), and the queue is short of its threshold between two extractions (`Short`),
  so the overflow branch of `add_message` is never needed. A restart only moves what was
  queued or still waiting for the lock to what is lost (`RestartShrinks`), and what is
  lost is in no queue, so that it can neither be extracted nor come out of order.
- `PersonaProfile`. A record is right about the next one of its field, or about the field
  as the log shows it (`Leads`, `Explains`). `RecordAdded` says that a record of what was
  and what is keeps the log right, `NewestExplain` that its newest records do without
  the others, and `ListShown` and `WordShown` what is lost of a value: two lists that
  differ may be shown alike, and the log is still right about what it shows.
- `EmotionalState`. Of two windows that are alike the later counts no less, in joys as in
  sorrows (`AlikeIsStable`), so what improves or deteriorates differs from what was
  before. That no intensities make a trend volatile (`NeverWild`) is arithmetic over
  windows of any length: `SquaresBound`, by induction over the sequence, compares the
  squares with sixty times the numbers.
- `Retrieval`. Counts need three facts of every place a count may be: it is new only
  where nobody has accessed the memory (`Fresh`), it is never more than the accesses
  there were (`NoneMore`), and of a memory nothing disturbed one request has it and knows
  the right count (`Undisturbed`). A row that is written back whole with the count that
  was read keeps all three: it can only take away, and what it takes away it took from a
  memory that is exact no more. What is shown again rests on `KeptForAReason`.
- `Ranking`. The score is a sum of weights times what the memory has (`ScoreIs`), so what
  is better in everything has no lower score (`BetterScores`); what fits the budget is the
  longest run of the first memories (`TakenIs`, `FittingIs`).
- `MemoryLifecycle`. `NothingVanishes` is nearly inductive: it needs `BusyInv`, that a
  promotion between its awaits has a memory at hand, and `HomeInv`, that what a session
  holds was captured in it. That a cleared memory returns only if it was in flight needs
  `HeldInv`, about each place it could come back from: a background task's hands, or the
  cache a deletion left behind.
- `GraphChecks`. `PathsAre`, by induction over the depth, says that after `d` rounds the
  search holds the simple paths of `d` steps and nothing else, `SearchedOnce` that none
  has a node twice. What closes such a path is a ring, whatever the caps; and a ring is
  closed from each of its nodes, so it is missing only if a row of it was not read, all
  its searches were cut, or the report was full (`RingsReported`). The reports need `ReportsInv`: as long as nothing was touched, what the
  first read saw is no less than what is there at the second.
- `Caches`. The LRU's order is the recency history without the keys that went, read from
  the same end; the LFU's lowest count is below every count (`LfuInv`), though after a
  deletion it may name no entry.
- `SessionCache` and `ChatHistory`. Order and dictionary hold the same sessions, once
  each; a buffer is the numbers from some number up to the last said, before and after
  a cut, a save and a load (`UpTo`).
- `CollectionMigration`. Every stage says what the backup in memory still has
  (`MigrationInv`): before the deletion all that is stored is in the backup or in files;
  during the re-import what is missing or refused makes up the difference.
- `VectorStore`. An identifier is added once and deleted for good: what an add holds was
  never stored, what a deletion holds was (`JobsApart`). Without it a late write of an
  overlapping update could bring a deleted row back; it cannot, since `Rewriting` changes
  only rows that are there.
- `UpgradeEvaluation`. An evaluation holds what it has asked about or has ahead
  (`CallRight`), no two hold the same memory, and what it passed over has been judged
  since, or another evaluation has it ahead (`JudgedOrAhead`).
- `SemanticExtraction`. Overlapping jobs may sum a memory up twice; the model counts an
  excuse where that, a failed mark or a crash happens. `Accounted` relates them: the summaries
  of a memory and the jobs about to sum it up exceed its excuses by one at most, and by
  none while it is unmarked and in no job's hands. The second half is what makes the next
  read harmless. Clusters in one job are disjoint, of one user, of `MinSize` to
  `MaxPerCluster` memories (`ClusterList`), whichever of the possible clusterings is taken.
- `Persistence`. `StopKeeps` needs that no save is under way while the plugin is down or
  loads (`SavesInPhase`), and of an undisturbed stop that every key its save has passed is
  as in memory and that what it and the save of the queues hold is what is there
  (`StopSaves`): the queues may then be put twice, but the same. `NoGoingBack` needs
  `NeverBehind`: what memory has of a key, and what a save holds that nobody overtook, is
  as new as the store, or is the nothing of a key this start did not load (`AsNew`).
- `Startup`. Until the stop, all that ever started runs; a step of the stop leaves of its
  parts only what is stuck, and nothing that works on an earlier one (`StartInv`).
- `ScheduledTasks`. A job the scheduler has lost track of excuses everything
  (`lost`); otherwise a task has one job, which is known and handled, or is about to be
  found by the registration under way (`Registering`).
- `ConfigStore` and `GroupActivity`. The cache answers what the levels would
  (`CacheCoherent`). The level of a group is a function of the counts of four hours and
  of itself; `SettlesAtOnce` and `FallsLate` are proved of that function.

Where a definition took a recursive operator of a library, it was written anew as what it
computes (the clusters of `SemanticExtraction`, the paths of `GraphChecks`, the sums of
`EmotionalState`), since nothing could be proved of it otherwise. The recency history of
`Caches` is part of its state for the same reason.

**Only model-checked:**

- liveness (`WaiterServed`, `Quiesces`, `SilenceDrains`, `QueuesDrain`), which the
  proof system cannot do under fairness;
- that the instances are large enough to meet what the properties are about, which is what
  the mutants in `PROJECT.json` show: with each plausible bug a run fails.

## 6. Disagreements between the code and its documents

Met while modelling. Three have a run that TLC ends with a counterexample and an
entry under `findings`:

1. `reply_coordinator.py:271` – `__aexit__` releases the lock also for a guard
   that was refused before acquiring it (`OneProactiveReplyPerGroup`).
2. `group_scheduler.py:217` – `clear_group` after the LLM call clears signals that
   came during it (`ClearsOnlyProcessed`).
3. `batch_processor.py:377` – cancelling the cleanup loop inside a run empties the
   queue through `finally`; `stop` then finds nothing (`StopProcessesRemaining`).

The definitions named below stand at the end of their modules, marked as not
holding; TLC refutes each on an instance of that module. They have no run of their own.

**Replies**
- `followup_planner.py:415` – `CancelledError` leaves `_processing` set; later short
  windows of the expectation end undecided, and its window timer was cancelled too
  (`ShortWindowIsJudged`). `:345` – a cancelled short timer's `finally` pops the entry
  of its successor, so two run (`OneShortTimer`). `:313` – a short timer cut off at the
  window's end deletes the expectation before the window timer can judge it
  (`MessagesOutliveWindow`).
- `manager.py:554` – quotas are checked before the guard and counted after the send
  (`DailyLimit`; `OvershootBounded` says by how much). `:539` – a reply that queued
  behind another starts inside the cooldown it began (`CooldownKept`).
- `reply_coordinator.py:95` – the first of two overlapping normal replies to end lifts
  the flag of the second (`PendingWhileInProgress`); `message_processor.py:222` – an
  empty or failed one never lifts it (`PendingIsLifted`, `MarkEnds`).
- `signal_queue.py:56` – a full queue evicts a signal heavier than the newcomer
  (`EvictsLightest`); `:189` adds other weights with 0.5 where the docstring says 0.3
  (`DocumentedWeight`).

**Messages and capture**
- `batch_processor.py:329` – at exactly the session limit nobody is evicted
  (`SessionsWithinCap`); `:295` – a session marked stale is evicted with messages that
  came meanwhile (`EvictsOnlyEmpty`). `persistence_service.py:404` – before the first
  `save_to_kv` an automatic save stores nothing and lowers the flag (`AutoSaveSaves`).
- `MessageFlow`: ordinary messages that ask the model enter the layered processing and
  are answered beside it (`AskersNotLayered`, main.py:279); an answer may be noted
  without its question (`AnswerHasQuestion`, message_processor.py:75); without a batch
  processor a group's message is captured by nobody (`LeftToSomebody`, :365); a message
  counts twice for its member (`CountsOnce`, :99 and :342).
- `llm_sensitivity_detector.py:57` – the table of levels has upper-case keys and `:154`
  looks them up in lower case: the model's level is always PUBLIC (`ModelConfirms`).
- `conflict_resolver.py:322` – what is contradicted is deleted before its successor is
  stored, which may fail (`NothingLost`), also another user's shared memory
  (`OthersKept`). The "merge" result and the LLM resolver are never reached, and a
  failed store is reported as captured.
- `MessageClassifier`: in the hybrid mode the model is asked only about messages the
  rules find immediate; the cache is keyed by the text without its context.
- `ImageAnalysis`: budgets are passed by overlapping calls (`BudgetsKept`), one message
  is analysed by two hooks (`DescribedOnce`, message_processor.py:126 and :440;
  `OneAtATime`). A session's budget never recovers before a restart, since nothing
  calls `reset_session_budget`; only the first image of a message is analysed.

**Memory**
- `MemoryLifecycle`: a stored review never expires: `grace_period_expires_at` is not among
  the fields that are stored (`chroma_operations.py:143-180`), so the cleanup of expired
  reviews (`lifecycle_manager.py:523-548`, `grace_period.py:137`) finds none after they
  are read back. A promotion whose store fails puts the object back to the working
  layer while the archive writes it (`RowsAreRanked`). `close_session`,
  `deactivate_session`, `perform_maintenance` have no caller, so sessions end only when
  loaded from a saved state, and nothing saves one. `delete_all_memories` replaces the
  session manager; the lifecycle manager and the retrieval engine keep the old one
  (`DeletedNotRetrieved`, business_service.py:493).
- `UpgradeEvaluation`: `lifecycle_manager.py:602` takes no verdict for a no, so what
  promotion is asking about is archived as rejected (`EverythingJudged`); a changed
  `max_concurrent` has no effect on the semaphore.
- `SemanticExtraction`: a summary gets the group and scope of its first source
  (`OneRoom`, semantic_extractor.py:409); a batch's answers are matched by position and
  their `cluster_key` is never read (`AboutItsSources`, :363); what was deleted
  meanwhile is summed up (`DeletedNotSummed`); a mark writes the old layer back
  (`PromotedStays`, :530). Expiry dates are stored and never acted on.
- `chroma_init.py:80` – with the re-import disabled the "backup" the log points to is
  gone with the process (`BackupFindable`); a crash between deletion and re-import, or
  a batch that fails, loses memories. `cache.py` – setting an expired key keeps its old
  creation time (`JustSetIsFresh`).
- `Retrieval`: promotion, reviews, marks of extracted memories and merged conflicts write a
  row back whole, with the access count they read before an await, so accesses meanwhile
  are forgotten (`AccessCounted` excuses them); what is marked as shown may not have been (`MarkedWasShown`,
  context_builder.py:166); the filter of memories under review sits in methods of the
  engine nothing calls. `Ranking`: a question about a relation may get the HYBRID
  strategy, which asks no graph (`RelationUsesGraph`, retrieval_router.py:87); the
  vector similarity the reranker weighs is never set.
- `KnowledgeGraph`: what is said in one group may be told in another
  (`GroupFactsStayInGroup`); after `delete_user_data` a cached node of another user's
  key makes triples fail until it expires; a failing triple ends the rest of its batch.
  `GraphChecks`: contradictions depend on the order of rows (`OrderDoesNotMatter`).
- `PersonaBatch`: `initializer.py:538` sets no callback, so the results of batches
  are applied to no persona; `stop` flushes one batch per queue (`StopEmpties`), and the
  next start discards the rest.
  `PersonaProfile`: a bound persona's triggers are overwritten past the log
  (`TriggersExplained`). `EmotionalState`: no intensities reach a volatile trend.
  `SharedState`: states are evicted while their persona stays (`BindingCurrent`).

**Upkeep**
- `ConfigStore`: `loader.py:73` says bad values are downgraded to their default and
  they are loaded (`LoadedIsValid`); a value set is not read where the user has one
  (`SetCounts`). Change events reach no subscriber, so hot reload never happens;
  `restore_latest` has no caller, so a torn file loses all settings of level 2.
- `Persistence`: after an aborted load the next save writes the empty rest over the store
  (`LoadedOrKept`, persistence_service.py:250); a save whose put is slow brings back what
  another has replaced (`NoGoingBack` excuses both); personas that were cleared come back (`ClearedStaysCleared`); a
  reset, with the restart it recommends, leaves what the stop saves again
  (`ResetForgets`, handlers.py:443).
- `Startup`: a failed start without `_persistence` leaves the database open
  (`FailureLeavesNothing`, memory_service.py:705); nobody awaits message tasks at a stop
  (`TasksFindStorage`).
- `GroupActivity`: fewer messages may leave a higher level (`FewerIsLess`,
  activity_config.py:339), silent hours do not count (`SilenceCounts`, :280), presets
  of two levels are served together (`OneLevel`). `/iris activity` reads a class
  attribute that does not exist (:465).
- Cooldown: the commands call methods that do not exist (handlers.py:464, 470, 481) and
  the cancelling tool passes an unknown argument (main.py:208): a cooldown can be set
  and never cancelled.
- `LlmGate`: the "minimum interval" of the controller's header is not kept between calls
  that acquire together, and a replaced controller lets old and new calls run at once.

## 7. What is not modelled, and why

- Text work: prompts, Markdown, error messages, formatting of contexts, keyword and
  emotion dictionaries, entity extraction, similarity of texts. It keeps no state;
  what it finds is an input of `Detection`, `EmotionalState`, `Capture` and `Ranking`.
- The arithmetic of the RIF score, of decay and of semantic confidence: the rules
  that read the result are in `UpgradeEvaluation` and `Ranking`.
- Chroma, SQLite, AstrBot's key-value store and cron manager, embedding and language
  models: they appear as the calls the plugin awaits, which answer or fail.
- Cooldown (it only refuses a reply before anything changes, and can only be set),
  statistics, web handlers and chat commands beyond the operations named above: they
  call the services and keep nothing of their own.
- Code nothing calls, among it the retrieval engine's own strategies,
  `GraphAugmentedHybridStrategy`, the LLM conflict resolver, vector clustering, the
  configuration's events, and the session operations named in section 6.
- Composition of the modules of the two benches with each other: what one does to
  another is a free choice there (any memory, any answer, any moment) where the module
  has it as an action or an input. A property says nothing of writers its module has not:
  where several components write one field, the writers must be in the module, as the
  others that write access counts are in `Retrieval` and the queues' own save is in
  `Persistence`.

Time is never a number: a deadline is a state that passes from "not yet" to "past",
which is all the code compares.

----------------------------- MODULE MCStorage -----------------------------
(* Model checking of the components that store and cache memories. Each      *)
(* behaviour is of one component, which the initial state picks; the others  *)
(* keep their initial state. The properties are those of the components.     *)
EXTENDS KnowledgeGraph, MemoryLifecycle, Naturals, FiniteSets, Sequences, TLC

CONSTANT s1
CONSTANT Parts   \* the components this run checks

CONSTANTS CacheKeys, CacheValues, CacheSize, MaxCount
CONSTANTS Talks, MaxSaid, Limits, ConfigLimit
CONSTANTS Documents, Dims, ImportSize, MaxCrashes, MaxBoots
CONSTANTS Points, Kinds, Against, Single, MaxRows, MaxRead, MaxCycle, MaxPops,
    MaxIssues
CONSTANTS Extracted, Said, Where, WordsIn, Extractions, MinSize, MaxClusters,
    MaxPerCluster, MaxReads, MaxMoves
CONSTANTS CachedSessions, SessionOwner, MaxSessions, CachedMemories, MaxMemories
CONSTANTS Off, MaxTasks
CONSTANTS Judged, Calls, Modes, BatchSize, MaxLlm, MaxCalls, MaxAccesses,
    First, Traits
CONSTANTS HourlyAmounts, PresetKeys
CONSTANTS Tasks, MaxFaults, MaxJobs
CONSTANTS SavingCommands, MaxChanges
CONSTANTS Ids, Meta, Owners, Groups, Callers, MaxAccess

VARIABLE part    \* the component this behaviour is of
VARIABLES lru, lfu, minFreq, recency, last
VARIABLES buffers, limit, said, saved
VARIABLES disk, files, backup, stage, settings, missing, refused, crashes,
    boots, written, dropped
VARIABLES present, table, reading, touched, alarm
VARIABLES stored, extraction, sums, answers, excuses
VARIABLES sessions, order
VARIABLES off, reached, stops, up, started, services, ready, stuck, spawned
VARIABLES mode, provider, judgedLayer, traits, evaluating, call, begun,
    accesses, judged, passed
VARIABLES user, onDisk, copy, data, cached
VARIABLES counts, activity, due, presets
VARIABLES wanted, jobs, handlers, found, remembered, left, registry, faults,
    lastId, lost
VARIABLES phase, mem, kv, changes, at, took, hold, putKnown, unread, quiet
VARIABLES collection, open, job, added, deleted

KgBy == [m \in {"a", "b"} |-> IF m = "b" THEN "u2" ELSE "u1"]
KgIn == [m \in {"a", "b"} |-> "g1"]
LifeHome == [m \in Mem |-> s1]
ChecksAgainst ==
    [k \in {"likes", "dislikes"} |-> {"likes", "dislikes"} \ {k}]
SemanticUser ==
    [m \in {"a", "b", "c"} |-> IF m = "c" THEN "u2" ELSE "u1"]
SemanticRoom ==
    [m \in {"a", "b", "c"} |-> IF m = "a" THEN "private" ELSE "g"]
SemanticWords ==
    [m \in {"a", "b", "c"} |-> IF m = "c" THEN {} ELSE {"w"}]
SesOwner ==
    [s \in {"s1", "s2", "s3"} |-> IF s = "s3" THEN "u2" ELSE "u1"]
StartOff ==
    {{}, {"kg"}, {"proactive", "persona_batch"}}
UpgFirst ==
    [m \in {"a", "b", "c"} |->
        CASE m = "a" -> [access |-> 4, importance |-> 65, emotion |-> 0, confidence |-> 66, rif |-> 0, quality |-> 3, asked |-> FALSE, days |-> 0]
          [] m = "b" -> [access |-> 1, importance |-> 40, emotion |-> 0, confidence |-> 50, rif |-> 0, quality |-> 3, asked |-> FALSE, days |-> 0]
          [] OTHER   -> [access |-> 0, importance |-> 30, emotion |-> 0, confidence |-> 40, rif |-> 0, quality |-> 2, asked |-> FALSE, days |-> 0]]
UpgTraits ==
    [access : {1, 2, 3, 5, 8, 10}, importance : {30, 55, 65, 80, 90}, emotion : {40, 70, 90}, confidence : {40, 49, 62, 66, 72, 86},
     rif : {30, 60, 75}, quality : {3, 4, 5}, asked : BOOLEAN, days : {0, 7}]
VecMeta ==
    [m \in {"a", "b"} |->
        [user |-> "u1", group |-> "g1", scope |-> IF m = "a" THEN "private" ELSE "user"]]

Cch == INSTANCE Caches WITH Keys <- CacheKeys, Values <- CacheValues
Hist == INSTANCE ChatHistory WITH Chats <- Talks
Mig == INSTANCE CollectionMigration WITH Memories <- Documents,
    BatchSize <- ImportSize, todo <- missing, failed <- refused
Checks == INSTANCE GraphChecks WITH rows <- table
Semantic == INSTANCE SemanticExtraction WITH Memories <- Extracted,
    User <- Said, Room <- Where, Words <- WordsIn, Jobs <- Extractions,
    rows <- stored, job <- extraction, reads <- answers
Ses == INSTANCE SessionCache WITH Sessions <- CachedSessions,
    Owner <- SessionOwner, Memories <- CachedMemories
Start == INSTANCE Startup WITH at <- reached, begun <- started, tasks <- spawned
Upg == INSTANCE UpgradeEvaluation WITH Memories <- Judged, layer <- judgedLayer
Conf == INSTANCE ConfigStore WITH file <- onDisk, backup <- copy,
    cache <- cached
Activ == INSTANCE GroupActivity WITH Amounts <- HourlyAmounts,
    Keys <- PresetKeys, level <- activity, cache <- presets
Jobs == INSTANCE ScheduledTasks WITH known <- remembered, phase <- registry
Persist == INSTANCE Persistence WITH Commands <- SavingCommands
Vec == INSTANCE VectorStore WITH Users <- Owners


\* What the extraction is built with: finitely many memories with keywords, jobs that
\* may overlap; a cluster of enough memories fits (schema.py: 3 and 15, 20 clusters).
Extractable ==
    /\ IsFiniteSet(Extracted) /\ IsFiniteSet(Extractions) /\ \A m \in Extracted : IsFiniteSet(WordsIn[m])
    /\ MinSize \in Nat \ {0} /\ MaxPerCluster \in Nat /\ MinSize <= MaxPerCluster /\ MaxClusters \in Nat

\* What a memory is known by: counts, scores in hundredths, a level of quality.
Known == [access : Nat, importance : Nat, emotion : Nat, confidence : Nat, rif : Nat,
          quality : Nat, asked : BOOLEAN, days : Nat]


\* What the code and its settings make of the constants: sizes and limits that are
\* numbers, at least one where the schema says so.
ASSUME StorageAssumption ==
    /\ ConfigLimit \in Nat /\ Limits \subseteq Nat
    /\ Dims # {}
    /\ IsFiniteSet(Points) /\ MaxCycle \in Nat /\ MaxRead \in Nat
    /\ Extractable
    /\ MaxSessions \in Nat \ {0} /\ MaxMemories \in Nat \ {0}
    /\ BatchSize \in Nat \ {0} /\ IsFiniteSet(Judged) /\ Traits \subseteq Known
    /\ HourlyAmounts \subseteq Nat
    /\ SavingCommands \cap {"stop", "auto", "load"} = {}
    /\ MaxAccess \in Nat

KgStep == part = "graph" /\ GraphNext
LifeStep == part = "lifecycle" /\ Next
CchStep == part = "caches" /\ Cch!Next
HistStep == part = "chathistory" /\ Hist!Next
MigStep == part = "migration" /\ Mig!Next
ChecksStep == part = "graphchecks" /\ Checks!Next
SemanticStep == part = "semantic" /\ Semantic!Next
SesStep == part = "sessioncache" /\ Ses!Next
StartStep == part = "startup" /\ Start!Next
UpgStep == part = "upgrade" /\ Upg!Next
ConfStep == part = "config" /\ Conf!Next
ActivStep == part = "activity" /\ Activ!Next
JobsStep == part = "jobs" /\ Jobs!Next
PersistStep == part = "persistence" /\ Persist!Next
VecStep == part = "vectors" /\ Vec!Next

\* Every component but the chosen one keeps its state.
Others ==
    /\ IF part = "graph" THEN TRUE ELSE UNCHANGED <<nodes, owner, edges, known, pending, storing, upkeep, fact>>
    /\ IF part = "lifecycle" THEN TRUE ELSE UNCHANGED <<working, apart, split, layer, review, rows, state, dated, archive, promote, clearing, fate, inFlight>>
    /\ IF part = "caches" THEN TRUE ELSE UNCHANGED <<lru, lfu, minFreq, recency, last>>
    /\ IF part = "chathistory" THEN TRUE ELSE UNCHANGED <<buffers, limit, said, saved>>
    /\ IF part = "migration" THEN TRUE ELSE UNCHANGED <<disk, files, backup, stage, settings, missing, refused, crashes, boots, written, dropped>>
    /\ IF part = "graphchecks" THEN TRUE ELSE UNCHANGED <<present, table, reading, touched, alarm>>
    /\ IF part = "semantic" THEN TRUE ELSE UNCHANGED <<stored, extraction, sums, answers, excuses>>
    /\ IF part = "sessioncache" THEN TRUE ELSE UNCHANGED <<sessions, order>>
    /\ IF part = "startup" THEN TRUE ELSE UNCHANGED <<off, reached, stops, up, started, services, ready, stuck, spawned>>
    /\ IF part = "upgrade" THEN TRUE ELSE UNCHANGED <<mode, provider, judgedLayer, traits, evaluating, call, begun, accesses, judged, passed>>
    /\ IF part = "config" THEN TRUE ELSE UNCHANGED <<user, onDisk, copy, data, cached>>
    /\ IF part = "activity" THEN TRUE ELSE UNCHANGED <<counts, activity, due, presets>>
    /\ IF part = "jobs" THEN TRUE ELSE UNCHANGED <<wanted, jobs, handlers, found, remembered, left, registry, faults, lastId, lost>>
    /\ IF part = "persistence" THEN TRUE ELSE UNCHANGED <<phase, mem, kv, changes, at, took, hold, putKnown, unread, quiet>>
    /\ IF part = "vectors" THEN TRUE ELSE UNCHANGED <<collection, open, job, added, deleted>>

StorageInit ==
    /\ part \in Parts
    /\ GraphInit
    /\ Init
    /\ Cch!Init
    /\ Hist!Init
    /\ Mig!Init
    /\ Checks!Init
    /\ Semantic!Init
    /\ Ses!Init
    /\ Start!Init
    /\ part = "startup" \/ off = {}
    /\ Upg!Init
    /\ part = "upgrade" \/ mode = "rule"
    /\ Conf!Init
    /\ Activ!Init
    /\ Jobs!Init
    /\ Persist!Init
    /\ Vec!Init

StorageNext ==
    /\ \/ KgStep
       \/ LifeStep
       \/ CchStep
       \/ HistStep
       \/ MigStep
       \/ ChecksStep
       \/ SemanticStep
       \/ SesStep
       \/ StartStep
       \/ UpgStep
       \/ ConfStep
       \/ ActivStep
       \/ JobsStep
       \/ PersistStep
       \/ VecStep
    /\ Others /\ UNCHANGED part

storageVars == <<part, graphVars, vars, Cch!vars, Hist!vars, Mig!vars, Checks!vars, Semantic!vars, Ses!vars, Start!vars, Upg!vars, Conf!vars, Activ!vars, Jobs!vars, Persist!vars, Vec!vars>>

StorageSpec == StorageInit /\ [][StorageNext]_storageVars

\* What tells two states apart: the other components keep what they began with.
StorageView ==
    CASE part = "graph" -> <<part, nodes, owner, edges, known, pending, storing, upkeep, fact>>
      [] part = "lifecycle" -> <<part, working, apart, split, layer, review, rows, state, dated, archive, promote, clearing, fate, inFlight>>
      [] part = "caches" -> <<part, lru, lfu, minFreq, recency, last>>
      [] part = "chathistory" -> <<part, buffers, limit, said, saved>>
      [] part = "migration" -> <<part, disk, files, backup, stage, settings, missing, refused, crashes, boots, written, dropped>>
      [] part = "graphchecks" -> <<part, present, table, reading, touched, alarm>>
      [] part = "semantic" -> <<part, stored, extraction, sums, answers, excuses>>
      [] part = "sessioncache" -> <<part, sessions, order>>
      [] part = "startup" -> <<part, off, reached, stops, up, started, services, ready, stuck, spawned>>
      [] part = "upgrade" -> <<part, mode, provider, judgedLayer, traits, evaluating, call, begun, accesses, judged, passed>>
      [] part = "config" -> <<part, user, onDisk, copy, data, cached>>
      [] part = "activity" -> <<part, counts, activity, due, presets>>
      [] part = "jobs" -> <<part, wanted, jobs, handlers, found, remembered, left, registry, faults, lastId, lost>>
      [] part = "persistence" -> <<part, phase, mem, kv, changes, at, took, hold, putKnown, unread, quiet>>
      [] part = "vectors" -> <<part, collection, open, job, added, deleted>>

-----------------------------------------------------------------------------
\* Changing the embedding model deletes a collection only after its backup, loses
\* no memory unaccounted for, and never mixes dimensions.
MigrationSound == Mig!MigrationSound

\* What is deleted stays deleted, no chat is shown what is another's, forgetting
\* selects what the listing shows, and a statistics write keeps the layers.
VectorStoreSound == Vec!VectorStoreSound

\* The graph keeps its edges on nodes, private chats private and deletions final;
\* a cycle reported is one, and only a cap or a change between two reads makes a report
\* miss a cycle or err.
KnowledgeGraphSound ==
    /\ GraphSound
    /\ PrivateFactsStayPrivate
    /\ part = "graphchecks" => Checks!ChecksSound

\* A value that was set is read and loaded again, only a start brings in a bad one,
\* and a group's level settles, does not flap and falls with silence.
ConfigSound ==
    /\ [](part = "config" => Conf!CacheCoherent)
    /\ Conf!SavedIsLoaded
    /\ Conf!BadOnlyLoaded
    /\ [](part = "activity" => Activ!ActivitySound)

\* An undisturbed stop keeps everything, and a key goes back only by a reset, an
\* overtaken put, or when this start did not load it; a task has one job; a memory is
\* summed up once and judged by one evaluation at a time; no part outlives what it
\* works on.
UpkeepSound ==
    /\ [](part = "persistence" => Persist!StopKeeps)
    /\ Persist!NoGoingBack
    /\ [](part = "jobs" => Jobs!TasksSound)
    /\ [](part = "semantic" => Semantic!ExtractionSound)
    /\ [](part = "upgrade" => Upg!EvaluationSound)
    /\ [](part = "startup" => Start!StartupSound)

\* Recency, frequency and values are right along every path of the caches, the two
\* structures of the session cache agree, and chat histories are gapless tails within
\* their limit, across restarts.
CachesSound ==
    /\ part = "caches" => Cch!CachesSound
    /\ part = "sessioncache" => Ses!SessionsInOrder
    /\ part = "chathistory" => Hist!ChatHistorySound

=============================================================================

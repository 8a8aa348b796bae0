----------------------------- MODULE MCServices -----------------------------
(* Model checking of the components around the memory: providers, shared     *)
(* state, and what the hooks and handlers call. Each behaviour is of one     *)
(* component, which the initial state picks; the others keep their state.    *)
EXTENDS KnowledgeGraph, LlmGate, Naturals, FiniteSets, Sequences, TLC

CONSTANT Parts   \* the components this run checks

CONSTANTS CaptureIds, Tellings
CONSTANTS DetectorModes, RuleFindings, Namings, EntityCounts, EmotionWords
CONSTANTS Inquiries, WriterOf, WordsOf, Findings, AnswersMax
CONSTANTS Sentences, EmbedCallers, CacheMax
CONSTANTS Analyses, AnalysisModes, MaxDescribed, RecentLimit, DailyBudget,
    SessionBudget, MaxAsks, Pictured
CONSTANTS Events, Kinds
CONSTANTS PersonaMessages, PersonaSessions, PersonaThreshold, PersonaBatchMax,
    PersonaMaxQueue
CONSTANTS TraitWords, Top, MaxLog, MaxShown, Shortened, Gates
CONSTANTS WindowSize, Strategy
CONSTANTS Retrievable, Searches, TopK, MaxContext, MaxTrack, MaxAsked
CONSTANTS Budget, Preamble, Postamble, Worths, Costs, Target, Mode
CONSTANTS Persons, MaxUsers, MaxObjects

VARIABLE part    \* the component this behaviour is of
VARIABLES told, stored, worked, doing, contrary, hits, fate
VARIABLES asking, stage, triggers, ruled, model, level, feeling, detected
VARIABLES processing, answers, coolingUsers, placed, windowCalls, layersKnown,
    decidedBy
VARIABLES source, providers, current, loading, cache, call
VARIABLES imageMode, described, recent, daily, session, resting, analysis,
    asks, paid, excuses
VARIABLES kind, service, cfg, ready, at, recorded, task, history, captures,
    counted, marked
VARIABLES coming, lined, guard, batch, unflushed, running, taken, lost
VARIABLES profile, log, bound
VARIABLES felt, moods, trend, anomaly, needs
VARIABLES store, working, searcher, injected, req, object, unused, snapshots,
    accessed, exact, searched
VARIABLES input, output
VARIABLES emotions, personas, made, evicted

KgBy == [m \in {"a", "b", "c"} |-> IF m = "b" THEN "u2" ELSE "u1"]
KgIn == [m \in {"a", "b", "c"} |-> IF m = "c" THEN "none" ELSE "g1"]
LlmChain == <<"p1", "p1", "p2">>
Symmetry == Permutations(Processors)
CaptKinds ==
    [user : {"u1"}, content : {"likes"}, confidence : {8}, asked : {FALSE}, shared : {TRUE}]
      \cup [user : {"u1"}, content : {"dislikes"}, confidence : {3}, asked : {FALSE}, shared : {TRUE}]
      \cup [user : {"u2"}, content : {"dislikes"}, confidence : {6}, asked : {TRUE}, shared : {TRUE}]
      \cup [user : {"u2"}, content : {"likes"}, confidence : {8}, asked : {FALSE}, shared : {FALSE}]
DetectFindings ==
    [types : {{}}, number : {0}] \cup [types : {{"explicit"}}, number : {1}] \cup [types : {{"fact"}}, number : {3}]
      \cup [types : {{"explicit", "emotion"}, {"boundary", "preference"}}, number : {2}]
DetectWords ==
    [main : {6}, all : {7}]
ClaRequests ==
    1..4
ClaUserOf ==
    [r \in 1..4 |-> IF r <= 3 THEN "u1" ELSE "u2"]
ClaTextOf ==
    <<"x", "y", "n", "x">>
ClaRules ==
    [t \in {"x", "y", "n"} |->
        CASE t = "x" -> [negative |-> FALSE, trigger |-> 70, intensity |-> 70]
          [] t = "y" -> [negative |-> FALSE, trigger |-> 70, intensity |-> 47]
          [] OTHER   -> [negative |-> TRUE, trigger |-> 0, intensity |-> 35]]
ImgMessages ==
    [user : {"u1"}, session : {"g1"}, image : {"a"}, sticker : {FALSE}, related : {TRUE}]
      \cup [user : {"u2"}, session : {"g1"}, image : {"b"}, sticker : {FALSE}, related : {TRUE}]
      \cup [user : {"u1"}, session : {"g2"}, image : {"c"}, sticker : {FALSE}, related : {TRUE}]
      \cup [user : {"u2"}, session : {"g2"}, image : {"d"}, sticker : {TRUE}, related : {TRUE}]
      \cup [user : {"u1"}, session : {"g1"}, image : {"b"}, sticker : {FALSE}, related : {FALSE}]
FlowKinds ==
    [group : {TRUE}, proactive : {FALSE}, asks : BOOLEAN, text : {"plain"}]
      \cup [group : {TRUE}, proactive : {FALSE}, asks : {TRUE}, text : {"rich", "command"}]
      \cup [group : {TRUE}, proactive : {TRUE}, asks : {TRUE}, text : {"plain"}]
      \cup [group : {FALSE}, proactive : {FALSE}, asks : {TRUE}, text : {"plain", "command"}]
ProfileCut ==
    [w \in {"w1", "w2"} |-> IF w = "w1" THEN w ELSE "cut"]

Capt == INSTANCE Capture WITH Ids <- CaptureIds, Kinds <- Tellings,
    memory <- told, rows <- stored, session <- worked, task <- doing,
    todo <- contrary, seen <- hits
Detect == INSTANCE Detection WITH Modes <- DetectorModes,
    Findings <- RuleFindings, Names <- EntityCounts, Words <- EmotionWords,
    mode <- asking, memory <- detected
Cla == INSTANCE MessageClassifier WITH Requests <- Inquiries,
    UserOf <- WriterOf, TextOf <- WordsOf, Rules <- Findings,
    CacheMax <- AnswersMax, cooling <- coolingUsers, stage <- placed,
    known <- layersKnown, cause <- decidedBy
Emb == INSTANCE EmbeddingService WITH Texts <- Sentences
Img == INSTANCE ImageAnalysis WITH Calls <- Analyses, Modes <- AnalysisModes,
    MaxCache <- MaxDescribed, Messages <- Pictured, mode <- imageMode,
    cache <- described, cooling <- resting, call <- analysis
Flow == INSTANCE MessageFlow WITH captured <- captures
Batches == INSTANCE PersonaBatch WITH Messages <- PersonaMessages,
    Sessions <- PersonaSessions, Threshold <- PersonaThreshold,
    BatchMax <- PersonaBatchMax, MaxQueue <- PersonaMaxQueue, queue <- lined,
    lock <- guard, left <- unflushed
Profile == INSTANCE PersonaProfile WITH Words <- TraitWords, Cut <- Shortened
Emotion == INSTANCE EmotionalState WITH current <- felt, history <- moods
Retr == INSTANCE Retrieval WITH Memories <- Retrievable, Requests <- Searches,
    current <- searcher, asked <- searched
Rank == INSTANCE Ranking
Sha == INSTANCE SharedState WITH Users <- Persons

\* What a run of the plugin can be: memories told by somebody, as sure as Detection makes
\* them, and a message's id is no word of the model.
Tellers == {t.user : t \in Tellings}
Contents == {t.content : t \in Tellings}
Tales == [user : Tellers, content : Contents, confidence : 3..10, asked : BOOLEAN, shared : BOOLEAN]
Fates == {"none", "duplicate", "failed", "discarded", "crashed"}
Tellable == Tellings \subseteq Tales /\ CaptureIds \cap Fates = {}

\* What a run can find: the detectors' modes, types and matches, where a type has a match.
TriggerTypes == {"explicit", "boundary", "fact", "preference", "emotion", "relationship"}
Detectable ==
    /\ DetectorModes \subseteq {"rule", "llm", "hybrid"}
    /\ RuleFindings \subseteq [types : SUBSET TriggerTypes, number : Nat]
    /\ \A f \in RuleFindings : f.types # {} => f.number > 0
    /\ Namings \subseteq TriggerTypes \cup {"none"} /\ EntityCounts \subseteq Nat
    /\ EmotionWords \subseteq [main : Nat, all : Nat] /\ \A w \in EmotionWords : w.main <= w.all

\* Some analyses may overlap, finitely many; no limit is negative.
Imageable ==
    /\ IsFiniteSet(Analyses) /\ Analyses # {}
    /\ MaxDescribed \in Nat /\ DailyBudget \in Nat /\ SessionBudget \in Nat

\* What the processor is built with: 20, 20 and 50; no message or session is a word of
\* the model.
Batchable ==
    /\ PersonaMaxQueue \in Nat /\ PersonaThreshold \in 1..PersonaMaxQueue /\ PersonaBatchMax \in Nat \ {0}
    /\ PersonaMessages \cap {Batches!Nobody, "flush"} = {} /\ Batches!Nobody \notin PersonaSessions

\* What a retrieval is given: finitely many memories, at least one that may be
\* asked for, and a list of recent ones that has room (20).
Searchable ==
    IsFiniteSet(Retrievable) /\ TopK \in Nat \ {0} /\ MaxContext \in Nat /\ MaxTrack \in Nat \ {0}

\* A budget has room for its preamble (512 tokens and 20), and nothing is shown for fewer
\* than no tokens.
Budgeted ==
    /\ Budget \in Nat /\ Preamble \in 0..Budget /\ Postamble \in Nat
    /\ Worths \subseteq Nat /\ Costs \subseteq Nat /\ Target \in Nat


\* What the code and its settings make of the constants: limits of at least one,
\* and what a run of the plugin can be given.
ASSUME ServicesAssumption ==
    /\ Tellable
    /\ Detectable
    /\ AnswersMax \in Nat
    /\ CacheMax \in Nat \ {0}
    /\ Imageable
    /\ Batchable
    /\ MaxLog \in Nat \ {0} /\ MaxShown \in Nat /\ Top \in Nat
    /\ WindowSize \in Nat \ {0}
    /\ Searchable
    /\ Budgeted
    /\ MaxUsers \in Nat \ {0}

KgStep == part = "graph" /\ GraphNext
LlmStep == part = "llmgate" /\ Next
CaptStep == part = "capture" /\ Capt!Next
DetectStep == part = "detection" /\ Detect!Next
ClaStep == part = "classifier" /\ Cla!Next
EmbStep == part = "embedding" /\ Emb!Next
ImgStep == part = "images" /\ Img!Next
FlowStep == part = "flow" /\ Flow!Next
BatchesStep == part = "personabatch" /\ Batches!Next
ProfileStep == part = "personaprofile" /\ Profile!Next
EmotionStep == part = "emotion" /\ Emotion!Next
RetrStep == part = "retrieval" /\ Retr!Next
RankStep == part = "ranking" /\ Rank!Next
ShaStep == part = "sharedstate" /\ Sha!Next

\* Every component but the chosen one keeps its state.
Others ==
    /\ IF part = "graph" THEN TRUE ELSE UNCHANGED <<nodes, owner, edges, known, pending, storing, upkeep, fact>>
    /\ IF part = "llmgate" THEN TRUE ELSE UNCHANGED <<controller, permits, holder, request, used, breaker, failures>>
    /\ IF part = "capture" THEN TRUE ELSE UNCHANGED <<told, stored, worked, doing, contrary, hits, fate>>
    /\ IF part = "detection" THEN TRUE ELSE UNCHANGED <<asking, stage, triggers, ruled, model, level, feeling, detected>>
    /\ IF part = "classifier" THEN TRUE ELSE UNCHANGED <<processing, answers, coolingUsers, placed, windowCalls, layersKnown, decidedBy>>
    /\ IF part = "embedding" THEN TRUE ELSE UNCHANGED <<source, providers, current, loading, cache, call>>
    /\ IF part = "images" THEN TRUE ELSE UNCHANGED <<imageMode, described, recent, daily, session, resting, analysis, asks, paid, excuses>>
    /\ IF part = "flow" THEN TRUE ELSE UNCHANGED <<kind, service, cfg, ready, at, recorded, task, history, captures, counted, marked>>
    /\ IF part = "personabatch" THEN TRUE ELSE UNCHANGED <<coming, lined, guard, batch, unflushed, running, taken, lost>>
    /\ IF part = "personaprofile" THEN TRUE ELSE UNCHANGED <<profile, log, bound>>
    /\ IF part = "emotion" THEN TRUE ELSE UNCHANGED <<felt, moods, trend, anomaly, needs>>
    /\ IF part = "retrieval" THEN TRUE ELSE UNCHANGED <<store, working, searcher, injected, req, object, unused, snapshots, accessed, exact, searched>>
    /\ IF part = "ranking" THEN TRUE ELSE UNCHANGED <<input, output>>
    /\ IF part = "sharedstate" THEN TRUE ELSE UNCHANGED <<emotions, personas, made, evicted>>

ServicesInit ==
    /\ part \in Parts
    /\ GraphInit
    /\ Init
    /\ Capt!Init
    /\ Detect!Init
    /\ part = "detection" \/ asking = "rule"
    /\ Cla!Init
    /\ part = "classifier" \/ processing = "local"
    /\ Emb!Init
    /\ Img!Init
    /\ part = "images" \/ imageMode = "auto"
    /\ Flow!Init
    /\ part = "flow" \/ kind = [e \in {"e1", "e2"} |-> [group |-> TRUE, proactive |-> FALSE, asks |-> TRUE, text |-> "plain"]]
    /\ part = "flow" \/ cfg = [inject |-> TRUE, memory |-> TRUE, batch |-> TRUE]
    /\ Batches!Init
    /\ Profile!Init
    /\ Emotion!Init
    /\ Retr!Init
    /\ Rank!Init
    /\ Sha!Init

ServicesNext ==
    /\ \/ KgStep
       \/ LlmStep
       \/ CaptStep
       \/ DetectStep
       \/ ClaStep
       \/ EmbStep
       \/ ImgStep
       \/ FlowStep
       \/ BatchesStep
       \/ ProfileStep
       \/ EmotionStep
       \/ RetrStep
       \/ RankStep
       \/ ShaStep
    /\ Others /\ UNCHANGED part

servicesVars == <<part, graphVars, vars, Capt!vars, Detect!vars, Cla!vars, Emb!vars, Img!vars, Flow!vars, Batches!vars, Profile!vars, Emotion!vars, Retr!vars, Rank!vars, Sha!vars>>

ServicesSpec == ServicesInit /\ [][ServicesNext]_servicesVars

-----------------------------------------------------------------------------
\* Overlapping calls and fallbacks keep the cache bounded and of one model.
EmbeddingSound == part = "embedding" => Emb!EmbeddingSound

\* The shared dictionaries keep their limit, and what they hold of one user
\* belongs together unless an eviction took one of the two.
SharedStateSound == part = "sharedstate" => Sha!SharedStateSound

\* A message is extracted once and in order or discarded by a restart, the change log
\* explains the persona as it shows it, and a steady mood, a negation and a decline are taken for what they are.
PersonaSound ==
    /\ [](part = "personabatch" => Batches!EachOnce)
    /\ [](part = "personabatch" => Batches!NeverOverflows)
    /\ Batches!BatchesInOrder
    /\ [](part = "personaprofile" => Profile!LogExplains)
    /\ [](part = "emotion" => Emotion!EmotionSound)

\* What is retrieved is merged once, counted but for a known excuse and shown again for a
\* reason; ranking, routing and the token budget keep their promises.
RetrievalSound ==
    /\ [](part = "retrieval" => Retr!RetrievalCounts)
    /\ Retr!ShownAgainForAReason
    /\ Retr!LastShownKnown
    /\ [](part = "ranking" => Rank!RankingSound)

\* A message is noted and captured once, its image described once; it is classified,
\* read and stored as rules, models and confidences say, and what it contradicts is
\* marked, succeeded or kept.
MessagesSound ==
    /\ [](part = "capture" => Capt!CaptureSound)
    /\ [](part = "flow" => Flow!FlowSound)
    /\ Flow!StopSeals
    /\ [](part = "detection" => Detect!DetectionSound)
    /\ [](part = "images" => Img!ImagesSound)
    /\ [](part = "classifier" => Cla!ClassifierSound)

=============================================================================

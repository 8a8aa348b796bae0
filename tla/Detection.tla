----------------------------- MODULE Detection -----------------------------
(* What a message is found to be (capture/capture_engine.py before its       *)
(* search): triggers and sensitivity, by rules and by a model that may fail  *)
(* (capture/detector/*.py), then type, confidence, storage layer, protection *)
(* and scope. Confidences and intensities are thousandths, and the text is   *)
(* what the patterns find in it.                                             *)
EXTENDS Integers, FiniteSets, FiniteSetsExt

CONSTANTS
    Modes,     \* of the detectors: "rule", "llm" or "hybrid"
    Findings,  \* what the trigger patterns find: the types, and how many matches
    Namings,   \* the types a model names ("none": it names none)
    Names,     \* how many entities are found
    Words      \* how many words the emotion dictionary finds, in halves (a negation
               \* halves joy): of the main emotion, and in all

VARIABLES
    mode,      \* mode of both detectors
    stage,     \* how far the capture is
    triggers,  \* types, number and highest confidence of the triggers
    ruled,     \* the rules' level
    model,     \* the model's answer on the level, if one was taken
    level,     \* the level that counts
    feeling,   \* intensity and confidence of the emotion
    memory     \* the memory made of the message

vars == <<mode, stage, triggers, ruled, model, level, feeling, memory>>

Public == 0
Private == 2
Critical == 4
Levels == Public..Critical

NoTriggers == [types |-> {}, number |-> 0, confidence |-> 0]
Unasked == [level |-> Public, sure |-> FALSE]
Calm == [intensity |-> 350, confidence |-> 210]
NoMemory == [layer |-> "none"]

Init ==
    /\ mode \in Modes /\ stage = "triggers"
    /\ triggers = NoTriggers /\ ruled = Public /\ model = Unasked
    /\ level = Public /\ feeling = Calm /\ memory = NoMemory

-----------------------------------------------------------------------------
(* Triggers.                                                                 *)

\* _calculate_confidence
Weight(t) ==
    CASE t = "explicit" -> 950
      [] t = "boundary" -> 900
      [] t \in {"fact", "preference"} -> 800
      [] OTHER -> 700
Strongest(T) == Max({Weight(t) : t \in T})

\* detect_triggers, by the patterns.
ByRules(f) == IF f.types = {} THEN NoTriggers ELSE [types |-> f.types, number |-> f.number, confidence |-> Strongest(f.types)]
One(t, c) == [types |-> {t}, number |-> 1, confidence |-> c]

\* LLMTriggerDetector._rule_detect keeps the strongest, of a question none.
Ruled(f, query) ==
    IF query \/ f.types = {} THEN {NoTriggers} ELSE {One(t, Weight(t)) : t \in {u \in f.types : Weight(u) = Strongest(f.types)}}

\* What becomes of a model's answer: its trigger, none when it is sure there is none,
\* or what the patterns find. Below 600 the hybrid mode does not take it.
OfModel(f, least) ==
    {One(t, c) : t \in Namings \ {"none"}, c \in {500, 900} \cap least..1000} \cup {NoTriggers, ByRules(f)}

\* _hybrid_detect: the rules alone on what is explicit or a limit; where they find
\* nothing, a model is asked only of a text that may mean more, and believed
\* only if it would remember it.
Hybrid(f, query, hints) ==
    LET none == query \/ f.types = {} IN
    IF ~none /\ f.types \cap {"explicit", "boundary"} # {} THEN Ruled(f, query)
    ELSE IF none THEN Ruled(f, query) \cup (IF hints THEN OfModel(f, 0) ELSE {})
    ELSE Ruled(f, query) \cup OfModel(f, 600)

\* A negative sample is no memory; otherwise _detect_triggers, where an answer
\* that cannot be read leaves what the patterns find.
Trigger(f, query, hints) ==
    /\ stage = "triggers"
    /\ triggers' \in CASE mode = "rule"   -> {ByRules(f)}
                       [] mode = "llm"    -> Ruled(f, query) \cup OfModel(f, 0)
                       [] mode = "hybrid" -> Hybrid(f, query, hints)
    /\ stage' = "level"
    /\ UNCHANGED <<mode, ruled, model, level, feeling, memory>>

NegativeSample ==
    /\ stage = "triggers" /\ stage' = "dropped"
    /\ UNCHANGED <<mode, triggers, ruled, model, level, feeling, memory>>

-----------------------------------------------------------------------------
(* Sensitivity.                                                              *)

\* _parse_llm_result looks the upper-case name up in lower case (map_enum), finds
\* none, and takes the default.
Parsed(l) == Public

\* Mutant: the model is believed though it is not sure.
Judged_Unsure(r, m) == IF r >= Private THEN Parsed(m.level) ELSE r

\* LLMSensitivityDetector._hybrid_detect: from PRIVATE on a model is asked, and
\* its level counts if it is sure, which 0.7 is.
Judged(r, m) == IF r >= Private /\ m.sure THEN Parsed(m.level) ELSE r

\* What a model says, of which only whether it is sure is looked at.
Answers == [level : {Public, Critical}, sure : BOOLEAN]

\* _detect_sensitivity; a failed call leaves the rules' level.
Sense(r, m) ==
    /\ stage = "level"
    /\ ruled' = r
    /\ \/ /\ mode = "rule"
          /\ level' = r /\ UNCHANGED model
       \/ /\ mode = "llm"
          /\ \/ level' = Parsed(m.level) /\ model' = m
             \/ level' = r /\ UNCHANGED model
       \/ /\ mode = "hybrid"
          /\ \/ level' = Judged(r, m) /\ model' = IF r >= Private THEN m ELSE Unasked
             \/ level' = r /\ UNCHANGED model
    /\ stage' = IF level' = Critical THEN "dropped" ELSE "emotion"
    /\ UNCHANGED <<mode, triggers, feeling, memory>>

-----------------------------------------------------------------------------
(* Emotion (EmotionAnalyzer).                                                *)

Least(a, b) == IF a < b THEN a ELSE b

\* _analyze_by_dict, with the weights of _combine_results; emotions may be off. The
\* capture never asks a model of it.
Off == [intensity |-> 500, confidence |-> 500]
Read(w) == [intensity |-> (350 * Least(6, w.main)) \div 3, confidence |-> Least(560, 210 + (105 * w.all) \div 2)]
ByWords == {Calm, Off} \cup {Read(w) : w \in Words}

\* _analyze_by_rules: a rule speaks for the main emotion, for a second one, or for
\* another, and the strongest of them is the main one then.
WithRule(f, weight, of) ==
    LET own == (3 * weight) \div 10 + (IF of = "second" THEN (3 * f.intensity) \div 70 ELSE 0) IN
    [intensity |-> IF of = "main" THEN f.intensity + own ELSE IF f.intensity < own THEN own ELSE f.intensity,
     confidence |-> f.confidence + 210]
RuleWeights == {500, 600, 700, 800}

Feelings ==
    ByWords \cup {WithRule(f, weight, of) : f \in ByWords \ {Off}, weight \in RuleWeights, of \in {"main", "second", "other"}}

\* A text in doubt (irony, "??") keeps 0.6 of the confidence.
Doubted(w) == [w EXCEPT !.confidence = (6 * @) \div 10]

Feel(w, doubt) ==
    /\ stage = "emotion"
    /\ feeling' = IF doubt THEN Doubted(w) ELSE w
    /\ stage' = "build"
    /\ UNCHANGED <<mode, triggers, ruled, model, level, memory>>

-----------------------------------------------------------------------------
(* The memory.                                                               *)

\* _determine_memory_type
Type ==
    LET T == triggers.types IN
    IF "emotion" \in T THEN "emotion"
    ELSE IF "preference" \in T THEN "fact"
    ELSE IF "relationship" \in T THEN "relationship"
    ELSE IF T \cap {"boundary", "fact"} # {} THEN "fact"
    ELSE IF T = {"explicit"} THEN IF feeling.intensity > 600 THEN "emotion" ELSE "fact"
    ELSE IF feeling.intensity > 700 THEN "emotion" ELSE "interaction"

\* _calculate_consistency_score
Consistency(names) ==
    LET T == triggers.types
        base == 500 + Least(200, 80 * Cardinality(T)) + Least(120, 40 * names)
        match == IF Type = "emotion" /\ feeling.intensity > 600 THEN 100
                 ELSE IF Type = "fact" /\ feeling.intensity < 400 THEN 80 ELSE 0
    IN Least(1000, base + match + (IF "explicit" \in T THEN 150 ELSE 0) + (IF level >= Private THEN 50 ELSE 0))

\* Mutant: a message without a trigger counts as one with a sure one.
TriggerConfidence_Untold == Least(1000, 950 + Least(150, 50 * triggers.number))

TriggerConfidence ==
    IF triggers = NoTriggers THEN 300
    ELSE Least(1000, triggers.confidence + Least(150, 50 * triggers.number))

\* _assess_quality, in ten-thousandths, so that nothing is rounded.
Confidence(names) == 4 * TriggerConfidence + 3 * feeling.confidence + 3 * Consistency(names)
Quality(c) ==
    IF c >= 9000 THEN 5 ELSE IF c >= 7500 THEN 4 ELSE IF c >= 5000 THEN 3 ELSE IF c >= 3000 THEN 2 ELSE 1

\* ProtectionRules.evaluate, of a text that tells a name, a bond, a day, or asks.
Protection(c, asked, told) ==
    (IF Type = "fact" /\ c >= 8500 /\ told = "name" THEN {"identity"} ELSE {})
        \cup (IF Type = "emotion" /\ feeling.intensity >= 850 THEN {"emotion"} ELSE {})
        \cup (IF Type = "relationship" /\ c >= 8000 /\ told = "bond" THEN {"relationship"} ELSE {})
        \cup (IF told = "day" THEN {"anniversary"} ELSE {})
        \cup (IF asked THEN {"pinned"} ELSE {})

\* FastTrackEvaluator.evaluate: a name is also an identity keyword.
FastTrack(c, asked, told) ==
    \/ Type = "fact" /\ c >= 9000 /\ told = "name"
    \/ asked /\ c >= 8500
    \/ Quality(c) = 5
    \/ "identity" \in Protection(c, asked, told) /\ c >= 8500

\* _determine_storage_layer
Layer(c, asked, told) ==
    IF FastTrack(c, asked, told) THEN "semantic"
    ELSE IF asked \/ Quality(c) = 4 \/ feeling.intensity > 600 \/ c >= 7000 THEN "episodic"
    ELSE "working"

\* Mutant: a group's message is looked at for what it says before its level.
Scope_Late(place) ==
    IF place \in {"direct", "secret"} THEN "user_private"
    ELSE IF place = "personal" THEN "group_private" ELSE "group_shared"

\* ScopeClassifier.classify, which is built without a model.
Scope(place) ==
    IF place \in {"direct", "secret"} \/ level >= Private THEN "user_private"
    ELSE IF place = "personal" THEN "group_private" ELSE "group_shared"

Build(names, asked, told, place) ==
    /\ stage = "build"
    /\ LET c == Confidence(names) IN
       memory' = [layer |-> Layer(c, asked, told), confidence |-> c, quality |-> Quality(c), type |-> Type,
                  protected |-> Protection(c, asked, told) # {}, scope |-> Scope(place),
                  encrypted |-> level >= Private, asked |-> asked, place |-> place]
    /\ stage' = "built"
    /\ UNCHANGED <<mode, triggers, ruled, model, level, feeling>>

\* The next message; the mode is the configured one.
Again ==
    /\ stage \in {"dropped", "built"} /\ stage' = "triggers"
    /\ triggers' = NoTriggers /\ ruled' = Public /\ model' = Unasked
    /\ level' = Public /\ feeling' = Calm /\ memory' = NoMemory
    /\ UNCHANGED mode

Next ==
    \/ Again
    \/ \E f \in Findings : \E query, hints \in BOOLEAN : Trigger(f, query, hints)
    \/ NegativeSample
    \/ \E r \in Levels, m \in Answers : Sense(r, m)
    \/ \E w \in Feelings, doubt \in BOOLEAN : Feel(w, doubt)
    \/ \E n \in Names, asked \in BOOLEAN, told \in {"nothing", "name", "bond", "day"},
          place \in {"direct", "secret", "personal", "shared"} : Build(n, asked, told, place)

Spec == Init /\ [][Next]_vars

-----------------------------------------------------------------------------
Built == stage = "built"

\* A confidence is a part of one, whatever adds to it.
ConfidenceBounded == Built => memory.confidence \in 0..10000

\* What nobody asked for, with no trigger and without a strong emotion, is kept
\* in the working memory only, however many names it has.
ChatPasses ==
    Built /\ ~memory.asked /\ triggers = NoTriggers /\ feeling.intensity <= 600 => memory.layer = "working"

\* What says "remember" is stored, unless the emotion's reading is in doubt.
RememberKept ==
    Built /\ "explicit" \in triggers.types /\ triggers.confidence = 950 /\ feeling \in Feelings => memory.layer # "working"

\* A semantic memory is a confirmed one, or a protected one.
SemanticForAReason ==
    Built /\ memory.layer = "semantic" => memory.quality = 5 \/ memory.protected

\* What the rules find private is nobody else's and marked for encryption, and
\* what they find critical is dropped, unless a model that was sure was believed.
PrivateStaysPrivate ==
    /\ Built /\ ruled >= Private /\ mode = "hybrid" /\ ~model.sure => memory.scope = "user_private" /\ memory.encrypted
    /\ stage = "emotion" /\ ruled = Critical => model.sure \/ mode = "llm"

\* Nothing told in a private chat or under a promise of silence is anyone else's.
SecretsKept == Built /\ memory.place \in {"direct", "secret"} => memory.scope = "user_private"

DetectionSound ==
    /\ ConfidenceBounded /\ ChatPasses /\ RememberKept /\ SemanticForAReason
    /\ PrivateStaysPrivate /\ SecretsKept

\* Does not hold: where the rules find a message private and a model that is sure
\* confirms it, the level stays (llm_sensitivity_detector.py:177). The model's
\* level is always read as PUBLIC.
ModelConfirms == mode = "hybrid" /\ model.sure /\ model.level = ruled => level = ruled
=============================================================================

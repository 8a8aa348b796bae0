--------------------------- MODULE EmotionalState ---------------------------
(* How the emotion of a message is found (analysis/emotion/), what the user's *)
(* EmotionalState concludes from a row of them (models/emotion_state.py), and *)
(* the guidance the persona coordinator gives the bot for it                  *)
(* (persona/persona_coordinator.py). Intensities are sixtieths.               *)
EXTENDS Integers, Sequences, FiniteSets

CONSTANTS
    WindowSize,   \* config.window_size
    Strategy      \* the coordinator's: "bot_priority", "user_priority", "hybrid", "dynamic"

VARIABLES
    current,      \* [primary, loud]: loud above 0.8
    history,      \* the emotions before it, oldest first
    trend,        \* trajectory.trend
    anomaly, needs

vars == <<current, history, trend, anomaly, needs>>

\* sadness, anger and anxiety count alike, and so do fear and disgust.
Emotions == {"joy", "excitement", "calm", "anger", "fear", "neutral"}
NegativeAll == {"anger", "fear"}
NegativeCore == {"anger"}
Neutral == [primary |-> "neutral", intensity |-> 30]
Calmly == [primary |-> "neutral", loud |-> FALSE]

Init ==
    /\ current = Calmly /\ history = <<>>
    /\ trend = "stable" /\ anomaly = FALSE /\ needs = FALSE

-----------------------------------------------------------------------------
(* EmotionAnalyzer.                                                          *)

\* A text: the emotions its keywords name (two at most, one time each), whether it has a word
\* of negation, and the emotion of the first rule it matches, with 60 times its weight.
NoRule == [primary |-> "neutral", weight |-> 0]
Rules == {NoRule, [primary |-> "excitement", weight |-> 48], [primary |-> "anger", weight |-> 42],
          [primary |-> "anger", weight |-> 36], [primary |-> "joy", weight |-> 30]}
Texts == [words : {{}} \cup {{a, b} : a, b \in Emotions \ {"neutral"}}, negated : BOOLEAN, rule : Rules]

\* _analyze_by_dict: twice the score of each emotion; a negated joy is half
\* neutral, a negated excitement half calm.
Scores(t) ==
    LET hit(e) == IF e \in t.words THEN 2 ELSE 0
    IN [e \in Emotions |->
          IF ~t.negated THEN hit(e)
          ELSE IF e \in {"joy", "excitement"} THEN 0
          ELSE IF e = "neutral" THEN hit("joy") \div 2
          ELSE IF e = "calm" THEN hit("calm") + hit("excitement") \div 2
          ELSE hit(e)]

\* The first of the highest scores, in the order of the enumeration.
Order == <<"joy", "anger", "fear", "excitement", "calm", "neutral">>
Highest(score) ==
    Order[CHOOSE i \in DOMAIN Order :
            /\ \A j \in DOMAIN Order : score[Order[j]] <= score[Order[i]]
            /\ \A j \in 1..(i - 1) : score[Order[j]] < score[Order[i]]]

ByDict(t) ==
    IF \A e \in Emotions : Scores(t)[e] = 0 THEN Neutral
    ELSE LET p == Highest(Scores(t)) IN [primary |-> p, intensity |-> 10 * Scores(t)[p]]

\* _combine_results: the dictionary's emotion weighs 0.7, a matching rule 0.3,
\* a second emotion of the text too little to win.
Combined(d, r) ==
    LET weight(e) == (IF e = d.primary THEN 7 * d.intensity ELSE 0) + (IF e = r.primary THEN 3 * r.weight ELSE 0)
        p == IF r.weight > 0 /\ weight(r.primary) > weight(d.primary) THEN r.primary ELSE d.primary
    IN [primary |-> p, intensity |-> weight(p) \div 10]

Analysis(t) == Combined(ByDict(t), t.rule)

\* LLMEmotionAnalyzer: the rules alone when they are sure enough, else the model,
\* whose answer counts where it saw irony or a mixed feeling or was surer.
HybridAnalyses(t) == {Analysis(t)} \cup [primary : Emotions, intensity : {0, 60}]

-----------------------------------------------------------------------------
(* EmotionalState. The history keeps of an emotion what the trend tells apart. *)

\* What the numbers of a window add up to.
Total(w) ==
    LET sum[n \in 0..Len(w)] == IF n = 0 THEN 0 ELSE sum[n - 1] + w[n]
    IN sum[Len(w)]

\* The variance of a window's intensities is above 0.6, which makes a trend
\* volatile: it cannot be, as NeverWild says, and the branch is left out below.
Wild(w) ==
    LET squares == [i \in 1..Len(w) |-> w[i] * w[i]]
    IN 10 * (Len(w) * Total(squares) - Total(w) * Total(w)) > 6 * 3600 * Len(w) * Len(w)

Kind(e) == IF e = "excitement" THEN "joy" ELSE e
Count(s, E) == Cardinality({i \in DOMAIN s : s[i] \in E})
Window(h) == SubSeq(h, Len(h) - WindowSize + 1, Len(h))
Before(h) == SubSeq(h, Len(h) - 2 * WindowSize + 1, Len(h) - WindowSize)
Towards(up, down) ==
    IF up > 0 /\ down < 0 THEN "improving" ELSE IF up < 0 /\ down > 0 THEN "deteriorating" ELSE "stable"

\* Mutant: calm counts in the window before, not in the last one.
TrendOf_CalmBefore(h) ==
    Towards(Count(Window(h), {"joy"}) - Count(Before(h), {"joy", "calm"}),
            Count(Window(h), NegativeAll) - Count(Before(h), NegativeCore))

\* Calm is positive and fear negative in the last window, not in the one before.
TrendOf(h) ==
    Towards(Count(Window(h), {"joy", "calm"}) - Count(Before(h), {"joy"}),
            Count(Window(h), NegativeAll) - Count(Before(h), NegativeCore))

\* _analyze_trajectory, which looks at the history without the newest emotion,
\* and never takes needs_intervention back.
Analyze(h, now) ==
    IF Len(h) < WindowSize THEN UNCHANGED <<trend, anomaly, needs>>
    ELSE LET low == \/ 10 * Count(Window(h), NegativeAll) > 6 * WindowSize
                    \/ now = [primary |-> "anger", loud |-> TRUE]
         IN /\ trend' = IF Len(h) >= 2 * WindowSize THEN TrendOf(h) ELSE trend
            /\ anomaly' = low
            /\ needs' = (needs \/ low)

\* update_current_emotion; more than two windows of history are of no account.
Update(e) ==
    LET h == Append(history, current.primary) IN
    /\ current' = e
    /\ history' = IF Len(h) > 2 * WindowSize THEN Tail(h) ELSE h
    /\ Analyze(history', e)

\* A message is answered, or stored as a memory of an emotion.
Felt == {[primary |-> Kind(e.primary), loud |-> e.intensity > 48] : e \in UNION {HybridAnalyses(t) : t \in Texts}}
Feel == \E e \in Felt : Update(e)

Next == Feel

Spec == Init /\ [][Next]_vars

-----------------------------------------------------------------------------
(* PersonaCoordinator, on the injection view.                                *)

\* detect_conflicts: no preference of a view names one of the detector's kinds,
\* which leaves the emotional conflict.
Conflicts == trend \in {"deteriorating", "volatile"}

UserHint == IF trend = "deteriorating" THEN "support" ELSE IF trend = "volatile" THEN "steady" ELSE "none"
HybridHint == IF trend \in {"deteriorating", "volatile"} THEN "support" ELSE "none"

\* coordinate_persona.
Coordinated ==
    CASE Strategy = "bot_priority" -> "none"
      [] Strategy = "user_priority" -> UserHint
      [] Strategy = "hybrid" -> HybridHint
      [] OTHER -> IF trend = "deteriorating" THEN UserHint ELSE HybridHint

\* build_persona_context.
Hint == IF Conflicts THEN Coordinated ELSE "none"

-----------------------------------------------------------------------------
\* A user whose last two windows are alike is stable, although the windows are
\* not counted alike.
SteadyIsStable ==
    Len(history) = 2 * WindowSize /\ Window(history) = Before(history) => trend = "stable"

\* A decline in mood reaches the bot's prompt unless the bot's persona is first.
DeclineIsHeard == trend = "deteriorating" /\ Strategy # "bot_priority" => Hint = "support"

\* A negated joy or excitement is never taken for itself but by a rule.
NegationHeard == \A t \in Texts :
    t.negated /\ t.rule = NoRule => Analysis(t).primary \notin {"joy", "excitement"}

\* No intensities are wild enough for a volatile trend.
NeverWild == \A w \in [1..WindowSize -> {0, 12, 30, 48, 60}] : ~Wild(w)

\* The analyses and the trend are sound.
EmotionSound == NeverWild /\ SteadyIsStable /\ DeclineIsHeard /\ NegationHeard
=============================================================================
